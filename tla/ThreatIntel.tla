---------------------------- MODULE ThreatIntel -----------------------------
(***************************************************************************)
(* internal/threatintel: the aggregator asks its providers one after the   *)
(* other, each under a timeout, merges what they report and keeps the      *)
(* result in the process's cache for TTL.  Checks run concurrently (one    *)
(* goroutine per investigation), nothing is locked between the miss and    *)
(* the Set, and a goroutine deletes expired entries every SweepEvery.      *)
(*                                                                         *)
(* Time is kept as what remains: an entry's `left' is expiresAt - now, and *)
(* -1 stands for every moment after it.  Targets stand for cache keys: the *)
(* kind is a prefix of the key ("url:", "domain:", "wallet:").             *)
(***************************************************************************)
EXTENDS Integers, Sequences

CONSTANTS
    Targets,        \* URLs, domains and wallets that are checked
    KindOf,         \* the kind of each target
    Listing,        \* what the embedded feed says of each target
    Checks,         \* goroutines that check a target
    Opinions,       \* what VirusTotal's engines may say of a domain
    Providers,      \* the configured providers, in the order they are asked
    TTL,            \* life of a cache entry
    Timeout,        \* how long one provider may take
    SweepEvery,     \* period of the clean-up
    None            \* no entry, no target

Kinds == {"url", "domain", "wallet"}
Listings == {"unlisted", "keyword", "special", "listed"}
Reputations == {"unknown", "clean", "suspicious", "malicious"}
Verdicts == {"harmless", "suspicious", "malicious", "widespread"}

\* VirusTotal is asked about domains only.
Domains == {t \in Targets : KindOf[t] = "domain"}

ASSUME TargetsAssumption ==
    /\ None \notin Targets
    /\ KindOf \in [Targets -> Kinds]
    /\ Listing \in [Targets -> Listings]
    /\ Opinions \subseteq Verdicts

ASSUME ProvidersAssumption ==
    Providers \in Seq({"local_threat_feed", "virustotal"})

ASSUME TimeAssumption ==
    /\ TTL \in Nat \ {0}
    /\ Timeout \in Nat \ {0}
    /\ SweepEvery \in Nat \ {0}

VARIABLES
    verdict,        \* what VirusTotal's engines say of each domain by now
    cache,          \* the entries of InMemoryCache
    sweep,          \* time until the clean-up's ticker fires
    phase,          \* where each check is
    asked,          \* its target
    turn,           \* index of the provider it asks
    left,           \* time until that provider's context expires
    found,          \* its evidence
    reports,        \* history: the reports merged into the evidence
    age             \* history: time since the first provider was asked

checkVars == <<phase, asked, turn, left, found, reports, age>>
vars == <<verdict, cache, sweep, checkVars>>

Report == [phishing: BOOLEAN, malware: BOOLEAN, scam: BOOLEAN,
           reputation: Reputations]

Evidence == [phishing: BOOLEAN, malware: BOOLEAN, reputation: Reputations,
             maliciousReports: Nat, totalEngines: Nat]

Entry == [evidence: Evidence, left: Int, reports: Seq(Report), age: Nat]

\* An entry that is live, as the callers see it.
Served == [value: Evidence, left: Nat]

ASSUME NoneAssumption == None \notin Entry \union Evidence \union Served

-----------------------------------------------------------------------------
(* The providers.                                                          *)

Says(flags, reputation) ==
    [phishing |-> "phishing" \in flags, malware |-> "malware" \in flags,
     scam |-> "scam" \in flags, reputation |-> reputation]

\* A domain, or an address of a known site, that the feed lists.
FeedURL(t) ==
    IF Listing[t] = "listed"
    THEN Says({"phishing", "scam"}, "malicious")
    ELSE Says({}, "clean")

FeedDomain(t) ==
    CASE Listing[t] = "listed"  -> Says({"phishing", "scam"}, "malicious")
      [] Listing[t] = "keyword" -> Says({"phishing"}, "suspicious")
      [] OTHER                  -> Says({}, "clean")

\* "special": a known wallet whose label names no drainer and no exploiter.
FeedWallet(t) ==
    CASE Listing[t] = "listed"  -> Says({"scam"}, "malicious")
      [] Listing[t] = "special" -> Says({}, "suspicious")
      [] OTHER                  -> Says({}, "unknown")

LocalFeed(t) ==
    CASE KindOf[t] = "url"    -> FeedURL(t)
      [] KindOf[t] = "domain" -> FeedDomain(t)
      [] KindOf[t] = "wallet" -> FeedWallet(t)

\* VirusTotal's CheckDomain; a 404 is reported as harmless domains are.
VirusTotalDomain(v) ==
    CASE v = "widespread" -> Says({"phishing", "malware"}, "malicious")
      [] v = "malicious"  -> Says({"phishing"}, "malicious")
      [] v = "suspicious" -> Says({}, "suspicious")
      [] OTHER            -> Says({}, "clean")

\* VirusTotal reports on domains only: CheckURL and CheckWallet return nil.
ReportsOn(p, t) ==
    \/ p = "local_threat_feed"
    \/ p = "virustotal" /\ KindOf[t] = "domain"

ReportOf(p, t) ==
    IF p = "local_threat_feed"
    THEN LocalFeed(t)
    ELSE VirusTotalDomain(verdict[t])

-----------------------------------------------------------------------------
(* Merging.                                                                *)

Unknown == [phishing |-> FALSE, malware |-> FALSE, reputation |-> "unknown",
            maliciousReports |-> 0, totalEngines |-> 0]

One(flag) == IF flag THEN 1 ELSE 0

Flags(r) == One(r.phishing) + One(r.malware) + One(r.scam)

MergeReport(e, r) ==
    LET n == e.maliciousReports + Flags(r)
    IN  [phishing         |-> e.phishing \/ r.phishing,
         malware          |-> e.malware \/ r.malware,
         maliciousReports |-> n,
         totalEngines     |-> e.totalEngines + 1,
         reputation       |->
            IF r.reputation = "malicious" \/ n > 0 THEN "malicious"
            ELSE IF r.reputation = "suspicious" /\ e.reputation /= "malicious"
            THEN "suspicious"
            ELSE IF r.reputation = "clean" /\ e.reputation = "unknown"
            THEN "clean"
            ELSE e.reputation]

-----------------------------------------------------------------------------
TypeOK ==
    /\ verdict \in [Domains -> Opinions]
    /\ cache \in [Targets -> Entry \union {None}]
    /\ \A t \in Targets :
           cache[t] /= None => cache[t].left \in -1 .. TTL
    /\ sweep \in 0 .. SweepEvery
    /\ phase \in [Checks -> {"idle", "asking", "storing", "done"}]
    /\ asked \in [Checks -> Targets \union {None}]
    /\ turn \in [Checks -> 0 .. Len(Providers)]
    /\ left \in [Checks -> 0 .. Timeout]
    /\ found \in [Checks -> Evidence]
    /\ reports \in [Checks -> Seq(Report)]
    /\ age \in [Checks -> Nat]

IdleChecks ==
    /\ phase = [c \in Checks |-> "idle"]
    /\ asked = [c \in Checks |-> None]
    /\ turn = [c \in Checks |-> 0]
    /\ left = [c \in Checks |-> 0]
    /\ found = [c \in Checks |-> Unknown]
    /\ reports = [c \in Checks |-> <<>>]
    /\ age = [c \in Checks |-> 0]

\* NewInMemoryCache: an empty map and the clean-up goroutine.
NewInMemoryCache ==
    /\ cache = [t \in Targets |-> None]
    /\ sweep = SweepEvery

Init ==
    /\ verdict \in [Domains -> Opinions]
    /\ NewInMemoryCache
    /\ IdleChecks

-----------------------------------------------------------------------------
(* A check: CheckURL, CheckDomain and CheckWallet do the same.             *)

\* ok && !now.After(expiresAt)
Live(t) == cache[t] /= None /\ cache[t].left >= 0

\* Slip: an entry that is used is kept for another TTL.
CheckCachedRenewing(c, t) ==
    /\ phase[c] = "idle"
    /\ Live(t)
    /\ phase' = [phase EXCEPT ![c] = "done"]
    /\ asked' = [asked EXCEPT ![c] = t]
    /\ found' = [found EXCEPT ![c] = cache[t].evidence]
    /\ reports' = [reports EXCEPT ![c] = cache[t].reports]
    /\ age' = [age EXCEPT ![c] = cache[t].age]
    /\ cache' = [cache EXCEPT ![t].left = TTL]
    /\ UNCHANGED <<verdict, sweep, turn, left>>

\* The cache answers; no provider is asked.
CheckCached(c, t) ==
    /\ phase[c] = "idle"
    /\ Live(t)
    /\ phase' = [phase EXCEPT ![c] = "done"]
    /\ asked' = [asked EXCEPT ![c] = t]
    /\ found' = [found EXCEPT ![c] = cache[t].evidence]
    /\ reports' = [reports EXCEPT ![c] = cache[t].reports]
    /\ age' = [age EXCEPT ![c] = cache[t].age]
    /\ UNCHANGED <<verdict, cache, sweep, turn, left>>

\* The next provider's call starts under a context of its own; after the last
\* provider there is only the Set left.
AskNext(c, i) ==
    IF i <= Len(Providers)
    THEN /\ phase' = [phase EXCEPT ![c] = "asking"]
         /\ turn' = [turn EXCEPT ![c] = i]
         /\ left' = [left EXCEPT ![c] = Timeout]
    ELSE /\ phase' = [phase EXCEPT ![c] = "storing"]
         /\ turn' = [turn EXCEPT ![c] = 0]
         /\ left' = [left EXCEPT ![c] = 0]

CheckMissed(c, t) ==
    /\ phase[c] = "idle"
    /\ ~Live(t)
    /\ asked' = [asked EXCEPT ![c] = t]
    /\ AskNext(c, 1)
    /\ UNCHANGED <<verdict, cache, sweep, found, reports, age>>

ProviderReports(c) ==
    /\ phase[c] = "asking"
    /\ ReportsOn(Providers[turn[c]], asked[c])
    /\ LET r == ReportOf(Providers[turn[c]], asked[c])
       IN  /\ found' = [found EXCEPT ![c] = MergeReport(@, r)]
           /\ reports' = [reports EXCEPT ![c] = Append(@, r)]
    /\ AskNext(c, turn[c] + 1)
    /\ UNCHANGED <<verdict, cache, sweep, asked, age>>

\* Slip: a provider that failed is counted with the engines.
ProviderSkippedCounted(c) ==
    /\ phase[c] = "asking"
    /\ Providers[turn[c]] /= "local_threat_feed"
    /\ found' = [found EXCEPT ![c] = MergeReport(@, Says({}, "unknown"))]
    /\ AskNext(c, turn[c] + 1)
    /\ UNCHANGED <<verdict, cache, sweep, asked, reports, age>>

\* Slip: only a provider that says so itself is passed over.
ProviderSkippedOnError(c) ==
    /\ phase[c] = "asking"
    /\ Providers[turn[c]] /= "local_threat_feed"
    /\ left[c] > 0
    /\ AskNext(c, turn[c] + 1)
    /\ UNCHANGED <<verdict, cache, sweep, asked, found, reports, age>>

\* An error, a nil report, a timeout, or a caller that went away: the provider
\* is passed over.  The embedded feed looks at nothing that could fail.
ProviderSkipped(c) ==
    /\ phase[c] = "asking"
    /\ Providers[turn[c]] /= "local_threat_feed"
    /\ AskNext(c, turn[c] + 1)
    /\ UNCHANGED <<verdict, cache, sweep, asked, found, reports, age>>

\* InMemoryCache.Set, whatever the cache holds by now.
StoreAnswer(c) ==
    /\ phase[c] = "storing"
    /\ cache' = [cache EXCEPT ![asked[c]] =
           [evidence |-> found[c], left |-> TTL,
            reports |-> reports[c], age |-> age[c]]]
    /\ phase' = [phase EXCEPT ![c] = "done"]
    /\ UNCHANGED <<verdict, sweep, asked, turn, left, found, reports, age>>

\* The caller takes the evidence.
Return(c) ==
    /\ phase[c] = "done"
    /\ phase' = [phase EXCEPT ![c] = "idle"]
    /\ asked' = [asked EXCEPT ![c] = None]
    /\ found' = [found EXCEPT ![c] = Unknown]
    /\ reports' = [reports EXCEPT ![c] = <<>>]
    /\ age' = [age EXCEPT ![c] = 0]
    /\ UNCHANGED <<verdict, cache, sweep, turn, left>>

CheckStep(c) ==
    \/ ProviderReports(c)
    \/ ProviderSkipped(c)
    \/ StoreAnswer(c)
    \/ Return(c)

-----------------------------------------------------------------------------
(* The process and the world.                                              *)

\* Slip: the clean-up empties the map.
CleanUpAll ==
    /\ sweep = 0
    /\ sweep' = SweepEvery
    /\ cache' = [t \in Targets |-> None]
    /\ UNCHANGED <<verdict, checkVars>>

\* Slip: the clean-up keeps what is expired.
CleanUpNothing ==
    /\ sweep = 0
    /\ sweep' = SweepEvery
    /\ UNCHANGED <<verdict, cache, checkVars>>

\* One turn of cleanupLoop: every expired entry is deleted.
CleanUp ==
    /\ sweep = 0
    /\ sweep' = SweepEvery
    /\ cache' = [t \in Targets |-> IF Live(t) THEN cache[t] ELSE None]
    /\ UNCHANGED <<verdict, checkVars>>

\* Time does not pass a deadline: a context ends its call, the ticker fires,
\* and nothing waits between the last report and the Set.
Tick ==
    /\ sweep > 0
    /\ \A c \in Checks : /\ phase[c] = "asking" => left[c] > 0
                         /\ phase[c] /= "storing"
    /\ sweep' = sweep - 1
    /\ cache' = [t \in Targets |->
           IF Live(t)
           THEN [cache[t] EXCEPT !.left = @ - 1, !.age = @ + 1]
           ELSE cache[t]]
    /\ left' = [c \in Checks |->
           IF phase[c] = "asking" THEN left[c] - 1 ELSE left[c]]
    /\ age' = [c \in Checks |->
           IF phase[c] = "asking" THEN age[c] + 1 ELSE age[c]]
    /\ UNCHANGED <<verdict, phase, asked, turn, found, reports>>

\* The process ends with its memory and starts again.
Restart ==
    /\ cache' = [t \in Targets |-> None]
    /\ sweep' = SweepEvery
    /\ phase' = [c \in Checks |-> "idle"]
    /\ asked' = [c \in Checks |-> None]
    /\ turn' = [c \in Checks |-> 0]
    /\ left' = [c \in Checks |-> 0]
    /\ found' = [c \in Checks |-> Unknown]
    /\ reports' = [c \in Checks |-> <<>>]
    /\ age' = [c \in Checks |-> 0]
    /\ UNCHANGED verdict

\* VirusTotal's engines change their mind.
Learn(t) ==
    /\ \E v \in Opinions : verdict' = [verdict EXCEPT ![t] = v]
    /\ UNCHANGED <<cache, sweep, checkVars>>

Next ==
    \/ \E c \in Checks :
           \/ CheckStep(c)
           \/ \E t \in Targets : CheckCached(c, t) \/ CheckMissed(c, t)
    \/ CleanUp
    \/ Tick
    \/ Restart
    \/ \E t \in Domains : Learn(t)

Spec == Init /\ [][Next]_vars

\* What a goroutine does by itself: the embedded feed answers, an expired
\* context ends the call, the evidence is stored and returned.
OwnStep(c) ==
    \/ ProviderReports(c) /\ Providers[turn[c]] = "local_threat_feed"
    \/ ProviderSkipped(c) /\ left[c] = 0
    \/ StoreAnswer(c)
    \/ Return(c)

\* A goroutine that can run does, tickers fire, and time passes.  Nothing is
\* assumed about callers, restarts or VirusTotal, which may never answer.
Fairness ==
    /\ \A c \in Checks : WF_vars(OwnStep(c))
    /\ WF_vars(CleanUp)
    /\ WF_vars(Tick)

FairSpec == Spec /\ Fairness

-----------------------------------------------------------------------------
(* Properties.                                                             *)

Flagged(r) == r.phishing \/ r.malware \/ r.scam \/ r.reputation = "malicious"

\* The worst that is said in a sequence of reports, whatever their order.
WorstOf(said) ==
    LET Has(p) == \E i \in DOMAIN said : said[i].reputation = p
    IN  IF \E i \in DOMAIN said : Flagged(said[i]) THEN "malicious"
        ELSE IF Has("suspicious") THEN "suspicious"
        ELSE IF Has("clean") THEN "clean"
        ELSE "unknown"

Merges(e, said) ==
    /\ e.reputation = WorstOf(said)
    /\ e.totalEngines = Len(said)
    /\ e.phishing <=> \E i \in DOMAIN said : said[i].phishing
    /\ e.malware <=> \E i \in DOMAIN said : said[i].malware
    /\ (e.maliciousReports > 0) <=>
           \E i \in DOMAIN said :
               said[i].phishing \/ said[i].malware \/ said[i].scam

\* mergeReport folds the reports in the order the providers happen to answer,
\* some of them missing: the evidence of every check and of every entry is the
\* worst that any provider really said, no provider is counted that did not
\* answer, and no later report clears an earlier one.
WorstReportWins ==
    /\ \A c \in Checks : Merges(found[c], reports[c])
    /\ \A t \in Targets :
           cache[t] /= None => Merges(cache[t].evidence, cache[t].reports)

\* The calls of a check take at most this long.
Patience == Len(Providers) * Timeout

\* What a check answers, from its providers or from the cache, was asked of
\* the providers no longer ago than one TTL and one round of timeouts: also
\* when one of them failed and what the others said was cached, when a slow check
\* overwrites the entry of a quick one, and when the clean-up is late.
AnswersAreRecent ==
    \A c \in Checks : phase[c] = "done" => age[c] <= TTL + Patience

\* The store and what its callers hold, as one sees them from outside.
Stored(t) ==
    IF Live(t) THEN [value |-> cache[t].evidence, left |-> cache[t].left]
               ELSE None

Held(c) == IF phase[c] = "done" THEN found[c] ELSE None

ShownStore == [t \in Targets |-> Stored(t)]
ShownGiven == [c \in Checks |-> Held(c)]

TS == INSTANCE TimedStore WITH
          Keys    <- Targets,
          Values  <- Evidence,
          Callers <- Checks,
          Life    <- TTL,
          Nothing <- None,
          store   <- ShownStore,
          given   <- ShownGiven

\* The cache, its lock-free miss path and its clean-up implement a store whose
\* entries end by themselves: a clean-up is never noticed by a caller, and no
\* caller gets anything but a live entry or what it found and stored itself.
ImplementsTimedStore == TS!StoreSpec

\* A check returns though its providers hang: each call is cut off.
ChecksReturn ==
    \A c \in Checks : phase[c] = "asking" ~> phase[c] /= "asking"

\* An expired entry does not stay in memory for ever.
ExpiredIsDropped ==
    \A t \in Targets :
        (cache[t] /= None /\ ~Live(t)) ~> (cache[t] = None \/ Live(t))
=============================================================================
