-------------------------- MODULE TimedStore_proofs --------------------------
(***************************************************************************)
(* Proofs about the two caches that implement TimedStore: ThreatIntel, for *)
(* any targets, any checks, any sequence of providers and any times, and   *)
(* ExchangeRate, for any callers, quotes and times.                        *)
(*                                                                         *)
(* Of ThreatIntel, Places ties the fields of a check to where it is.  Timed *)
(* is the budget that makes answers recent: a check that asks provider     *)
(* number i has used at most i timeouts together with what is left of its  *)
(* current one, and an entry's age and its remaining life add up to at     *)
(* most TTL + Patience.  RateTimed is the same budget for ExchangeRate.    *)
(***************************************************************************)
EXTENDS ThreatIntel, ExchangeRate, TLAPS

-----------------------------------------------------------------------------
(* ThreatIntel.                                                            *)

Places ==
    \A c \in Checks :
        /\ phase[c] /= "idle" => asked[c] \in Targets
        /\ phase[c] = "asking" => turn[c] \in 1 .. Len(Providers)
        /\ phase[c] = "idle" => /\ found[c] = Unknown
                                /\ reports[c] = <<>>
                                /\ age[c] = 0

Timed ==
    /\ \A c \in Checks :
           /\ phase[c] = "asking" => age[c] + left[c] <= turn[c] * Timeout
           /\ phase[c] = "storing" => age[c] <= Patience
           /\ phase[c] = "done" => age[c] <= TTL + Patience
    /\ \A t \in Targets :
           cache[t] /= None => cache[t].age + cache[t].left <= TTL + Patience

Inductive == TypeOK /\ Places /\ WorstReportWins /\ Timed

-----------------------------------------------------------------------------
(* What the providers say and what merging makes of it.                    *)

LEMMA UnknownIsEvidence == Unknown \in Evidence
BY DEF Unknown, Evidence, Reputations

LEMMA UnknownMergesNothing == Merges(Unknown, <<>>)
BY DEF Merges, Unknown, WorstOf

LEMMA SaysIsReport ==
    ASSUME NEW flags, NEW reputation \in Reputations
    PROVE  Says(flags, reputation) \in Report
BY DEF Says, Report

LEMMA ReportTypes ==
    ASSUME NEW p, NEW t \in Targets PROVE ReportOf(p, t) \in Report
<1>1. {"unknown", "clean", "suspicious", "malicious"} = Reputations
  BY DEF Reputations
<1>2. LocalFeed(t) \in Report
  <2>1. KindOf[t] \in {"url", "domain", "wallet"}
    BY TargetsAssumption DEF Kinds
  <2>2. /\ FeedURL(t) \in Report
        /\ FeedDomain(t) \in Report
        /\ FeedWallet(t) \in Report
    BY <1>1, SaysIsReport DEF FeedURL, FeedDomain, FeedWallet
  <2> QED
    BY <2>1, <2>2 DEF LocalFeed
<1>3. VirusTotalDomain(verdict[t]) \in Report
  BY <1>1, SaysIsReport DEF VirusTotalDomain
<1> QED
  BY <1>2, <1>3 DEF ReportOf

LEMMA FlagsCount ==
    ASSUME NEW r \in Report
    PROVE  /\ Flags(r) \in Nat
           /\ Flags(r) > 0 <=> r.phishing \/ r.malware \/ r.scam
BY DEF Flags, One, Report

LEMMA MergeTypes ==
    ASSUME NEW e \in Evidence, NEW r \in Report
    PROVE  MergeReport(e, r) \in Evidence
BY FlagsCount DEF MergeReport, Evidence, Report, Reputations

\* mergeReport keeps the reference definition, one report at a time.
LEMMA MergeKeepsWorst ==
    ASSUME NEW e \in Evidence, NEW r \in Report, NEW said \in Seq(Report),
           Merges(e, said)
    PROVE  Merges(MergeReport(e, r), Append(said, r))
<1> DEFINE more == Append(said, r)
           n    == Len(said)
           m    == MergeReport(e, r)
<1>1. /\ n \in Nat
      /\ DOMAIN said = 1 .. n
      /\ DOMAIN more = 1 .. n + 1
      /\ \A i \in 1 .. n : more[i] = said[i] /\ said[i] \in Report
      /\ more[n + 1] = r
      /\ Len(more) = n + 1
  OBVIOUS
<1>2. \A i \in DOMAIN more : i \in DOMAIN said \/ i = n + 1
  BY <1>1
<1>3. n + 1 \in DOMAIN more /\ \A i \in DOMAIN said : i \in DOMAIN more
  BY <1>1
<1>4. /\ m.phishing = (e.phishing \/ r.phishing)
      /\ m.malware = (e.malware \/ r.malware)
      /\ m.maliciousReports = e.maliciousReports + Flags(r)
      /\ m.totalEngines = e.totalEngines + 1
  BY DEF MergeReport
<1>5. m.totalEngines = Len(more)
  BY <1>1, <1>4 DEF Merges
<1>6. m.phishing <=> \E i \in DOMAIN more : more[i].phishing
  BY <1>1, <1>2, <1>3, <1>4 DEF Merges
<1>7. m.malware <=> \E i \in DOMAIN more : more[i].malware
  BY <1>1, <1>2, <1>3, <1>4, ZenonT(60) DEF Merges
<1>8. (m.maliciousReports > 0) <=>
          \E i \in DOMAIN more :
              more[i].phishing \/ more[i].malware \/ more[i].scam
  <2>1. (m.maliciousReports > 0) <=>
            (e.maliciousReports > 0 \/ r.phishing \/ r.malware \/ r.scam)
    BY <1>4, FlagsCount DEF Evidence
  <2> QED
    BY <1>1, <1>2, <1>3, <2>1 DEF Merges
<1>9. m.reputation = WorstOf(more)
  <2> DEFINE flagged    == \E i \in DOMAIN said : Flagged(said[i])
             suspicious == \E i \in DOMAIN said : said[i].reputation = "suspicious"
             clean      == \E i \in DOMAIN said : said[i].reputation = "clean"
  <2>1. (\E i \in DOMAIN more : Flagged(more[i])) <=> (flagged \/ Flagged(r))
    BY <1>1, <1>2, <1>3
  <2>2. (\E i \in DOMAIN more : more[i].reputation = "suspicious")
            <=> (suspicious \/ r.reputation = "suspicious")
    BY <1>1, <1>2, <1>3
  <2>3. (\E i \in DOMAIN more : more[i].reputation = "clean")
            <=> (clean \/ r.reputation = "clean")
    BY <1>1, <1>2, <1>3
  <2>4. e.reputation = IF flagged THEN "malicious"
                       ELSE IF suspicious THEN "suspicious"
                       ELSE IF clean THEN "clean" ELSE "unknown"
    BY DEF Merges, WorstOf
  <2>5. WorstOf(more) = IF flagged \/ Flagged(r) THEN "malicious"
                        ELSE IF suspicious \/ r.reputation = "suspicious"
                        THEN "suspicious"
                        ELSE IF clean \/ r.reputation = "clean" THEN "clean"
                        ELSE "unknown"
    BY <2>1, <2>2, <2>3 DEF WorstOf
  <2>6. (m.maliciousReports > 0) => (flagged \/ Flagged(r))
    BY <1>1, <1>2, <1>8 DEF Flagged
  <2>7. m.reputation =
            IF r.reputation = "malicious" \/ m.maliciousReports > 0
            THEN "malicious"
            ELSE IF r.reputation = "suspicious" /\ e.reputation /= "malicious"
            THEN "suspicious"
            ELSE IF r.reputation = "clean" /\ e.reputation = "unknown"
            THEN "clean"
            ELSE e.reputation
    BY DEF MergeReport
  <2>8. Flagged(r) <=> (r.reputation = "malicious" \/ Flags(r) > 0)
    BY FlagsCount DEF Flagged
  <2>9. Flags(r) > 0 => m.maliciousReports > 0
    BY <1>4, FlagsCount DEF Evidence
  <2>10. r.reputation \in {"unknown", "clean", "suspicious", "malicious"}
    BY DEF Report, Reputations
  <2> HIDE DEF flagged, suspicious, clean, m, more
  <2> QED
    BY <2>4, <2>5, <2>6, <2>7, <2>8, <2>9, <2>10
<1> QED
  BY <1>5, <1>6, <1>7, <1>8, <1>9 DEF Merges

-----------------------------------------------------------------------------
(* Types.                                                                  *)

LEMMA InitTypes == Init => TypeOK
BY TimeAssumption, UnknownIsEvidence DEF Init, NewInMemoryCache, IdleChecks, TypeOK

LEMMA LenProviders == Len(Providers) \in Nat
BY ProvidersAssumption

LEMMA AskNextTypes ==
    ASSUME TypeOK, NEW c \in Checks, NEW i \in Nat \ {0}, AskNext(c, i)
    PROVE  /\ phase' \in [Checks -> {"idle", "asking", "storing", "done"}]
           /\ turn' \in [Checks -> 0 .. Len(Providers)]
           /\ left' \in [Checks -> 0 .. Timeout]
<1>1. /\ phase \in [Checks -> {"idle", "asking", "storing", "done"}]
      /\ turn \in [Checks -> 0 .. Len(Providers)]
      /\ left \in [Checks -> 0 .. Timeout]
  BY DEF TypeOK
<1>2. 0 \in 0 .. Timeout /\ Timeout \in 0 .. Timeout /\ 0 \in 0 .. Len(Providers)
  BY LenProviders, TimeAssumption
<1>3. CASE i <= Len(Providers)
  <2>1. i \in 0 .. Len(Providers)
    BY <1>3, LenProviders
  <2> QED
    BY <1>1, <1>2, <1>3, <2>1 DEF AskNext
<1>4. CASE ~(i <= Len(Providers))
  BY <1>1, <1>2, <1>4 DEF AskNext
<1> QED
  BY <1>3, <1>4

LEMMA LiveEntry ==
    ASSUME TypeOK, NEW t \in Targets, Live(t)
    PROVE  cache[t] \in Entry /\ cache[t].left \in 0 .. TTL
BY TimeAssumption DEF TypeOK, Live

LEMMA TypesStep == TypeOK /\ Places /\ [Next]_vars => TypeOK'
<1> SUFFICES ASSUME TypeOK, Places, [Next]_vars PROVE TypeOK'
  OBVIOUS
<1> USE TimeAssumption, LenProviders
<1>1. ASSUME NEW c \in Checks, NEW t \in Targets, CheckCached(c, t)
      PROVE  TypeOK'
  <2>1. /\ cache[t].evidence \in Evidence
        /\ cache[t].reports \in Seq(Report)
        /\ cache[t].age \in Nat
    BY <1>1, LiveEntry DEF CheckCached, Entry
  <2> QED
    BY <1>1, <2>1 DEF CheckCached, TypeOK
<1>2. ASSUME NEW c \in Checks, NEW t \in Targets, CheckMissed(c, t)
      PROVE  TypeOK'
  <2>1. AskNext(c, 1)
    BY <1>2 DEF CheckMissed
  <2>2. /\ phase' \in [Checks -> {"idle", "asking", "storing", "done"}]
        /\ turn' \in [Checks -> 0 .. Len(Providers)]
        /\ left' \in [Checks -> 0 .. Timeout]
    BY <2>1, AskNextTypes
  <2>3. asked' \in [Checks -> Targets \union {None}]
    BY <1>2 DEF CheckMissed, TypeOK
  <2> QED
    BY <1>2, <2>2, <2>3 DEF CheckMissed, TypeOK
<1>3. ASSUME NEW c \in Checks, ProviderReports(c) PROVE TypeOK'
  <2>1. turn[c] \in 1 .. Len(Providers) /\ asked[c] \in Targets
    BY <1>3 DEF ProviderReports, Places
  <2>2. AskNext(c, turn[c] + 1) /\ turn[c] + 1 \in Nat \ {0}
    BY <1>3, <2>1 DEF ProviderReports
  <2>3. PICK r \in Report :
            /\ found' = [found EXCEPT ![c] = MergeReport(@, r)]
            /\ reports' = [reports EXCEPT ![c] = Append(@, r)]
    BY <1>3, <2>1, ReportTypes DEF ProviderReports
  <2>4. MergeReport(found[c], r) \in Evidence /\ Append(reports[c], r) \in Seq(Report)
    BY MergeTypes DEF TypeOK
  <2>5. found' \in [Checks -> Evidence] /\ reports' \in [Checks -> Seq(Report)]
    BY <2>3, <2>4 DEF TypeOK
  <2>6. /\ phase' \in [Checks -> {"idle", "asking", "storing", "done"}]
        /\ turn' \in [Checks -> 0 .. Len(Providers)]
        /\ left' \in [Checks -> 0 .. Timeout]
    BY <2>2, AskNextTypes
  <2> QED
    BY <1>3, <2>5, <2>6 DEF ProviderReports, TypeOK
<1>4. ASSUME NEW c \in Checks, ProviderSkipped(c) PROVE TypeOK'
  <2>1. AskNext(c, turn[c] + 1) /\ turn[c] + 1 \in Nat \ {0}
    BY <1>4 DEF ProviderSkipped, Places
  <2>2. /\ phase' \in [Checks -> {"idle", "asking", "storing", "done"}]
        /\ turn' \in [Checks -> 0 .. Len(Providers)]
        /\ left' \in [Checks -> 0 .. Timeout]
    BY <2>1, AskNextTypes
  <2> QED
    BY <1>4, <2>2 DEF ProviderSkipped, TypeOK
<1>5. ASSUME NEW c \in Checks, StoreAnswer(c) PROVE TypeOK'
  <2> DEFINE entry == [evidence |-> found[c], left |-> TTL,
                       reports |-> reports[c], age |-> age[c]]
  <2>1. entry \in Entry /\ entry.left = TTL
    BY DEF TypeOK, Entry
  <2>2. asked[c] \in Targets
    BY <1>5 DEF StoreAnswer, Places
  <2>3. cache' = [cache EXCEPT ![asked[c]] = entry]
    BY <1>5 DEF StoreAnswer
  <2> HIDE DEF entry
  <2>4. /\ cache' \in [Targets -> Entry \union {None}]
        /\ \A t \in Targets : cache'[t] /= None => cache'[t].left \in -1 .. TTL
    BY <2>1, <2>2, <2>3 DEF TypeOK
  <2> QED
    BY <1>5, <2>4 DEF StoreAnswer, TypeOK
<1>6. ASSUME NEW c \in Checks, Return(c) PROVE TypeOK'
  BY <1>6, UnknownIsEvidence DEF Return, TypeOK
<1>7. CASE CleanUp
  BY <1>7 DEF CleanUp, TypeOK, checkVars
<1>8. CASE Tick
  <2>1. ASSUME NEW t \in Targets, Live(t)
        PROVE  /\ cache'[t] \in Entry
               /\ cache'[t].left \in -1 .. TTL
    <3>1. cache[t] \in Entry /\ cache[t].left \in 0 .. TTL
      BY <2>1, LiveEntry
    <3>2. cache'[t] = [cache[t] EXCEPT !.left = @ - 1, !.age = @ + 1]
      BY <1>8, <2>1 DEF Tick
    <3>3. cache'[t] = [evidence |-> cache[t].evidence, left |-> cache[t].left - 1,
                       reports |-> cache[t].reports, age |-> cache[t].age + 1]
      BY <3>1, <3>2 DEF Entry
    <3>4. /\ cache[t].evidence \in Evidence /\ cache[t].reports \in Seq(Report)
          /\ cache[t].age + 1 \in Nat /\ cache[t].left - 1 \in -1 .. TTL
      BY <3>1 DEF Entry
    <3> QED
      BY <3>3, <3>4 DEF Entry
  <2>2. ASSUME NEW t \in Targets, ~Live(t) PROVE cache'[t] = cache[t]
    BY <1>8, <2>2 DEF Tick
  <2>3. cache' \in [Targets -> Entry \union {None}]
    <3>1. \A t \in Targets : cache'[t] \in Entry \union {None}
      BY <2>1, <2>2 DEF TypeOK
    <3>2. cache' = [t \in Targets |-> cache'[t]]
      BY <1>8 DEF Tick
    <3> QED
      BY <3>1, <3>2
  <2>4. \A t \in Targets : cache'[t] /= None => cache'[t].left \in -1 .. TTL
    BY <2>1, <2>2 DEF TypeOK
  <2>5. left' \in [Checks -> 0 .. Timeout]
    <3>1. /\ left \in [Checks -> 0 .. Timeout]
          /\ \A c \in Checks : phase[c] = "asking" => left[c] > 0
          /\ left' = [c \in Checks |->
                 IF phase[c] = "asking" THEN left[c] - 1 ELSE left[c]]
      BY <1>8 DEF Tick, TypeOK
    <3> QED
      BY <3>1
  <2>6. sweep' \in 0 .. SweepEvery /\ age' \in [Checks -> Nat]
    <3>1. /\ sweep \in 0 .. SweepEvery /\ sweep > 0 /\ sweep' = sweep - 1
          /\ age \in [Checks -> Nat]
          /\ age' = [c \in Checks |->
                 IF phase[c] = "asking" THEN age[c] + 1 ELSE age[c]]
      BY <1>8 DEF Tick, TypeOK
    <3> QED
      BY <3>1
  <2> QED
    BY <1>8, <2>3, <2>4, <2>5, <2>6 DEF Tick, TypeOK
<1>9. CASE Restart
  BY <1>9, UnknownIsEvidence DEF Restart, TypeOK
<1>10. ASSUME NEW t \in Domains, Learn(t) PROVE TypeOK'
  BY <1>10 DEF Learn, TypeOK, checkVars
<1>11. CASE UNCHANGED vars
  BY <1>11 DEF vars, checkVars, TypeOK
<1> QED
  BY <1>1, <1>2, <1>3, <1>4, <1>5, <1>6, <1>7, <1>8, <1>9, <1>10, <1>11
  DEF Next, CheckStep

-----------------------------------------------------------------------------
(* Where a check is.                                                       *)

LEMMA InitPlaces == Init => Places
BY DEF Init, IdleChecks, Places

LEMMA AskNextPlaces ==
    ASSUME TypeOK, NEW c \in Checks, NEW i \in Nat \ {0}, AskNext(c, i)
    PROVE  /\ phase'[c] \in {"asking", "storing"}
           /\ phase'[c] = "asking" => turn'[c] \in 1 .. Len(Providers)
           /\ \A o \in Checks \ {c} :
                  phase'[o] = phase[o] /\ turn'[o] = turn[o] /\ left'[o] = left[o]
BY LenProviders DEF AskNext, TypeOK

LEMMA PlacesStep == TypeOK /\ Places /\ [Next]_vars => Places'
<1> SUFFICES ASSUME TypeOK, Places, [Next]_vars PROVE Places'
  OBVIOUS
<1>1. ASSUME NEW c \in Checks, NEW t \in Targets, CheckCached(c, t)
      PROVE  Places'
  BY <1>1 DEF CheckCached, Places, TypeOK
<1>2. ASSUME NEW c \in Checks, NEW t \in Targets, CheckMissed(c, t)
      PROVE  Places'
  <2>1. AskNext(c, 1)
    BY <1>2 DEF CheckMissed
  <2> QED
    BY <1>2, <2>1, AskNextPlaces DEF CheckMissed, Places, TypeOK
<1>3. ASSUME NEW c \in Checks, ProviderReports(c) PROVE Places'
  <2>1. AskNext(c, turn[c] + 1) /\ turn[c] + 1 \in Nat \ {0}
    BY <1>3 DEF ProviderReports, Places
  <2>2. \A o \in Checks \ {c} : found'[o] = found[o] /\ reports'[o] = reports[o]
    BY <1>3 DEF ProviderReports, TypeOK
  <2>3. UNCHANGED <<asked, age>>
    BY <1>3 DEF ProviderReports
  <2>4. phase[c] = "asking"
    BY <1>3 DEF ProviderReports
  <2> QED
    BY <2>1, <2>2, <2>3, <2>4, AskNextPlaces DEF Places
<1>4. ASSUME NEW c \in Checks, ProviderSkipped(c) PROVE Places'
  <2>1. AskNext(c, turn[c] + 1) /\ turn[c] + 1 \in Nat \ {0}
    BY <1>4 DEF ProviderSkipped, Places
  <2> QED
    BY <1>4, <2>1, AskNextPlaces DEF ProviderSkipped, Places
<1>5. ASSUME NEW c \in Checks, StoreAnswer(c) PROVE Places'
  BY <1>5 DEF StoreAnswer, Places, TypeOK
<1>6. ASSUME NEW c \in Checks, Return(c) PROVE Places'
  BY <1>6 DEF Return, Places, TypeOK
<1>7. CASE CleanUp
  BY <1>7 DEF CleanUp, checkVars, Places
<1>8. CASE Tick
  BY <1>8 DEF Tick, Places, TypeOK
<1>9. CASE Restart
  BY <1>9 DEF Restart, Places
<1>10. ASSUME NEW t \in Domains, Learn(t) PROVE Places'
  BY <1>10 DEF Learn, checkVars, Places
<1>11. CASE UNCHANGED vars
  BY <1>11 DEF vars, checkVars, Places
<1> QED
  BY <1>1, <1>2, <1>3, <1>4, <1>5, <1>6, <1>7, <1>8, <1>9, <1>10, <1>11
  DEF Next, CheckStep

-----------------------------------------------------------------------------
(* The evidence is the worst of the reports.                               *)

LEMMA InitWorst == Init => WorstReportWins
BY UnknownMergesNothing
DEF Init, NewInMemoryCache, IdleChecks, WorstReportWins

LEMMA WorstStep ==
    Inductive /\ [Next]_vars => WorstReportWins'
<1> SUFFICES ASSUME TypeOK, Places, WorstReportWins, [Next]_vars
             PROVE  WorstReportWins'
  BY DEF Inductive
<1> USE DEF WorstReportWins
<1>1. ASSUME NEW c \in Checks, NEW t \in Targets, CheckCached(c, t)
      PROVE  WorstReportWins'
  <2>1. Merges(cache[t].evidence, cache[t].reports)
    BY <1>1 DEF CheckCached, Live
  <2>2. /\ found'[c] = cache[t].evidence /\ reports'[c] = cache[t].reports
        /\ \A o \in Checks \ {c} : found'[o] = found[o] /\ reports'[o] = reports[o]
        /\ cache' = cache
    BY <1>1 DEF CheckCached, TypeOK
  <2>3. \A o \in Checks : Merges(found'[o], reports'[o])
    BY <2>1, <2>2
  <2> QED
    BY <2>2, <2>3
<1>2. ASSUME NEW c \in Checks, NEW t \in Targets, CheckMissed(c, t)
      PROVE  WorstReportWins'
  BY <1>2 DEF CheckMissed
<1>3. ASSUME NEW c \in Checks, ProviderReports(c) PROVE WorstReportWins'
  <2>1. asked[c] \in Targets
    BY <1>3 DEF ProviderReports, Places
  <2>2. PICK r \in Report :
            /\ found' = [found EXCEPT ![c] = MergeReport(@, r)]
            /\ reports' = [reports EXCEPT ![c] = Append(@, r)]
    BY <1>3, <2>1, ReportTypes DEF ProviderReports
  <2>3. found[c] \in Evidence /\ reports[c] \in Seq(Report)
    BY DEF TypeOK
  <2>4. Merges(found[c], reports[c])
    OBVIOUS
  <2>5. Merges(MergeReport(found[c], r), Append(reports[c], r))
    BY <2>3, <2>4, MergeKeepsWorst
  <2>6. /\ found'[c] = MergeReport(found[c], r)
        /\ reports'[c] = Append(reports[c], r)
        /\ \A o \in Checks \ {c} : found'[o] = found[o] /\ reports'[o] = reports[o]
    BY <2>2 DEF TypeOK
  <2>7. \A o \in Checks : Merges(found'[o], reports'[o])
    BY <2>5, <2>6
  <2>8. cache' = cache
    BY <1>3 DEF ProviderReports
  <2> QED
    BY <2>7, <2>8
<1>4. ASSUME NEW c \in Checks, ProviderSkipped(c) PROVE WorstReportWins'
  BY <1>4 DEF ProviderSkipped
<1>5. ASSUME NEW c \in Checks, StoreAnswer(c) PROVE WorstReportWins'
  <2>1. asked[c] \in Targets
    BY <1>5 DEF StoreAnswer, Places
  <2>2. /\ cache'[asked[c]].evidence = found[c]
        /\ cache'[asked[c]].reports = reports[c]
        /\ \A t \in Targets \ {asked[c]} : cache'[t] = cache[t]
        /\ UNCHANGED <<found, reports>>
    BY <1>5, <2>1 DEF StoreAnswer, TypeOK
  <2>3. ASSUME NEW t \in Targets, cache'[t] /= None
        PROVE  Merges(cache'[t].evidence, cache'[t].reports)
    BY <2>2, <2>3
  <2> QED
    BY <2>2, <2>3
<1>6. ASSUME NEW c \in Checks, Return(c) PROVE WorstReportWins'
  <2>1. /\ found'[c] = Unknown /\ reports'[c] = <<>>
        /\ \A o \in Checks \ {c} : found'[o] = found[o] /\ reports'[o] = reports[o]
        /\ cache' = cache
    BY <1>6 DEF Return, TypeOK
  <2>2. \A o \in Checks : Merges(found'[o], reports'[o])
    BY <2>1, UnknownMergesNothing
  <2> QED
    BY <2>1, <2>2
<1>7. CASE CleanUp
  BY <1>7 DEF CleanUp, checkVars
<1>8. CASE Tick
  <2>1. ASSUME NEW t \in Targets, cache'[t] /= None
        PROVE  Merges(cache'[t].evidence, cache'[t].reports)
    <3>1. CASE Live(t)
      <4>1. cache[t] \in Entry /\ cache[t] /= None
        BY <3>1, LiveEntry DEF Live
      <4>2. cache'[t] = [cache[t] EXCEPT !.left = @ - 1, !.age = @ + 1]
        BY <1>8, <3>1 DEF Tick
      <4>3. /\ cache'[t].evidence = cache[t].evidence
            /\ cache'[t].reports = cache[t].reports
        BY <4>1, <4>2 DEF Entry
      <4> QED
        BY <4>1, <4>3
    <3>2. CASE ~Live(t)
      BY <1>8, <2>1, <3>2 DEF Tick
    <3> QED
      BY <3>1, <3>2
  <2>2. UNCHANGED <<found, reports>>
    BY <1>8 DEF Tick
  <2> QED
    BY <2>1, <2>2
<1>9. CASE Restart
  BY <1>9, UnknownMergesNothing DEF Restart
<1>10. ASSUME NEW t \in Domains, Learn(t) PROVE WorstReportWins'
  BY <1>10 DEF Learn, checkVars
<1>11. CASE UNCHANGED vars
  BY <1>11 DEF vars, checkVars
<1> QED
  BY <1>1, <1>2, <1>3, <1>4, <1>5, <1>6, <1>7, <1>8, <1>9, <1>10, <1>11
  DEF Next, CheckStep

-----------------------------------------------------------------------------
(* The time budget.                                                        *)

LEMMA OneMoreTimeout ==
    ASSUME NEW i \in Nat
    PROVE  /\ (i + 1) * Timeout = i * Timeout + Timeout
           /\ i * Timeout \in Nat
           /\ \A n \in Nat : i <= n => i * Timeout <= n * Timeout
BY TimeAssumption

LEMMA PatienceIsNat == Patience \in Nat
BY TimeAssumption, LenProviders DEF Patience

LEMMA InitTimed == Init => Timed
<1> SUFFICES ASSUME Init PROVE Timed
  OBVIOUS
<1>1. \A c \in Checks : phase[c] = "idle"
  BY DEF Init, IdleChecks
<1>2. \A t \in Targets : cache[t] = None
  BY DEF Init, NewInMemoryCache
<1> QED
  BY <1>1, <1>2 DEF Timed

\* The call before used at most i timeouts; so does the next one with what it
\* is given, and there are no more calls than providers.
LEMMA AskNextTimed ==
    ASSUME TypeOK, NEW c \in Checks, NEW i \in 0 .. Len(Providers),
           AskNext(c, i + 1), age[c] <= i * Timeout
    PROVE  /\ phase'[c] = "asking" => age[c] + left'[c] <= turn'[c] * Timeout
           /\ phase'[c] = "storing" => age[c] <= Patience
           /\ phase'[c] /= "done"
<1> USE LenProviders
<1>1. age[c] \in Nat /\ Timeout \in Nat
  BY TimeAssumption DEF TypeOK
<1>2. CASE i + 1 <= Len(Providers)
  <2>1. /\ phase'[c] = "asking" /\ turn'[c] = i + 1 /\ left'[c] = Timeout
    BY <1>2 DEF AskNext, TypeOK
  <2>2. age[c] + Timeout <= (i + 1) * Timeout
    BY <1>1, OneMoreTimeout
  <2> QED
    BY <2>1, <2>2
<1>3. CASE ~(i + 1 <= Len(Providers))
  <2>1. phase'[c] = "storing"
    BY <1>3 DEF AskNext, TypeOK
  <2>2. i = Len(Providers)
    BY <1>3
  <2> QED
    BY <2>1, <2>2 DEF Patience
<1> QED
  BY <1>2, <1>3

LEMMA TimedStep == Inductive /\ [Next]_vars => Timed'
<1> SUFFICES ASSUME TypeOK, Places, Timed, [Next]_vars PROVE Timed'
  BY DEF Inductive
<1> USE LenProviders, PatienceIsNat
<1> DEFINE Check(o) == /\ phase[o] = "asking" => age[o] + left[o] <= turn[o] * Timeout
                       /\ phase[o] = "storing" => age[o] <= Patience
                       /\ phase[o] = "done" => age[o] <= TTL + Patience
           Kept(t)  == cache[t] /= None => cache[t].age + cache[t].left <= TTL + Patience
<1>a. /\ \A o \in Checks : Check(o)
      /\ \A t \in Targets : Kept(t)
  BY DEF Timed
<1>b. (\A o \in Checks : Check(o)') /\ (\A t \in Targets : Kept(t)') => Timed'
  BY DEF Timed
<1>c. (cache' = cache) => \A t \in Targets : Kept(t)'
  BY <1>a
<1>d. \A o \in Checks : /\ age[o] \in Nat
                        /\ left[o] \in 0 .. Timeout
                        /\ turn[o] \in 0 .. Len(Providers)
  BY DEF TypeOK
<1>1. ASSUME NEW c \in Checks, NEW t \in Targets, CheckCached(c, t)
      PROVE  Timed'
  <2>1. cache[t] \in Entry /\ cache[t].left \in 0 .. TTL /\ cache[t] /= None
    BY <1>1, LiveEntry DEF CheckCached, Live
  <2>2. cache[t].age <= TTL + Patience
    BY <1>a, <2>1, TimeAssumption DEF Entry
  <2>3. /\ phase'[c] = "done" /\ age'[c] = cache[t].age
        /\ \A o \in Checks \ {c} : /\ phase'[o] = phase[o] /\ age'[o] = age[o]
        /\ UNCHANGED <<turn, left, cache>>
    BY <1>1 DEF CheckCached, TypeOK
  <2>4. \A o \in Checks : Check(o)'
    BY <1>a, <2>2, <2>3
  <2> QED
    BY <1>b, <1>c, <2>3, <2>4
<1>2. ASSUME NEW c \in Checks, NEW t \in Targets, CheckMissed(c, t)
      PROVE  Timed'
  <2>1. AskNext(c, 0 + 1) /\ age[c] = 0 /\ age' = age /\ cache' = cache
    BY <1>2 DEF CheckMissed, Places
  <2>2. 0 \in 0 .. Len(Providers) /\ age[c] <= 0 * Timeout
    BY <2>1, TimeAssumption
  <2>3. Check(c)'
    BY <2>1, <2>2, AskNextTimed
  <2>4. \A o \in Checks \ {c} :
            phase'[o] = phase[o] /\ turn'[o] = turn[o] /\ left'[o] = left[o]
    BY <2>1, AskNextPlaces
  <2>5. \A o \in Checks : Check(o)'
    BY <1>a, <2>1, <2>3, <2>4
  <2> QED
    BY <1>b, <1>c, <2>1, <2>5
<1>3. ASSUME NEW c \in Checks, phase[c] = "asking", AskNext(c, turn[c] + 1),
             age' = age, cache' = cache
      PROVE  Timed'
  <2>1. turn[c] \in 0 .. Len(Providers) /\ turn[c] + 1 \in Nat \ {0}
    BY <1>d
  <2>2. turn[c] * Timeout \in Nat /\ age[c] \in Nat /\ left[c] \in Nat
    <3>1. age[c] \in Nat /\ left[c] \in Nat /\ turn[c] \in Nat
      BY <1>d, TimeAssumption
    <3>2. turn[c] * Timeout \in Nat
      <4> HIDE <1>d
      <4> QED
        BY <3>1, OneMoreTimeout
    <3> QED
      BY <3>1, <3>2
  <2>3. age[c] <= turn[c] * Timeout
    BY <1>a, <1>3, <2>2
  <2>4. Check(c)'
    BY <1>3, <2>1, <2>3, AskNextTimed
  <2>5. \A o \in Checks \ {c} :
            phase'[o] = phase[o] /\ turn'[o] = turn[o] /\ left'[o] = left[o]
    BY <1>3, <2>1, AskNextPlaces
  <2>6. \A o \in Checks : Check(o)'
    BY <1>3, <1>a, <2>4, <2>5
  <2> QED
    BY <1>3, <1>b, <1>c, <2>6
<1>4. ASSUME NEW c \in Checks, ProviderReports(c) \/ ProviderSkipped(c)
      PROVE  Timed'
  BY <1>4, <1>3 DEF ProviderReports, ProviderSkipped
<1>5. ASSUME NEW c \in Checks, StoreAnswer(c) PROVE Timed'
  <2>1. asked[c] \in Targets /\ phase[c] = "storing"
    BY <1>5 DEF StoreAnswer, Places
  <2>2. /\ cache'[asked[c]].age = age[c]
        /\ cache'[asked[c]].left = TTL
        /\ \A t \in Targets \ {asked[c]} : cache'[t] = cache[t]
        /\ phase'[c] = "done"
        /\ \A o \in Checks \ {c} : phase'[o] = phase[o]
        /\ UNCHANGED <<turn, left, age>>
    BY <1>5, <2>1 DEF StoreAnswer, TypeOK
  <2>3. age[c] <= Patience /\ age[c] \in Nat /\ TTL \in Nat
    BY <1>a, <1>d, <2>1, TimeAssumption
  <2>4. \A o \in Checks : Check(o)'
    BY <1>a, <2>2, <2>3
  <2>5. \A t \in Targets : Kept(t)'
    BY <1>a, <2>2, <2>3
  <2> QED
    BY <1>b, <2>4, <2>5
<1>6. ASSUME NEW c \in Checks, Return(c) PROVE Timed'
  <2>1. /\ phase'[c] = "idle"
        /\ \A o \in Checks \ {c} : phase'[o] = phase[o] /\ age'[o] = age[o]
        /\ UNCHANGED <<turn, left, cache>>
    BY <1>6 DEF Return, TypeOK
  <2>2. \A o \in Checks : Check(o)'
    BY <1>a, <2>1
  <2> QED
    BY <1>b, <1>c, <2>1, <2>2
<1>7. CASE CleanUp
  <2>1. /\ \A t \in Targets : cache'[t] = cache[t] \/ cache'[t] = None
        /\ UNCHANGED <<phase, turn, left, age>>
    BY <1>7 DEF CleanUp, checkVars
  <2>2. /\ \A o \in Checks : Check(o)'
        /\ \A t \in Targets : Kept(t)'
    BY <1>a, <2>1
  <2> QED
    BY <1>b, <2>2
<1>8. CASE Tick
  <2>1. ASSUME NEW t \in Targets PROVE Kept(t)'
    <3>1. CASE Live(t)
      <4>1. /\ cache[t] \in Entry /\ cache[t] /= None
            /\ cache[t].left \in Int /\ cache[t].age \in Nat
        BY <3>1, LiveEntry DEF Live, Entry
      <4>2. cache'[t] = [cache[t] EXCEPT !.left = @ - 1, !.age = @ + 1]
        BY <1>8, <3>1 DEF Tick
      <4>3. /\ cache'[t].left = cache[t].left - 1
            /\ cache'[t].age = cache[t].age + 1
        BY <4>1, <4>2 DEF Entry
      <4>4. cache[t].age + cache[t].left <= TTL + Patience
        BY <1>a, <4>1
      <4> QED
        BY <4>1, <4>3, <4>4, TimeAssumption
    <3>2. CASE ~Live(t)
      BY <1>8, <1>a, <3>2 DEF Tick
    <3> QED
      BY <3>1, <3>2
  <2>2. ASSUME NEW o \in Checks PROVE Check(o)'
    <3>1. /\ phase' = phase /\ turn' = turn
          /\ phase[o] /= "storing"
          /\ left'[o] = IF phase[o] = "asking" THEN left[o] - 1 ELSE left[o]
          /\ age'[o] = IF phase[o] = "asking" THEN age[o] + 1 ELSE age[o]
      BY <1>8 DEF Tick
    <3>2. turn[o] * Timeout \in Nat
      <4>1. turn[o] \in Nat
        BY <1>d
      <4> HIDE <1>d
      <4> QED
        BY <4>1, OneMoreTimeout
    <3>3. CASE phase[o] = "asking"
      <4>1. age[o] + left[o] <= turn[o] * Timeout
        BY <1>a, <3>3
      <4>2. age[o] \in Nat /\ left[o] \in Nat
        BY <1>d, TimeAssumption
      <4>3. age'[o] + left'[o] <= turn[o] * Timeout
        BY <3>1, <3>2, <3>3, <4>1, <4>2
      <4> QED
        BY <3>1, <3>3, <4>3
    <3>4. CASE phase[o] /= "asking"
      BY <1>a, <3>1, <3>4
    <3> QED
      BY <3>3, <3>4
  <2> QED
    BY <1>b, <2>1, <2>2
<1>9. CASE Restart
  <2>1. /\ \A o \in Checks : phase'[o] = "idle"
        /\ \A t \in Targets : cache'[t] = None
    BY <1>9 DEF Restart
  <2> QED
    BY <2>1 DEF Timed
<1>10. ASSUME UNCHANGED <<cache, phase, turn, left, age>> PROVE Timed'
  BY <1>10 DEF Timed
<1>11. ASSUME NEW t \in Domains, Learn(t) PROVE Timed'
  BY <1>10, <1>11 DEF Learn, checkVars
<1>12. CASE UNCHANGED vars
  BY <1>10, <1>12 DEF vars, checkVars
<1> QED
  BY <1>1, <1>2, <1>4, <1>5, <1>6, <1>7, <1>8, <1>9, <1>11, <1>12
  DEF Next, CheckStep

-----------------------------------------------------------------------------
THEOREM InductiveInvariant == Spec => []Inductive
<1>1. Init => Inductive
  BY InitTypes, InitPlaces, InitWorst, InitTimed DEF Inductive
<1>2. Inductive /\ [Next]_vars => Inductive'
  BY TypesStep, PlacesStep, WorstStep, TimedStep DEF Inductive
<1> QED
  BY <1>1, <1>2, PTL DEF Spec

\* All variables have their types.
THEOREM TypesHold == Spec => []TypeOK
BY InductiveInvariant, PTL DEF Inductive

\* mergeReport: what a check or an entry says is the worst that any provider
\* reported, and counts only those that did report.
THEOREM WorstReportAlwaysWins == Spec => []WorstReportWins
BY InductiveInvariant, PTL DEF Inductive

\* An answer is never older than one TTL and one timeout per provider,
\* whatever is slow, fails or is overwritten.
THEOREM AnswersStayRecent == Spec => []AnswersAreRecent
<1>1. Inductive => AnswersAreRecent
  BY DEF Inductive, Timed, AnswersAreRecent
<1> QED
  BY <1>1, InductiveInvariant, PTL

\* A check in flight has waited no longer than one timeout per provider, however
\* many of them are slow: the bound on time that "returns eventually" leaves open.
THEOREM ChecksStayInTime ==
    Spec => [](\A c \in Checks :
                   phase[c] \in {"asking", "storing"} => age[c] <= Patience)
<1> DEFINE InTime ==
        \A c \in Checks : phase[c] \in {"asking", "storing"} => age[c] <= Patience
<1>1. Inductive => InTime
  <2> SUFFICES ASSUME Inductive, NEW c \in Checks, phase[c] = "asking"
               PROVE  age[c] <= Patience
    BY DEF Inductive, Timed
  <2>1. /\ age[c] \in Nat /\ left[c] \in Nat
        /\ turn[c] \in 1 .. Len(Providers)
        /\ age[c] + left[c] <= turn[c] * Timeout
    BY TimeAssumption DEF Inductive, TypeOK, Places, Timed
  <2>2. turn[c] * Timeout \in Nat /\ turn[c] * Timeout <= Len(Providers) * Timeout
    <3>1. turn[c] \in Nat /\ Len(Providers) \in Nat /\ turn[c] <= Len(Providers)
      BY <2>1, LenProviders
    <3> QED
      BY <3>1, OneMoreTimeout
  <2>3. Patience \in Nat
    BY PatienceIsNat
  <2> QED
    BY <2>1, <2>2, <2>3 DEF Patience
<1> HIDE DEF InTime
<1>2. Spec => []InTime
  BY <1>1, InductiveInvariant, PTL
<1> QED
  BY <1>2 DEF InTime

\* mergeReport does not depend on the order in which two providers answer: the
\* providers may be configured, and asked, in any order.
THEOREM MergeOrderIsFree ==
    ASSUME NEW e \in Evidence, NEW r \in Report, NEW s \in Report
    PROVE  MergeReport(MergeReport(e, r), s) = MergeReport(MergeReport(e, s), r)
<1> DEFINE rThenS == MergeReport(MergeReport(e, r), s)
           sThenR == MergeReport(MergeReport(e, s), r)
<1>1. Flags(r) \in Nat /\ Flags(s) \in Nat
  BY FlagsCount
<1>2. /\ e.maliciousReports \in Nat /\ e.totalEngines \in Nat
      /\ e.phishing \in BOOLEAN /\ e.malware \in BOOLEAN
      /\ e.reputation \in Reputations
      /\ r.phishing \in BOOLEAN /\ r.malware \in BOOLEAN
      /\ s.phishing \in BOOLEAN /\ s.malware \in BOOLEAN
      /\ r.reputation \in Reputations /\ s.reputation \in Reputations
  BY DEF Evidence, Report
<1>3. /\ rThenS.phishing = sThenR.phishing
      /\ rThenS.malware = sThenR.malware
  BY <1>2 DEF MergeReport
<1>4. /\ rThenS.maliciousReports = sThenR.maliciousReports
      /\ rThenS.totalEngines = sThenR.totalEngines
  BY <1>1, <1>2 DEF MergeReport
<1>5. rThenS.reputation = sThenR.reputation
  BY <1>1, <1>2 DEF MergeReport, Reputations
<1>6. rThenS \in Evidence /\ sThenR \in Evidence
  BY MergeTypes
<1> SUFFICES rThenS = sThenR
  OBVIOUS
<1> HIDE DEF rThenS, sThenR
<1> QED
  BY <1>3, <1>4, <1>5, <1>6 DEF Evidence

-----------------------------------------------------------------------------
(* The refinement.                                                         *)

LEMMA InitImplements == Init => TS!StoreInit
<1> SUFFICES ASSUME Init PROVE TS!StoreInit
  OBVIOUS
<1>1. \A t \in Targets : ~Live(t)
  BY DEF Init, NewInMemoryCache, Live
<1>2. \A c \in Checks : phase[c] /= "done"
  BY DEF Init, IdleChecks
<1> QED
  BY <1>1, <1>2 DEF TS!StoreInit, ShownStore, ShownGiven, Stored, Held

\* A step that leaves what is live and what is held alone is not seen.
LEMMA Unseen ==
    ASSUME \A t \in Targets : Stored(t)' = Stored(t),
           \A c \in Checks : Held(c)' = Held(c)
    PROVE  UNCHANGED TS!svars
BY DEF TS!svars, ShownStore, ShownGiven

LEMMA StoredTypes ==
    ASSUME TypeOK, NEW t \in Targets
    PROVE  /\ Live(t) => /\ Stored(t) \in Served
                         /\ Stored(t) /= None
                         /\ Stored(t).value = cache[t].evidence
                         /\ Stored(t).left = cache[t].left
           /\ ~Live(t) => Stored(t) = None
<1>1. CASE Live(t)
  <2>1. cache[t] \in Entry /\ cache[t].left \in 0 .. TTL
    BY <1>1, LiveEntry
  <2>2. cache[t].evidence \in Evidence /\ cache[t].left \in Nat
    BY <2>1, TimeAssumption DEF Entry
  <2>3. Stored(t) = [value |-> cache[t].evidence, left |-> cache[t].left]
    BY <1>1 DEF Stored
  <2>4. Stored(t) \in Served
    BY <2>2, <2>3 DEF Served
  <2> QED
    BY <1>1, <2>3, <2>4, NoneAssumption
<1>2. CASE ~Live(t)
  BY <1>2 DEF Stored
<1> QED
  BY <1>1, <1>2

LEMMA HeldTypes ==
    ASSUME TypeOK, NEW c \in Checks
    PROVE  /\ phase[c] = "done" => Held(c) = found[c] /\ Held(c) /= None
           /\ phase[c] /= "done" => Held(c) = None
<1>1. found[c] \in Evidence
  BY DEF TypeOK
<1> QED
  BY <1>1, NoneAssumption DEF Held

LEMMA ServeImplements ==
    ASSUME TypeOK, NEW c \in Checks, NEW t \in Targets, CheckCached(c, t)
    PROVE  TS!Serve(c, t)
<1>1. /\ phase[c] = "idle" /\ Live(t)
      /\ phase' = [phase EXCEPT ![c] = "done"]
      /\ found' = [found EXCEPT ![c] = cache[t].evidence]
      /\ cache' = cache
  BY DEF CheckCached
<1>2. ShownGiven[c] = None /\ ShownStore[t] /= None
  BY <1>1, HeldTypes, StoredTypes DEF ShownGiven, ShownStore
<1>3. ShownStore[t].value = cache[t].evidence
  BY <1>1, StoredTypes DEF ShownStore
<1>4. ShownGiven' = [ShownGiven EXCEPT ![c] = ShownStore[t].value]
  <2>1. Held(c)' = cache[t].evidence
    BY <1>1 DEF Held, TypeOK
  <2>2. \A o \in Checks \ {c} : Held(o)' = Held(o)
    BY <1>1 DEF Held, TypeOK
  <2> QED
    BY <1>3, <2>1, <2>2 DEF ShownGiven
<1>5. ShownStore' = ShownStore
  BY <1>1 DEF ShownStore, Stored, Live
<1> QED
  BY <1>2, <1>4, <1>5 DEF TS!Serve

LEMMA PutImplements ==
    ASSUME TypeOK, Places, NEW c \in Checks, StoreAnswer(c)
    PROVE  TS!Put(c, asked[c], ShownGiven'[c])
<1>1. PICK t \in Targets : t = asked[c] /\ phase[c] = "storing"
  BY DEF StoreAnswer, Places
<1>2. /\ cache'[t] = [evidence |-> found[c], left |-> TTL,
                      reports |-> reports[c], age |-> age[c]]
      /\ \A u \in Targets \ {t} : cache'[u] = cache[u]
      /\ phase' = [phase EXCEPT ![c] = "done"]
      /\ found' = found
  BY <1>1 DEF StoreAnswer, TypeOK
<1>3. cache'[t] /= None
  <2>1. cache'[t] \in Entry
    BY <1>2, TimeAssumption DEF Entry, TypeOK
  <2> QED
    BY <2>1, NoneAssumption
<1>4. Stored(t)' = [value |-> found[c], left |-> TTL]
  BY <1>2, <1>3, TimeAssumption DEF Stored, Live
<1>5. \A u \in Targets \ {t} : Stored(u)' = Stored(u)
  BY <1>2 DEF Stored, Live
<1>6. ShownStore' = [ShownStore EXCEPT ![t] = [value |-> found[c], left |-> TTL]]
  BY <1>1, <1>4, <1>5 DEF ShownStore
<1>7. Held(c)' = found[c] /\ \A o \in Checks \ {c} : Held(o)' = Held(o)
  BY <1>2 DEF Held, TypeOK
<1>8. ShownGiven' = [ShownGiven EXCEPT ![c] = found[c]] /\ ShownGiven'[c] = found[c]
  BY <1>7 DEF ShownGiven
<1>9. ShownGiven[c] = None /\ found[c] \in Evidence
  BY <1>1, HeldTypes DEF ShownGiven, TypeOK
<1> QED
  BY <1>1, <1>6, <1>8, <1>9 DEF TS!Put

LEMMA TakeImplements ==
    ASSUME TypeOK, NEW c \in Checks, Return(c)
    PROVE  TS!Take(c)
<1>1. /\ phase[c] = "done" /\ phase' = [phase EXCEPT ![c] = "idle"]
      /\ found' = [found EXCEPT ![c] = Unknown] /\ cache' = cache
  BY DEF Return
<1>2. ShownGiven[c] /= None
  BY <1>1, HeldTypes DEF ShownGiven
<1>3. Held(c)' = None /\ \A o \in Checks \ {c} : Held(o)' = Held(o)
  BY <1>1 DEF Held, TypeOK
<1>4. ShownGiven' = [ShownGiven EXCEPT ![c] = None]
  BY <1>3 DEF ShownGiven
<1>5. ShownStore' = ShownStore
  BY <1>1 DEF ShownStore, Stored, Live
<1> QED
  BY <1>2, <1>4, <1>5 DEF TS!Take

LEMMA PassImplements == ASSUME TypeOK, Tick PROVE TS!Pass
<1>1. ASSUME NEW t \in Targets
      PROVE  Stored(t)' = IF Stored(t) = None \/ Stored(t).left = 0 THEN None
                          ELSE [Stored(t) EXCEPT !.left = @ - 1]
  <2>1. CASE Live(t)
    <3>1. cache[t] \in Entry /\ cache[t].left \in 0 .. TTL
      BY <2>1, LiveEntry
    <3>2. cache'[t] = [cache[t] EXCEPT !.left = @ - 1, !.age = @ + 1]
      BY <2>1 DEF Tick
    <3>3. cache'[t] = [evidence |-> cache[t].evidence, left |-> cache[t].left - 1,
                       reports |-> cache[t].reports, age |-> cache[t].age + 1]
      BY <3>1, <3>2 DEF Entry
    <3>4. cache'[t] /= None
      <4>1. /\ cache[t].evidence \in Evidence /\ cache[t].reports \in Seq(Report)
            /\ cache[t].age + 1 \in Nat /\ cache[t].left - 1 \in Int
        BY <3>1, TimeAssumption DEF Entry
      <4>2. cache'[t] \in Entry
        BY <3>3, <4>1 DEF Entry
      <4> QED
        BY <4>2, NoneAssumption
    <3>5. cache[t].left \in Nat
      BY <3>1, TimeAssumption
    <3>6. Live(t)' <=> cache[t].left /= 0
      BY <3>3, <3>4, <3>5 DEF Live
    <3>7. Stored(t) = [value |-> cache[t].evidence, left |-> cache[t].left]
      BY <2>1 DEF Stored
    <3>8. CASE cache[t].left = 0
      BY <3>6, <3>7, <3>8 DEF Stored
    <3>9. CASE cache[t].left /= 0
      <4>1. Stored(t)' = [value |-> cache[t].evidence, left |-> cache[t].left - 1]
        BY <3>3, <3>6, <3>9 DEF Stored
      <4>2. Stored(t) /= None
        BY <2>1, StoredTypes
      <4> QED
        BY <3>7, <3>9, <4>1, <4>2
    <3> QED
      BY <3>8, <3>9
  <2>2. CASE ~Live(t)
    <3>1. cache'[t] = cache[t]
      BY <2>2 DEF Tick
    <3> QED
      BY <2>2, <3>1 DEF Stored, Live
  <2> QED
    BY <2>1, <2>2
<1>2. ShownStore' = [t \in Targets |->
          IF ShownStore[t] = None \/ ShownStore[t].left = 0 THEN None
          ELSE [ShownStore[t] EXCEPT !.left = @ - 1]]
  BY <1>1 DEF ShownStore
<1>3. ShownGiven' = ShownGiven
  BY DEF Tick, ShownGiven, Held
<1> QED
  BY <1>2, <1>3 DEF TS!Pass

LEMMA StepImplements ==
    Inductive /\ [Next]_vars => TS!StoreNext \/ UNCHANGED TS!svars
<1> SUFFICES ASSUME TypeOK, Places, [Next]_vars
             PROVE  TS!StoreNext \/ UNCHANGED TS!svars
  BY DEF Inductive
<1>1. ASSUME NEW c \in Checks, NEW t \in Targets, CheckCached(c, t)
      PROVE  TS!StoreNext
  BY <1>1, ServeImplements DEF TS!StoreNext
<1>2. ASSUME NEW c \in Checks,
             phase[c] /= "done", phase'[c] /= "done",
             \A o \in Checks \ {c} : phase'[o] = phase[o] /\ found'[o] = found[o],
             cache' = cache
      PROVE  UNCHANGED TS!svars
  <2>1. \A o \in Checks : Held(o)' = Held(o)
    BY <1>2 DEF Held
  <2>2. \A t \in Targets : Stored(t)' = Stored(t)
    BY <1>2 DEF Stored, Live
  <2> QED
    BY <2>1, <2>2, Unseen
<1>3. ASSUME NEW c \in Checks, NEW t \in Targets, CheckMissed(c, t)
      PROVE  UNCHANGED TS!svars
  <2>1. /\ AskNext(c, 1) /\ phase[c] = "idle"
        /\ UNCHANGED <<cache, found>>
    BY <1>3 DEF CheckMissed
  <2> QED
    BY <1>2, <2>1, AskNextPlaces
<1>4. ASSUME NEW c \in Checks, ProviderReports(c) \/ ProviderSkipped(c)
      PROVE  UNCHANGED TS!svars
  <2>1. /\ AskNext(c, turn[c] + 1) /\ phase[c] = "asking" /\ cache' = cache
        /\ turn[c] + 1 \in Nat \ {0}
    BY <1>4 DEF ProviderReports, ProviderSkipped, Places
  <2>2. \A o \in Checks \ {c} : found'[o] = found[o]
    BY <1>4 DEF ProviderReports, ProviderSkipped, TypeOK
  <2> QED
    BY <1>2, <2>1, <2>2, AskNextPlaces
<1>5. ASSUME NEW c \in Checks, StoreAnswer(c) PROVE TS!StoreNext
  <2>1. asked[c] \in Targets
    BY <1>5 DEF StoreAnswer, Places
  <2> QED
    BY <1>5, <2>1, PutImplements DEF TS!StoreNext
<1>6. ASSUME NEW c \in Checks, Return(c) PROVE TS!StoreNext
  BY <1>6, TakeImplements DEF TS!StoreNext
<1>7. CASE CleanUp
  <2>1. \A t \in Targets : Stored(t)' = Stored(t)
    <3>1. ASSUME NEW t \in Targets, Live(t) PROVE Stored(t)' = Stored(t)
      BY <1>7, <3>1 DEF CleanUp, Stored, Live
    <3>2. ASSUME NEW t \in Targets, ~Live(t) PROVE Stored(t)' = Stored(t)
      BY <1>7, <3>2 DEF CleanUp, Stored, Live
    <3> QED
      BY <3>1, <3>2
  <2>2. \A o \in Checks : Held(o)' = Held(o)
    BY <1>7 DEF CleanUp, checkVars, Held
  <2> QED
    BY <2>1, <2>2, Unseen
<1>8. CASE Tick
  BY <1>8, PassImplements DEF TS!StoreNext
<1>9. CASE Restart
  <2>1. /\ \A t \in Targets : Stored(t)' = None
        /\ \A o \in Checks : Held(o)' = None
    BY <1>9 DEF Restart, Stored, Live, Held
  <2>2. TS!Lose
    BY <2>1 DEF TS!Lose, ShownStore, ShownGiven
  <2> QED
    BY <2>2 DEF TS!StoreNext
<1>10. ASSUME UNCHANGED <<cache, phase, found>> PROVE UNCHANGED TS!svars
  BY <1>10 DEF TS!svars, ShownStore, ShownGiven, Stored, Held, Live
<1>11. ASSUME NEW t \in Domains, Learn(t) PROVE UNCHANGED TS!svars
  BY <1>10, <1>11 DEF Learn, checkVars
<1>12. CASE UNCHANGED vars
  BY <1>10, <1>12 DEF vars, checkVars
<1> QED
  BY <1>1, <1>3, <1>4, <1>5, <1>6, <1>7, <1>8, <1>9, <1>11, <1>12
  DEF Next, CheckStep

\* The in-memory cache, read and filled without a lock, is a store whose
\* entries end by themselves.
THEOREM CacheImplementsStore == Spec => ImplementsTimedStore
<1>1. Init => TS!StoreInit
  BY InitImplements
<1>2. Inductive /\ [Next]_vars => [TS!StoreNext]_TS!svars
  BY StepImplements
<1> QED
  BY <1>1, <1>2, InductiveInvariant, PTL
  DEF Spec, ImplementsTimedStore, TS!StoreSpec
-----------------------------------------------------------------------------
(* ExchangeRate.                                                           *)

\* The age of a quote and what remains of its caller's timeout add up to at
\* most one timeout until it is stored; from then on the cache's own clock
\* bounds what the age can grow by.
RateTimed ==
    /\ \A c \in Callers :
           /\ stage[c] = "arriving" => quoteAge[c] + remains[c] <= ClientTimeout
           /\ stage[c] = "storing" => rate[c] > 0 /\ quoteAge[c] <= ClientTimeout
           /\ stage[c] = "done" => /\ rate[c] > 0
                                  /\ quoteAge[c] < RateTTL + ClientTimeout
    /\ Fresh => cachedAge <= since + ClientTimeout

RateInductive == RateTypeOK /\ RateTimed

LEMMA InitRate == RateInit => RateInductive
BY RateTimeAssumption
DEF RateInit, NoCalls, RateInductive, RateTypeOK, RateTimed, Stages, Fresh

LEMMA RateTypesStep == RateTypeOK /\ [RateNext]_rateVars => RateTypeOK'
<1> SUFFICES ASSUME RateTypeOK, [RateNext]_rateVars PROVE RateTypeOK'
  OBVIOUS
<1> USE RateTimeAssumption DEF RateTypeOK, Stages, cacheVars, callVars
<1>1. ASSUME NEW c \in Callers, CachedRate(c) PROVE RateTypeOK'
  BY <1>1 DEF CachedRate
<1>2. ASSUME NEW c \in Callers, AskRate(c) PROVE RateTypeOK'
  BY <1>2 DEF AskRate
<1>3. ASSUME NEW c \in Callers, APIAnswers(c) PROVE RateTypeOK'
  BY <1>3 DEF APIAnswers
<1>4. ASSUME NEW c \in Callers, RateArrives(c) PROVE RateTypeOK'
  BY <1>4 DEF RateArrives
<1>5. ASSUME NEW c \in Callers, AskFails(c) PROVE RateTypeOK'
  BY <1>5 DEF AskFails
<1>6. ASSUME NEW c \in Callers, StoreRate(c) PROVE RateTypeOK'
  BY <1>6 DEF StoreRate
<1>7. ASSUME NEW c \in Callers, Convert(c) PROVE RateTypeOK'
  BY <1>7 DEF Convert
<1>8. CASE MarketMoves
  BY <1>8 DEF MarketMoves
<1>9. CASE RateTick
  <2>1. remains' \in [Callers -> 0 .. ClientTimeout]
    BY <1>9 DEF RateTick
  <2>2. quoteAge' \in [Callers -> Nat]
    BY <1>9 DEF RateTick
  <2>3. since' \in 0 .. RateTTL /\ cachedAge' \in Nat
    BY <1>9 DEF RateTick
  <2> QED
    BY <1>9, <2>1, <2>2, <2>3 DEF RateTick
<1>10. CASE RateRestart
  BY <1>10 DEF RateRestart
<1>11. CASE UNCHANGED rateVars
  BY <1>11 DEF rateVars
<1> QED
  BY <1>1, <1>2, <1>3, <1>4, <1>5, <1>6, <1>7, <1>8, <1>9, <1>10, <1>11 DEF RateNext

LEMMA RateTimedStep == RateInductive /\ [RateNext]_rateVars => RateTimed'
<1> SUFFICES ASSUME RateTypeOK, RateTimed, [RateNext]_rateVars PROVE RateTimed'
  BY DEF RateInductive
<1> USE RateTimeAssumption
        DEF RateTypeOK, RateTimed, Fresh, cacheVars, callVars
<1>1. ASSUME NEW c \in Callers, CachedRate(c) PROVE RateTimed'
  BY <1>1, QuotesAssumption DEF CachedRate
<1>2. ASSUME NEW c \in Callers, AskRate(c) PROVE RateTimed'
  BY <1>2 DEF AskRate
<1>3. ASSUME NEW c \in Callers, APIAnswers(c) PROVE RateTimed'
  BY <1>3 DEF APIAnswers
<1>4. ASSUME NEW c \in Callers, RateArrives(c) PROVE RateTimed'
  BY <1>4 DEF RateArrives
<1>5. ASSUME NEW c \in Callers, AskFails(c) PROVE RateTimed'
  BY <1>5 DEF AskFails
<1>6. ASSUME NEW c \in Callers, StoreRate(c) PROVE RateTimed'
  BY <1>6 DEF StoreRate
<1>7. ASSUME NEW c \in Callers, Convert(c) PROVE RateTimed'
  BY <1>7 DEF Convert
<1>8. CASE MarketMoves
  BY <1>8 DEF MarketMoves
<1>9. CASE RateTick
  <2>1. ASSUME NEW c \in Callers, stage[c] = "arriving"
        PROVE  quoteAge'[c] + remains'[c] <= ClientTimeout
    BY <1>9, <2>1 DEF RateTick, OnItsWay
  <2>2. ASSUME NEW c \in Callers, stage[c] /= "arriving"
        PROVE  quoteAge'[c] = quoteAge[c] /\ rate'[c] = rate[c] /\ stage'[c] = stage[c]
    BY <1>9, <2>2 DEF RateTick
  <2>3. Fresh' => cachedAge' <= since' + ClientTimeout
    BY <1>9 DEF RateTick
  <2>4. stage' = stage
    BY <1>9 DEF RateTick
  <2> QED
    BY <2>1, <2>2, <2>3, <2>4
<1>10. CASE RateRestart
  BY <1>10 DEF RateRestart
<1>11. CASE UNCHANGED rateVars
  BY <1>11 DEF rateVars
<1> QED
  BY <1>1, <1>2, <1>3, <1>4, <1>5, <1>6, <1>7, <1>8, <1>9, <1>10, <1>11 DEF RateNext

LEMMA RateInvariant == RateSpec => []RateInductive
<1>1. RateInductive /\ [RateNext]_rateVars => RateInductive'
  BY RateTypesStep, RateTimedStep DEF RateInductive
<1> QED
  BY InitRate, <1>1, PTL DEF RateSpec

\* All variables of the cache and its callers have their types.
THEOREM RateTypesHold == RateSpec => []RateTypeOK
BY RateInvariant, PTL DEF RateInductive

\* A price uses a positive rate that was quoted less than one life of the cache
\* and one timeout ago, however many misses of GetUSDToNGNRate overlap and in
\* whatever order their answers are stored.
THEOREM QuotesStayRecent == RateSpec => []QuotesAreRecent
<1>1. RateInductive => QuotesAreRecent
  BY DEF RateInductive, RateTimed, QuotesAreRecent
<1> QED
  BY <1>1, RateInvariant, PTL

-----------------------------------------------------------------------------
(* The refinement of ExchangeRate.                                         *)

\* What is served while the cache is fresh, and what a caller holds.
ServedRate == IF Fresh THEN [value |-> cachedUSDToNGN, left |-> RateTTL - 1 - since]
                       ELSE NoRate

HeldRate(c) == IF stage[c] = "done" THEN rate[c] ELSE NoRate

LEMMA RateShownIs ==
    /\ RateShown = [k \in {"NGN"} |-> ServedRate]
    /\ RateGiven = [c \in Callers |-> HeldRate(c)]
    /\ RateShown' = [k \in {"NGN"} |-> ServedRate']
    /\ RateGiven' = [c \in Callers |-> HeldRate(c)']
BY DEF RateShown, RateGiven, ServedRate, HeldRate

LEMMA ServedRateTypes ==
    ASSUME RateTypeOK
    PROVE  /\ Fresh => ServedRate /= NoRate /\ RateTTL - 1 - since \in Nat
           /\ ~Fresh => ServedRate = NoRate
<1>1. ASSUME Fresh PROVE ServedRate /= NoRate /\ RateTTL - 1 - since \in Nat
  <2>1. RateTTL - 1 - since \in Nat /\ cachedUSDToNGN \in Nat
    BY <1>1, RateTimeAssumption, QuotesAssumption DEF Fresh, RateTypeOK
  <2>2. ServedRate \in [value : Nat, left : Nat]
    BY <1>1, <2>1 DEF ServedRate
  <2> QED
    BY <2>1, <2>2, NoRateAssumption
<1> QED
  BY <1>1 DEF ServedRate

LEMMA HeldRateTypes ==
    ASSUME RateTypeOK, NEW c \in Callers
    PROVE  /\ stage[c] = "done" => HeldRate(c) = rate[c] /\ HeldRate(c) /= NoRate
           /\ stage[c] /= "done" => HeldRate(c) = NoRate
<1>1. rate[c] \in Quotes \union {0}
  BY DEF RateTypeOK
<1>2. rate[c] \in Nat
  <2>1. \A n \in Quotes : n \in Nat
    BY QuotesAssumption
  <2> QED
    BY <1>1, <2>1
<1> QED
  BY <1>2, NoRateAssumption DEF HeldRate

LEMMA RateUnseen ==
    ASSUME ServedRate' = ServedRate, \A c \in Callers : HeldRate(c)' = HeldRate(c)
    PROVE  UNCHANGED RS!svars
BY RateShownIs DEF RS!svars

LEMMA CachedRateServes ==
    ASSUME RateTypeOK, NEW c \in Callers, CachedRate(c)
    PROVE  RS!Serve(c, "NGN")
<1>1. /\ stage[c] = "idle" /\ Fresh
      /\ stage' = [stage EXCEPT ![c] = "done"]
      /\ rate' = [rate EXCEPT ![c] = cachedUSDToNGN]
      /\ UNCHANGED <<cachedUSDToNGN, since>>
  BY DEF CachedRate, cacheVars
<1>2. RateGiven[c] = NoRate /\ RateShown["NGN"] /= NoRate
  BY <1>1, HeldRateTypes, ServedRateTypes, RateShownIs
<1>3. RateShown["NGN"].value = cachedUSDToNGN
  BY <1>1, RateShownIs DEF ServedRate
<1>4. HeldRate(c)' = cachedUSDToNGN /\ \A o \in Callers \ {c} : HeldRate(o)' = HeldRate(o)
  BY <1>1 DEF HeldRate, RateTypeOK
<1>5. RateGiven' = [RateGiven EXCEPT ![c] = RateShown["NGN"].value]
  BY <1>3, <1>4, RateShownIs
<1>6. RateShown' = RateShown
  BY <1>1, RateShownIs DEF ServedRate, Fresh
<1> QED
  BY <1>2, <1>5, <1>6 DEF RS!Serve

LEMMA StoreRatePuts ==
    ASSUME RateInductive, NEW c \in Callers, StoreRate(c)
    PROVE  RS!Put(c, "NGN", RateGiven'[c])
<1>1. /\ stage[c] = "storing"
      /\ stage' = [stage EXCEPT ![c] = "done"]
      /\ rate' = rate
      /\ cachedUSDToNGN' = rate[c]
      /\ since' = 0
  BY DEF StoreRate
<1>2. RateTypeOK /\ rate[c] > 0
  BY <1>1 DEF RateInductive, RateTimed
<1>3. rate[c] \in Quotes \ {0}
  BY <1>2 DEF RateTypeOK
<1>4. RateGiven[c] = NoRate
  BY <1>1, <1>2, HeldRateTypes, RateShownIs
<1>5. HeldRate(c)' = rate[c] /\ \A o \in Callers \ {c} : HeldRate(o)' = HeldRate(o)
  BY <1>1, <1>2 DEF HeldRate, RateTypeOK
<1>6. RateGiven' = [RateGiven EXCEPT ![c] = rate[c]] /\ RateGiven'[c] = rate[c]
  BY <1>5, RateShownIs
<1>7. ServedRate' = [value |-> rate[c], left |-> RateTTL - 1]
  BY <1>1, <1>2, RateTimeAssumption DEF ServedRate, Fresh
<1>8. RateShown' = [RateShown EXCEPT !["NGN"] = [value |-> rate[c], left |-> RateTTL - 1]]
  BY <1>7, RateShownIs
<1> QED
  BY <1>3, <1>4, <1>6, <1>8 DEF RS!Put

LEMMA ConvertTakes ==
    ASSUME RateTypeOK, NEW c \in Callers, Convert(c)
    PROVE  RS!Take(c)
<1>1. /\ stage[c] = "done"
      /\ stage' = [stage EXCEPT ![c] = "idle"]
      /\ rate' = [rate EXCEPT ![c] = 0]
      /\ UNCHANGED <<cachedUSDToNGN, since>>
  BY DEF Convert, cacheVars
<1>2. RateGiven[c] /= NoRate
  BY <1>1, HeldRateTypes, RateShownIs
<1>3. HeldRate(c)' = NoRate /\ \A o \in Callers \ {c} : HeldRate(o)' = HeldRate(o)
  BY <1>1 DEF HeldRate, RateTypeOK
<1>4. RateGiven' = [RateGiven EXCEPT ![c] = NoRate]
  BY <1>3, RateShownIs
<1>5. RateShown' = RateShown
  BY <1>1, RateShownIs DEF ServedRate, Fresh
<1> QED
  BY <1>2, <1>4, <1>5 DEF RS!Take

LEMMA RateTickPasses == ASSUME RateTypeOK, RateTick PROVE RS!Pass
<1>1. /\ since' = IF since < RateTTL THEN since + 1 ELSE RateTTL
      /\ UNCHANGED <<cachedUSDToNGN, stage, rate>>
  BY DEF RateTick
<1>2. RateTTL \in Nat /\ since \in Nat
  BY RateTimeAssumption DEF RateTypeOK
<1>3. ServedRate' = IF ServedRate = NoRate \/ ServedRate.left = 0 THEN NoRate
                    ELSE [ServedRate EXCEPT !.left = @ - 1]
  <2>1. CASE ~Fresh
    <3>1. ~Fresh'
      BY <1>1, <1>2, <2>1 DEF Fresh
    <3> QED
      BY <2>1, <3>1 DEF ServedRate
  <2>2. CASE Fresh
    <3> DEFINE n == RateTTL - 1 - since
    <3>1. ServedRate = [value |-> cachedUSDToNGN, left |-> n] /\ ServedRate /= NoRate
      BY <2>2, ServedRateTypes DEF ServedRate
    <3>2. n \in Nat /\ RateTTL - 1 - since' = n - 1
      BY <1>1, <1>2, <2>2 DEF Fresh
    <3>3. Fresh' <=> n /= 0
      BY <1>1, <1>2, <2>2 DEF Fresh
    <3>4. CASE n = 0
      BY <3>1, <3>3, <3>4 DEF ServedRate
    <3>5. CASE n /= 0
      <4>1. ServedRate' = [value |-> cachedUSDToNGN, left |-> n - 1]
        BY <1>1, <3>2, <3>3, <3>5 DEF ServedRate
      <4> HIDE DEF n
      <4> QED
        BY <3>1, <3>5, <4>1
    <3> QED
      BY <3>4, <3>5
  <2> QED
    BY <2>1, <2>2
<1>4. RateShown' = [k \in {"NGN"} |->
          IF RateShown[k] = NoRate \/ RateShown[k].left = 0 THEN NoRate
          ELSE [RateShown[k] EXCEPT !.left = @ - 1]]
  BY <1>3, RateShownIs
<1>5. RateGiven' = RateGiven
  BY <1>1 DEF RateGiven
<1> QED
  BY <1>4, <1>5 DEF RS!Pass

LEMMA RateStepImplements ==
    RateInductive /\ [RateNext]_rateVars => RS!StoreNext \/ UNCHANGED RS!svars
<1> SUFFICES ASSUME RateInductive, [RateNext]_rateVars
             PROVE  RS!StoreNext \/ UNCHANGED RS!svars
  OBVIOUS
<1>a. RateTypeOK
  BY DEF RateInductive
<1>1. ASSUME NEW c \in Callers, CachedRate(c) PROVE RS!StoreNext
  BY <1>a, <1>1, CachedRateServes DEF RS!StoreNext
<1>2. ASSUME NEW c \in Callers, stage[c] /= "done", stage'[c] /= "done",
             \A o \in Callers \ {c} : stage'[o] = stage[o] /\ rate'[o] = rate[o],
             UNCHANGED cacheVars
      PROVE  UNCHANGED RS!svars
  BY <1>2, RateUnseen DEF HeldRate, ServedRate, Fresh, cacheVars
<1>3. ASSUME NEW c \in Callers,
             AskRate(c) \/ APIAnswers(c) \/ RateArrives(c) \/ AskFails(c)
      PROVE  UNCHANGED RS!svars
  BY <1>a, <1>2, <1>3
  DEF RateTypeOK, AskRate, APIAnswers, RateArrives, AskFails
<1>4. ASSUME NEW c \in Callers, StoreRate(c) PROVE RS!StoreNext
  BY <1>4, StoreRatePuts DEF RS!StoreNext
<1>5. ASSUME NEW c \in Callers, Convert(c) PROVE RS!StoreNext
  BY <1>a, <1>5, ConvertTakes DEF RS!StoreNext
<1>6. ASSUME UNCHANGED <<cacheVars, callVars>> PROVE UNCHANGED RS!svars
  BY <1>6, RateUnseen DEF HeldRate, ServedRate, Fresh, cacheVars, callVars
<1>7. CASE MarketMoves
  BY <1>6, <1>7 DEF MarketMoves
<1>8. CASE RateTick
  BY <1>a, <1>8, RateTickPasses DEF RS!StoreNext
<1>9. CASE RateRestart
  <2>1. ServedRate' = NoRate /\ \A c \in Callers : HeldRate(c)' = NoRate
    BY <1>9 DEF RateRestart, ServedRate, Fresh, HeldRate
  <2>2. RS!Lose
    BY <2>1, RateShownIs DEF RS!Lose
  <2> QED
    BY <2>2 DEF RS!StoreNext
<1>10. CASE UNCHANGED rateVars
  BY <1>6, <1>10 DEF rateVars
<1> QED
  BY <1>1, <1>3, <1>4, <1>5, <1>7, <1>8, <1>9, <1>10 DEF RateNext

\* The cached rate, its mutex and its overlapping misses are a store with a time
\* to live: a rate is served until RateTTL - 1 units after it was stored.
THEOREM RateCacheImplementsStore == RateSpec => RateImplementsStore
<1>1. RateInit => RS!StoreInit
  BY RateShownIs
  DEF RateInit, NoCalls, RS!StoreInit, ServedRate, HeldRate, Fresh
<1>2. RateInductive /\ [RateNext]_rateVars => [RS!StoreNext]_RS!svars
  BY RateStepImplements
<1> QED
  BY <1>1, <1>2, RateInvariant, PTL DEF RateSpec, RateImplementsStore, RS!StoreSpec
=============================================================================
