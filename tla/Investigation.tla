--------------------------- MODULE Investigation ----------------------------
(***************************************************************************)
(* internal/investigation with urlanalyzer, sandbox, walletanalyzer and    *)
(* messageanalyzer: one investigation, from the request (or the scan that  *)
(* makes one) to the assessment.                                           *)
(*                                                                         *)
(* For an address of a page four goroutines collect evidence at the same   *)
(* time and write it to one shared struct: DNS, TLS, threat intelligence   *)
(* and the page itself, which is fetched redirect by redirect, then some   *)
(* of its links are tried.  The analyst (AnalystRace) is asked when all    *)
(* have ended.  Servers answer what they like, every time anew; texts are  *)
(* told apart by their form only.                                          *)
(***************************************************************************)
EXTENDS Naturals, Sequences

CONSTANTS
    Urls,           \* addresses of pages and of what they link to
    Hosts,
    HostOf,         \* the host of each address
    Blocked,        \* hosts that are refused by their name or address
    Unreachable,    \* other hosts that resolve to no public address
    PlainUrls,      \* addresses with http and a port of their own
    ListedUrls,     \* addresses with a domain that the embedded feed lists
    Pages,          \* what servers may deliver
    Requests,       \* what is asked to be investigated
    Claims,         \* entities a model may name by itself
    MaxRedirects,   \* redirects that are followed
    ObserveLimit,   \* links that are observed
    NoUrl           \* no Location header, no address

Tasks == {"dns", "tls", "intel", "page"}

TargetTypes == {"url", "website", "domain", "wallet", "message", "case"}
ScanTypes == {"basic", "mid", "advance", "message", "url", "wallet"}

\* The texts the code tells apart: an address with its scheme; a domain name
\* without; addresses of wallets; a name in .eth; several words, without and
\* with a full stop.
Forms == {"address", "bare", "evm", "ens", "btc", "btc_or_sol", "sol",
          "words", "sentence"}
Networks == {"auto", "ethereum", "bitcoin", "solana", "unsupported"}

Entities ==
    ({"url"} \X Urls) \union ({"domain"} \X Hosts) \union ({"wallet"} \X Forms)

Request ==
    [scan: ScanTypes \union {"none"}, declared: TargetTypes \union {"other"},
     form: Forms, network: Networks, url: Urls, mentions: SUBSET Entities]

Page == [links: Seq(Urls \union {"relative"})]
EmptyPage == [links |-> <<>>]

ASSUME UrlsAssumption ==
    /\ NoUrl \notin Urls
    /\ HostOf \in [Urls -> Hosts]
    /\ "relative" \notin Urls
    /\ Blocked \subseteq Hosts
    /\ Unreachable \subseteq Hosts
    /\ PlainUrls \subseteq Urls
    /\ ListedUrls \subseteq Urls
    /\ Pages \subseteq Page

ASSUME RequestsAssumption ==
    /\ Requests \subseteq Request
    /\ Claims \subseteq Entities

ASSUME LimitsAssumption == MaxRedirects \in Nat /\ ObserveLimit \in Nat

VARIABLES
    request,        \* what is investigated
    stage,          \* how far the manager is
    task,           \* where the four goroutines are
    at,             \* the address the sandbox requests next
    chain,          \* the redirects it has followed
    links,          \* the links of the page that are still to be tried
    seen,           \* the addresses that were tried
    observed,       \* those that answered
    contacted,      \* history: the addresses that answered anything
    evidence,       \* the bundle
    assessment      \* what the analyst or the fallback makes of it

pageVars == <<at, chain, links, seen, observed, contacted>>
vars == <<request, stage, task, pageVars, evidence, assessment>>

-----------------------------------------------------------------------------
(* What kind of target a text is.                                          *)

\* The scan's looksLikeURL and looksLikeWallet: a full stop makes an address.
LooksLikeURL(form) == form \in {"address", "bare", "ens", "sentence"}
ScanLooksLikeWallet(form) == form \in {"evm", "ens"}

\* resolveScanMode and resolvedInvestigationTargetType.
ResolvedInvestigationTargetType(scan, form) ==
    IF scan \in {"message", "url", "wallet"} THEN scan
    ELSE IF LooksLikeURL(form) THEN "url"
    ELSE IF ScanLooksLikeWallet(form) THEN "wallet"
    ELSE "message"

\* The manager's looksLikeWallet.
LooksLikeWallet(form) == form \in {"evm", "ens", "btc", "btc_or_sol", "sol"}

NormalizeTargetType(declared, form) ==
    IF declared \in TargetTypes THEN declared
    ELSE IF LooksLikeWallet(form) THEN "wallet"
    ELSE IF form = "address" THEN "url"
    ELSE IF form = "bare" THEN "domain"
    ELSE "message"

\* What the manager is given: a scan has resolved the type and names no network.
Declared(r) ==
    IF r.scan = "none" THEN r.declared
    ELSE ResolvedInvestigationTargetType(r.scan, r.form)

Network(r) == IF r.scan = "none" THEN r.network ELSE "auto"

ResolvedType(r) == NormalizeTargetType(Declared(r), r.form)

\* ensureURL and ValidateTargetURL, with https:// put before a text without a
\* scheme: words are no host, and some hosts are refused.  Nothing is resolved.
EnsureURL(r) ==
    /\ r.form \notin {"words", "sentence"}
    /\ HostOf[r.url] \notin Blocked

-----------------------------------------------------------------------------
(* Wallets.                                                                *)

\* An address that begins with 1 or 3 is taken for Bitcoin's.
DetectNetwork(form) ==
    IF form \in {"btc", "btc_or_sol"} THEN "bitcoin"
    ELSE IF form = "sol" THEN "solana"
    ELSE "ethereum"

DriverOf(r) ==
    IF Network(r) = "auto" THEN DetectNetwork(r.form) ELSE Network(r)

\* FetchWalletEvidence of the three kinds of drivers: it asks no node, and its
\* only error is an address of another form.
EVMDriver(form) == form = "evm"
BitcoinDriver(form) == form \in {"btc", "btc_or_sol"}
SolanaDriver(form) == form \in {"sol", "btc_or_sol"}

ValidAddress(network, form) ==
    \/ network = "ethereum" /\ EVMDriver(form)
    \/ network = "bitcoin" /\ BitcoinDriver(form)
    \/ network = "solana" /\ SolanaDriver(form)

-----------------------------------------------------------------------------
(* Evidence.                                                               *)

Hop == [from: Urls, to: Urls \union {NoUrl}]

NoRedirects == [chain |-> <<>>, final |-> NoUrl, cross |-> FALSE]

NoEvidence ==
    [domain |-> "none", tls |-> "none", intel |-> "none",
     website |-> NoUrl, redirects |-> NoRedirects, endpoints |-> <<>>,
     wallet |-> "none", entities |-> {}, relationships |-> {}]

Last(s) == s[Len(s)]

\* isCrossDomain: an empty destination has the host "".
IsCrossDomain(from, to) == to = NoUrl \/ HostOf[from] /= HostOf[to]

RedirectsOf(c) ==
    IF c = <<>> THEN NoRedirects
    ELSE [chain |-> c, final |-> Last(c).to,
          cross |-> IsCrossDomain(request.url, Last(c).to)]

\* The target of the bundle is the text; only a text with a scheme is the
\* address itself.
TargetOf(r) == IF r.form = "address" THEN r.url ELSE NoUrl

RedirectRelationships(redirects) ==
    {<<TargetOf(request), "redirects_to", u>> :
        u \in {redirects.final} \ {NoUrl, TargetOf(request)}}
    \union
    {<<redirects.chain[i].from, "redirects_to", redirects.chain[i].to>> :
        i \in {j \in DOMAIN redirects.chain :
                  redirects.chain[j].to \notin {NoUrl, redirects.chain[j].from}}}

MessageRelationships(entities) ==
    {<<NoUrl, IF e[1] = "domain" THEN "mentions" ELSE "extracted_from", e[2]>> :
        e \in entities}

\* ExtractEntities: the host of an address is a domain that is mentioned, too.
ExtractEntities(mentions) ==
    mentions \union
    {<<"domain", HostOf[e[2]]>> : e \in {m \in mentions : m[1] = "url"}}

\* The embedded feed says clean of what it does not list, and VirusTotal says
\* nothing of addresses: it is never "unknown", so the domain is not checked.
CheckURL(u) == IF u \in ListedUrls THEN "malicious" ELSE "clean"

\* evidenceEntitySnapshot and snapshotEntities: the domain has its name
\* whatever the lookups found.
EvidenceEntitySnapshot ==
    IF ResolvedType(request) \in {"url", "website", "domain"}
    THEN {<<"url", request.url>>, <<"domain", HostOf[request.url]>>}
    ELSE IF ResolvedType(request) = "wallet" THEN {<<"wallet", request.form>>}
    ELSE evidence.entities

-----------------------------------------------------------------------------
Relationships ==
    (Urls \union {NoUrl})
        \X {"redirects_to", "mentions", "extracted_from"}
        \X (Urls \union Hosts \union Forms)

Redirects ==
    [chain: Seq(Hop), final: Urls \union {NoUrl}, cross: BOOLEAN]

Evidence ==
    [domain: {"none", "resolved", "unresolved"},
     tls: {"none", "unreachable", "invalid", "valid"},
     intel: {"none", "unknown", "clean", "suspicious", "malicious"},
     website: Urls \union {NoUrl},
     redirects: Redirects,
     endpoints: Seq(Urls),
     wallet: Networks \union {"none"},
     entities: SUBSET Entities,
     relationships: SUBSET Relationships]

TaskStates == {"off", "running", "observing", "done"}

TypeOK ==
    /\ request \in Requests
    /\ stage \in {"requested", "collecting", "assessing", "returned", "failed"}
    /\ task \in [Tasks -> TaskStates]
    /\ \A t \in Tasks : task[t] = "observing" => t = "page"
    /\ at \in Urls
    /\ chain \in Seq(Hop)
    /\ links \in Seq(Urls \union {"relative"})
    /\ seen \subseteq Urls \union {NoUrl}
    /\ observed \in Seq(Urls)
    /\ contacted \subseteq Urls
    /\ evidence \in Evidence
    /\ assessment \in [model: {"none", "gemini", "unavailable"},
                       entities: SUBSET Entities]

Init ==
    /\ request \in Requests
    /\ stage = "requested"
    /\ task = [t \in Tasks |-> "off"]
    /\ at = request.url
    /\ chain = <<>>
    /\ links = <<>>
    /\ seen = {}
    /\ observed = <<>>
    /\ contacted = {}
    /\ evidence = NoEvidence
    /\ assessment = [model |-> "none", entities |-> {}]

-----------------------------------------------------------------------------
(* The manager.                                                            *)

\* Pipeline.Analyze starts its four goroutines.
StartURL ==
    /\ stage = "requested"
    /\ ResolvedType(request) \in {"url", "website", "domain"}
    /\ EnsureURL(request)
    /\ stage' = "collecting"
    /\ task' = [t \in Tasks |-> "running"]
    /\ UNCHANGED <<request, pageVars, evidence, assessment>>

\* The driver only checks the form of the address; the feed is asked then.
AnalyzeWallet ==
    /\ stage = "requested"
    /\ ResolvedType(request) = "wallet"
    /\ ValidAddress(DriverOf(request), request.form)
    /\ stage' = "assessing"
    /\ \E reputation \in {"unknown", "suspicious", "malicious"} :
           evidence' = [evidence EXCEPT !.wallet = DriverOf(request),
                                        !.intel = reputation]
    /\ UNCHANGED <<request, task, pageVars, assessment>>

AnalyzeMessage ==
    /\ stage = "requested"
    /\ ResolvedType(request) \in {"message", "case"}
    /\ stage' = "assessing"
    /\ LET found == ExtractEntities(request.mentions)
       IN  evidence' = [evidence EXCEPT
                            !.entities = found,
                            !.intel = "unknown",
                            !.relationships = MessageRelationships(found)]
    /\ UNCHANGED <<request, task, pageVars, assessment>>

\* A target that is no address, an address the driver does not know, or a
\* network without a driver.
Rejected(r) ==
    \/ ResolvedType(r) \in {"url", "website", "domain"} /\ ~EnsureURL(r)
    \/ ResolvedType(r) = "wallet" /\ ~ValidAddress(DriverOf(r), r.form)

Reject ==
    /\ stage = "requested"
    /\ Rejected(request)
    /\ stage' = "failed"
    /\ UNCHANGED <<request, task, pageVars, evidence, assessment>>

\* Slip: the evidence is used when the page has been read.
CollectedEarly ==
    /\ stage = "collecting"
    /\ task["page"] = "done"
    /\ stage' = "assessing"
    /\ evidence' = [evidence EXCEPT
                        !.relationships = RedirectRelationships(evidence.redirects)]
    /\ UNCHANGED <<request, task, pageVars, assessment>>

\* wg.Wait() returns, and the manager completes the bundle.
Collected ==
    /\ stage = "collecting"
    /\ \A t \in Tasks : task[t] = "done"
    /\ stage' = "assessing"
    /\ evidence' = [evidence EXCEPT
                        !.relationships = RedirectRelationships(evidence.redirects)]
    /\ UNCHANGED <<request, task, pageVars, assessment>>

-----------------------------------------------------------------------------
(* Three of the goroutines.                                                *)

Ends(t) == task' = [task EXCEPT ![t] = "done"]

\* Slip: a domain that does not resolve fails the investigation.
InspectDomainOrFail ==
    /\ task["dns"] = "running"
    /\ Ends("dns")
    /\ \/ /\ evidence' = [evidence EXCEPT !.domain = "resolved"]
          /\ UNCHANGED stage
       \/ /\ stage' = "failed"
          /\ UNCHANGED evidence
    /\ UNCHANGED <<request, pageVars, assessment>>

\* InspectDomain names the domain and adds what the lookups find.
InspectDomain ==
    /\ task["dns"] = "running"
    /\ Ends("dns")
    /\ \E found \in {"resolved", "unresolved"} :
           evidence' = [evidence EXCEPT !.domain = found]
    /\ UNCHANGED <<request, stage, pageVars, assessment>>

\* InspectTLS connects to port 443 of a public address of the host.
InspectTLS ==
    /\ task["tls"] = "running"
    /\ Ends("tls")
    /\ IF request.url \in PlainUrls
       THEN UNCHANGED evidence
       ELSE \E found \in {"unreachable", "invalid", "valid"} :
                /\ HostOf[request.url] \in Unreachable => found = "unreachable"
                /\ evidence' = [evidence EXCEPT !.tls = found]
    /\ UNCHANGED <<request, stage, pageVars, assessment>>

CheckIntel ==
    /\ task["intel"] = "running"
    /\ Ends("intel")
    /\ evidence' = [evidence EXCEPT !.intel = CheckURL(request.url)]
    /\ UNCHANGED <<request, stage, pageVars, assessment>>

-----------------------------------------------------------------------------
(* The page: HTTPSandbox.InspectURL.                                       *)

\* The client dials a public address of a host that is not blocked.
Dials(u) == u \in Urls /\ HostOf[u] \notin Blocked \union Unreachable

\* Slip: a redirect to where the chain has been already is not counted.
PageRedirectsUncounted(to) ==
    /\ task["page"] = "running"
    /\ Dials(at)
    /\ contacted' = contacted \union {at}
    /\ at' = to
    /\ IF \E i \in DOMAIN chain : chain[i] = [from |-> at, to |-> to]
       THEN UNCHANGED chain
       ELSE /\ Len(chain) < MaxRedirects
            /\ chain' = Append(chain, [from |-> at, to |-> to])
    /\ UNCHANGED <<request, stage, task, links, seen, observed, evidence,
                   assessment>>

\* Slip: each hop is recorded as one of the first address.
PageRedirectsFromFirst(to) ==
    /\ task["page"] = "running"
    /\ Dials(at)
    /\ Len(chain) < MaxRedirects
    /\ contacted' = contacted \union {at}
    /\ chain' = Append(chain, [from |-> request.url, to |-> to])
    /\ at' = to
    /\ UNCHANGED <<request, stage, task, links, seen, observed, evidence,
                   assessment>>

PageRedirects(to) ==
    /\ task["page"] = "running"
    /\ Dials(at)
    /\ Len(chain) < MaxRedirects
    /\ contacted' = contacted \union {at}
    /\ chain' = Append(chain, [from |-> at, to |-> to])
    /\ at' = to
    /\ UNCHANGED <<request, stage, task, links, seen, observed, evidence,
                   assessment>>

\* One redirect more than are followed: there is no final response, and no
\* evidence of the chain either.
PageRedirectsTooOften(to) ==
    /\ task["page"] = "running"
    /\ Dials(at)
    /\ Len(chain) = MaxRedirects
    /\ contacted' = contacted \union {at}
    /\ chain' = Append(chain, [from |-> at, to |-> to])
    /\ Ends("page")
    /\ UNCHANGED <<request, stage, at, links, seen, observed, evidence,
                   assessment>>

\* The result of the sandbox; AnalyzeWebsiteContent and the redirect evidence.
Shows(c) ==
    evidence' = [evidence EXCEPT !.website = at, !.redirects = RedirectsOf(c)]

\* A redirect without Location is final, however often there were others.
PageRedirectsNowhere ==
    /\ task["page"] = "running"
    /\ Dials(at)
    /\ contacted' = contacted \union {at}
    /\ chain' = Append(chain, [from |-> at, to |-> NoUrl])
    /\ Shows(chain')
    /\ task' = [task EXCEPT !["page"] = "observing"]
    /\ UNCHANGED <<request, stage, at, links, seen, observed, assessment>>

PageArrives(page) ==
    /\ task["page"] = "running"
    /\ Dials(at)
    /\ contacted' = contacted \union {at}
    /\ links' = page.links
    /\ Shows(chain)
    /\ task' = [task EXCEPT !["page"] = "observing"]
    /\ UNCHANGED <<request, stage, at, chain, seen, observed, assessment>>

\* Nothing is dialled, the connection fails or is too slow, or the body can
\* not be read any more, since its context was cancelled before: what was
\* found up to here is dropped.
PageFails ==
    /\ task["page"] = "running"
    /\ Ends("page")
    /\ UNCHANGED <<request, stage, pageVars, evidence, assessment>>

-----------------------------------------------------------------------------
(* The links: passiveObserveEndpoints.                                     *)

FinalURL == IF chain = <<>> THEN at ELSE Last(chain).to

Resolve(link) == IF link = "relative" THEN FinalURL ELSE link

ObserveAnswers ==
    /\ task["page"] = "observing"
    /\ links /= <<>> /\ Len(observed) < ObserveLimit
    /\ LET u == Resolve(Head(links))
       IN  /\ u \notin seen
           /\ Dials(u)
           /\ seen' = seen \union {u}
           /\ observed' = Append(observed, u)
           /\ contacted' = contacted \union {u}
    /\ links' = Tail(links)
    /\ UNCHANGED <<request, stage, task, at, chain, evidence, assessment>>

\* The address was tried before, is not dialled, or answers neither HEAD nor GET.
ObservePasses ==
    /\ task["page"] = "observing"
    /\ links /= <<>> /\ Len(observed) < ObserveLimit
    /\ seen' = seen \union {Resolve(Head(links))}
    /\ links' = Tail(links)
    /\ UNCHANGED <<request, stage, task, at, chain, observed, contacted,
                   evidence, assessment>>

ObserveEnds ==
    /\ task["page"] = "observing"
    /\ links = <<>> \/ Len(observed) >= ObserveLimit
    /\ Ends("page")
    /\ evidence' = [evidence EXCEPT !.endpoints = observed]
    /\ UNCHANGED <<request, stage, pageVars, assessment>>

PageStep ==
    \/ \E to \in Urls : PageRedirects(to) \/ PageRedirectsTooOften(to)
    \/ \E page \in Pages : PageArrives(page)
    \/ PageRedirectsNowhere
    \/ PageFails
    \/ ObserveAnswers
    \/ ObservePasses
    \/ ObserveEnds

-----------------------------------------------------------------------------
(* The analyst.                                                            *)

Returns(model, entities) ==
    /\ stage = "assessing"
    /\ stage' = "returned"
    /\ assessment' = [model |-> model, entities |-> entities]
    /\ UNCHANGED <<request, task, pageVars, evidence>>

\* Slip: the entities of the answer are taken as they are.
AssessAnsweredAlone(claimed) == Returns("gemini", claimed)

\* A model answered; its entities are merged with those of the evidence.
AssessAnswered(claimed) ==
    Returns("gemini", claimed \union EvidenceEntitySnapshot)

\* No key, or every model failed; or Assess returned an error, and the manager
\* falls back to an assessment of its own.
AssessUnavailable == Returns("unavailable", EvidenceEntitySnapshot)

\* The caller has the result.
Finished == stage \in {"returned", "failed"} /\ UNCHANGED vars

Next ==
    \/ StartURL
    \/ AnalyzeWallet
    \/ AnalyzeMessage
    \/ Reject
    \/ InspectDomain
    \/ InspectTLS
    \/ CheckIntel
    \/ PageStep
    \/ Collected
    \/ \E claimed \in SUBSET Claims : AssessAnswered(claimed)
    \/ AssessUnavailable
    \/ Finished

Spec == Init /\ [][Next]_vars

\* The goroutines run; lookups, connections and requests have timeouts, and the
\* analyst returns (AnalystRace).
Fairness ==
    /\ WF_vars(StartURL \/ AnalyzeWallet \/ AnalyzeMessage \/ Reject)
    /\ WF_vars(InspectDomain)
    /\ WF_vars(InspectTLS)
    /\ WF_vars(CheckIntel)
    /\ WF_vars(PageStep)
    /\ WF_vars(Collected)
    /\ WF_vars(AssessUnavailable \/ \E claimed \in SUBSET Claims :
                                         AssessAnswered(claimed))

FairSpec == Spec /\ Fairness

-----------------------------------------------------------------------------
(* Properties.                                                             *)

\* The chain leads from the target to the final destination, hop by hop, and
\* every hop was really answered by the address it starts from.
ChainConnects ==
    LET r == evidence.redirects
    IN  r.chain /= <<>> =>
            /\ r.chain[1].from = request.url
            /\ \A i \in 1 .. Len(r.chain) - 1 : r.chain[i].to = r.chain[i + 1].from
            /\ \A i \in DOMAIN r.chain : r.chain[i].from \in contacted
            /\ r.final = Last(r.chain).to

\* At most MaxRedirects are followed; one more is recorded only if it leads
\* nowhere.
ChainBounded ==
    LET c == evidence.redirects.chain
    IN  Len(c) <= MaxRedirects \/ (Len(c) = MaxRedirects + 1 /\ Last(c).to = NoUrl)

\* The page that is described is the one the chain ends at.
WebsiteIsFinal ==
    evidence.website /= NoUrl =>
        /\ evidence.website \in contacted
        /\ \/ evidence.redirects = NoRedirects /\ evidence.website = request.url
           \/ evidence.redirects.final = evidence.website
           \/ evidence.redirects.final = NoUrl

\* The redirect chain, the description of the page and the observed endpoints
\* of a result fit together, whatever the servers answer and wherever the
\* fetch ends (InspectURL, Analyze, passiveObserveEndpoints): the chain is one
\* path of bounded length through addresses that answered, the page is its end,
\* and no endpoint is listed twice, beyond the limit, or without an answer.
EvidenceWasSeen ==
    /\ ChainConnects
    /\ ChainBounded
    /\ WebsiteIsFinal
    /\ \A i, j \in DOMAIN evidence.endpoints :
           evidence.endpoints[i] = evidence.endpoints[j] => i = j
    /\ Len(evidence.endpoints) <= ObserveLimit
    /\ \A i \in DOMAIN evidence.endpoints : evidence.endpoints[i] \in contacted

\* The evidence the analyst judges is the evidence of the result: when it is
\* asked no goroutine writes to it any more (wg.Wait in Analyze).
EvidenceIsFrozen ==
    [][(stage \in {"assessing", "returned"}) => evidence' = evidence]_vars

\* What the network does never fails an investigation; one that fails has
\* contacted nobody and leaves no goroutine behind, and one that returns has
\* an assessment and none of its goroutines is running.
FailsBeforeItStarts ==
    /\ stage = "failed" =>
           /\ contacted = {}
           /\ \A t \in Tasks : task[t] = "off"
    /\ stage = "returned" =>
           /\ assessment.model /= "none"
           /\ \A t \in Tasks : task[t] \in {"off", "done"}

\* What is investigated is among the entities of the assessment, and so is all
\* that a message mentions, whatever the analyst names, leaves out, or fails
\* to answer.
EntitiesKept ==
    stage = "returned" =>
        LET kind == ResolvedType(request) IN
        /\ kind \in {"url", "website", "domain"} =>
               {<<"url", request.url>>, <<"domain", HostOf[request.url]>>}
                   \subseteq assessment.entities
        /\ kind = "wallet" => <<"wallet", request.form>> \in assessment.entities
        /\ kind \in {"message", "case"} =>
               /\ request.mentions \subseteq assessment.entities
               /\ \A u \in Urls :
                      <<"url", u>> \in request.mentions =>
                          <<"domain", HostOf[u]>> \in assessment.entities

\* An investigation ends, also when every redirect leads back and every host is
\* slow.
InvestigationEnds == <>(stage \in {"returned", "failed"})

\* The examples the scan routes document for the basic, mid and advance scans
\* are sentences (routes/scan.go:24, 28 and 32).  Such a scan has a result.
SentencesAreScanned ==
    request.scan \in {"basic", "mid", "advance"} /\ request.form = "sentence" =>
        stage /= "failed"
=============================================================================
