------------------------ MODULE Investigation_proofs ------------------------
(***************************************************************************)
(* Proofs about Investigation, for all addresses, pages, requests and      *)
(* limits: the evidence of a result fits together, the analyst judges what *)
(* is returned, failures come before the first contact, and no entity is   *)
(* lost.                                                                   *)
(***************************************************************************)
EXTENDS Investigation, TLAPS

UrlTypes == {"url", "website", "domain"}
TextTypes == {"message", "case"}

\* Nothing has happened yet.
AtStart ==
    /\ task = [t \in Tasks |-> "off"]
    /\ at = request.url
    /\ chain = <<>>
    /\ seen = {}
    /\ observed = <<>>
    /\ contacted = {}
    /\ evidence = NoEvidence

\* Where the goroutines are at each stage of the manager.
Order ==
    /\ stage = "requested" => AtStart
    /\ stage = "failed" => contacted = {} /\ \A t \in Tasks : task[t] = "off"
    /\ stage = "collecting" =>
           /\ ResolvedType(request) \in UrlTypes
           /\ \A t \in Tasks : task[t] /= "off"
    /\ \A t \in Tasks : task[t] \in {"running", "observing"} => stage = "collecting"
    /\ stage = "returned" => assessment.model /= "none"

\* The redirects so far are one path through addresses that answered.
PathInv ==
    /\ chain /= <<>> => chain[1].from = request.url
    /\ \A i \in 1 .. Len(chain) - 1 : chain[i].to = chain[i + 1].from
    /\ \A i \in DOMAIN chain : chain[i].from \in contacted

\* While the page is fetched, the path ends at the next address.
FetchInv ==
    task["page"] \in {"off", "running"} =>
        /\ Len(chain) <= MaxRedirects
        /\ chain = <<>> => at = request.url
        /\ chain /= <<>> => at = chain[Len(chain)].to

\* The links that answered are distinct, few, and were contacted.
ObservedInv ==
    /\ \A i, j \in DOMAIN observed : observed[i] = observed[j] => i = j
    /\ Len(observed) <= ObserveLimit
    /\ \A i \in DOMAIN observed : observed[i] \in contacted /\ observed[i] \in seen

\* What a message mentions is in the bundle, and the snapshot in the assessment.
KeptInv ==
    /\ stage \in {"assessing", "returned"} /\ ResolvedType(request) \in TextTypes =>
           evidence.entities = ExtractEntities(request.mentions)
    /\ stage = "returned" => EvidenceEntitySnapshot \subseteq assessment.entities

IInv ==
    /\ TypeOK
    /\ Order
    /\ PathInv
    /\ FetchInv
    /\ ObservedInv
    /\ EvidenceWasSeen
    /\ KeptInv

-----------------------------------------------------------------------------
(* Types of what the actions put together.                                 *)

LEMMA RequestTypes ==
    /\ request \in Requests => request \in Request
    /\ request \in Request =>
           /\ request.url \in Urls
           /\ HostOf[request.url] \in Hosts
           /\ request.form \in Forms
           /\ request.network \in Networks
           /\ request.mentions \in SUBSET Entities
BY UrlsAssumption, RequestsAssumption DEF Request

LEMMA DriverType == request \in Request => DriverOf(request) \in Networks
BY DEF DriverOf, Network, DetectNetwork, Request, Networks

LEMMA EntityParts ==
    ASSUME NEW e \in Entities
    PROVE  e[2] \in Urls \union Hosts \union Forms
BY DEF Entities

LEMMA ExtractedTypes ==
    ASSUME NEW mentions \in SUBSET Entities
    PROVE  ExtractEntities(mentions) \in SUBSET Entities
<1> SUFFICES ASSUME NEW e \in mentions, e[1] = "url"
             PROVE  <<"domain", HostOf[e[2]]>> \in Entities
    BY DEF ExtractEntities
<1>1. e[2] \in Urls
    BY DEF Entities
<1>2. HostOf[e[2]] \in Hosts
    BY <1>1, UrlsAssumption
<1> QED BY <1>2 DEF Entities

LEMMA MessageRelationshipTypes ==
    ASSUME NEW entities \in SUBSET Entities
    PROVE  MessageRelationships(entities) \in SUBSET Relationships
<1> SUFFICES ASSUME NEW e \in entities
             PROVE  <<NoUrl, IF e[1] = "domain" THEN "mentions" ELSE "extracted_from",
                      e[2]>> \in Relationships
    BY DEF MessageRelationships
<1>1. e[2] \in Urls \union Hosts \union Forms
    BY EntityParts
<1> QED BY <1>1 DEF Relationships

LEMMA RedirectRelationshipTypes ==
    ASSUME request \in Request, NEW redirects \in Redirects
    PROVE  RedirectRelationships(redirects) \in SUBSET Relationships
<1>1. TargetOf(request) \in Urls \union {NoUrl}
    BY RequestTypes DEF TargetOf
<1>2. ASSUME NEW u \in {redirects.final} \ {NoUrl, TargetOf(request)}
      PROVE  <<TargetOf(request), "redirects_to", u>> \in Relationships
    BY <1>1, <1>2 DEF Relationships, Redirects
<1>3. ASSUME NEW i \in DOMAIN redirects.chain,
             redirects.chain[i].to \notin {NoUrl, redirects.chain[i].from}
      PROVE  <<redirects.chain[i].from, "redirects_to", redirects.chain[i].to>>
                 \in Relationships
    <2>1. redirects.chain \in Seq(Hop)
        BY DEF Redirects
    <2>2. redirects.chain[i] \in Hop
        BY <2>1
    <2>3. redirects.chain[i].from \in Urls /\ redirects.chain[i].to \in Urls
        BY <2>2, <1>3 DEF Hop
    <2> QED BY <2>3 DEF Relationships
<1> QED BY <1>2, <1>3 DEF RedirectRelationships

LEMMA NoRedirectsType == NoRedirects \in Redirects
BY DEF NoRedirects, Redirects

LEMMA RedirectsOfType ==
    ASSUME NEW c \in Seq(Hop)
    PROVE  RedirectsOf(c) \in Redirects
<1>1. CASE c = <<>>
    BY <1>1, NoRedirectsType DEF RedirectsOf
<1>2. CASE c /= <<>>
    <2>1. Last(c) \in Hop
        BY <1>2 DEF Last
    <2>2. Last(c).to \in Urls \union {NoUrl}
        BY <2>1 DEF Hop
    <2>3. IsCrossDomain(request.url, Last(c).to) \in BOOLEAN
        BY DEF IsCrossDomain
    <2> QED BY <1>2, <2>2, <2>3 DEF RedirectsOf, Redirects
<1> QED BY <1>1, <1>2

LEMMA NoEvidenceType == NoEvidence \in Evidence
BY NoRedirectsType DEF NoEvidence, Evidence

LEMMA SnapshotTypes ==
    ASSUME request \in Request, evidence \in Evidence
    PROVE  EvidenceEntitySnapshot \in SUBSET Entities
<1>1. <<"url", request.url>> \in Entities
    BY RequestTypes DEF Entities
<1>2. <<"domain", HostOf[request.url]>> \in Entities
    BY RequestTypes DEF Entities
<1>3. <<"wallet", request.form>> \in Entities
    BY RequestTypes DEF Entities
<1>4. evidence.entities \in SUBSET Entities
    BY DEF Evidence
<1> QED BY <1>1, <1>2, <1>3, <1>4 DEF EvidenceEntitySnapshot

-----------------------------------------------------------------------------
(* The invariant.                                                          *)

LEMMA InitInvariant == Init => IInv
<1> SUFFICES ASSUME Init PROVE IInv
    OBVIOUS
<1> USE DEF Init
<1>1. TypeOK
    <2>1. at \in Urls
        BY RequestTypes
    <2>2. task \in [Tasks -> TaskStates]
        BY DEF TaskStates
    <2>3. assessment \in [model: {"none", "gemini", "unavailable"},
                          entities: SUBSET Entities]
        OBVIOUS
    <2> QED BY <2>1, <2>2, <2>3, NoEvidenceType DEF TypeOK
<1>2. Order
    BY DEF Order, AtStart
<1>3. PathInv /\ ObservedInv
    BY LimitsAssumption DEF PathInv, ObservedInv
<1>4. FetchInv
    BY LimitsAssumption DEF FetchInv
<1>5. EvidenceWasSeen
    BY LimitsAssumption DEF EvidenceWasSeen, ChainConnects, ChainBounded,
       WebsiteIsFinal, NoEvidence, NoRedirects
<1>6. KeptInv
    BY DEF KeptInv
<1> QED BY <1>1, <1>2, <1>3, <1>4, <1>5, <1>6 DEF IInv

\* What is known of the page stays true when only other evidence changes.
LEMMA PagePartKept ==
    ASSUME IInv, UNCHANGED <<request, chain, seen, observed, contacted>>,
           evidence'.redirects = evidence.redirects,
           evidence'.website = evidence.website,
           evidence'.endpoints = evidence.endpoints
    PROVE  PathInv' /\ ObservedInv' /\ EvidenceWasSeen'
BY DEF IInv, PathInv, ObservedInv, EvidenceWasSeen, ChainConnects, ChainBounded,
   WebsiteIsFinal

\* Requests that are rejected, and assessments, leave the evidence alone.
LEMMA StartURLKeeps == IInv /\ StartURL => IInv'
<1> SUFFICES ASSUME IInv, StartURL PROVE IInv'
    OBVIOUS
<1> USE DEF IInv, StartURL, pageVars
<1>1. TypeOK'
    BY DEF TypeOK, TaskStates
<1>2. Order'
    BY DEF Order, UrlTypes, ResolvedType, Declared
<1>3. PathInv' /\ ObservedInv' /\ EvidenceWasSeen'
    BY PagePartKept
<1>4. FetchInv'
    BY DEF FetchInv, Order, AtStart, Tasks
<1>5. KeptInv'
    BY DEF KeptInv
<1> QED BY <1>1, <1>2, <1>3, <1>4, <1>5

LEMMA RejectKeeps == IInv /\ Reject => IInv'
<1> SUFFICES ASSUME IInv, Reject PROVE IInv'
    OBVIOUS
<1> USE DEF IInv, Reject, pageVars
<1>1. TypeOK'
    BY DEF TypeOK
<1>2. Order'
    BY DEF Order, AtStart
<1>3. PathInv' /\ ObservedInv' /\ EvidenceWasSeen'
    BY PagePartKept
<1>4. FetchInv'
    BY DEF FetchInv
<1>5. KeptInv'
    BY DEF KeptInv
<1> QED BY <1>1, <1>2, <1>3, <1>4, <1>5

LEMMA AnalyzeWalletKeeps == IInv /\ AnalyzeWallet => IInv'
<1> SUFFICES ASSUME IInv, AnalyzeWallet PROVE IInv'
    OBVIOUS
<1> USE DEF IInv, AnalyzeWallet, pageVars
<1>1. TypeOK'
    <2>1. DriverOf(request) \in Networks
        BY RequestTypes, DriverType DEF TypeOK
    <2>2. evidence' \in Evidence
        BY <2>1, ZenonT(60) DEF TypeOK, Evidence
    <2> QED BY <2>2 DEF TypeOK
<1>2. Order'
    BY DEF Order, AtStart
<1>3. evidence \in Evidence
    BY DEF TypeOK
<1>4. /\ evidence'.redirects = evidence.redirects
      /\ evidence'.website = evidence.website
      /\ evidence'.endpoints = evidence.endpoints
    BY <1>3 DEF Evidence
<1>5. PathInv' /\ ObservedInv' /\ EvidenceWasSeen'
    BY <1>4, PagePartKept
<1>6. FetchInv'
    BY DEF FetchInv
<1>7. KeptInv'
    BY DEF KeptInv, TextTypes
<1> QED BY <1>1, <1>2, <1>5, <1>6, <1>7

LEMMA AnalyzeMessageKeeps == IInv /\ AnalyzeMessage => IInv'
<1> SUFFICES ASSUME IInv, AnalyzeMessage PROVE IInv'
    OBVIOUS
<1> USE DEF IInv, AnalyzeMessage, pageVars
<1> DEFINE found == ExtractEntities(request.mentions)
<1>1. evidence \in Evidence /\ evidence' = [evidence EXCEPT
                            !.entities = found,
                            !.intel = "unknown",
                            !.relationships = MessageRelationships(found)]
    BY DEF TypeOK
<1>2. found \in SUBSET Entities
    BY RequestTypes, ExtractedTypes DEF TypeOK
<1>3. MessageRelationships(found) \in SUBSET Relationships
    BY <1>2, MessageRelationshipTypes
<1> HIDE DEF found
<1>4. TypeOK'
    <2>1. evidence' \in Evidence
        BY <1>1, <1>2, <1>3 DEF Evidence
    <2> QED BY <2>1 DEF TypeOK
<1>5. Order'
    BY DEF Order, AtStart
<1>6. /\ evidence'.redirects = evidence.redirects
      /\ evidence'.website = evidence.website
      /\ evidence'.endpoints = evidence.endpoints
      /\ evidence'.entities = found
    BY <1>1 DEF Evidence
<1>7. PathInv' /\ ObservedInv' /\ EvidenceWasSeen'
    BY <1>6, PagePartKept
<1>8. FetchInv'
    BY DEF FetchInv
<1>9. KeptInv'
    BY <1>6 DEF KeptInv, found
<1> QED BY <1>4, <1>5, <1>7, <1>8, <1>9

LEMMA CollectedKeeps == IInv /\ Collected => IInv'
<1> SUFFICES ASSUME IInv, Collected PROVE IInv'
    OBVIOUS
<1> USE DEF IInv, Collected, pageVars
<1>1. evidence \in Evidence /\ request \in Request
    BY RequestTypes DEF TypeOK
<1>2. TypeOK'
    <2>1. RedirectRelationships(evidence.redirects) \in SUBSET Relationships
        BY <1>1, RedirectRelationshipTypes DEF Evidence
    <2>2. evidence' \in Evidence
        BY <1>1, <2>1 DEF Evidence
    <2> QED BY <2>2 DEF TypeOK
<1>3. Order'
    BY DEF Order
<1>4. /\ evidence'.redirects = evidence.redirects
      /\ evidence'.website = evidence.website
      /\ evidence'.endpoints = evidence.endpoints
    BY <1>1 DEF Evidence
<1>5. PathInv' /\ ObservedInv' /\ EvidenceWasSeen'
    BY <1>4, PagePartKept
<1>6. FetchInv'
    BY DEF FetchInv
<1>7. KeptInv'
    BY DEF KeptInv, Order, TextTypes, UrlTypes
<1> QED BY <1>2, <1>3, <1>5, <1>6, <1>7

-----------------------------------------------------------------------------
(* Three of the goroutines.                                                *)

\* A goroutine that ends leaves the rest in order.
LEMMA TaskEndsInOrder ==
    ASSUME IInv, NEW t \in Tasks, task[t] \in {"running", "observing"}, Ends(t),
           UNCHANGED <<request, stage, assessment>>
    PROVE  /\ Order'
           /\ task' \in [Tasks -> TaskStates]
           /\ \A u \in Tasks : task'[u] = "observing" => u = "page"
           /\ task'[t] = "done"
           /\ \A u \in Tasks \ {t} : task'[u] = task[u]
           /\ stage = "collecting"
<1>1. stage = "collecting"
    BY DEF IInv, Order
<1>2. task \in [Tasks -> TaskStates]
    BY DEF IInv, TypeOK
<1>3. /\ task' \in [Tasks -> TaskStates]
      /\ task'[t] = "done"
      /\ \A u \in Tasks \ {t} : task'[u] = task[u]
    BY <1>2 DEF Ends, TaskStates
<1>4. \A u \in Tasks : task'[u] = "observing" => u = "page"
    BY <1>3 DEF IInv, TypeOK
<1>5. Order'
    BY <1>1, <1>3 DEF IInv, Order, ResolvedType, Declared
<1> QED BY <1>1, <1>3, <1>4, <1>5

LEMMA KeptWhileCollecting ==
    ASSUME stage' = "collecting"
    PROVE  KeptInv'
BY DEF KeptInv

\* The three write a field of their own, and know nothing of the page.
LEMMA OtherTaskKeeps ==
    ASSUME IInv, NEW t \in Tasks \ {"page"}, task[t] = "running", Ends(t),
           UNCHANGED <<request, stage, pageVars, assessment>>,
           evidence' \in Evidence,
           evidence'.redirects = evidence.redirects,
           evidence'.website = evidence.website,
           evidence'.endpoints = evidence.endpoints
    PROVE  IInv'
<1> USE DEF pageVars
<1>1. /\ Order'
      /\ task' \in [Tasks -> TaskStates]
      /\ \A u \in Tasks : task'[u] = "observing" => u = "page"
      /\ \A u \in Tasks \ {t} : task'[u] = task[u]
      /\ stage = "collecting"
    BY TaskEndsInOrder
<1>2. TypeOK'
    BY <1>1 DEF IInv, TypeOK
<1>3. PathInv' /\ ObservedInv' /\ EvidenceWasSeen'
    BY PagePartKept
<1>4. FetchInv'
    <2>1. task'["page"] = task["page"]
        BY <1>1 DEF Tasks
    <2> QED BY <2>1 DEF IInv, FetchInv
<1>5. KeptInv'
    BY <1>1, KeptWhileCollecting
<1> QED BY <1>1, <1>2, <1>3, <1>4, <1>5 DEF IInv

LEMMA InspectDomainKeeps == IInv /\ InspectDomain => IInv'
<1> SUFFICES ASSUME IInv, InspectDomain PROVE IInv'
    OBVIOUS
<1>1. evidence \in Evidence
    BY DEF IInv, TypeOK
<1>2. PICK found \in {"resolved", "unresolved"} :
          evidence' = [evidence EXCEPT !.domain = found]
    BY DEF InspectDomain
<1>3. /\ evidence' \in Evidence
      /\ evidence'.redirects = evidence.redirects
      /\ evidence'.website = evidence.website
      /\ evidence'.endpoints = evidence.endpoints
    BY <1>1, <1>2 DEF Evidence
<1> QED BY <1>3, OtherTaskKeeps DEF InspectDomain, Tasks

LEMMA InspectTLSKeeps == IInv /\ InspectTLS => IInv'
<1> SUFFICES ASSUME IInv, InspectTLS PROVE IInv'
    OBVIOUS
<1>1. evidence \in Evidence
    BY DEF IInv, TypeOK
<1>2. /\ evidence' \in Evidence
      /\ evidence'.redirects = evidence.redirects
      /\ evidence'.website = evidence.website
      /\ evidence'.endpoints = evidence.endpoints
    <2>1. CASE UNCHANGED evidence
        BY <1>1, <2>1
    <2>2. CASE \E found \in {"unreachable", "invalid", "valid"} :
                   /\ HostOf[request.url] \in Unreachable => found = "unreachable"
                   /\ evidence' = [evidence EXCEPT !.tls = found]
        <3>1. PICK found \in {"unreachable", "invalid", "valid"} :
                  evidence' = [evidence EXCEPT !.tls = found]
            BY <2>2
        <3> QED BY <1>1, <3>1 DEF Evidence
    <2> QED BY <2>1, <2>2 DEF InspectTLS
<1> QED BY <1>2, OtherTaskKeeps DEF InspectTLS, Tasks

LEMMA CheckIntelKeeps == IInv /\ CheckIntel => IInv'
<1> SUFFICES ASSUME IInv, CheckIntel PROVE IInv'
    OBVIOUS
<1>1. evidence \in Evidence
    BY DEF IInv, TypeOK
<1>2. CheckURL(request.url) \in {"malicious", "clean"}
    BY DEF CheckURL
<1>3. evidence' = [evidence EXCEPT !.intel = CheckURL(request.url)]
    BY DEF CheckIntel
<1>4. /\ evidence' \in Evidence
      /\ evidence'.redirects = evidence.redirects
      /\ evidence'.website = evidence.website
      /\ evidence'.endpoints = evidence.endpoints
    BY <1>1, <1>2, <1>3 DEF Evidence
<1> QED BY <1>4, OtherTaskKeeps DEF CheckIntel, Tasks

-----------------------------------------------------------------------------
(* The page.                                                               *)

\* One more hop continues the path.
LEMMA PathGrows ==
    ASSUME IInv, task["page"] = "running", NEW to \in Urls \union {NoUrl},
           contacted' = contacted \union {at},
           chain' = Append(chain, [from |-> at, to |-> to]),
           UNCHANGED request
    PROVE  /\ chain' \in Seq(Hop)
           /\ Len(chain') = Len(chain) + 1
           /\ chain' /= <<>>
           /\ chain'[Len(chain')] = [from |-> at, to |-> to]
           /\ PathInv'
<1> DEFINE hop == [from |-> at, to |-> to]
<1>1. chain \in Seq(Hop) /\ at \in Urls
    BY DEF IInv, TypeOK
<1>2. hop \in Hop
    BY <1>1 DEF Hop
<1>3. hop.from = at
    OBVIOUS
<1>4. chain' = Append(chain, hop)
    OBVIOUS
<1> HIDE DEF hop
<1>5. /\ chain' \in Seq(Hop)
      /\ Len(chain') = Len(chain) + 1
      /\ DOMAIN chain' = 1 .. Len(chain) + 1
      /\ \A i \in 1 .. Len(chain) : chain'[i] = chain[i]
      /\ chain'[Len(chain) + 1] = hop
      /\ Len(chain) \in Nat
    BY <1>1, <1>2, <1>4
<1>6. chain' /= <<>>
    BY <1>5
<1>7. /\ chain = <<>> => at = request.url
      /\ chain /= <<>> => at = chain[Len(chain)].to
    BY DEF IInv, FetchInv
<1>8. chain'[1].from = request'.url
    <2>1. CASE chain = <<>>
        BY <1>3, <1>5, <1>7, <2>1
    <2>2. CASE chain /= <<>>
        <3>1. Len(chain) >= 1
            BY <1>1, <2>2
        <3>2. chain'[1] = chain[1]
            BY <1>5, <3>1
        <3> QED BY <2>2, <3>2 DEF IInv, PathInv
    <2> QED BY <2>1, <2>2
<1>9. ASSUME NEW i \in 1 .. Len(chain') - 1
      PROVE  chain'[i].to = chain'[i + 1].from
    <2>1. i \in 1 .. Len(chain)
        BY <1>5
    <2>2. CASE i < Len(chain)
        <3>1. i \in 1 .. Len(chain) - 1 /\ i + 1 \in 1 .. Len(chain)
            BY <1>5, <2>1, <2>2
        <3>2. chain[i].to = chain[i + 1].from
            BY <3>1 DEF IInv, PathInv
        <3> QED BY <1>5, <2>1, <3>1, <3>2
    <2>3. CASE i = Len(chain)
        <3>1. chain /= <<>>
            BY <1>1, <2>1, <2>3
        <3> QED BY <1>3, <1>5, <1>7, <2>1, <2>3, <3>1
    <2> QED BY <1>5, <2>1, <2>2, <2>3
<1>10. ASSUME NEW i \in DOMAIN chain' PROVE chain'[i].from \in contacted'
    <2>1. CASE i \in 1 .. Len(chain)
        <3>1. chain[i].from \in contacted
            BY <1>1, <2>1 DEF IInv, PathInv
        <3> QED BY <1>5, <2>1, <3>1
    <2>2. CASE i = Len(chain) + 1
        BY <1>3, <1>5, <2>2
    <2> QED BY <1>5, <2>1, <2>2
<1>11. PathInv'
    BY <1>6, <1>8, <1>9, <1>10 DEF PathInv
<1>12. chain'[Len(chain')] = hop
    BY <1>5
<1> QED BY <1>5, <1>6, <1>11, <1>12 DEF hop

\* What is in the bundle stays true when more is contacted.
LEMMA EvidencePartKept ==
    ASSUME IInv, UNCHANGED <<request, evidence>>, contacted \subseteq contacted'
    PROVE  EvidenceWasSeen'
BY DEF IInv, EvidenceWasSeen, ChainConnects, ChainBounded, WebsiteIsFinal

LEMMA ObservedPartKept ==
    ASSUME IInv, UNCHANGED <<seen, observed>>, contacted \subseteq contacted'
    PROVE  ObservedInv'
BY DEF IInv, ObservedInv

\* The description of the page fits the path that leads to it.
LEMMA ShownFits ==
    ASSUME IInv, NEW c \in Seq(Hop), Shows(c), PathInv', chain' = c,
           UNCHANGED <<request, at>>,
           contacted' = contacted \union {at},
           Len(c) <= MaxRedirects
               \/ (Len(c) = MaxRedirects + 1 /\ c[Len(c)].to = NoUrl),
           c = <<>> => at = request.url,
           c /= <<>> => c[Len(c)].to \in {at, NoUrl}
    PROVE  evidence' \in Evidence /\ EvidenceWasSeen'
<1>1. evidence \in Evidence /\ at \in Urls
    BY DEF IInv, TypeOK
<1>2. RedirectsOf(c) \in Redirects
    BY RedirectsOfType
<1>3. evidence' = [evidence EXCEPT !.website = at, !.redirects = RedirectsOf(c)]
    BY DEF Shows
<1>4. /\ evidence' \in Evidence
      /\ evidence'.redirects = RedirectsOf(c)
      /\ evidence'.website = at
      /\ evidence'.endpoints = evidence.endpoints
    BY <1>1, <1>2, <1>3 DEF Evidence
<1>5. CASE c = <<>>
    <2>1. evidence'.redirects = NoRedirects
        BY <1>4, <1>5 DEF RedirectsOf
    <2>2. ChainConnects' /\ ChainBounded'
        BY <2>1, LimitsAssumption DEF ChainConnects, ChainBounded, NoRedirects
    <2>3. WebsiteIsFinal'
        BY <1>4, <1>5, <2>1 DEF WebsiteIsFinal
    <2> QED BY <1>4, <2>2, <2>3 DEF IInv, EvidenceWasSeen
<1>6. CASE c /= <<>>
    <2>1. evidence'.redirects.chain = c /\ evidence'.redirects.final = Last(c).to
        BY <1>4, <1>6 DEF RedirectsOf
    <2>2. ChainConnects'
        BY <1>6, <2>1 DEF ChainConnects, PathInv, Last
    <2>3. ChainBounded'
        BY <1>6, <2>1 DEF ChainBounded, Last
    <2>4. WebsiteIsFinal'
        BY <1>4, <1>6, <2>1 DEF WebsiteIsFinal, Last
    <2> QED BY <1>4, <2>2, <2>3, <2>4 DEF IInv, EvidenceWasSeen
<1> QED BY <1>4, <1>5, <1>6

LEMMA PageRedirectsKeeps ==
    ASSUME NEW to \in Urls
    PROVE  IInv /\ PageRedirects(to) => IInv'
<1> SUFFICES ASSUME IInv, PageRedirects(to) PROVE IInv'
    OBVIOUS
<1> USE DEF PageRedirects
<1>1. stage = "collecting"
    BY DEF IInv, Order, Tasks
<1>2. /\ chain' \in Seq(Hop)
      /\ Len(chain') = Len(chain) + 1
      /\ chain' /= <<>>
      /\ chain'[Len(chain')] = [from |-> at, to |-> to]
      /\ PathInv'
    BY PathGrows
<1>3. TypeOK'
    BY <1>2 DEF IInv, TypeOK
<1>4. Order'
    BY <1>1 DEF IInv, Order
<1>5. FetchInv'
    BY <1>2, LimitsAssumption DEF IInv, FetchInv, TypeOK
<1>6. ObservedInv' /\ EvidenceWasSeen'
    BY ObservedPartKept, EvidencePartKept
<1>7. KeptInv'
    BY <1>1, KeptWhileCollecting
<1> QED BY <1>2, <1>3, <1>4, <1>5, <1>6, <1>7 DEF IInv

LEMMA PageRedirectsTooOftenKeeps ==
    ASSUME NEW to \in Urls
    PROVE  IInv /\ PageRedirectsTooOften(to) => IInv'
<1> SUFFICES ASSUME IInv, PageRedirectsTooOften(to) PROVE IInv'
    OBVIOUS
<1> USE DEF PageRedirectsTooOften
<1>1. /\ Order'
      /\ task' \in [Tasks -> TaskStates]
      /\ \A u \in Tasks : task'[u] = "observing" => u = "page"
      /\ task'["page"] = "done"
      /\ stage = "collecting"
    BY TaskEndsInOrder DEF Tasks
<1>2. chain' \in Seq(Hop) /\ PathInv'
    BY PathGrows
<1>3. TypeOK'
    BY <1>1, <1>2 DEF IInv, TypeOK
<1>4. FetchInv'
    BY <1>1 DEF FetchInv
<1>5. ObservedInv' /\ EvidenceWasSeen'
    BY ObservedPartKept, EvidencePartKept
<1>6. KeptInv'
    BY <1>1, KeptWhileCollecting
<1> QED BY <1>1, <1>2, <1>3, <1>4, <1>5, <1>6 DEF IInv

\* From the page to its links.
LEMMA ObservingInOrder ==
    ASSUME IInv, task["page"] = "running",
           task' = [task EXCEPT !["page"] = "observing"],
           UNCHANGED <<request, stage, assessment>>
    PROVE  /\ Order'
           /\ task' \in [Tasks -> TaskStates]
           /\ \A u \in Tasks : task'[u] = "observing" => u = "page"
           /\ task'["page"] = "observing"
           /\ stage = "collecting"
<1>1. stage = "collecting"
    BY DEF IInv, Order, Tasks
<1>2. task \in [Tasks -> TaskStates] /\ "page" \in Tasks
    BY DEF IInv, TypeOK, Tasks
<1>3. /\ task' \in [Tasks -> TaskStates]
      /\ task'["page"] = "observing"
      /\ \A u \in Tasks \ {"page"} : task'[u] = task[u]
    BY <1>2 DEF TaskStates
<1>4. \A u \in Tasks : task'[u] = "observing" => u = "page"
    BY <1>3 DEF IInv, TypeOK
<1>5. Order'
    BY <1>1, <1>3 DEF IInv, Order, ResolvedType, Declared
<1> QED BY <1>1, <1>3, <1>4, <1>5

LEMMA PageRedirectsNowhereKeeps == IInv /\ PageRedirectsNowhere => IInv'
<1> SUFFICES ASSUME IInv, PageRedirectsNowhere PROVE IInv'
    OBVIOUS
<1> USE DEF PageRedirectsNowhere
<1>1. /\ Order'
      /\ task' \in [Tasks -> TaskStates]
      /\ \A u \in Tasks : task'[u] = "observing" => u = "page"
      /\ task'["page"] = "observing"
      /\ stage = "collecting"
    BY ObservingInOrder
<1>2. /\ chain' \in Seq(Hop)
      /\ Len(chain') = Len(chain) + 1
      /\ chain' /= <<>>
      /\ chain'[Len(chain')] = [from |-> at, to |-> NoUrl]
      /\ PathInv'
    BY PathGrows
<1>3. Len(chain) <= MaxRedirects /\ Len(chain) \in Nat
    BY DEF IInv, FetchInv, TypeOK
<1>4. Len(chain') <= MaxRedirects
          \/ (Len(chain') = MaxRedirects + 1 /\ chain'[Len(chain')].to = NoUrl)
    BY <1>2, <1>3, LimitsAssumption
<1>5. evidence' \in Evidence /\ EvidenceWasSeen'
    <2>1. PICK c \in Seq(Hop) : c = chain'
        BY <1>2
    <2>2. Shows(c)
        BY <2>1 DEF Shows
    <2>3. /\ PathInv'
          /\ chain' = c
          /\ UNCHANGED <<request, at>>
          /\ contacted' = contacted \union {at}
        BY <1>2, <2>1
    <2>4. Len(c) <= MaxRedirects
              \/ (Len(c) = MaxRedirects + 1 /\ c[Len(c)].to = NoUrl)
        BY <1>4, <2>1
    <2>5. c /= <<>> /\ c[Len(c)].to \in {at, NoUrl}
        BY <1>2, <2>1
    <2> HIDE DEF PageRedirectsNowhere
    <2> QED BY <2>2, <2>3, <2>4, <2>5, ShownFits
<1>6. TypeOK'
    BY <1>1, <1>2, <1>5 DEF IInv, TypeOK
<1>7. FetchInv'
    BY <1>1 DEF FetchInv
<1>8. ObservedInv'
    BY ObservedPartKept
<1>9. KeptInv'
    BY <1>1, KeptWhileCollecting
<1> QED BY <1>1, <1>2, <1>5, <1>6, <1>7, <1>8, <1>9 DEF IInv

LEMMA PageArrivesKeeps ==
    ASSUME NEW page \in Pages
    PROVE  IInv /\ PageArrives(page) => IInv'
<1> SUFFICES ASSUME IInv, PageArrives(page) PROVE IInv'
    OBVIOUS
<1> USE DEF PageArrives
<1>1. /\ Order'
      /\ task' \in [Tasks -> TaskStates]
      /\ \A u \in Tasks : task'[u] = "observing" => u = "page"
      /\ task'["page"] = "observing"
      /\ stage = "collecting"
    BY ObservingInOrder
<1>2. chain \in Seq(Hop) /\ chain' = chain
    BY DEF IInv, TypeOK
<1>3. PathInv'
    BY DEF IInv, PathInv
<1>4. /\ Len(chain) <= MaxRedirects
      /\ chain = <<>> => at = request.url
      /\ chain /= <<>> => at = chain[Len(chain)].to
    BY DEF IInv, FetchInv
<1>5. evidence' \in Evidence /\ EvidenceWasSeen'
    BY <1>2, <1>3, <1>4, ShownFits
<1>6. links' \in Seq(Urls \union {"relative"})
    BY UrlsAssumption DEF Page
<1>7. TypeOK'
    BY <1>1, <1>5, <1>6 DEF IInv, TypeOK
<1>8. FetchInv'
    BY <1>1 DEF FetchInv
<1>9. ObservedInv'
    BY ObservedPartKept
<1>10. KeptInv'
    BY <1>1, KeptWhileCollecting
<1> QED BY <1>1, <1>3, <1>5, <1>7, <1>8, <1>9, <1>10 DEF IInv

LEMMA PageFailsKeeps == IInv /\ PageFails => IInv'
<1> SUFFICES ASSUME IInv, PageFails PROVE IInv'
    OBVIOUS
<1> USE DEF PageFails, pageVars
<1>1. /\ Order'
      /\ task' \in [Tasks -> TaskStates]
      /\ \A u \in Tasks : task'[u] = "observing" => u = "page"
      /\ task'["page"] = "done"
      /\ stage = "collecting"
    BY TaskEndsInOrder DEF Tasks
<1>2. TypeOK'
    BY <1>1 DEF IInv, TypeOK
<1>3. PathInv' /\ ObservedInv' /\ EvidenceWasSeen'
    BY PagePartKept
<1>4. FetchInv'
    BY <1>1 DEF FetchInv
<1>5. KeptInv'
    BY <1>1, KeptWhileCollecting
<1> QED BY <1>1, <1>2, <1>3, <1>4, <1>5 DEF IInv

-----------------------------------------------------------------------------
(* The links.                                                              *)

LEMMA ObserveAnswersKeeps == IInv /\ ObserveAnswers => IInv'
<1> SUFFICES ASSUME IInv, ObserveAnswers PROVE IInv'
    OBVIOUS
<1> USE DEF ObserveAnswers
<1> DEFINE u == Resolve(Head(links))
<1>1. /\ u \notin seen
      /\ seen' = seen \union {u}
      /\ observed' = Append(observed, u)
      /\ contacted' = contacted \union {u}
    OBVIOUS
<1>2. /\ task["page"] = "observing" /\ stage = "collecting"
      /\ links \in Seq(Urls \union {"relative"}) /\ links /= <<>>
      /\ observed \in Seq(Urls) /\ chain \in Seq(Hop) /\ at \in Urls
    BY DEF IInv, TypeOK, Order, Tasks
<1>3. links' \in Seq(Urls \union {"relative"})
    BY <1>2
<1>4. u \in Urls \union {NoUrl}
    <2>1. Head(links) \in Urls \union {"relative"}
        BY <1>2
    <2>2. FinalURL \in Urls \union {NoUrl}
        <3>1. chain /= <<>> => Last(chain) \in Hop
            BY <1>2 DEF Last
        <3> QED BY <1>2, <3>1 DEF FinalURL, Hop
    <2> QED BY <2>1, <2>2 DEF Resolve
<1>5. u \in Urls
    BY <1>4 DEF Dials
<1> HIDE DEF u
<1>6. TypeOK'
    BY <1>1, <1>2, <1>3, <1>5 DEF IInv, TypeOK
<1>7. Order'
    BY <1>2 DEF IInv, Order
<1>8. PathInv' /\ EvidenceWasSeen'
    BY <1>1, EvidencePartKept DEF IInv, PathInv
<1>9. FetchInv'
    BY <1>2 DEF FetchInv
<1>10. ObservedInv'
    <2>1. /\ Len(observed) \in Nat
          /\ Len(observed') = Len(observed) + 1
          /\ DOMAIN observed = 1 .. Len(observed)
          /\ DOMAIN observed' = 1 .. Len(observed) + 1
          /\ \A i \in 1 .. Len(observed) : observed'[i] = observed[i]
          /\ observed'[Len(observed) + 1] = u
        BY <1>1, <1>2, <1>5
    <2>2. \A i \in 1 .. Len(observed) :
              observed[i] \in contacted /\ observed[i] \in seen
        BY <2>1 DEF IInv, ObservedInv
    <2>3. \A i, j \in DOMAIN observed' : observed'[i] = observed'[j] => i = j
        BY <1>1, <2>1, <2>2 DEF IInv, ObservedInv
    <2>4. Len(observed') <= ObserveLimit
        BY <2>1, LimitsAssumption
    <2>5. \A i \in DOMAIN observed' :
              observed'[i] \in contacted' /\ observed'[i] \in seen'
        BY <1>1, <2>1, <2>2
    <2> QED BY <2>3, <2>4, <2>5 DEF ObservedInv
<1>11. KeptInv'
    BY <1>2, KeptWhileCollecting
<1> QED BY <1>6, <1>7, <1>8, <1>9, <1>10, <1>11 DEF IInv

LEMMA ObservePassesKeeps == IInv /\ ObservePasses => IInv'
<1> SUFFICES ASSUME IInv, ObservePasses PROVE IInv'
    OBVIOUS
<1> USE DEF ObservePasses
<1>1. /\ task["page"] = "observing" /\ stage = "collecting"
      /\ links \in Seq(Urls \union {"relative"}) /\ links /= <<>>
      /\ chain \in Seq(Hop) /\ at \in Urls
    BY DEF IInv, TypeOK, Order, Tasks
<1>2. links' \in Seq(Urls \union {"relative"})
    BY <1>1
<1>3. Resolve(Head(links)) \in Urls \union {NoUrl}
    <2>1. Head(links) \in Urls \union {"relative"}
        BY <1>1
    <2>2. FinalURL \in Urls \union {NoUrl}
        <3>1. chain /= <<>> => Last(chain) \in Hop
            BY <1>1 DEF Last
        <3> QED BY <1>1, <3>1 DEF FinalURL, Hop
    <2> QED BY <2>1, <2>2 DEF Resolve
<1>4. TypeOK'
    BY <1>2, <1>3 DEF IInv, TypeOK
<1>5. Order'
    BY <1>1 DEF IInv, Order
<1>6. PathInv' /\ ObservedInv'
    BY DEF IInv, PathInv, ObservedInv
<1>7. EvidenceWasSeen'
    BY EvidencePartKept
<1>8. FetchInv'
    BY <1>1 DEF FetchInv
<1>9. KeptInv'
    BY <1>1, KeptWhileCollecting
<1> QED BY <1>4, <1>5, <1>6, <1>7, <1>8, <1>9 DEF IInv

LEMMA ObserveEndsKeeps == IInv /\ ObserveEnds => IInv'
<1> SUFFICES ASSUME IInv, ObserveEnds PROVE IInv'
    OBVIOUS
<1> USE DEF ObserveEnds, pageVars
<1>1. /\ Order'
      /\ task' \in [Tasks -> TaskStates]
      /\ \A u \in Tasks : task'[u] = "observing" => u = "page"
      /\ task'["page"] = "done"
      /\ stage = "collecting"
    BY TaskEndsInOrder DEF Tasks
<1>2. evidence \in Evidence /\ observed \in Seq(Urls)
    BY DEF IInv, TypeOK
<1>3. /\ evidence' \in Evidence
      /\ evidence'.redirects = evidence.redirects
      /\ evidence'.website = evidence.website
      /\ evidence'.endpoints = observed
    BY <1>2 DEF Evidence
<1>4. TypeOK'
    BY <1>1, <1>3 DEF IInv, TypeOK
<1>5. PathInv' /\ ObservedInv'
    BY DEF IInv, PathInv, ObservedInv
<1>6. EvidenceWasSeen'
    BY <1>3 DEF IInv, ObservedInv, EvidenceWasSeen, ChainConnects, ChainBounded,
       WebsiteIsFinal
<1>7. FetchInv'
    BY <1>1 DEF FetchInv
<1>8. KeptInv'
    BY <1>1, KeptWhileCollecting
<1> QED BY <1>1, <1>4, <1>5, <1>6, <1>7, <1>8 DEF IInv

LEMMA PageStepKeeps == IInv /\ PageStep => IInv'
BY PageRedirectsKeeps, PageRedirectsTooOftenKeeps, PageRedirectsNowhereKeeps,
   PageArrivesKeeps, PageFailsKeeps, ObserveAnswersKeeps, ObservePassesKeeps,
   ObserveEndsKeeps DEF PageStep

-----------------------------------------------------------------------------
(* The analyst.                                                            *)

LEMMA ReturnsKeeps ==
    ASSUME IInv, NEW model \in {"gemini", "unavailable"}, NEW found \in SUBSET Entities,
           EvidenceEntitySnapshot \subseteq found, Returns(model, found)
    PROVE  IInv'
<1> USE DEF Returns, pageVars
<1>1. assessment'.model = model /\ assessment'.entities = found
    OBVIOUS
<1>2. assessment' \in [model: {"none", "gemini", "unavailable"},
                       entities: SUBSET Entities]
    OBVIOUS
<1>3. TypeOK'
    BY <1>2 DEF IInv, TypeOK
<1>4. Order'
    BY <1>1 DEF IInv, Order
<1>5. PathInv' /\ ObservedInv' /\ EvidenceWasSeen'
    BY PagePartKept
<1>6. FetchInv'
    BY DEF IInv, FetchInv
<1>7. EvidenceEntitySnapshot' = EvidenceEntitySnapshot
    BY DEF EvidenceEntitySnapshot, ResolvedType, Declared
<1>8. KeptInv'
    BY <1>1, <1>7 DEF IInv, KeptInv
<1> QED BY <1>3, <1>4, <1>5, <1>6, <1>8 DEF IInv

LEMMA AssessAnsweredKeeps ==
    ASSUME NEW claimed \in SUBSET Claims
    PROVE  IInv /\ AssessAnswered(claimed) => IInv'
<1> SUFFICES ASSUME IInv, AssessAnswered(claimed) PROVE IInv'
    OBVIOUS
<1>1. EvidenceEntitySnapshot \in SUBSET Entities
    BY RequestTypes, SnapshotTypes DEF IInv, TypeOK
<1>2. claimed \union EvidenceEntitySnapshot \in SUBSET Entities
    BY <1>1, RequestsAssumption
<1> QED BY <1>2, ReturnsKeeps DEF AssessAnswered

LEMMA AssessUnavailableKeeps == IInv /\ AssessUnavailable => IInv'
<1> SUFFICES ASSUME IInv, AssessUnavailable PROVE IInv'
    OBVIOUS
<1>1. EvidenceEntitySnapshot \in SUBSET Entities
    BY RequestTypes, SnapshotTypes DEF IInv, TypeOK
<1> QED BY <1>1, ReturnsKeeps DEF AssessUnavailable

LEMMA StutterKeeps == IInv /\ UNCHANGED vars => IInv'
<1> SUFFICES ASSUME IInv, UNCHANGED vars PROVE IInv'
    OBVIOUS
<1> USE DEF vars, pageVars
<1>1. TypeOK' /\ Order'
    BY DEF IInv, TypeOK, Order, AtStart, ResolvedType, Declared
<1>2. PathInv' /\ ObservedInv' /\ EvidenceWasSeen'
    BY PagePartKept
<1>3. FetchInv'
    BY DEF IInv, FetchInv
<1>4. EvidenceEntitySnapshot' = EvidenceEntitySnapshot
    BY DEF EvidenceEntitySnapshot, ResolvedType, Declared
<1>5. KeptInv'
    BY <1>4 DEF IInv, KeptInv
<1> QED BY <1>1, <1>2, <1>3, <1>5 DEF IInv

LEMMA NextKeeps == IInv /\ [Next]_vars => IInv'
<1> SUFFICES ASSUME IInv, [Next]_vars PROVE IInv'
    OBVIOUS
<1>1. CASE Finished
    BY <1>1, StutterKeeps DEF Finished
<1> QED BY <1>1, StartURLKeeps, AnalyzeWalletKeeps, AnalyzeMessageKeeps,
       RejectKeeps, InspectDomainKeeps, InspectTLSKeeps, CheckIntelKeeps,
       PageStepKeeps, CollectedKeeps, AssessAnsweredKeeps, AssessUnavailableKeeps,
       StutterKeeps DEF Next

-----------------------------------------------------------------------------
\* The invariant holds in every reachable state, whatever the servers answer
\* and whenever the goroutines run.
THEOREM InductiveInvariant == Spec => []IInv
<1>1. Init => IInv
    BY InitInvariant
<1>2. IInv /\ [Next]_vars => IInv'
    BY NextKeeps
<1> QED BY <1>1, <1>2, PTL DEF Spec

\* Every variable keeps its type.
THEOREM TypesHold == Spec => []TypeOK
<1>1. IInv => TypeOK
    BY DEF IInv
<1> QED BY <1>1, InductiveInvariant, PTL

\* Redirect chain, page and endpoints of a result fit together and were
\* answered, for any number of redirects and links (InspectURL, Analyze,
\* passiveObserveEndpoints).
THEOREM EvidenceWasAlwaysSeen == Spec => []EvidenceWasSeen
<1>1. IInv => EvidenceWasSeen
    BY DEF IInv
<1> QED BY <1>1, InductiveInvariant, PTL

\* Only requests that start nothing fail, and a result leaves no goroutine.
THEOREM FailuresComeFirst == Spec => []FailsBeforeItStarts
<1>1. IInv => FailsBeforeItStarts
    <2> SUFFICES ASSUME IInv PROVE FailsBeforeItStarts
        OBVIOUS
    <2>1. task \in [Tasks -> TaskStates]
        BY DEF IInv, TypeOK
    <2>2. stage = "returned" => \A t \in Tasks : task[t] \in {"off", "done"}
        BY <2>1 DEF IInv, Order, TaskStates
    <2> QED BY <2>2 DEF IInv, Order, FailsBeforeItStarts
<1> QED BY <1>1, InductiveInvariant, PTL

\* No entity of the evidence is lost on the way to the assessment.
THEOREM EntitiesAreKept == Spec => []EntitiesKept
<1>1. IInv => EntitiesKept
    <2> SUFFICES ASSUME IInv, stage = "returned" PROVE EntitiesKept
        BY DEF EntitiesKept
    <2>1. EvidenceEntitySnapshot \subseteq assessment.entities
        BY DEF IInv, KeptInv
    <2>2. ResolvedType(request) \in {"url", "website", "domain"} =>
              {<<"url", request.url>>, <<"domain", HostOf[request.url]>>}
                  \subseteq assessment.entities
        BY <2>1 DEF EvidenceEntitySnapshot
    <2>3. ResolvedType(request) = "wallet" =>
              <<"wallet", request.form>> \in assessment.entities
        BY <2>1 DEF EvidenceEntitySnapshot
    <2>4. ASSUME ResolvedType(request) \in {"message", "case"}
          PROVE  /\ request.mentions \subseteq assessment.entities
                 /\ \A u \in Urls :
                        <<"url", u>> \in request.mentions =>
                            <<"domain", HostOf[u]>> \in assessment.entities
        <3>1. ExtractEntities(request.mentions) \subseteq assessment.entities
            BY <2>1, <2>4 DEF EvidenceEntitySnapshot, IInv, KeptInv, TextTypes
        <3>2. request.mentions \subseteq ExtractEntities(request.mentions)
            BY DEF ExtractEntities
        <3>3. ASSUME NEW u \in Urls, <<"url", u>> \in request.mentions
              PROVE  <<"domain", HostOf[u]>> \in ExtractEntities(request.mentions)
            BY <3>3 DEF ExtractEntities
        <3> QED BY <3>1, <3>2, <3>3
    <2> QED BY <2>2, <2>3, <2>4 DEF EntitiesKept
<1> QED BY <1>1, InductiveInvariant, PTL

\* What the analyst judges is what is returned: no goroutine writes to the
\* evidence after wg.Wait.
THEOREM EvidenceStaysFrozen == Spec => EvidenceIsFrozen
<1>1. IInv /\ [Next]_vars =>
          ((stage \in {"assessing", "returned"}) => evidence' = evidence)
    <2> SUFFICES ASSUME IInv, [Next]_vars, stage \in {"assessing", "returned"}
                 PROVE  evidence' = evidence
        OBVIOUS
    <2>1. \A t \in Tasks : task[t] \notin {"running", "observing"}
        BY DEF IInv, Order
    <2>2. CASE UNCHANGED vars
        BY <2>2 DEF vars
    <2>3. CASE PageStep
        BY <2>1, <2>3 DEF PageStep, PageRedirects, PageRedirectsTooOften, PageArrives,
           PageRedirectsNowhere, PageFails, ObserveAnswers, ObservePasses, ObserveEnds,
           Tasks
    <2>4. CASE InspectDomain \/ InspectTLS \/ CheckIntel
        BY <2>1, <2>4 DEF InspectDomain, InspectTLS, CheckIntel, Tasks
    <2>5. CASE StartURL \/ AnalyzeWallet \/ AnalyzeMessage \/ Reject \/ Collected
        BY <2>5 DEF StartURL, AnalyzeWallet, AnalyzeMessage, Reject, Collected
    <2>6. CASE AssessUnavailable
                   \/ \E claimed \in SUBSET Claims : AssessAnswered(claimed)
        BY <2>6 DEF AssessUnavailable, AssessAnswered, Returns
    <2> QED BY <2>2, <2>3, <2>4, <2>5, <2>6 DEF Next, Finished
<1> QED BY <1>1, InductiveInvariant, PTL DEF Spec, EvidenceIsFrozen


-----------------------------------------------------------------------------
(* Every step brings the end nearer: what is left of an investigation, and *)
(* then the links still to be tried, only get less.                        *)

\* What is left to the goroutine of the page: the redirects that may follow,
\* the response, and the end of the observation.
PageEffort ==
    IF task["page"] = "running" THEN (MaxRedirects - Len(chain)) + 2
    ELSE IF task["page"] = "observing" THEN 1 ELSE 0

TaskEffort(t) == IF task[t] = "running" THEN 1 ELSE 0

StageEffort ==
    IF stage = "requested" THEN MaxRedirects + 8
    ELSE IF stage = "collecting" THEN 2
    ELSE IF stage = "assessing" THEN 1 ELSE 0

Effort ==
    StageEffort + TaskEffort("dns") + TaskEffort("tls") + TaskEffort("intel")
        + PageEffort

Nearer ==
    \/ Effort' < Effort
    \/ Effort' = Effort /\ Len(links') < Len(links)

LEMMA EffortTypes ==
    ASSUME IInv
    PROVE  /\ StageEffort \in Nat /\ PageEffort \in Nat
           /\ \A t \in Tasks : TaskEffort(t) \in Nat
           /\ task["page"] = "running" => PageEffort >= 2
           /\ task["page"] = "running" => PageEffort = (MaxRedirects - Len(chain)) + 2
BY LimitsAssumption
DEF IInv, TypeOK, FetchInv, StageEffort, PageEffort, TaskEffort, Tasks

\* A goroutine that is through, and a step of the page alone.
LEMMA TaskNearer ==
    ASSUME IInv, NEW t \in {"dns", "tls", "intel"}, task[t] = "running",
           Ends(t), stage' = stage, chain' = chain
    PROVE  Effort' < Effort
<1>1. task \in [Tasks -> TaskStates] /\ Tasks = {"dns", "tls", "intel", "page"}
  BY DEF IInv, TypeOK, Tasks
<1>2. /\ TaskEffort(t) = 1 /\ TaskEffort(t)' = 0
      /\ \A u \in Tasks \ {t} : TaskEffort(u)' = TaskEffort(u)
      /\ PageEffort' = PageEffort /\ StageEffort' = StageEffort
  BY <1>1 DEF Ends, TaskEffort, PageEffort, StageEffort
<1>3. \A u \in Tasks : TaskEffort(u) \in Nat
  BY EffortTypes
<1>4. PageEffort \in Nat /\ StageEffort \in Nat
  BY EffortTypes
<1> QED
  BY <1>1, <1>2, <1>3, <1>4 DEF Effort

LEMMA PageNearer ==
    ASSUME IInv, stage' = stage, task' \in [Tasks -> TaskStates],
           \A t \in Tasks \ {"page"} : task'[t] = task[t],
           PageEffort' < PageEffort, PageEffort' \in Nat
    PROVE  Effort' < Effort
<1>1. /\ \A t \in {"dns", "tls", "intel"} : TaskEffort(t)' = TaskEffort(t)
      /\ StageEffort' = StageEffort
  BY DEF TaskEffort, StageEffort, Tasks
<1>2. /\ PageEffort \in Nat /\ StageEffort \in Nat
      /\ \A t \in {"dns", "tls", "intel"} : TaskEffort(t) \in Nat
  BY EffortTypes DEF Tasks
<1> QED
  BY <1>1, <1>2 DEF Effort

LEMMA ManagerNearer ==
    ASSUME IInv,
           StartURL \/ AnalyzeWallet \/ AnalyzeMessage \/ Reject \/ Collected
    PROVE  Effort' < Effort
<1>0. /\ MaxRedirects \in Nat /\ Tasks = {"dns", "tls", "intel", "page"}
      /\ task \in [Tasks -> TaskStates]
  BY LimitsAssumption DEF Tasks, IInv, TypeOK
<1>1. CASE StartURL
  <2>1. stage = "requested" /\ stage' = "collecting" /\ chain' = chain /\ chain = <<>>
    BY <1>1 DEF StartURL, IInv, Order, AtStart, pageVars
  <2>2. /\ \A t \in Tasks : task[t] = "off" /\ task'[t] = "running"
    BY <1>1, <2>1 DEF StartURL, IInv, Order, AtStart
  <2>3. /\ TaskEffort("dns") = 0 /\ TaskEffort("dns")' = 1
        /\ TaskEffort("tls") = 0 /\ TaskEffort("tls")' = 1
        /\ TaskEffort("intel") = 0 /\ TaskEffort("intel")' = 1
    BY <1>0, <2>2 DEF TaskEffort
  <2>4. PageEffort = 0 /\ PageEffort' = MaxRedirects + 2
    BY <1>0, <2>1, <2>2 DEF PageEffort
  <2>5. StageEffort = MaxRedirects + 8 /\ StageEffort' = 2
    BY <2>1 DEF StageEffort
  <2> QED
    BY <1>0, <2>3, <2>4, <2>5 DEF Effort
<1>2. CASE AnalyzeWallet \/ AnalyzeMessage \/ Reject \/ Collected
  <2>1. /\ task' = task /\ chain' = chain
        /\ \/ stage = "requested" /\ stage' \in {"assessing", "failed"}
           \/ stage = "collecting" /\ stage' = "assessing"
    BY <1>2 DEF AnalyzeWallet, AnalyzeMessage, Reject, Collected, pageVars
  <2>2. /\ PageEffort' = PageEffort
        /\ \A t \in Tasks : TaskEffort(t)' = TaskEffort(t)
    BY <2>1 DEF PageEffort, TaskEffort
  <2>3. StageEffort' \in Nat /\ StageEffort' < StageEffort
    BY <1>0, <2>1 DEF StageEffort
  <2>4. /\ PageEffort \in Nat /\ StageEffort \in Nat
        /\ \A t \in Tasks : TaskEffort(t) \in Nat
    BY EffortTypes
  <2> QED
    BY <1>0, <2>2, <2>3, <2>4 DEF Effort
<1> QED
  BY <1>1, <1>2

LEMMA PageStepNearer ==
    ASSUME IInv, PageStep
    PROVE  Nearer
<1>0. /\ MaxRedirects \in Nat /\ task \in [Tasks -> TaskStates]
      /\ "page" \in Tasks /\ chain \in Seq(Hop)
      /\ links \in Seq(Urls \union {"relative"})
  BY LimitsAssumption DEF IInv, TypeOK, Tasks
<1>1. ASSUME NEW s \in {"observing", "done"}, stage' = stage,
             task["page"] = "running", task' = [task EXCEPT !["page"] = s]
      PROVE  Nearer
  <2>1. /\ \A t \in Tasks \ {"page"} : task'[t] = task[t]
        /\ task'["page"] = s
        /\ task' \in [Tasks -> TaskStates]
    BY <1>0, <1>1 DEF TaskStates
  <2>2. PageEffort' \in {0, 1} /\ PageEffort >= 2 /\ PageEffort \in Nat
    BY <1>1, <2>1, EffortTypes DEF PageEffort
  <2> QED
    BY <1>1, <2>1, <2>2, PageNearer DEF Nearer
<1>2. ASSUME NEW to \in Urls, PageRedirects(to) PROVE Nearer
  <2>1. /\ task["page"] = "running" /\ task' = task /\ stage' = stage
        /\ chain' = Append(chain, [from |-> at, to |-> to])
        /\ Len(chain) < MaxRedirects
    BY <1>2 DEF PageRedirects
  <2>2. Len(chain') = Len(chain) + 1 /\ Len(chain) \in Nat
    BY <1>0, <2>1
  <2>3. /\ PageEffort = (MaxRedirects - Len(chain)) + 2
        /\ PageEffort' = (MaxRedirects - Len(chain')) + 2
    BY <2>1 DEF PageEffort
  <2>4. PageEffort' < PageEffort /\ PageEffort' \in Nat
    BY <1>0, <2>1, <2>2, <2>3
  <2> QED
    BY <1>0, <2>1, <2>4, PageNearer DEF Nearer
<1>3. ASSUME NEW to \in Urls, PageRedirectsTooOften(to) PROVE Nearer
  BY <1>1, <1>3 DEF PageRedirectsTooOften, Ends
<1>4. ASSUME NEW page \in Pages, PageArrives(page) PROVE Nearer
  BY <1>1, <1>4 DEF PageArrives
<1>5. CASE PageRedirectsNowhere
  BY <1>1, <1>5 DEF PageRedirectsNowhere
<1>6. CASE PageFails
  BY <1>1, <1>6 DEF PageFails, Ends
<1>7. CASE ObserveAnswers \/ ObservePasses
  <2>1. /\ stage' = stage /\ task' = task /\ chain' = chain
        /\ links /= <<>> /\ links' = Tail(links)
    BY <1>7 DEF ObserveAnswers, ObservePasses
  <2>2. Effort' = Effort
    BY <2>1 DEF Effort, StageEffort, TaskEffort, PageEffort
  <2> QED
    BY <1>0, <2>1, <2>2 DEF Nearer
<1>8. CASE ObserveEnds
  <2>1. /\ stage' = stage /\ task["page"] = "observing"
        /\ task' = [task EXCEPT !["page"] = "done"]
    BY <1>8 DEF ObserveEnds, Ends
  <2>2. /\ \A t \in Tasks \ {"page"} : task'[t] = task[t]
        /\ task'["page"] = "done"
        /\ task' \in [Tasks -> TaskStates]
    BY <1>0, <2>1 DEF TaskStates
  <2>3. PageEffort' = 0 /\ PageEffort = 1
    BY <2>1, <2>2 DEF PageEffort
  <2> QED
    BY <2>1, <2>2, <2>3, PageNearer DEF Nearer
<1> QED
  BY <1>2, <1>3, <1>4, <1>5, <1>6, <1>7, <1>8 DEF PageStep

LEMMA StepNearer == IInv /\ [Next]_vars => [Nearer]_vars
<1> SUFFICES ASSUME IInv, Next PROVE Nearer \/ UNCHANGED vars
  BY DEF vars
<1>1. ASSUME NEW model, NEW entities, Returns(model, entities) PROVE Nearer
  <2>1. /\ stage = "assessing" /\ stage' = "returned"
        /\ task' = task /\ chain' = chain
    BY <1>1 DEF Returns, pageVars
  <2>2. Effort' < Effort
    <3>1. /\ PageEffort' = PageEffort
          /\ \A t \in {"dns", "tls", "intel"} : TaskEffort(t)' = TaskEffort(t)
      BY <2>1 DEF PageEffort, TaskEffort
    <3>2. StageEffort' = 0 /\ StageEffort = 1
      BY <2>1 DEF StageEffort
    <3>3. /\ PageEffort \in Nat
          /\ \A t \in {"dns", "tls", "intel"} : TaskEffort(t) \in Nat
      BY EffortTypes DEF Tasks
    <3> QED
      BY <3>1, <3>2, <3>3 DEF Effort
  <2> QED
    BY <2>2 DEF Nearer
<1>2. CASE InspectDomain
  BY <1>2, TaskNearer DEF InspectDomain, Nearer, pageVars
<1>3. CASE InspectTLS
  BY <1>3, TaskNearer DEF InspectTLS, Nearer, pageVars
<1>4. CASE CheckIntel
  BY <1>4, TaskNearer DEF CheckIntel, Nearer, pageVars
<1>5. CASE AssessUnavailable \/ \E claimed \in SUBSET Claims : AssessAnswered(claimed)
  BY <1>1, <1>5 DEF AssessUnavailable, AssessAnswered
<1> QED
  BY <1>2, <1>3, <1>4, <1>5, ManagerNearer, PageStepNearer
  DEF Next, Finished, Nearer

\* What is left is a natural number, and every step that changes anything makes
\* it smaller, or keeps it and tries one of finitely many links: servers that
\* redirect for ever, or in a circle, and pages full of links cannot keep an
\* investigation going (HTTPSandbox.InspectURL, passiveObserveEndpoints).
THEOREM EveryStepIsNearer == Spec => [](Effort \in Nat) /\ [][Nearer]_vars
<1>1. IInv => Effort \in Nat
  BY EffortTypes DEF Effort, Tasks
<1>2. IInv /\ [Next]_vars => [Nearer]_vars
  BY StepNearer
<1> QED
  BY <1>1, <1>2, InductiveInvariant, PTL DEF Spec

\* The manager can go on, or one of its goroutines can; a page that is observed
\* has a link to pass or its end to note.
CanGoOn ==
    \/ stage = "requested" /\ ResolvedType(request) \in UrlTypes /\ EnsureURL(request)
    \/ stage = "requested" /\ ResolvedType(request) = "wallet"
           /\ ValidAddress(DriverOf(request), request.form)
    \/ stage = "requested" /\ ResolvedType(request) \in TextTypes
    \/ stage = "requested" /\ Rejected(request)
    \/ stage = "collecting" /\ \E t \in Tasks : task[t] = "running"
    \/ stage = "collecting" /\ task["page"] = "observing"
    \/ stage = "collecting" /\ \A t \in Tasks : task[t] = "done"
    \/ stage = "assessing"

\* Until it has a result or is refused, an investigation can go on: every
\* request is analyzed or refused, and wg.Wait() waits for nobody who has gone
\* (Manager.Investigate, Pipeline.Analyze).
THEOREM InvestigationNeverStuck ==
    Spec => [](stage \in {"returned", "failed"} \/ CanGoOn)
<1>1. IInv => stage \in {"returned", "failed"} \/ CanGoOn
  <2> SUFFICES ASSUME IInv, stage \notin {"returned", "failed"}
               PROVE  CanGoOn
    OBVIOUS
  <2>1. stage \in {"requested", "collecting", "assessing"} /\ request \in Request
    BY RequestTypes DEF IInv, TypeOK
  <2>2. CASE stage = "requested"
    <3>1. ResolvedType(request) \in TargetTypes
      BY <2>1 DEF ResolvedType, NormalizeTargetType, TargetTypes
    <3> QED
      BY <2>2, <3>1 DEF CanGoOn, Rejected, TargetTypes, UrlTypes, TextTypes
  <2>3. CASE stage = "collecting"
    <3>1. /\ task \in [Tasks -> TaskStates]
          /\ \A t \in Tasks : task[t] = "observing" => t = "page"
          /\ \A t \in Tasks : task[t] /= "off"
      BY <2>3 DEF IInv, TypeOK, Order
    <3>2. \A t \in Tasks : task[t] \in {"running", "observing", "done"}
      BY <3>1 DEF TaskStates
    <3> QED
      BY <2>3, <3>1, <3>2 DEF CanGoOn
  <2> QED
    BY <2>1, <2>2, <2>3 DEF CanGoOn
<1> QED
  BY <1>1, InductiveInvariant, PTL
=============================================================================
