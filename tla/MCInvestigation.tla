-------------------------- MODULE MCInvestigation ---------------------------
(***************************************************************************)
(* Instances of Investigation: two public addresses, a blocked one and one *)
(* that resolves to no public address, two pages, and a request of every   *)
(* kind.                                                                   *)
(***************************************************************************)
EXTENDS Investigation

CONSTANTS shop, login, admin, intern

MCUrls == {shop, login, admin, intern}
MCHosts == {"shop.example", "login.example", "10.0.0.1", "intern.example"}
MCHostOf ==
    [u \in MCUrls |-> CASE u = shop  -> "shop.example"
                        [] u = login -> "login.example"
                        [] u = admin -> "10.0.0.1"
                        [] u = intern -> "intern.example"]
MCPages == {[links |-> <<>>],
            [links |-> <<"relative", login, admin, shop, login>>]}

MCMentions == {<<"url", login>>, <<"wallet", "evm">>}
MCClaims == {<<"domain", "login.example">>}

OfScan(scan, form, url) ==
    [scan |-> scan, declared |-> "other", form |-> form, network |-> "auto",
     url |-> url, mentions |-> MCMentions]

OfRoute(declared, form, network, url) ==
    [scan |-> "none", declared |-> declared, form |-> form,
     network |-> network, url |-> url, mentions |-> MCMentions]

\* Requests of the routes, with every form, and the scans of a sentence.
MCRequests ==
    {OfRoute(declared, "address", "auto", url) :
        declared \in {"url", "other"}, url \in MCUrls}
    \union {OfRoute("other", form, "auto", shop) : form \in Forms}
    \union {OfRoute("wallet", form, network, shop) :
        form \in Forms, network \in Networks}
    \union {OfScan(scan, form, shop) : scan \in ScanTypes, form \in Forms}
=============================================================================
