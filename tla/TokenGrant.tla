----------------------------- MODULE TokenGrant -----------------------------
(***************************************************************************)
(* What the payment code promises a customer, with no database, no         *)
(* provider and no request in it: a reference is paid once, tokens are     *)
(* granted only for a paid reference and at most Limit times, and a        *)
(* reference is settled once, after a grant.  With Limit = 1 this is the   *)
(* promise a customer would expect; PaystackPayments implements it for a   *)
(* larger Limit, which counts its requests in flight and its failures.     *)
(***************************************************************************)
EXTENDS Naturals

CONSTANTS
    References,     \* payment references
    Limit           \* how often one payment may be granted

VARIABLES
    paid,           \* references the customer has paid
    granted,        \* how often the tokens of a reference were granted
    settled         \* references recorded as credited

gvars == <<paid, granted, settled>>

GrantInit ==
    /\ paid = {}
    /\ granted = [r \in References |-> 0]
    /\ settled = {}

Pay(r) ==
    /\ r \notin paid
    /\ paid' = paid \union {r}
    /\ UNCHANGED <<granted, settled>>

Grant(r) ==
    /\ r \in paid
    /\ granted[r] < Limit
    /\ granted' = [granted EXCEPT ![r] = @ + 1]
    /\ UNCHANGED <<paid, settled>>

Settle(r) ==
    /\ granted[r] > 0
    /\ r \notin settled
    /\ settled' = settled \union {r}
    /\ UNCHANGED <<paid, granted>>

GrantNext == \E r \in References : Pay(r) \/ Grant(r) \/ Settle(r)

GrantSpec == GrantInit /\ [][GrantNext]_gvars
=============================================================================
