--------------------------- MODULE CryptoPayments ---------------------------
(***************************************************************************)
(* Crypto payments of src/controllers/payment.go and their routes: a       *)
(* payment is created, the customer submits the signature of a Solana      *)
(* transaction, the payment is completed, and a server-sent event stream   *)
(* shows its status meanwhile.                                             *)
(*                                                                         *)
(* CompleteCryptoPayment is exported and nothing in the repository calls   *)
(* it; it is modelled as a request that whoever verifies the transactions  *)
(* may make at any time, any number of times.  A request is a process      *)
(* whose steps are its database calls, as in PaystackPayments.             *)
(***************************************************************************)
EXTENDS Naturals, FiniteSets

CONSTANTS
    Handlers,       \* request goroutines that may be running at a time
    Payments,       \* payment ids
    Emails,         \* account e-mail addresses; one stream for each
    Fold,           \* an e-mail without the case of its letters
    Signatures,     \* transaction signatures
    NoPayment,      \* the payment of an idle handler or a closed stream
    NoEmail,        \* the e-mail of a payment that is not stored
    NoSignature,    \* the signature of a payment that has none yet
    MaxFaults       \* bound: failed calls and restarts in a behaviour

ASSUME CryptoFaultsAssumption == MaxFaults \in Nat
ASSUME CryptoHandlersAssumption == IsFiniteSet(Handlers)
ASSUME CryptoNullAssumption ==
    /\ NoPayment \notin Payments
    /\ NoEmail \notin Emails
    /\ NoSignature \notin Signatures

VARIABLES
    accounts,       \* e-mails with a document in "users"
    crypto,         \* "crypto_payments", by payment id
    pc,             \* the next call of each handler
    req,            \* what a handler works on
    stream,         \* the status stream a client has open
    deleting,       \* accounts whose deletion by the user is half done
    credits,        \* history: $inc updates of "users" made for a payment
    notices,        \* history: "Payment successful" notifications
    faults          \* failed calls and restarts so far

history == <<credits, notices>>
vars == <<accounts, crypto, pc, req, stream, deleting, credits, notices, faults>>

Blank(status) ==
    [status |-> status, email |-> NoEmail, signature |-> NoSignature,
     credited |-> FALSE]

\* An id is made from the clock and never used again.
Unissued == Blank("unissued")
Deleted == Blank("deleted")

CryptoPayment ==
    [status : {"pending", "verifying", "completed"},
     email : Emails,
     signature : Signatures \union {NoSignature},
     credited : BOOLEAN]

Stages == {"idle", "save", "find", "user", "credit", "mark", "notify"}

Idle == [payment |-> NoPayment, email |-> NoEmail, signature |-> NoSignature]

Request ==
    [payment : Payments \union {NoPayment},
     email : Emails \union {NoEmail},
     signature : Signatures \union {NoSignature}]

Closed == [payment |-> NoPayment, shown |-> "nothing"]

Stream ==
    [payment : Payments,
     shown : {"connected", "pending", "verifying", "completed"}]

TypeOK ==
    /\ accounts \subseteq Emails
    /\ crypto \in [Payments -> CryptoPayment \union {Unissued, Deleted}]
    /\ pc \in [Handlers -> Stages]
    /\ req \in [Handlers -> Request]
    /\ stream \in [Emails -> Stream \union {Closed}]
    /\ deleting \subseteq Emails
    /\ credits \in [Payments -> Nat]
    /\ notices \in [Payments -> Nat]
    /\ faults \in 0 .. MaxFaults

Init ==
    /\ accounts = {}
    /\ crypto = [p \in Payments |-> Unissued]
    /\ pc = [h \in Handlers |-> "idle"]
    /\ req = [h \in Handlers |-> Idle]
    /\ stream = [e \in Emails |-> Closed]
    /\ deleting = {}
    /\ credits = [p \in Payments |-> 0]
    /\ notices = [p \in Payments |-> 0]
    /\ faults = 0

Stored(p) == crypto[p] \notin {Unissued, Deleted}

\* How the routes compare e-mails.  Accounts are looked up exactly, so two
\* accounts whose e-mails differ only in case are equal here and nowhere else.
EqualFold(a, b) == Fold[a] = Fold[b]

\* The caller asks for another's payment; one without an e-mail is anybody's.
Forbidden(owner, caller) == owner /= NoEmail /\ ~EqualFold(owner, caller)

Goto(h, stage) ==
    /\ pc' = [pc EXCEPT ![h] = stage]
    /\ UNCHANGED req

Reply(h) ==
    /\ pc' = [pc EXCEPT ![h] = "idle"]
    /\ req' = [req EXCEPT ![h] = Idle]

-----------------------------------------------------------------------------
(* Creating a payment, and submitting the signature of the transaction.    *)

\* One insert; the reply goes out in the same step.
CreateCryptoTokenPayment(p, e) ==
    /\ crypto[p] = Unissued
    /\ crypto' = [crypto EXCEPT
            ![p] = [status |-> "pending", email |-> e,
                    signature |-> NoSignature, credited |-> FALSE]]
    /\ UNCHANGED <<accounts, pc, req, stream, deleting, history, faults>>

\* The lookup: whose payment it is and how far it got is not looked at.
SaveCryptoPaymentSignature(h, p, s) ==
    /\ pc[h] = "idle"
    /\ Stored(p)
    /\ pc' = [pc EXCEPT ![h] = "save"]
    /\ req' = [req EXCEPT ![h].payment = p, ![h].signature = s]
    /\ UNCHANGED <<accounts, crypto, stream, deleting, history, faults>>

\* Slip: the document read by the lookup is written back as a whole, and the
\* filter may insert it again.
SaveSignatureReplaces(h) ==
    LET p == req[h].payment IN
    /\ pc[h] = "save"
    /\ crypto' = [crypto EXCEPT
            ![p].status = "verifying", ![p].signature = req[h].signature,
            ![p].credited = FALSE]
    /\ Reply(h)
    /\ UNCHANGED <<accounts, stream, deleting, history, faults>>

\* The update, which sets two fields and may find the document gone.
SaveSignature(h) ==
    LET p == req[h].payment IN
    /\ pc[h] = "save"
    /\ crypto' = IF Stored(p)
                 THEN [crypto EXCEPT ![p].status = "verifying",
                                     ![p].signature = req[h].signature]
                 ELSE crypto
    /\ Reply(h)
    /\ UNCHANGED <<accounts, stream, deleting, history, faults>>

-----------------------------------------------------------------------------
(* Completing a payment.                                                   *)

\* A call of CompleteCryptoPayment, from outside the repository.
CallComplete(h, p) ==
    /\ pc[h] = "idle"
    /\ pc' = [pc EXCEPT ![h] = "find"]
    /\ req' = [req EXCEPT ![h].payment = p]
    /\ UNCHANGED <<accounts, crypto, stream, deleting, history, faults>>

\* Slip: the checks of "credited" and of the status are missing.
FindCryptoPaymentUnchecked(h) ==
    LET p == req[h].payment IN
    /\ pc[h] = "find"
    /\ IF Stored(p)
       THEN /\ pc' = [pc EXCEPT ![h] = "user"]
            /\ req' = [req EXCEPT ![h].email = crypto[p].email]
       ELSE Reply(h)
    /\ UNCHANGED <<accounts, crypto, stream, deleting, history, faults>>

\* Only a payment that is pending and not credited is worked on.
FindCryptoPayment(h) ==
    LET p == req[h].payment IN
    /\ pc[h] = "find"
    /\ IF Stored(p) /\ ~crypto[p].credited /\ crypto[p].status = "pending"
       THEN /\ pc' = [pc EXCEPT ![h] = "user"]
            /\ req' = [req EXCEPT ![h].email = crypto[p].email]
       ELSE Reply(h)
    /\ UNCHANGED <<accounts, crypto, stream, deleting, history, faults>>

\* Step 1: the account must exist.
FindOwner(h) ==
    /\ pc[h] = "user"
    /\ IF req[h].email \in accounts THEN Goto(h, "credit") ELSE Reply(h)
    /\ UNCHANGED <<accounts, crypto, stream, deleting, history, faults>>

\* Slip: step 3 is missing, an update that matched nobody goes on.
CreditOwnerUnmatched(h) ==
    /\ pc[h] = "credit"
    /\ IF req[h].email \in accounts
       THEN credits' = [credits EXCEPT ![req[h].payment] = @ + 1]
       ELSE UNCHANGED credits
    /\ Goto(h, "mark")
    /\ UNCHANGED <<accounts, crypto, stream, deleting, notices, faults>>

\* Steps 2 and 3: add the tokens, if the account is still there.
CreditOwner(h) ==
    /\ pc[h] = "credit"
    /\ IF req[h].email \in accounts
       THEN /\ credits' = [credits EXCEPT ![req[h].payment] = @ + 1]
            /\ Goto(h, "mark")
       ELSE Reply(h) /\ UNCHANGED credits
    /\ UNCHANGED <<accounts, crypto, stream, deleting, notices, faults>>

\* Slip: the filter also asks for the status "pending" that was read.
MarkCompletedPending(h) ==
    LET p == req[h].payment IN
    /\ pc[h] = "mark"
    /\ crypto' = IF Stored(p) /\ crypto[p].status = "pending"
                 THEN [crypto EXCEPT ![p].status = "completed",
                                     ![p].credited = TRUE]
                 ELSE crypto
    /\ Goto(h, "notify")
    /\ UNCHANGED <<accounts, stream, deleting, history, faults>>

\* Step 4: the filter is the id alone, and nobody looks whether it matched.
MarkCompleted(h) ==
    LET p == req[h].payment IN
    /\ pc[h] = "mark"
    /\ crypto' = IF Stored(p)
                 THEN [crypto EXCEPT ![p].status = "completed",
                                     ![p].credited = TRUE]
                 ELSE crypto
    /\ Goto(h, "notify")
    /\ UNCHANGED <<accounts, stream, deleting, history, faults>>

\* Step 5.
NotifyCompleted(h) ==
    /\ pc[h] = "notify"
    /\ notices' = [notices EXCEPT ![req[h].payment] = @ + 1]
    /\ Reply(h)
    /\ UNCHANGED <<accounts, crypto, stream, deleting, credits, faults>>

-----------------------------------------------------------------------------
(* The status stream, which looks at the payment every three seconds.      *)

CryptoPaymentStreamRoute(e, p) ==
    /\ stream[e] = Closed
    /\ stream' = [stream EXCEPT ![e] = [payment |-> p, shown |-> "connected"]]
    /\ UNCHANGED <<accounts, crypto, pc, req, deleting, history, faults>>

\* Slip: the payment is sent before its owner is compared with the caller.
StreamTickSendsFirst(e) ==
    LET p == stream[e].payment IN
    /\ stream[e] /= Closed
    /\ stream' = [stream EXCEPT
            ![e] = IF Stored(p) THEN [@ EXCEPT !.shown = crypto[p].status]
                   ELSE Closed]
    /\ UNCHANGED <<accounts, crypto, pc, req, deleting, history, faults>>

\* Slip: a payment that is gone is taken for one that is not there yet.
StreamTickWaits(e) ==
    LET p == stream[e].payment IN
    /\ stream[e] /= Closed
    /\ stream' = [stream EXCEPT
            ![e] = CASE ~Stored(p)                    -> @
                     [] Forbidden(crypto[p].email, e) -> Closed
                     [] OTHER -> [@ EXCEPT !.shown = crypto[p].status]]
    /\ UNCHANGED <<accounts, crypto, pc, req, deleting, history, faults>>

\* The stream ends when there is no such payment, when it is not the caller's,
\* and at the statuses "success" and "failed".
StreamTick(e) ==
    LET p == stream[e].payment IN
    /\ stream[e] /= Closed
    /\ stream' = [stream EXCEPT
            ![e] = IF \/ ~Stored(p)
                      \/ Forbidden(crypto[p].email, e)
                      \/ crypto[p].status \in {"success", "failed"}
                   THEN Closed
                   ELSE [@ EXCEPT !.shown = crypto[p].status]]
    /\ UNCHANGED <<accounts, crypto, pc, req, deleting, history, faults>>

ClientLeaves(e) ==
    /\ stream[e] /= Closed
    /\ stream' = [stream EXCEPT ![e] = Closed]
    /\ UNCHANGED <<accounts, crypto, pc, req, deleting, history, faults>>

-----------------------------------------------------------------------------
(* Failures, and accounts that come and go.                                *)

\* A failed call ends the request; the notification alone may fail silently.
CallFails(h) ==
    /\ faults < MaxFaults
    /\ faults' = faults + 1
    /\ pc[h] /= "idle"
    /\ Reply(h)
    /\ UNCHANGED <<accounts, crypto, stream, deleting, history>>

Restart ==
    /\ faults < MaxFaults
    /\ faults' = faults + 1
    /\ pc' = [h \in Handlers |-> "idle"]
    /\ req' = [h \in Handlers |-> Idle]
    /\ stream' = [e \in Emails |-> Closed]
    /\ deleting' = {}
    /\ UNCHANGED <<accounts, crypto, history>>

Register(e) ==
    /\ e \notin accounts
    /\ accounts' = accounts \union {e}
    /\ UNCHANGED <<crypto, pc, req, stream, deleting, history, faults>>

\* A user deletes the own account: the payments go first.
DeleteCurrentUser(e) ==
    /\ e \notin deleting
    /\ deleting' = deleting \union {e}
    /\ crypto' = [p \in Payments |->
            IF crypto[p].email = e THEN Deleted ELSE crypto[p]]
    /\ UNCHANGED <<accounts, pc, req, stream, history, faults>>

FinishDelete(e) ==
    /\ e \in deleting
    /\ deleting' = deleting \ {e}
    /\ accounts' = accounts \ {e}
    /\ UNCHANGED <<crypto, pc, req, stream, history, faults>>

\* An administrator deletes it: the crypto payments stay.
DeleteUserByEmail(e) ==
    /\ accounts' = accounts \ {e}
    /\ UNCHANGED <<crypto, pc, req, stream, deleting, history, faults>>

-----------------------------------------------------------------------------

HandlerStep(h) ==
    \/ SaveSignature(h)
    \/ FindCryptoPayment(h)
    \/ FindOwner(h)
    \/ CreditOwner(h)
    \/ MarkCompleted(h)
    \/ NotifyCompleted(h)

Next ==
    \/ \E h \in Handlers : HandlerStep(h) \/ CallFails(h)
    \/ \E h \in Handlers, p \in Payments :
            \/ CallComplete(h, p)
            \/ \E s \in Signatures : SaveCryptoPaymentSignature(h, p, s)
    \/ \E e \in Emails, p \in Payments :
            \/ CreateCryptoTokenPayment(p, e)
            \/ CryptoPaymentStreamRoute(e, p)
    \/ \E e \in Emails :
            \/ StreamTick(e)
            \/ ClientLeaves(e)
            \/ Register(e)
            \/ DeleteCurrentUser(e)
            \/ FinishDelete(e)
            \/ DeleteUserByEmail(e)
    \/ Restart

Spec == Init /\ [][Next]_vars

\* Goroutines run and tickers tick.
Fairness ==
    /\ \A h \in Handlers : WF_vars(HandlerStep(h))
    /\ \A e \in Emails : WF_vars(StreamTick(e))

FairSpec == Spec /\ Fairness

\* That completion is called again and again is more than the repository gives.
\* It helps the code as much as it can be helped from outside, and serves only
\* to show what fails in spite of it.
HelpedSpec ==
    /\ FairSpec
    /\ \A p \in Payments : SF_vars(\E h \in Handlers : CallComplete(h, p))
-----------------------------------------------------------------------------
(* Safety.                                                                 *)

\* A payment that says "credited" was credited, and its customer hears of a
\* success only after the $inc, whatever is deleted or submitted meanwhile.
CreditedIsGranted ==
    \A p \in Payments :
        crypto[p].credited \/ notices[p] > 0 => credits[p] > 0

\* "credited" is never taken back: a late submission that read the payment
\* before it was completed overwrites its status and nothing else.
CreditedStays ==
    [][\A p \in Payments :
            crypto[p].credited => crypto'[p].credited \/ crypto'[p] = Deleted]_vars

\* The most a payment is credited: once per overlapping completion, and as
\* often again for each failure between the $inc and the mark.  So it is once
\* if completions neither overlap nor fail ("Prevents duplicate token
\* crediting.", models/payment.go:113).
CreditBound ==
    \A p \in Payments : credits[p] <= Cardinality(Handlers) * (faults + 1)

\* Nobody sees the status of a payment made for another account, not even
\* when accounts and payments are deleted and registered again meanwhile: except
\* an account whose e-mail differs only in the case of its letters, which the
\* routes take for the owner.
StreamShowsOwn ==
    \A e \in Emails :
        stream[e].shown \notin {"nothing", "connected"} =>
            LET owner == crypto[stream[e].payment].email
            IN  owner = NoEmail \/ EqualFold(owner, e)

-----------------------------------------------------------------------------
(* Liveness, of FairSpec unless another specification is named.            *)

Lost(p) == ~Stored(p) \/ crypto[p].email \notin accounts

\* A completion that found its payment pending ends with the payment credited,
\* whatever signature is submitted and whoever else completes it meanwhile, unless
\* the payment or the account goes away or something fails before that.
StartedIsSettled ==
    \A h \in Handlers, p \in Payments, f \in 0 .. MaxFaults :
        pc[h] = "user" /\ req[h].payment = p /\ faults = f
            ~> crypto[p].credited \/ Lost(p) \/ faults /= f

\* Of HelpedSpec: a submitted transaction ("transaction submitted for verification",
\* routes/payment.go:697) is credited or ends as failed.  It is not: step 1
\* accepts pending payments only, and nothing leads out of "verifying".
SubmittedIsSettled ==
    \A p \in Payments :
        crypto[p].status = "verifying"
            ~> crypto[p].credited \/ crypto[p].status = "failed" \/ Lost(p)

\* A stream of a payment that was deleted comes to an end.
StreamEndsWithPayment ==
    \A e \in Emails, p \in Payments :
        stream[e].payment = p /\ crypto[p] = Deleted ~> stream[e] = Closed
=============================================================================
