-------------------------- MODULE PaystackPayments --------------------------
(***************************************************************************)
(* Card payments: InitializePaymentForPlan and VerifyPaymentAndCredit of   *)
(* src/controllers/payment.go, the routes that call them, and the account  *)
(* deletions of user.go and admin.go that race with them.                  *)
(*                                                                         *)
(* Every HTTP request runs in its own goroutine and every database call is *)
(* atomic by itself, with no transaction around two of them.  So a handler *)
(* is a process whose steps are its database and provider calls, and       *)
(* anything may happen between two steps: the steps of other handlers, a   *)
(* failed call, or a restart of the server that forgets every handler.     *)
(***************************************************************************)
EXTENDS Naturals, FiniteSets

CONSTANTS
    Handlers,       \* request goroutines that may be running at a time
    References,     \* payment references
    Emails,         \* account e-mail addresses
    Fold,           \* an e-mail without the case of its letters
    NoReference,    \* the reference of a handler that serves no request
    NoEmail,        \* the e-mail of a payment record that does not exist
    MaxFaults       \* bound: failed calls and restarts in a behaviour

ASSUME FaultsAssumption   == MaxFaults \in Nat
ASSUME HandlersAssumption == IsFiniteSet(Handlers)
ASSUME NullAssumption     == NoReference \notin References /\ NoEmail \notin Emails

VARIABLES
    accounts,       \* e-mails with a document in "users"
    payments,       \* "payment_history", by reference
    pc,             \* the next call of each handler
    req,            \* the reference and e-mail a handler works on
    deleter,        \* the deletion that is half done for an account
    provider,       \* Paystack's state of the transaction
    links,          \* references whose checkout link reached the customer
    acked,          \* references whose webhook was answered with 200
    credits,        \* history: $inc updates of "users" made for a reference
    claims,         \* history: records switched to credited
    notices,        \* history: "Payment successful" notifications
    faults          \* failed calls and restarts so far

store == <<accounts, payments>>
paystack == <<provider, links>>
history == <<credits, claims, notices>>
vars == <<accounts, payments, pc, req, deleter, provider, links, acked,
          credits, claims, notices, faults>>

Absent == [status |-> "absent", email |-> NoEmail, credited |-> FALSE]

PaymentRecord ==
    [status : {"absent", "initialized", "success"},
     email : Emails \union {NoEmail},
     credited : BOOLEAN]

Stages == {"idle", "save", "find", "ask", "user", "credit", "mark", "notify"}

Idle == [ref |-> NoReference, email |-> NoEmail, webhook |-> FALSE]

Request ==
    [ref : References \union {NoReference},
     email : Emails \union {NoEmail},
     webhook : BOOLEAN]

TypeOK ==
    /\ accounts \subseteq Emails
    /\ payments \in [References -> PaymentRecord]
    /\ pc \in [Handlers -> Stages]
    /\ req \in [Handlers -> Request]
    /\ deleter \in [Emails -> {"none", "account", "history"}]
    /\ provider \in [References -> {"none", "open", "success", "failed"}]
    /\ links \subseteq References
    /\ acked \subseteq References
    /\ credits \in [References -> Nat]
    /\ claims \in [References -> Nat]
    /\ notices \in [References -> Nat]
    /\ faults \in 0 .. MaxFaults

Init ==
    /\ accounts = {}
    /\ payments = [r \in References |-> Absent]
    /\ pc = [h \in Handlers |-> "idle"]
    /\ req = [h \in Handlers |-> Idle]
    /\ deleter = [e \in Emails |-> "none"]
    /\ provider = [r \in References |-> "none"]
    /\ links = {}
    /\ acked = {}
    /\ credits = [r \in References |-> 0]
    /\ claims = [r \in References |-> 0]
    /\ notices = [r \in References |-> 0]
    /\ faults = 0

-----------------------------------------------------------------------------
(* The life of a handler.                                                  *)

Stored(r) == payments[r].status /= "absent"

\* How the routes compare e-mails.  Accounts are looked up exactly, so two
\* accounts whose e-mails differ only in case are equal here and nowhere else.
EqualFold(a, b) == Fold[a] = Fold[b]

\* The caller asks for another's payment; one without an e-mail is anybody's.
Forbidden(owner, caller) == owner /= NoEmail /\ ~EqualFold(owner, caller)

Start(h, stage, r, e, webhook) ==
    /\ pc[h] = "idle"
    /\ pc' = [pc EXCEPT ![h] = stage]
    /\ req' = [req EXCEPT ![h] = [ref |-> r, email |-> e, webhook |-> webhook]]

Goto(h, stage) ==
    /\ pc' = [pc EXCEPT ![h] = stage]
    /\ UNCHANGED <<req, acked>>

Finish(h) ==
    /\ pc' = [pc EXCEPT ![h] = "idle"]
    /\ req' = [req EXCEPT ![h] = Idle]

\* Slip: errors are answered with 200.
ReplyErrorAs200(h) ==
    /\ Finish(h)
    /\ acked' = IF req[h].webhook THEN acked \union {req[h].ref} ELSE acked

\* An error: the client gets 400, and Paystack will send the webhook again.
ReplyError(h) == Finish(h) /\ UNCHANGED acked

\* Success: a webhook that gets its 200 is not sent again.
ReplyOK(h) ==
    /\ Finish(h)
    /\ acked' = IF req[h].webhook THEN acked \union {req[h].ref} ELSE acked

-----------------------------------------------------------------------------
(* Starting a payment.                                                     *)

\* The order of Paystack, which refuses a reference it has seen before.
AcceptsReference(r) == provider[r] = "none"

\* Paystack accepts the transaction; nothing is stored here yet.
InitializePaymentForPlan(h, r, e) ==
    /\ AcceptsReference(r)
    /\ Start(h, "save", r, e, FALSE)
    /\ provider' = [provider EXCEPT ![r] = "open"]
    /\ UNCHANGED <<store, deleter, links, acked, history, faults>>

\* The upsert, which also resets "credited", and the reply with the link.
SaveInitialized(h) ==
    LET r == req[h].ref IN
    /\ pc[h] = "save"
    /\ payments' = [payments EXCEPT
            ![r] = [status |-> "initialized", email |-> req[h].email,
                    credited |-> FALSE]]
    /\ links' = links \union {r}
    /\ ReplyOK(h)
    /\ UNCHANGED <<accounts, deleter, provider, history, faults>>

\* The customer follows the link; a failed attempt may be followed by another.
CustomerPays(r) ==
    /\ r \in links
    /\ provider[r] /= "success"
    /\ \E outcome \in {"success", "failed"} :
            provider' = [provider EXCEPT ![r] = outcome]
    /\ UNCHANGED <<store, pc, req, deleter, links, acked, history, faults>>

-----------------------------------------------------------------------------
(* Verifying a payment.                                                    *)

\* The client asks; the record, if it is there, must be the caller's.  (A lookup
\* that fails skips this comparison; what follows credits the record's owner.)
PaystackVerifyRoute(h, r, caller) ==
    /\ Stored(r) => ~Forbidden(payments[r].email, caller)
    /\ Start(h, "find", r, caller, FALSE)
    /\ UNCHANGED <<store, deleter, paystack, acked, history, faults>>

\* Slip: Paystack is answered at once, before the payment is verified.
PaystackWebhookRouteEarlyAck(h, r) ==
    /\ provider[r] \in {"success", "failed"}
    /\ r \notin acked
    /\ Start(h, "find", r, NoEmail, TRUE)
    /\ acked' = acked \union {r}
    /\ UNCHANGED <<store, deleter, paystack, history, faults>>

\* Paystack reports how a charge ended, again and again until it gets 200.
PaystackWebhookRoute(h, r) ==
    /\ provider[r] \in {"success", "failed"}
    /\ r \notin acked
    /\ Start(h, "find", r, NoEmail, TRUE)
    /\ UNCHANGED <<store, deleter, paystack, acked, history, faults>>

\* Slip: step 2 is missing.
FindPaymentUnchecked(h) ==
    /\ pc[h] = "find"
    /\ IF Stored(req[h].ref)
       THEN /\ pc' = [pc EXCEPT ![h] = "ask"]
            /\ req' = [req EXCEPT ![h].email = payments[req[h].ref].email]
            /\ UNCHANGED acked
       ELSE ReplyError(h)
    /\ UNCHANGED <<store, deleter, paystack, history, faults>>

\* Steps 1 and 2: find the record; a credited one is answered at once.
FindPayment(h) ==
    LET r == req[h].ref IN
    /\ pc[h] = "find"
    /\ \/ ~Stored(r) /\ ReplyError(h)
       \/ Stored(r) /\ payments[r].credited /\ ReplyOK(h)
       \/ /\ Stored(r) /\ ~payments[r].credited
          /\ pc' = [pc EXCEPT ![h] = "ask"]
          /\ req' = [req EXCEPT ![h].email = payments[r].email]
          /\ UNCHANGED acked
    /\ UNCHANGED <<store, deleter, paystack, history, faults>>

\* Steps 3 to 7: ask Paystack, which must report a successful charge.
AskPaystack(h) ==
    /\ pc[h] = "ask"
    /\ IF provider[req[h].ref] = "success"
       THEN Goto(h, "user")
       ELSE ReplyError(h)
    /\ UNCHANGED <<store, deleter, paystack, history, faults>>

\* Step 8: the account must exist.
FindUser(h) ==
    /\ pc[h] = "user"
    /\ IF req[h].email \in accounts THEN Goto(h, "credit") ELSE ReplyError(h)
    /\ UNCHANGED <<store, deleter, paystack, history, faults>>

\* Slip: step 10 is missing, an update that matched no account goes on.
CreditUserUnmatched(h) ==
    /\ pc[h] = "credit"
    /\ IF req[h].email \in accounts
       THEN credits' = [credits EXCEPT ![req[h].ref] = @ + 1]
       ELSE UNCHANGED credits
    /\ Goto(h, "mark")
    /\ UNCHANGED <<store, deleter, paystack, claims, notices, faults>>

\* Steps 9 and 10: add the tokens to the account, if it is still there.
CreditUser(h) ==
    /\ pc[h] = "credit"
    /\ IF req[h].email \in accounts
       THEN /\ credits' = [credits EXCEPT ![req[h].ref] = @ + 1]
            /\ Goto(h, "mark")
       ELSE /\ ReplyError(h)
            /\ UNCHANGED credits
    /\ UNCHANGED <<store, deleter, paystack, claims, notices, faults>>

\* Steps 11 and 12: claim the record, with the filter credited = false.
MarkCredited(h) ==
    LET r == req[h].ref IN
    /\ pc[h] = "mark"
    /\ IF Stored(r) /\ ~payments[r].credited
       THEN /\ payments' = [payments EXCEPT
                    ![r] = [status |-> "success", email |-> req[h].email,
                            credited |-> TRUE]]
            /\ claims' = [claims EXCEPT ![r] = @ + 1]
            /\ Goto(h, "notify")
       ELSE /\ ReplyError(h)
            /\ UNCHANGED <<payments, claims>>
    /\ UNCHANGED <<accounts, deleter, paystack, credits, notices, faults>>

\* Step 13: tell the customer, whose notification may fail, and reply.
NotifySuccess(h) ==
    /\ pc[h] = "notify"
    /\ notices' = [notices EXCEPT ![req[h].ref] = @ + 1]
    /\ ReplyOK(h)
    /\ UNCHANGED <<store, deleter, paystack, credits, claims, faults>>

-----------------------------------------------------------------------------
(* Failures: a call that returns an error, and a restart of the server.    *)

CallFails(h) ==
    /\ faults < MaxFaults
    /\ faults' = faults + 1
    /\ \/ pc[h] \in Stages \ {"idle", "notify"} /\ ReplyError(h)
       \/ pc[h] = "notify" /\ ReplyOK(h)
    /\ UNCHANGED <<store, deleter, paystack, history>>

Restart ==
    /\ faults < MaxFaults
    /\ faults' = faults + 1
    /\ pc' = [h \in Handlers |-> "idle"]
    /\ req' = [h \in Handlers |-> Idle]
    /\ deleter' = [e \in Emails |-> "none"]
    /\ UNCHANGED <<store, paystack, acked, history>>

-----------------------------------------------------------------------------
(* Accounts come and go meanwhile.                                         *)

Register(e) ==
    /\ e \notin accounts
    /\ accounts' = accounts \union {e}
    /\ UNCHANGED <<payments, pc, req, deleter, paystack, acked, history, faults>>

WithoutHistoryOf(e) ==
    [r \in References |-> IF payments[r].email = e THEN Absent ELSE payments[r]]

\* A user deletes the own account: the payment history goes first.
DeleteCurrentUser(e) ==
    /\ deleter[e] = "none"
    /\ deleter' = [deleter EXCEPT ![e] = "account"]
    /\ payments' = WithoutHistoryOf(e)
    /\ UNCHANGED <<accounts, pc, req, paystack, acked, history, faults>>

\* An administrator deletes it: the account goes first.
DeleteUserByEmail(e) ==
    /\ deleter[e] = "none"
    /\ deleter' = [deleter EXCEPT ![e] = "history"]
    /\ accounts' = accounts \ {e}
    /\ UNCHANGED <<payments, pc, req, paystack, acked, history, faults>>

FinishDelete(e) ==
    /\ \/ /\ deleter[e] = "account"
          /\ accounts' = accounts \ {e}
          /\ UNCHANGED payments
       \/ /\ deleter[e] = "history"
          /\ payments' = WithoutHistoryOf(e)
          /\ UNCHANGED accounts
    /\ deleter' = [deleter EXCEPT ![e] = "none"]
    /\ UNCHANGED <<pc, req, paystack, acked, history, faults>>

-----------------------------------------------------------------------------

HandlerStep(h) ==
    \/ SaveInitialized(h)
    \/ FindPayment(h)
    \/ AskPaystack(h)
    \/ FindUser(h)
    \/ CreditUser(h)
    \/ MarkCredited(h)
    \/ NotifySuccess(h)

\* What happens while the server runs.
Running ==
    \/ \E h \in Handlers : HandlerStep(h) \/ CallFails(h)
    \/ \E h \in Handlers, r \in References :
            \/ PaystackWebhookRoute(h, r)
            \/ \E e \in Emails : InitializePaymentForPlan(h, r, e)
            \/ \E e \in Emails : PaystackVerifyRoute(h, r, e)
    \/ \E r \in References : CustomerPays(r)
    \/ \E e \in Emails : \/ Register(e)
                         \/ DeleteCurrentUser(e)
                         \/ DeleteUserByEmail(e)
                         \/ FinishDelete(e)

Next == Running \/ Restart

Spec == Init /\ [][Next]_vars

\* A goroutine that can run does run.  Paystack repeats a webhook until it
\* is answered, and the server starts a goroutine for every request it gets:
\* in the model a handler only has to become idle from time to time.
Fairness ==
    /\ \A h \in Handlers : WF_vars(HandlerStep(h))
    /\ \A r \in References : SF_vars(\E h \in Handlers : PaystackWebhookRoute(h, r))

FairSpec == Spec /\ Fairness
-----------------------------------------------------------------------------
(* Safety.                                                                 *)

\* Nobody gets tokens for a charge Paystack did not report as successful,
\* whatever fails or restarts between the question and the $inc of step 9.
GrantedOnlyIfPaid ==
    \A r \in References : credits[r] > 0 => provider[r] = "success"

\* A record that says "credited" was credited: no interleaving of handlers,
\* account deletions and failures marks a payment whose $inc matched nobody.
SettledOnlyIfGranted ==
    \A r \in References : payments[r].credited => credits[r] > 0

\* However many handlers race for a record, the filter of step 12 lets one of
\* them claim it, and only that one tells the customer about it.
SettledOnce ==
    \A r \in References : claims[r] <= 1 /\ notices[r] <= claims[r]

\* The webhook gets its 200, after which Paystack stops repeating it, only
\* for a payment that was claimed: an answer given too early loses the money.
AckMeansSettled ==
    \A r \in acked : claims[r] = 1

\* The most a payment can be credited: once per request in flight, and as
\* often again for each failure between the $inc and the claim of the record.
GrantLimit == Cardinality(Handlers) * (MaxFaults + 1)

OverCreditBound ==
    \A r \in References : credits[r] <= Cardinality(Handlers) * (faults + 1)

\* What step 2 and the claim of step 12 are for ("another request claimed the
\* payment record. Do not credit the user again.", payment.go:905-907).  It
\* holds when requests do not overlap and no call fails, and not otherwise.
CreditedAtMostOnce ==
    \A r \in References : credits[r] <= 1

Promise == INSTANCE TokenGrant WITH
    Limit   <- GrantLimit,
    paid    <- {r \in References : provider[r] = "success"},
    granted <- credits,
    settled <- {r \in References : claims[r] > 0}

\* Handlers, webhooks, failures, restarts and deletions together implement
\* the promise to the customer, with the limit above on repeated grants.
ImplementsPromise == Promise!GrantSpec

-----------------------------------------------------------------------------
(* Liveness, of FairSpec.                                                  *)

\* A paid payment ends up credited, although the handlers that work on it may
\* fail or be forgotten at any step, unless the account or the record is
\* deleted: the repeated webhook retries what was left half done.
PaidIsSettled ==
    \A r \in References :
        provider[r] = "success" /\ Stored(r)
            ~> \/ payments[r].credited
               \/ ~Stored(r)
               \/ payments[r].email \notin accounts
=============================================================================
