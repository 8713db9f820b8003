--------------------------- MODULE PaystackStream ---------------------------
(***************************************************************************)
(* PaystackPaymentStreamRoute of src/routes/payment.go beside the card     *)
(* payments: a customer who waits for a payment keeps a server-sent event  *)
(* stream open, which looks at the record every four seconds while the     *)
(* webhook, other requests, failures and deletions change it.              *)
(***************************************************************************)
EXTENDS PaystackPayments

CONSTANT
    Callers         \* the accounts that may have a stream open

ASSUME CallersAssumption == Callers \subseteq Emails

VARIABLE
    stream          \* the stream of each caller, and what it told last

svars == <<vars, stream>>

Closed == [ref |-> NoReference, open |-> FALSE, told |-> "nothing"]

Stream ==
    [ref : References, open : BOOLEAN,
     told : {"connected", "initialized", "success", "error"}]

StreamType == stream \in [Callers -> Stream \union {Closed}]

StreamInit == Init /\ stream = [e \in Callers |-> Closed]

-----------------------------------------------------------------------------

\* Any reference is accepted; the record is looked up at the first tick.
PaystackPaymentStreamRoute(e, r) ==
    /\ ~stream[e].open
    /\ stream' = [stream EXCEPT
            ![e] = [ref |-> r, open |-> TRUE, told |-> "connected"]]
    /\ UNCHANGED vars

End(e, event) ==
    stream' = [stream EXCEPT ![e].open = FALSE, ![e].told = event]

\* Slip: the stream looks out for the status that crypto payments end with.
StreamTickCompleted(e) ==
    LET r == stream[e].ref IN
    /\ stream[e].open
    /\ IF ~Stored(r) \/ Forbidden(payments[r].email, e)
       THEN End(e, "error")
       ELSE IF payments[r].status \in {"completed", "failed"}
            THEN End(e, payments[r].status)
            ELSE stream' = [stream EXCEPT ![e].told = payments[r].status]
    /\ UNCHANGED vars

\* Slip: the record is sent before its owner is compared with the caller.
StreamTickSendsFirst(e) ==
    LET r == stream[e].ref IN
    /\ stream[e].open
    /\ IF ~Stored(r)
       THEN End(e, "error")
       ELSE IF payments[r].status \in {"success", "failed"}
            THEN End(e, payments[r].status)
            ELSE stream' = [stream EXCEPT ![e].told = payments[r].status]
    /\ UNCHANGED vars

\* One lookup, and one event: "payment not found" and "forbidden" end the
\* stream, and so do the statuses "success" and "failed".
StreamTick(e) ==
    LET r == stream[e].ref IN
    /\ stream[e].open
    /\ \/ ~Stored(r) /\ End(e, "error")
       \/ Stored(r) /\ Forbidden(payments[r].email, e) /\ End(e, "error")
       \/ /\ Stored(r) /\ ~Forbidden(payments[r].email, e)
          /\ IF payments[r].status \in {"success", "failed"}
             THEN End(e, payments[r].status)
             ELSE stream' = [stream EXCEPT ![e].told = payments[r].status]
    /\ UNCHANGED vars

\* A lookup that returns an error is told as a payment that is not found.
StreamTickFails(e) ==
    /\ stream[e].open
    /\ End(e, "error")
    /\ UNCHANGED vars

\* The request's context is done.
ClientLeaves(e) ==
    /\ stream[e].open
    /\ stream' = [stream EXCEPT ![e] = Closed]
    /\ UNCHANGED vars

StreamStep(e) ==
    \/ StreamTick(e)
    \/ StreamTickFails(e)
    \/ ClientLeaves(e)
    \/ \E r \in References : PaystackPaymentStreamRoute(e, r)

\* A restart breaks the connections.
RestartStreams == Restart /\ stream' = [e \in Callers |-> Closed]

StreamNext ==
    \/ Running /\ UNCHANGED stream
    \/ RestartStreams
    \/ \E e \in Callers : StreamStep(e)

StreamSpec == StreamInit /\ [][StreamNext]_svars

\* The ticker of an open stream fires, beside the fairness of the payments.
FairStreamSpec ==
    /\ StreamSpec
    /\ Fairness
    /\ \A e \in Callers : WF_svars(StreamTick(e))

-----------------------------------------------------------------------------
(* Properties.                                                             *)

\* A customer who was told "success", the event the stream ends with, has the
\* tokens, and the charge succeeded: whatever races with the record between
\* two ticks, the status never runs ahead of the account.
ToldSuccessIsGranted ==
    \A e \in Callers : stream[e].told = "success" =>
        /\ credits[stream[e].ref] > 0
        /\ provider[stream[e].ref] = "success"

\* Nobody is told the status of a payment made for another account, also when
\* records are deleted, or written late by a handler that started before: except
\* for an account whose e-mail differs only in the case of its letters, which the
\* routes take for the owner.
ToldToOwner ==
    \A e \in Callers : stream[e].told \in {"initialized", "success"} =>
        LET owner == payments[stream[e].ref].email
        IN  owner = NoEmail \/ EqualFold(owner, e)

\* A customer who waits for a paid payment is not kept waiting: webhook and
\* stream together end the stream, unless the account is gone.
PaidStreamEnds ==
    \A e \in Callers, r \in References :
        (stream[e].open /\ stream[e].ref = r /\ provider[r] = "success")
            ~> \/ ~stream[e].open
               \/ stream[e].ref /= r
               \/ payments[r].email \notin accounts
=============================================================================
