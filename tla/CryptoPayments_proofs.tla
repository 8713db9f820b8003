------------------------ MODULE CryptoPayments_proofs -----------------------
(***************************************************************************)
(* Proofs about CryptoPayments, for any number of handlers, payments,      *)
(* e-mails, signatures and failures.                                       *)
(*                                                                         *)
(* Busy says what a handler between two calls works on, Granted that the   *)
(* $inc came before the mark and the notification, Watched that a stream   *)
(* has shown only a payment that was its caller's when it was shown, or    *)
(* that of a twin whose e-mail differs in case: a payment keeps its owner  *)
(* until it is deleted, and its id is not used again.                      *)
(* Budget counts the handlers that may still add the tokens of a payment,  *)
(* which bounds how often overlaps and failures repeat the $inc.           *)
(***************************************************************************)
EXTENDS CryptoPayments, FiniteSetTheorems, TLAPS

Busy ==
    \A h \in Handlers :
        /\ pc[h] /= "idle" => req[h].payment \in Payments
        /\ pc[h] = "save" => req[h].signature \in Signatures

Granted ==
    /\ \A h \in Handlers : pc[h] \in {"mark", "notify"} => credits[req[h].payment] > 0
    /\ CreditedIsGranted

Watched ==
    \A e \in Emails :
        stream[e].shown \notin {"nothing", "connected"} =>
                /\ crypto[stream[e].payment] /= Unissued
                /\ ~Forbidden(crypto[stream[e].payment].email, e)

\* A payment that was not issued yet was never worked on.
Fresh ==
    /\ \A p \in Payments : crypto[p] = Unissued => credits[p] = 0
    /\ \A h \in Handlers : pc[h] \in {"user", "credit", "mark"} =>
            crypto[req[h].payment] /= Unissued

\* Handlers between two calls on a payment.
At(stages, p) == {h \in Handlers : pc[h] \in stages /\ req[h].payment = p}

\* Handlers that found the payment pending and may yet add its tokens.
MayGrant(p) == At({"user", "credit"}, p)

\* Handlers that have added them and not yet marked the payment.
HasGranted(p) == At({"mark"}, p)

Open(p) == Stored(p) /\ ~crypto[p].credited

N == Cardinality(Handlers)

BudgetOf(p) ==
    /\ Open(p) => credits[p] <= N * faults + Cardinality(HasGranted(p))
    /\ ~Open(p) => credits[p] + Cardinality(MayGrant(p)) <= N * faults + N

Budget == \A p \in Payments : BudgetOf(p)

-----------------------------------------------------------------------------
(* The documents, and what the helpers do to the handlers.                 *)

Document == CryptoPayment \union {Unissued, Deleted}

LEMMA Documents ==
    /\ Unissued \in Document /\ Deleted \in Document /\ Unissued /= Deleted
    /\ Unissued.email = NoEmail /\ Deleted.email = NoEmail
    /\ ~Unissued.credited /\ ~Deleted.credited
    /\ Unissued.status = "unissued" /\ Deleted.status = "deleted"
BY DEF Document, Unissued, Deleted, Blank

LEMMA StoredDocument ==
    ASSUME TypeOK, NEW p \in Payments, Stored(p)
    PROVE  crypto[p] \in CryptoPayment
BY DEF TypeOK, Stored

LEMMA OwnedIsStored ==
    ASSUME TypeOK, NEW p \in Payments, crypto[p].email \in Emails
    PROVE  Stored(p)
BY Documents, CryptoNullAssumption DEF Stored

HandlerTypes == pc' \in [Handlers -> Stages] /\ req' \in [Handlers -> Request]

Others(h) == \A g \in Handlers \ {h} : pc'[g] = pc[g] /\ req'[g] = req[g]

LEMMA ReplyEffect ==
    ASSUME TypeOK, NEW h \in Handlers, Reply(h)
    PROVE  HandlerTypes /\ Others(h) /\ pc'[h] = "idle"
BY DEF TypeOK, Reply, HandlerTypes, Others, Idle, Request, Stages

LEMMA GotoEffect ==
    ASSUME TypeOK, NEW h \in Handlers, NEW s \in Stages, Goto(h, s)
    PROVE  HandlerTypes /\ Others(h) /\ pc'[h] = s /\ req' = req
BY DEF TypeOK, Goto, HandlerTypes, Others

-----------------------------------------------------------------------------
(* Types.                                                                  *)

LEMMA InitTypes == Init => TypeOK /\ Busy /\ Granted /\ Watched
<1> SUFFICES ASSUME Init PROVE TypeOK /\ Busy /\ Granted /\ Watched
  OBVIOUS
<1>1. TypeOK
  BY CryptoFaultsAssumption
  DEF Init, TypeOK, Stages, Idle, Request, Closed, Stream
<1>2. Busy /\ Granted
  BY Documents DEF Init, Busy, Granted, CreditedIsGranted
<1>3. Watched
  BY DEF Init, Watched, Closed
<1> QED
  BY <1>1, <1>2, <1>3

LEMMA TypesStep == TypeOK /\ Busy /\ [Next]_vars => TypeOK' /\ Busy'
<1> SUFFICES ASSUME TypeOK, Busy, [Next]_vars PROVE TypeOK' /\ Busy'
  OBVIOUS
<1> DEFINE Good == TypeOK' /\ Busy'
<1>d. crypto \in [Payments -> Document]
  BY DEF TypeOK, Document
<1>g. ASSUME \/ pc' = pc /\ req' = req
             \/ \E h \in Handlers : HandlerTypes /\ Others(h) /\ pc'[h] \in {"idle"}
             \/ \E h \in Handlers : /\ HandlerTypes /\ Others(h) /\ pc'[h] /= "save"
                                    /\ req'[h].payment \in Payments
      PROVE  HandlerTypes /\ Busy'
  BY <1>g DEF TypeOK, Busy, HandlerTypes, Others
<1>t. ASSUME HandlerTypes, Busy', accounts' \subseteq Emails,
             crypto' \in [Payments -> Document], stream' \in [Emails -> Stream \union {Closed}],
             deleting' \subseteq Emails, credits' \in [Payments -> Nat],
             notices' \in [Payments -> Nat], faults' \in 0 .. MaxFaults
      PROVE  Good
  BY <1>t DEF TypeOK, HandlerTypes, Document
<1> SUFFICES Good
  OBVIOUS
<1> HIDE DEF Good
<1>1. ASSUME NEW h \in Handlers, SaveSignature(h) PROVE Good
  <2>1. req[h].payment \in Payments /\ req[h].signature \in Signatures
    BY <1>1 DEF SaveSignature, Busy
  <2>2. HandlerTypes /\ Busy'
    BY <1>1, <1>g, ReplyEffect DEF SaveSignature
  <2>3. crypto' \in [Payments -> Document]
    BY <1>1, <1>d, <2>1, StoredDocument, SMTT(30) DEF SaveSignature, Document, CryptoPayment
  <2> QED
    BY <1>1, <1>t, <2>2, <2>3 DEF SaveSignature, TypeOK, history
<1>2. ASSUME NEW h \in Handlers, FindCryptoPayment(h) PROVE Good
  <2>1. req[h].payment \in Payments
    BY <1>2 DEF FindCryptoPayment, Busy
  <2>2. CASE Reply(h)
    BY <1>2, <1>g, <1>t, <1>d, <2>2, ReplyEffect DEF FindCryptoPayment, TypeOK, history
  <2>3. CASE ~Reply(h)
    <3>1. crypto[req[h].payment].email \in Emails
      BY <1>2, <2>1, <2>3, StoredDocument DEF FindCryptoPayment, CryptoPayment
    <3>2. /\ pc' = [pc EXCEPT ![h] = "user"]
          /\ req' = [req EXCEPT ![h].email = crypto[req[h].payment].email]
      BY <1>2, <2>3 DEF FindCryptoPayment
    <3>3. HandlerTypes /\ Others(h) /\ pc'[h] = "user" /\ req'[h].payment = req[h].payment
      BY <3>1, <3>2 DEF TypeOK, HandlerTypes, Others, Request, Stages
    <3> QED
      BY <1>2, <1>g, <1>t, <1>d, <2>1, <3>3 DEF FindCryptoPayment, TypeOK, history
  <2> QED
    BY <2>2, <2>3
<1>3. ASSUME NEW h \in Handlers, FindOwner(h) PROVE Good
  <2>1. req[h].payment \in Payments
    BY <1>3 DEF FindOwner, Busy
  <2>2. HandlerTypes /\ Busy'
    BY <1>3, <1>g, <2>1, ReplyEffect, GotoEffect DEF FindOwner, Stages
  <2> QED
    BY <1>3, <1>t, <1>d, <2>2 DEF FindOwner, TypeOK, history
<1>4. ASSUME NEW h \in Handlers, CreditOwner(h) PROVE Good
  <2>1. req[h].payment \in Payments
    BY <1>4 DEF CreditOwner, Busy
  <2>2. HandlerTypes /\ Busy'
    BY <1>4, <1>g, <2>1, ReplyEffect, GotoEffect DEF CreditOwner, Stages
  <2>3. credits' \in [Payments -> Nat]
    BY <1>4, <2>1 DEF CreditOwner, TypeOK
  <2> QED
    BY <1>4, <1>t, <1>d, <2>2, <2>3 DEF CreditOwner, TypeOK
<1>5. ASSUME NEW h \in Handlers, MarkCompleted(h) PROVE Good
  <2>1. req[h].payment \in Payments
    BY <1>5 DEF MarkCompleted, Busy
  <2>2. HandlerTypes /\ Busy'
    BY <1>5, <1>g, <2>1, GotoEffect DEF MarkCompleted, Stages
  <2>3. crypto' \in [Payments -> Document]
    BY <1>5, <1>d, <2>1, StoredDocument DEF MarkCompleted, Document, CryptoPayment
  <2> QED
    BY <1>5, <1>t, <2>2, <2>3 DEF MarkCompleted, TypeOK, history
<1>6. ASSUME NEW h \in Handlers, NotifyCompleted(h) PROVE Good
  <2>1. req[h].payment \in Payments
    BY <1>6 DEF NotifyCompleted, Busy
  <2>2. HandlerTypes /\ Busy'
    BY <1>6, <1>g, ReplyEffect DEF NotifyCompleted
  <2>3. notices' \in [Payments -> Nat]
    BY <1>6, <2>1 DEF NotifyCompleted, TypeOK
  <2> QED
    BY <1>6, <1>t, <1>d, <2>2, <2>3 DEF NotifyCompleted, TypeOK
<1>7. ASSUME NEW h \in Handlers, CallFails(h) PROVE Good
  <2>1. HandlerTypes /\ Busy'
    BY <1>7, <1>g, ReplyEffect DEF CallFails
  <2>2. faults' \in 0 .. MaxFaults
    BY <1>7, CryptoFaultsAssumption DEF CallFails, TypeOK
  <2> QED
    BY <1>7, <1>t, <1>d, <2>1, <2>2 DEF CallFails, TypeOK, history
<1>8. ASSUME NEW h \in Handlers, NEW p \in Payments, CallComplete(h, p) PROVE Good
  <2>1. /\ HandlerTypes /\ Others(h) /\ pc'[h] = "find" /\ req'[h].payment = p
    BY <1>8 DEF CallComplete, TypeOK, HandlerTypes, Others, Request, Stages
  <2> QED
    BY <1>8, <1>g, <1>t, <1>d, <2>1 DEF CallComplete, TypeOK, history
<1>9. ASSUME NEW h \in Handlers, NEW p \in Payments, NEW s \in Signatures,
             SaveCryptoPaymentSignature(h, p, s)
      PROVE  Good
  <2>1. /\ HandlerTypes /\ Others(h) /\ pc'[h] = "save"
        /\ req'[h].payment = p /\ req'[h].signature = s
    BY <1>9, ZenonT(60) DEF SaveCryptoPaymentSignature, TypeOK, HandlerTypes, Others, Request, Stages
  <2>2. Busy'
    BY <2>1 DEF Busy, Others
  <2> QED
    BY <1>9, <1>t, <1>d, <2>1, <2>2 DEF SaveCryptoPaymentSignature, TypeOK, history
<1>10. ASSUME NEW e \in Emails, NEW p \in Payments, CreateCryptoTokenPayment(p, e)
      PROVE  Good
  <2>1. crypto' \in [Payments -> Document]
    BY <1>10, <1>d DEF CreateCryptoTokenPayment, Document, CryptoPayment
  <2> QED
    BY <1>10, <1>g, <1>t, <2>1 DEF CreateCryptoTokenPayment, TypeOK, history, HandlerTypes
<1>11. ASSUME NEW e \in Emails, NEW p \in Payments, CryptoPaymentStreamRoute(e, p)
      PROVE  Good
  <2>1. stream' \in [Emails -> Stream \union {Closed}]
    BY <1>11 DEF CryptoPaymentStreamRoute, TypeOK, Stream
  <2> QED
    BY <1>11, <1>g, <1>t, <1>d, <2>1 DEF CryptoPaymentStreamRoute, TypeOK, history, HandlerTypes
<1>12. ASSUME NEW e \in Emails, StreamTick(e) PROVE Good
  <2>0. stream[e] \in Stream
    BY <1>12 DEF StreamTick, TypeOK
  <2>1. stream' \in [Emails -> Stream \union {Closed}]
    <3>1. CASE ~Stored(stream[e].payment) \/ Forbidden(crypto[stream[e].payment].email, e)
               \/ crypto[stream[e].payment].status \in {"success", "failed"}
      <4>1. stream' = [stream EXCEPT ![e] = Closed]
        BY <1>12, <3>1 DEF StreamTick
      <4> QED
        BY <2>0, <4>1 DEF TypeOK
    <3>2. CASE ~(~Stored(stream[e].payment) \/ Forbidden(crypto[stream[e].payment].email, e)
               \/ crypto[stream[e].payment].status \in {"success", "failed"})
      <4>1. stream' = [stream EXCEPT
                ![e] = [stream[e] EXCEPT !.shown = crypto[stream[e].payment].status]]
        BY <1>12, <3>2 DEF StreamTick
      <4>2. crypto[stream[e].payment].status \in {"pending", "verifying", "completed"}
        BY <2>0, <3>2, StoredDocument DEF CryptoPayment, Stream
      <4>3. [stream[e] EXCEPT !.shown = crypto[stream[e].payment].status] \in Stream
        BY <2>0, <4>2 DEF Stream
      <4> QED
        BY <4>1, <4>3 DEF TypeOK
    <3> QED
      BY <3>1, <3>2
  <2> QED
    BY <1>12, <1>g, <1>t, <1>d, <2>1 DEF StreamTick, TypeOK, history, HandlerTypes
<1>13. ASSUME NEW e \in Emails, ClientLeaves(e) PROVE Good
  <2>1. stream' \in [Emails -> Stream \union {Closed}]
    BY <1>13 DEF ClientLeaves, TypeOK, Stream, Closed
  <2> QED
    BY <1>13, <1>g, <1>t, <1>d, <2>1 DEF ClientLeaves, TypeOK, history, HandlerTypes
<1>14. ASSUME NEW e \in Emails, Register(e) PROVE Good
  BY <1>14, <1>g, <1>t, <1>d DEF Register, TypeOK, history, HandlerTypes
<1>15. ASSUME NEW e \in Emails, DeleteCurrentUser(e) PROVE Good
  <2>1. crypto' \in [Payments -> Document]
    BY <1>15, <1>d, Documents DEF DeleteCurrentUser
  <2> QED
    BY <1>15, <1>g, <1>t, <2>1 DEF DeleteCurrentUser, TypeOK, history, HandlerTypes
<1>16. ASSUME NEW e \in Emails, FinishDelete(e) PROVE Good
  BY <1>16, <1>g, <1>t, <1>d DEF FinishDelete, TypeOK, history, HandlerTypes
<1>17. ASSUME NEW e \in Emails, DeleteUserByEmail(e) PROVE Good
  BY <1>17, <1>g, <1>t, <1>d DEF DeleteUserByEmail, TypeOK, history, HandlerTypes
<1>18. CASE Restart
  <2>1. HandlerTypes /\ Busy'
    BY <1>18 DEF Restart, HandlerTypes, Busy, Idle, Request, Stages
  <2>2. faults' \in 0 .. MaxFaults /\ stream' \in [Emails -> Stream \union {Closed}]
    BY <1>18, CryptoFaultsAssumption DEF Restart, TypeOK, Stream, Closed
  <2> QED
    BY <1>18, <1>t, <1>d, <2>1, <2>2 DEF Restart, TypeOK, history
<1>19. CASE UNCHANGED vars
  BY <1>19, <1>g, <1>t, <1>d DEF vars, TypeOK, history, HandlerTypes
<1> QED
  BY <1>1, <1>2, <1>3, <1>4, <1>5, <1>6, <1>7, <1>8, <1>9, <1>10, <1>11,
      <1>12, <1>13, <1>14, <1>15, <1>16, <1>17, <1>18, <1>19
  DEF Next, HandlerStep
-----------------------------------------------------------------------------
(* The $inc comes first.                                                   *)

LEMMA GrantedStep == TypeOK /\ Busy /\ Granted /\ [Next]_vars => Granted'
<1> SUFFICES ASSUME TypeOK, Busy, Granted, [Next]_vars PROVE Granted'
  OBVIOUS
<1> DEFINE Late(h) == pc[h] \in {"mark", "notify"}
           Same == UNCHANGED <<crypto, credits, notices>>
<1>c. credits \in [Payments -> Nat] /\ crypto \in [Payments -> Document]
  BY DEF TypeOK, Document
\* A step that grants, marks and notifies nothing, and lets nobody pass.
<1>q. ASSUME UNCHANGED <<credits, notices>>,
             \A p \in Payments : crypto'[p].credited => crypto[p].credited,
             \A h \in Handlers : Late(h)' => Late(h) /\ req'[h] = req[h]
      PROVE  Granted'
  BY <1>q DEF Granted, CreditedIsGranted
<1>h. ASSUME NEW h \in Handlers, Same, Others(h), pc'[h] \notin {"mark", "notify"}
      PROVE  Granted'
  BY <1>h, <1>q DEF Others
<1>i. ASSUME Same, UNCHANGED <<pc, req>> PROVE Granted'
  BY <1>i, <1>q
<1>1. ASSUME NEW h \in Handlers, SaveSignature(h) PROVE Granted'
  <2>1. Others(h) /\ pc'[h] = "idle" /\ UNCHANGED <<credits, notices>>
    BY <1>1, ReplyEffect DEF SaveSignature, history
  <2>2. \A p \in Payments : crypto'[p].credited => crypto[p].credited
    <3> SUFFICES ASSUME NEW p \in Payments, crypto'[p].credited PROVE crypto[p].credited
      OBVIOUS
    <3>1. CASE p = req[h].payment /\ Stored(p)
      <4>1. crypto'[p] = [crypto[p] EXCEPT !.status = "verifying",
                                           !.signature = req[h].signature]
        BY <1>1, <1>c, <3>1 DEF SaveSignature
      <4> QED
        BY <4>1, <3>1, StoredDocument DEF CryptoPayment
    <3>2. CASE ~(p = req[h].payment /\ Stored(p))
      BY <1>1, <1>c, <3>2 DEF SaveSignature
    <3> QED
      BY <3>1, <3>2
  <2> QED
    BY <1>q, <2>1, <2>2 DEF Others
<1>2. ASSUME NEW h \in Handlers, FindCryptoPayment(h) PROVE Granted'
  <2>1. CASE Reply(h)
    BY <1>2, <1>h, <2>1, ReplyEffect DEF FindCryptoPayment, history
  <2>2. CASE ~Reply(h)
    <3>1. Others(h) /\ pc'[h] = "user"
      BY <1>2, <2>2 DEF FindCryptoPayment, Others, TypeOK
    <3> QED
      BY <1>2, <1>h, <3>1 DEF FindCryptoPayment, history
  <2> QED
    BY <2>1, <2>2
<1>3. ASSUME NEW h \in Handlers, FindOwner(h) PROVE Granted'
  <2>1. Others(h) /\ pc'[h] \notin {"mark", "notify"}
    BY <1>3, ReplyEffect, GotoEffect DEF FindOwner, Stages
  <2> QED
    BY <1>3, <1>h, <2>1 DEF FindOwner, history
<1>4. ASSUME NEW h \in Handlers, CreditOwner(h) PROVE Granted'
  <2>1. req[h].payment \in Payments
    BY <1>4 DEF CreditOwner, Busy
  <2>2. CASE req[h].email \in accounts
    <3>1. /\ credits' = [credits EXCEPT ![req[h].payment] = @ + 1]
          /\ UNCHANGED <<crypto, notices>>
          /\ Others(h) /\ pc'[h] = "mark" /\ req' = req
      BY <1>4, <2>2, GotoEffect DEF CreditOwner, Stages
    <3>2. credits'[req[h].payment] > 0
      BY <1>c, <2>1, <3>1
    <3>3. \A p \in Payments : credits[p] > 0 => credits'[p] > 0
      BY <1>c, <3>1
    <3> QED
      BY <2>1, <3>1, <3>2, <3>3 DEF Granted, CreditedIsGranted, Others, Busy
  <2>3. CASE req[h].email \notin accounts
    BY <1>4, <1>h, <2>3, ReplyEffect DEF CreditOwner, history
  <2> QED
    BY <2>2, <2>3
<1>5. ASSUME NEW h \in Handlers, MarkCompleted(h) PROVE Granted'
  <2> DEFINE r == req[h].payment
  <2>1. /\ r \in Payments /\ credits[r] > 0 /\ Others(h) /\ req' = req
        /\ pc[h] = "mark" /\ pc'[h] = "notify" /\ UNCHANGED <<credits, notices>>
    BY <1>5, GotoEffect DEF MarkCompleted, Busy, Granted, Stages, history
  <2>2. \A p \in Payments \ {r} : crypto'[p] = crypto[p]
    BY <1>5, <1>c DEF MarkCompleted
  <2> QED
    BY <2>1, <2>2 DEF Granted, CreditedIsGranted, Others
<1>6. ASSUME NEW h \in Handlers, NotifyCompleted(h) PROVE Granted'
  <2> DEFINE r == req[h].payment
  <2>1. /\ r \in Payments /\ credits[r] > 0 /\ Others(h) /\ pc'[h] = "idle"
        /\ UNCHANGED <<credits, crypto>>
        /\ \A p \in Payments \ {r} : notices'[p] = notices[p]
    BY <1>6, ReplyEffect DEF NotifyCompleted, Busy, Granted, TypeOK
  <2> QED
    BY <2>1 DEF Granted, CreditedIsGranted, Others
<1>7. ASSUME NEW h \in Handlers, CallFails(h) PROVE Granted'
  BY <1>7, <1>h, ReplyEffect DEF CallFails, history
<1>8. ASSUME NEW h \in Handlers, NEW p \in Payments, CallComplete(h, p) PROVE Granted'
  <2>1. Others(h) /\ pc'[h] = "find"
    BY <1>8 DEF CallComplete, Others, TypeOK
  <2> QED
    BY <1>8, <1>h, <2>1 DEF CallComplete, history
<1>9. ASSUME NEW h \in Handlers, NEW p \in Payments, NEW s \in Signatures,
             SaveCryptoPaymentSignature(h, p, s)
      PROVE  Granted'
  <2>1. Others(h) /\ pc'[h] = "save"
    BY <1>9 DEF SaveCryptoPaymentSignature, Others, TypeOK
  <2> QED
    BY <1>9, <1>h, <2>1 DEF SaveCryptoPaymentSignature, history
<1>10. ASSUME NEW e \in Emails, NEW p \in Payments, CreateCryptoTokenPayment(p, e)
      PROVE  Granted'
  <2>1. \A q \in Payments : crypto'[q].credited => crypto[q].credited
    BY <1>10, <1>c DEF CreateCryptoTokenPayment
  <2> QED
    BY <1>10, <1>q, <2>1 DEF CreateCryptoTokenPayment, history
<1>11. ASSUME NEW e \in Emails, NEW p \in Payments, CryptoPaymentStreamRoute(e, p)
      PROVE  Granted'
  BY <1>11, <1>i DEF CryptoPaymentStreamRoute, history
<1>12. ASSUME NEW e \in Emails, StreamTick(e) PROVE Granted'
  BY <1>12, <1>i DEF StreamTick, history
<1>13. ASSUME NEW e \in Emails, ClientLeaves(e) PROVE Granted'
  BY <1>13, <1>i DEF ClientLeaves, history
<1>14. ASSUME NEW e \in Emails, Register(e) PROVE Granted'
  BY <1>14, <1>i DEF Register, history
<1>15. ASSUME NEW e \in Emails, DeleteCurrentUser(e) PROVE Granted'
  <2>1. \A q \in Payments : crypto'[q].credited => crypto[q].credited
    BY <1>15, Documents DEF DeleteCurrentUser
  <2> QED
    BY <1>15, <1>q, <2>1 DEF DeleteCurrentUser, history
<1>16. ASSUME NEW e \in Emails, FinishDelete(e) PROVE Granted'
  BY <1>16, <1>i DEF FinishDelete, history
<1>17. ASSUME NEW e \in Emails, DeleteUserByEmail(e) PROVE Granted'
  BY <1>17, <1>i DEF DeleteUserByEmail, history
<1>18. CASE Restart
  BY <1>18, <1>q DEF Restart, history
<1>19. CASE UNCHANGED vars
  BY <1>19, <1>i DEF vars, history
<1> QED
  BY <1>1, <1>2, <1>3, <1>4, <1>5, <1>6, <1>7, <1>8, <1>9, <1>10, <1>11,
      <1>12, <1>13, <1>14, <1>15, <1>16, <1>17, <1>18, <1>19
  DEF Next, HandlerStep

-----------------------------------------------------------------------------
(* A payment keeps its owner, and what it says of its completion.          *)

\* What may happen to a payment that was issued.
Keeps(p) ==
    crypto[p] /= Unissued =>
        \/ crypto'[p] = Deleted
        \/ /\ crypto'[p] /= Unissued
           /\ crypto'[p].email = crypto[p].email
           /\ crypto[p].credited => crypto'[p].credited

LEMMA PaymentsKeep ==
    ASSUME TypeOK, Busy, [Next]_vars, NEW p \in Payments
    PROVE  Keeps(p)
<1>c. crypto \in [Payments -> Document]
  BY DEF TypeOK, Document
<1>s. ASSUME crypto'[p] = crypto[p] PROVE Keeps(p)
  BY <1>s DEF Keeps
<1>u. ASSUME NEW h \in Handlers, SaveSignature(h) \/ MarkCompleted(h) PROVE Keeps(p)
  <2>1. CASE p = req[h].payment /\ Stored(p)
    <3>1. crypto[p] \in CryptoPayment /\ crypto[p].email \in Emails
      BY <2>1, StoredDocument DEF CryptoPayment
    <3>2. /\ crypto'[p].email = crypto[p].email
          /\ crypto[p].credited => crypto'[p].credited
      BY <1>u, <1>c, <2>1, <3>1 DEF SaveSignature, MarkCompleted, CryptoPayment
    <3>3. crypto'[p] /= Unissued
      BY <3>1, <3>2, Documents, CryptoNullAssumption
    <3> QED
      BY <3>2, <3>3 DEF Keeps
  <2>2. CASE ~(p = req[h].payment /\ Stored(p))
    <3>1. crypto'[p] = crypto[p]
      BY <1>u, <1>c, <2>2 DEF SaveSignature, MarkCompleted
    <3> QED
      BY <1>s, <3>1
  <2> QED
    BY <2>1, <2>2
<1>n. ASSUME NEW e \in Emails, NEW q \in Payments, CreateCryptoTokenPayment(q, e)
      PROVE  Keeps(p)
  <2>1. CASE p = q
    BY <1>n, <2>1 DEF CreateCryptoTokenPayment, Keeps
  <2>2. CASE p /= q
    BY <1>n, <1>c, <1>s, <2>2 DEF CreateCryptoTokenPayment
  <2> QED
    BY <2>1, <2>2
<1>d. ASSUME NEW e \in Emails, DeleteCurrentUser(e) PROVE Keeps(p)
  BY <1>d, <1>s DEF DeleteCurrentUser, Keeps
<1>o. ASSUME UNCHANGED crypto PROVE Keeps(p)
  BY <1>o, <1>s
<1> HIDE DEF Keeps
<1> QED
  BY <1>u, <1>n, <1>d, <1>o
  DEF Next, vars, HandlerStep, FindCryptoPayment, FindOwner, CreditOwner,
      NotifyCompleted, CallFails, CallComplete, SaveCryptoPaymentSignature,
      CryptoPaymentStreamRoute, StreamTick, ClientLeaves, Register,
      FinishDelete, DeleteUserByEmail, Restart

LEMMA WatchedStep == TypeOK /\ Busy /\ Watched /\ [Next]_vars => Watched'
<1> SUFFICES ASSUME TypeOK, Busy, Watched, [Next]_vars, NEW e \in Emails,
                    stream'[e].shown \notin {"nothing", "connected"}
             PROVE  /\ crypto'[stream'[e].payment] /= Unissued
                    /\ ~Forbidden(crypto'[stream'[e].payment].email, e)
  BY DEF Watched
<1>1. stream \in [Emails -> Stream \union {Closed}]
  BY DEF TypeOK
<1>2. CASE stream'[e] = stream[e]
  <2>1. stream[e].payment \in Payments
    BY <1>1, <1>2 DEF Stream, Closed
  <2>2. Keeps(stream[e].payment)
    BY <2>1, PaymentsKeep
  <2> QED
    BY <1>2, <2>2, Documents DEF Watched, Keeps, Forbidden
<1>3. CASE stream'[e] /= stream[e]
  <2>1. StreamTick(e)
    <3>1. ASSUME NEW f \in Emails, StreamTick(f) PROVE f = e
      BY <1>1, <1>3, <3>1 DEF StreamTick
    <3>2. ASSUME NEW f \in Emails, NEW p \in Payments, CryptoPaymentStreamRoute(f, p)
          PROVE  FALSE
      BY <1>1, <1>3, <3>2 DEF CryptoPaymentStreamRoute
    <3>3. ASSUME NEW f \in Emails, ClientLeaves(f) PROVE FALSE
      BY <1>1, <1>3, <3>3 DEF ClientLeaves, Closed
    <3>4. ~Restart
      BY <1>1, <1>3 DEF Restart, Closed
    <3>5. ~UNCHANGED stream
      BY <1>3
    <3> QED
      BY <3>1, <3>2, <3>3, <3>4, <3>5
      DEF Next, vars, HandlerStep, SaveSignature, MarkCompleted,
          CreateCryptoTokenPayment, DeleteCurrentUser,
          FindCryptoPayment, FindOwner, CreditOwner, NotifyCompleted,
          CallFails, CallComplete, SaveCryptoPaymentSignature, Register,
          FinishDelete, DeleteUserByEmail
  <2> DEFINE p == stream[e].payment
  <2>2. stream[e] \in Stream /\ p \in Payments
    BY <1>1, <2>1 DEF StreamTick, Stream
  <2>3. Stored(p) /\ ~Forbidden(crypto[p].email, e) /\ UNCHANGED crypto
    BY <1>1, <2>1 DEF StreamTick, Closed
  <2>4. stream'[e].payment = p
    BY <1>1, <2>1, <2>2, <2>3 DEF StreamTick, Stream, Closed
  <2> QED
    BY <2>3, <2>4 DEF Stored
<1> QED
  BY <1>2, <1>3

-----------------------------------------------------------------------------
(* How often the tokens of a payment are added.                            *)

LEMMA SomeHandlers ==
    ASSUME NEW S \in SUBSET Handlers
    PROVE  IsFiniteSet(S) /\ Cardinality(S) \in Nat /\ Cardinality(S) <= N
BY CryptoHandlersAssumption, FS_Subset, FS_CardinalityType DEF N

LEMMA NType == N \in Nat
BY CryptoHandlersAssumption, FS_CardinalityType DEF N

LEMMA Counted ==
    ASSUME NEW p \in Payments
    PROVE  /\ HasGranted(p) \in SUBSET Handlers /\ HasGranted(p)' \in SUBSET Handlers
           /\ MayGrant(p) \in SUBSET Handlers /\ MayGrant(p)' \in SUBSET Handlers
BY DEF HasGranted, MayGrant, At

\* A handler is at one place.
LEMMA Disjoint ==
    ASSUME NEW p \in Payments
    PROVE  Cardinality(HasGranted(p)) + Cardinality(MayGrant(p)) <= N
<1> DEFINE A == HasGranted(p)
           B == MayGrant(p)
<1>1. A \cap B = {}
  BY DEF HasGranted, MayGrant, At
<1>2. A \in SUBSET Handlers /\ B \in SUBSET Handlers /\ A \union B \in SUBSET Handlers
  BY Counted
<1> HIDE DEF A, B
<1>3. Cardinality(A \union B) = Cardinality(A) + Cardinality(B) - Cardinality(A \cap B)
  BY <1>2, SomeHandlers, FS_Union
<1>4. Cardinality(A \cap B) = 0
  BY <1>1, FS_EmptySet
<1>5. Cardinality(A) + Cardinality(B) <= N
  BY <1>2, <1>3, <1>4, SomeHandlers, NType
<1> QED
  BY <1>5 DEF A, B

Counters(p) ==
    /\ credits[p] \in Nat /\ faults \in Nat
    /\ Cardinality(HasGranted(p)) \in Nat
    /\ Cardinality(MayGrant(p)) \in Nat

LEMMA CountersType ==
    ASSUME NEW p \in Payments
    PROVE  (TypeOK => Counters(p)) /\ (TypeOK' => Counters(p)')
BY Counted, SomeHandlers, CryptoFaultsAssumption DEF TypeOK, Counters

\* No tokens are added for p and nothing fails; a handler is let in, and one
\* that has added them goes on, only where the budget has room for it.
LEMMA QuietStep ==
    ASSUME NEW p \in Payments, TypeOK, TypeOK', BudgetOf(p),
           credits'[p] = credits[p], faults' = faults,
           Open(p)' => Open(p) /\ HasGranted(p)' = HasGranted(p),
           Open(p)' \/ MayGrant(p)' \subseteq MayGrant(p)
    PROVE  BudgetOf(p)'
<1>1. Counters(p) /\ Counters(p)' /\ N * faults \in Nat /\ N \in Nat
  BY CountersType, NType DEF Counters
<1>2. CASE Open(p)'
  BY <1>2 DEF BudgetOf
<1>3. CASE ~Open(p)'
  <2>1. Cardinality(MayGrant(p)') <= Cardinality(MayGrant(p))
    BY <1>3, Counted, SomeHandlers, FS_Subset
  <2>2. Cardinality(HasGranted(p)) + Cardinality(MayGrant(p)) <= N
    BY Disjoint
  <2>3. credits[p] + Cardinality(MayGrant(p)) <= N * faults + N
    BY <1>1, <2>2 DEF BudgetOf, Counters
  <2>4. credits'[p] + Cardinality(MayGrant(p)') <= N * faults' + N
    BY <1>1, <2>1, <2>3 DEF Counters
  <2> QED
    BY <1>3, <2>4 DEF BudgetOf
<1> QED
  BY <1>2, <1>3

\* A failure forgets what was added and not yet marked, one round at most.
LEMMA FaultStep ==
    ASSUME NEW p \in Payments, TypeOK, TypeOK', BudgetOf(p),
           credits'[p] = credits[p], faults' = faults + 1,
           MayGrant(p)' \subseteq MayGrant(p)
    PROVE  BudgetOf(p)'
<1>1. Counters(p) /\ Counters(p)' /\ N * faults \in Nat /\ N \in Nat
  BY CountersType, NType DEF Counters
<1>2. N * faults' = N * faults + N
  BY <1>1 DEF Counters
<1>3. Cardinality(MayGrant(p)') <= Cardinality(MayGrant(p))
  BY Counted, SomeHandlers, FS_Subset
<1>4. Cardinality(HasGranted(p)) + Cardinality(MayGrant(p)) <= N
  BY Disjoint
<1>5. credits[p] + Cardinality(MayGrant(p)) <= N * faults + N
  BY <1>1, <1>4 DEF BudgetOf, Counters
<1> QED
  BY <1>1, <1>2, <1>3, <1>5 DEF BudgetOf, Counters

\* The $inc moves a handler from those that may add to those that have.
LEMMA GrantStep ==
    ASSUME TypeOK, TypeOK', NEW h \in Handlers, Others(h),
           pc[h] = "credit", pc'[h] = "mark", req' = req,
           crypto' = crypto, faults' = faults,
           NEW p \in Payments, req[h].payment = p, BudgetOf(p),
           credits'[p] = credits[p] + 1
    PROVE  BudgetOf(p)'
<1>1. Counters(p) /\ Counters(p)' /\ N * faults \in Nat /\ N \in Nat
  BY CountersType, NType DEF Counters
<1>2. h \notin HasGranted(p) /\ HasGranted(p)' = HasGranted(p) \union {h}
  BY DEF HasGranted, At, Others
<1>3. h \in MayGrant(p) /\ MayGrant(p)' = MayGrant(p) \ {h}
  BY DEF MayGrant, At, Others
<1>4. Cardinality(HasGranted(p)') = Cardinality(HasGranted(p)) + 1
  BY <1>2, Counted, SomeHandlers, FS_AddElement
<1>5. Cardinality(MayGrant(p)') = Cardinality(MayGrant(p)) - 1
  BY <1>3, Counted, SomeHandlers, FS_RemoveElement
<1>6. Open(p)' <=> Open(p)
  BY DEF Open, Stored
<1> QED
  BY <1>1, <1>4, <1>5, <1>6 DEF BudgetOf, Counters

LEMMA CountedHandlers ==
    ASSUME NEW h \in Handlers, Others(h), NEW p \in Payments
    PROVE  /\ (h \notin HasGranted(p) /\ h \notin HasGranted(p)')
                => HasGranted(p)' = HasGranted(p)
           /\ (h \in MayGrant(p) \/ h \notin MayGrant(p)')
                => MayGrant(p)' \subseteq MayGrant(p)
BY DEF HasGranted, MayGrant, At, Others

\* Only the insert opens a payment.
LEMMA OpensOnce ==
    ASSUME TypeOK, TypeOK', Busy, [Next]_vars, NEW p \in Payments,
           crypto[p] /= Unissued, Open(p)'
    PROVE  Open(p)
<1>1. crypto'[p] \in CryptoPayment /\ ~crypto'[p].credited
  BY StoredDocument DEF Open, Stored, TypeOK
<1>2. Keeps(p) /\ crypto'[p] /= Deleted
  BY PaymentsKeep DEF Open, Stored
<1>3. crypto[p].email = crypto'[p].email /\ ~crypto[p].credited
  BY <1>1, <1>2 DEF Keeps
<1>4. crypto[p] /= Deleted
  BY <1>1, <1>3, Documents, CryptoNullAssumption DEF CryptoPayment
<1> QED
  BY <1>3, <1>4 DEF Open, Stored

LEMMA InitBudget == Init => Fresh /\ Budget
<1> SUFFICES ASSUME Init PROVE Fresh /\ Budget
  OBVIOUS
<1>1. Fresh
  BY DEF Init, Fresh
<1>2. ASSUME NEW p \in Payments PROVE BudgetOf(p)
  <2>1. ~Open(p) /\ credits[p] = 0 /\ MayGrant(p) = {} /\ faults = 0
    BY DEF Init, Open, Stored, MayGrant, At
  <2> QED
    BY <2>1, NType, FS_EmptySet DEF BudgetOf
<1> QED
  BY <1>1, <1>2 DEF Budget

\* What a step does to a handler and to the credits, as far as it matters here.
LEMMA Stirs ==
    ASSUME TypeOK, Busy, Fresh, [Next]_vars
    PROVE  /\ \A h \in Handlers :
                  pc'[h] \in {"user", "credit", "mark"} =>
                     /\ req'[h].payment \in Payments
                     /\ crypto[req'[h].payment] /= Unissued
           /\ \A p \in Payments :
                  credits'[p] /= credits[p] => crypto[p] /= Unissued
<1> DEFINE Calm(h) ==
        pc'[h] \in {"user", "credit", "mark"} =>
           /\ req'[h].payment \in Payments
           /\ crypto[req'[h].payment] /= Unissued
        Good ==
           /\ \A h \in Handlers : Calm(h)
           /\ \A p \in Payments : credits'[p] /= credits[p] => crypto[p] /= Unissued
<1>s. ASSUME NEW g \in Handlers, pc'[g] = pc[g], req'[g] = req[g] PROVE Calm(g)
  BY <1>s DEF Busy, Fresh
<1>h. ASSUME NEW h \in Handlers, Others(h), Calm(h), UNCHANGED credits PROVE Good
  BY <1>h, <1>s DEF Others
<1> HIDE DEF Calm
<1>i. ASSUME NEW h \in Handlers, Reply(h), UNCHANGED credits PROVE Good
  BY <1>i, <1>h, ReplyEffect DEF Calm
<1>1. ASSUME NEW h \in Handlers, SaveSignature(h) \/ CallFails(h) PROVE Good
  BY <1>1, <1>i DEF SaveSignature, CallFails, history
<1>2. ASSUME NEW h \in Handlers, FindCryptoPayment(h) PROVE Good
  <2>1. CASE Reply(h)
    BY <1>2, <1>i, <2>1 DEF FindCryptoPayment, history
  <2>2. CASE /\ Stored(req[h].payment)
             /\ pc' = [pc EXCEPT ![h] = "user"]
             /\ req' = [req EXCEPT ![h].email = crypto[req[h].payment].email]
    <3>1. Others(h) /\ req'[h].payment = req[h].payment
      BY <2>2 DEF Others, TypeOK, Request
    <3>2. req[h].payment \in Payments
      BY <1>2 DEF FindCryptoPayment, Busy
    <3>3. Calm(h)
      BY <2>2, <3>1, <3>2 DEF Calm, Stored
    <3> QED
      BY <1>2, <1>h, <3>1, <3>3 DEF FindCryptoPayment, history
  <2> QED
    BY <1>2, <2>1, <2>2 DEF FindCryptoPayment
<1>3. ASSUME NEW h \in Handlers, FindOwner(h) \/ MarkCompleted(h) PROVE Good
  <2>1. CASE Reply(h) /\ UNCHANGED credits
    BY <1>i, <2>1
  <2>2. ASSUME NEW s \in Stages, Goto(h, s), pc[h] \in {"user", "mark"}, UNCHANGED credits
        PROVE  Good
    BY <1>h, <2>2, GotoEffect DEF Calm, Busy, Fresh
  <2> QED
    BY <1>3, <2>1, <2>2 DEF FindOwner, MarkCompleted, Stages, history
<1>4. ASSUME NEW h \in Handlers, CreditOwner(h) PROVE Good
  <2>1. CASE Reply(h) /\ UNCHANGED credits
    BY <1>i, <2>1
  <2>2. CASE Goto(h, "mark") /\ credits' = [credits EXCEPT ![req[h].payment] = @ + 1]
    <3>1. Others(h) /\ req' = req /\ pc[h] = "credit"
      BY <1>4, <2>2, GotoEffect DEF CreditOwner, Stages
    <3>2. Calm(h)
      BY <3>1 DEF Calm, Busy, Fresh
    <3>3. \A p \in Payments : credits'[p] /= credits[p] => crypto[p] /= Unissued
      BY <2>2, <3>1 DEF TypeOK, Fresh
    <3> QED
      BY <1>s, <3>1, <3>2, <3>3 DEF Others
  <2> QED
    BY <1>4, <2>1, <2>2 DEF CreditOwner
<1>5. ASSUME NEW h \in Handlers, NotifyCompleted(h) PROVE Good
  BY <1>5, <1>i DEF NotifyCompleted
<1>6. ASSUME NEW h \in Handlers, NEW p \in Payments, CallComplete(h, p) PROVE Good
  <2>1. Others(h) /\ pc'[h] = "find" /\ UNCHANGED credits
    BY <1>6 DEF CallComplete, Others, TypeOK, history
  <2> QED
    BY <1>h, <2>1 DEF Calm
<1>7. ASSUME NEW h \in Handlers, NEW p \in Payments, NEW s \in Signatures,
             SaveCryptoPaymentSignature(h, p, s)
      PROVE  Good
  <2>1. Others(h) /\ pc'[h] = "save" /\ UNCHANGED credits
    BY <1>7 DEF SaveCryptoPaymentSignature, Others, TypeOK, history
  <2> QED
    BY <1>h, <2>1 DEF Calm
<1>8. ASSUME Restart PROVE Good
  BY <1>8 DEF Restart, Calm, history
<1>9. ASSUME UNCHANGED <<pc, req, credits>> PROVE Good
  BY <1>9, <1>s
<1> QED
  <2>1. Good
    BY <1>1, <1>2, <1>3, <1>4, <1>5, <1>6, <1>7, <1>8, <1>9
    DEF Next, vars, HandlerStep, CreateCryptoTokenPayment,
        CryptoPaymentStreamRoute, StreamTick, ClientLeaves, Register,
        DeleteCurrentUser, FinishDelete, DeleteUserByEmail, history
  <2> QED
    BY <2>1 DEF Calm

LEMMA FreshStep == TypeOK /\ Busy /\ Fresh /\ [Next]_vars => Fresh'
<1> SUFFICES ASSUME TypeOK, Busy, Fresh, [Next]_vars
             PROVE  Fresh'
  OBVIOUS
<1>1. \A p \in Payments : crypto[p] /= Unissued => crypto'[p] /= Unissued
  BY PaymentsKeep, Documents DEF Keeps
<1> QED
  BY <1>1, Stirs DEF Fresh

LEMMA BudgetStep ==
    TypeOK /\ Busy /\ Fresh /\ Budget /\ [Next]_vars /\ TypeOK' => Budget'
<1> SUFFICES ASSUME TypeOK, Busy, Fresh, Budget, [Next]_vars, TypeOK',
                    NEW q \in Payments
             PROVE  BudgetOf(q)'
  BY DEF Budget
<1>a. CASE crypto[q] = Unissued
  <2>1. credits'[q] = 0
    BY <1>a, Stirs DEF Fresh
  <2>2. Counters(q)' /\ N * faults' \in Nat /\ N \in Nat
    BY CountersType, NType DEF Counters
  <2>3. Cardinality(MayGrant(q)') <= N
    BY Counted, SomeHandlers
  <2> QED
    BY <2>1, <2>2, <2>3 DEF BudgetOf, Counters
<1>b. CASE crypto[q] /= Unissued
  <2>0. BudgetOf(q) /\ (Open(q)' => Open(q))
    BY <1>b, OpensOnce DEF Budget
  <2>q. ASSUME credits'[q] = credits[q], faults' = faults,
               Open(q)' => HasGranted(q)' = HasGranted(q),
               Open(q)' \/ MayGrant(q)' \subseteq MayGrant(q)
        PROVE  BudgetOf(q)'
    BY <2>0, <2>q, QuietStep
  <2>h. ASSUME NEW h \in Handlers, Others(h), UNCHANGED <<credits, faults>>,
               Open(q)' => h \notin HasGranted(q), h \notin HasGranted(q)',
               \/ Open(q)'
               \/ h \in MayGrant(q)
               \/ h \notin MayGrant(q)'
        PROVE  BudgetOf(q)'
    BY <2>h, <2>q, CountedHandlers
  <2>r. ASSUME NEW h \in Handlers, Reply(h), UNCHANGED <<credits, faults>>,
               pc[h] /= "mark"
        PROVE  BudgetOf(q)'
    <3>1. Others(h) /\ pc'[h] = "idle"
      BY <2>r, ReplyEffect
    <3>2. h \notin HasGranted(q) /\ h \notin HasGranted(q)' /\ h \notin MayGrant(q)'
      BY <2>r, <3>1 DEF HasGranted, MayGrant, At
    <3> QED
      BY <2>r, <2>h, <3>1, <3>2
  <2>1. ASSUME NEW h \in Handlers, SaveSignature(h) \/ NotifyCompleted(h)
        PROVE  BudgetOf(q)'
    BY <2>1, <2>r DEF SaveSignature, NotifyCompleted, history
  <2>2. ASSUME NEW h \in Handlers, FindCryptoPayment(h) PROVE BudgetOf(q)'
    <3>0. pc[h] = "find" /\ UNCHANGED <<crypto, credits, faults>>
      BY <2>2 DEF FindCryptoPayment, history
    <3>1. CASE Reply(h)
      BY <2>r, <3>0, <3>1
    <3>2. CASE /\ Open(req[h].payment)
               /\ pc' = [pc EXCEPT ![h] = "user"]
               /\ req' = [req EXCEPT ![h].email = crypto[req[h].payment].email]
      <4>1. Others(h) /\ pc'[h] = "user" /\ req'[h].payment = req[h].payment
        BY <3>2 DEF Others, TypeOK, Request
      <4>2. h \notin HasGranted(q) /\ h \notin HasGranted(q)'
        BY <3>0, <4>1 DEF HasGranted, At
      <4>3. h \in MayGrant(q)' => q = req[h].payment
        BY <4>1 DEF MayGrant, At
      <4>4. Open(q)' <=> Open(q)
        BY <3>0 DEF Open, Stored
      <4> QED
        BY <2>h, <3>0, <3>2, <4>1, <4>2, <4>3, <4>4
    <3> QED
      BY <2>2, <3>1, <3>2 DEF FindCryptoPayment, Open
  <2>3. ASSUME NEW h \in Handlers, FindOwner(h) PROVE BudgetOf(q)'
    <3>0. pc[h] = "user" /\ UNCHANGED <<credits, faults>>
      BY <2>3 DEF FindOwner, history
    <3>1. CASE Reply(h)
      BY <2>r, <3>0, <3>1
    <3>2. CASE Goto(h, "credit")
      <4>1. Others(h) /\ pc'[h] = "credit" /\ req' = req
        BY <3>2, GotoEffect DEF Stages
      <4>2. h \notin HasGranted(q) /\ h \notin HasGranted(q)'
        BY <3>0, <4>1 DEF HasGranted, At
      <4>3. h \in MayGrant(q) \/ h \notin MayGrant(q)'
        BY <3>0, <4>1 DEF MayGrant, At
      <4> QED
        BY <2>h, <3>0, <4>1, <4>2, <4>3
    <3> QED
      BY <2>3, <3>1, <3>2 DEF FindOwner
  <2>4. ASSUME NEW h \in Handlers, CreditOwner(h) PROVE BudgetOf(q)'
    <3>0. pc[h] = "credit" /\ UNCHANGED <<crypto, faults>>
      BY <2>4 DEF CreditOwner
    <3>1. CASE Reply(h) /\ UNCHANGED credits
      BY <2>r, <3>0, <3>1
    <3>2. CASE Goto(h, "mark") /\ credits' = [credits EXCEPT ![req[h].payment] = @ + 1]
      <4>1. Others(h) /\ pc'[h] = "mark" /\ req' = req
        BY <3>2, GotoEffect DEF Stages
      <4>2. CASE q = req[h].payment
        <5>1. credits'[q] = credits[q] + 1
          BY <3>2, <4>2 DEF TypeOK
        <5> QED
          BY <2>0, <3>0, <4>1, <4>2, <5>1, GrantStep
      <4>3. CASE q /= req[h].payment
        <5>1. credits'[q] = credits[q]
          BY <3>2, <4>3 DEF TypeOK
        <5>2. h \notin HasGranted(q) /\ h \notin HasGranted(q)' /\ h \notin MayGrant(q)'
          BY <4>1, <4>3 DEF HasGranted, MayGrant, At
        <5> QED
          BY <2>q, <3>0, <4>1, <5>1, <5>2, CountedHandlers
      <4> QED
        BY <4>2, <4>3
    <3> QED
      BY <2>4, <3>1, <3>2 DEF CreditOwner
  <2>5. ASSUME NEW h \in Handlers, MarkCompleted(h) PROVE BudgetOf(q)'
    <3>0. pc[h] = "mark" /\ UNCHANGED <<credits, faults>>
      BY <2>5 DEF MarkCompleted, history
    <3>1. Others(h) /\ pc'[h] = "notify"
      BY <2>5, GotoEffect DEF MarkCompleted, Stages
    <3>2. h \notin HasGranted(q)' /\ h \notin MayGrant(q)'
      BY <3>1 DEF HasGranted, MayGrant, At
    <3>3. h \in HasGranted(q) => ~Open(q)'
      <4>1. SUFFICES ASSUME q = req[h].payment PROVE ~Open(q)'
        BY DEF HasGranted, At
      <4>2. CASE Stored(q)
        <5>1. crypto'[q].credited = TRUE
          BY <2>5, <4>1, <4>2, StoredDocument DEF MarkCompleted, TypeOK, CryptoPayment
        <5> QED
          BY <5>1 DEF Open
      <4>3. CASE ~Stored(q)
        BY <2>5, <4>1, <4>3 DEF MarkCompleted, Open, Stored
      <4> QED
        BY <4>2, <4>3
    <3> QED
      BY <2>h, <3>0, <3>1, <3>2, <3>3
  <2>6. ASSUME NEW h \in Handlers, CallFails(h) PROVE BudgetOf(q)'
    <3>1. Others(h) /\ pc'[h] = "idle" /\ credits' = credits /\ faults' = faults + 1
      BY <2>6, ReplyEffect DEF CallFails, history
    <3>2. h \notin MayGrant(q)'
      BY <3>1 DEF MayGrant, At
    <3> QED
      BY <2>0, <3>1, <3>2, CountedHandlers, FaultStep
  <2>7. ASSUME NEW h \in Handlers, pc[h] = "idle", pc'[h] \in {"find", "save"},
               Others(h), UNCHANGED <<credits, faults>>
        PROVE  BudgetOf(q)'
    <3>1. h \notin HasGranted(q) /\ h \notin HasGranted(q)' /\ h \notin MayGrant(q)'
      BY <2>7 DEF HasGranted, MayGrant, At
    <3> QED
      BY <2>7, <2>h, <3>1
  <2>8. ASSUME NEW h \in Handlers, NEW p \in Payments,
               \/ CallComplete(h, p)
               \/ \E s \in Signatures : SaveCryptoPaymentSignature(h, p, s)
        PROVE  BudgetOf(q)'
    BY <2>7, <2>8
    DEF CallComplete, SaveCryptoPaymentSignature, Others, TypeOK, history
  <2>9. ASSUME Restart PROVE BudgetOf(q)'
    <3>1. credits' = credits /\ faults' = faults + 1 /\ MayGrant(q)' = {}
      BY <2>9 DEF Restart, history, MayGrant, At
    <3> QED
      BY <2>0, <3>1, FaultStep
  <2>10. ASSUME UNCHANGED <<pc, req, credits, faults>> PROVE BudgetOf(q)'
    BY <2>10, <2>q DEF HasGranted, MayGrant, At
  <2> HIDE DEF BudgetOf
  <2> QED
    BY <2>1, <2>2, <2>3, <2>4, <2>5, <2>6, <2>8, <2>9, <2>10
    DEF Next, vars, HandlerStep, CreateCryptoTokenPayment,
        CryptoPaymentStreamRoute, StreamTick, ClientLeaves, Register,
        DeleteCurrentUser, FinishDelete, DeleteUserByEmail, history
<1> QED
  BY <1>a, <1>b

LEMMA BudgetGivesBound == TypeOK /\ Budget => CreditBound
<1> SUFFICES ASSUME TypeOK, Budget, NEW p \in Payments
             PROVE  credits[p] <= N * (faults + 1)
  BY DEF CreditBound, N
<1>1. Counters(p) /\ N \in Nat /\ N * faults \in Nat
  BY CountersType, NType DEF Counters
<1>2. N * (faults + 1) = N * faults + N
  BY <1>1 DEF Counters
<1>3. Cardinality(HasGranted(p)) <= N
  BY Counted, SomeHandlers
<1> QED
  BY <1>1, <1>2, <1>3 DEF Budget, BudgetOf, Counters

-----------------------------------------------------------------------------
(* The theorems.                                                           *)

Inductive == TypeOK /\ Busy /\ Granted /\ Watched /\ Fresh /\ Budget

LEMMA InductiveInvariant == Spec => []Inductive
<1>1. Init => Inductive
  BY InitTypes, InitBudget DEF Inductive
<1>2. Inductive /\ [Next]_vars => Inductive'
  BY TypesStep, GrantedStep, WatchedStep, FreshStep, BudgetStep DEF Inductive
<1> QED
  BY <1>1, <1>2, PTL DEF Spec

\* Payments, requests and streams keep their shape.
THEOREM CryptoTypes == Spec => []TypeOK
<1>1. Inductive => TypeOK
  BY DEF Inductive
<1> QED
  BY <1>1, InductiveInvariant, PTL

\* A completed payment was credited, for any number of overlapping requests.
THEOREM OnlyGrantedIsCompleted == Spec => []CreditedIsGranted
<1>1. Inductive => CreditedIsGranted
  BY DEF Inductive, Granted
<1> QED
  BY <1>1, InductiveInvariant, PTL

\* Overlaps and failures repeat the $inc at most |Handlers| * (faults + 1) times.
THEOREM CreditIsBounded == Spec => []CreditBound
<1>1. Inductive => CreditBound
  BY BudgetGivesBound DEF Inductive
<1> QED
  BY <1>1, InductiveInvariant, PTL

\* Completions that neither overlap nor fail add the tokens of a payment at most
\* once ("Prevents duplicate token crediting.", models/payment.go:113).
THEOREM SerialCompletionsCreditOnce ==
    ASSUME Cardinality(Handlers) = 1, MaxFaults = 0
    PROVE  Spec => [](\A p \in Payments : credits[p] <= 1)
<1> DEFINE Once == \A p \in Payments : credits[p] <= 1
<1>1. Inductive => Once
  <2> SUFFICES ASSUME Inductive, NEW p \in Payments PROVE credits[p] <= 1
    OBVIOUS
  <2>1. faults = 0 /\ credits[p] \in Nat
    BY DEF Inductive, TypeOK
  <2>2. credits[p] <= Cardinality(Handlers) * (faults + 1)
    BY BudgetGivesBound DEF Inductive, CreditBound
  <2> QED
    BY <2>1, <2>2
<1> HIDE DEF Once
<1>2. Spec => []Once
  BY <1>1, InductiveInvariant, PTL
<1> QED
  BY <1>2 DEF Once

\* Until a call fails, tokens that a pending payment does not show yet are still
\* in the hands of a request that is about to mark it (the $inc comes first):
\* nothing else leaves a payment credited and pending.
THEOREM PendingGrantIsInHand ==
    Spec => [](\A p \in Payments :
                   faults = 0 /\ Open(p) /\ credits[p] > 0 => HasGranted(p) /= {})
<1> DEFINE InHand ==
        \A p \in Payments :
            faults = 0 /\ Open(p) /\ credits[p] > 0 => HasGranted(p) /= {}
<1>1. Inductive => InHand
  <2> SUFFICES ASSUME Inductive, NEW p \in Payments, faults = 0, Open(p),
                      credits[p] > 0, HasGranted(p) = {}
               PROVE  FALSE
    OBVIOUS
  <2>1. Cardinality(HasGranted(p)) = 0
    BY FS_EmptySet
  <2>2. credits[p] <= N * faults + Cardinality(HasGranted(p))
    BY DEF Inductive, Budget, BudgetOf
  <2>3. credits[p] \in Nat /\ N \in Nat
    BY NType DEF Inductive, TypeOK
  <2> QED
    BY <2>1, <2>2, <2>3
<1> HIDE DEF InHand
<1>2. Spec => []InHand
  BY <1>1, InductiveInvariant, PTL
<1> QED
  BY <1>2 DEF InHand

\* A stream shows nobody the payment of another account, except of one whose
\* e-mail differs only in case.
THEOREM StreamsShowOwn == Spec => []StreamShowsOwn
<1>1. Inductive => StreamShowsOwn
  BY DEF Inductive, Watched, StreamShowsOwn, Forbidden
<1> QED
  BY <1>1, InductiveInvariant, PTL

\* Where no two accounts have such e-mails, that exception is empty: a stream shows
\* the payments of its own account and no others.
THEOREM DistinctOwnersSeeOwn ==
    ASSUME \A a, b \in Emails : EqualFold(a, b) => a = b
    PROVE  Spec => [](\A e \in Emails :
                          stream[e].shown \notin {"nothing", "connected"} =>
                              crypto[stream[e].payment].email \in {e, NoEmail})
<1> DEFINE Exact == \A e \in Emails :
                        stream[e].shown \notin {"nothing", "connected"} =>
                            crypto[stream[e].payment].email \in {e, NoEmail}
<1>1. Inductive => Exact
  <2> SUFFICES ASSUME Inductive, NEW e \in Emails,
                      stream[e].shown \notin {"nothing", "connected"}
               PROVE  crypto[stream[e].payment].email \in {e, NoEmail}
    OBVIOUS
  <2> DEFINE p == stream[e].payment
  <2>1. p \in Payments
    BY DEF Inductive, TypeOK, Stream, Closed
  <2>2. crypto[p].email \in Emails \union {NoEmail}
    BY <2>1, Documents DEF Inductive, TypeOK, CryptoPayment
  <2>3. ~Forbidden(crypto[p].email, e)
    BY DEF Inductive, Watched
  <2> QED
    BY <2>2, <2>3 DEF Forbidden
<1> HIDE DEF Exact
<1>2. Spec => []Exact
  BY <1>1, InductiveInvariant, PTL
<1> QED
  BY <1>2 DEF Exact

\* No step takes "credited" back, except that the payment is deleted.
THEOREM CreditedIsKept == Spec => CreditedStays
<1> DEFINE Stays == \A p \in Payments :
                        crypto[p].credited => crypto'[p].credited \/ crypto'[p] = Deleted
<1>1. Inductive /\ [Next]_vars => [Stays]_vars
  <2> SUFFICES ASSUME Inductive, [Next]_vars, NEW p \in Payments, crypto[p].credited
               PROVE  crypto'[p].credited \/ crypto'[p] = Deleted
    OBVIOUS
  <2>1. Keeps(p)
    BY PaymentsKeep DEF Inductive
  <2> QED
    BY <2>1, Documents DEF Keeps
<1> QED
  BY <1>1, InductiveInvariant, PTL DEF Spec, CreditedStays
=============================================================================
