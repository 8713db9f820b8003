--------------------- MODULE PaystackPayments_proofs ----------------------
(***************************************************************************)
(* Proofs about PaystackPayments, for any number of handlers, references,  *)
(* e-mails and failures.                                                   *)
(*                                                                         *)
(* The argument has three layers.  OneWay: a payment is stored, paid,      *)
(* granted and claimed in that order, each of which happens behind a guard *)
(* that an earlier step established, so races cannot reorder them.  OneClaim: *)
(* the claim of a record is exclusive and is what a success reply or a     *)
(* notification rests on.  Budget: handlers that may still grant a payment *)
(* are counted, which bounds how often races and failures repeat a grant.  *)
(***************************************************************************)
EXTENDS PaystackStream, FiniteSetTheorems, TLAPS

\* A busy handler works on a reference.
Busy == \A h \in Handlers : pc[h] /= "idle" => req[h].ref \in References

\* Stored, then linked, then paid, then granted, then claimed.
OneWay ==
    /\ \A h \in Handlers : pc[h] = "save" =>
            /\ req[h].ref \notin links
            /\ provider[req[h].ref] /= "none"
            /\ ~req[h].webhook
    /\ \A g, h \in Handlers :
            pc[g] = "save" /\ pc[h] = "save" /\ req[g].ref = req[h].ref => g = h
    /\ \A r \in References : provider[r] \in {"success", "failed"} => r \in links
    /\ \A r \in links : provider[r] /= "none"
    /\ \A h \in Handlers : pc[h] \in {"user", "credit", "mark", "notify"} =>
            provider[req[h].ref] = "success"
    /\ GrantedOnlyIfPaid
    /\ \A h \in Handlers : pc[h] = "mark" => credits[req[h].ref] > 0
    /\ SettledOnlyIfGranted

\* At most one claim, and what is told to the customer and to Paystack.
OneClaim ==
    /\ SettledOnce
    /\ \A r \in References : claims[r] = 1 =>
            /\ provider[r] = "success"
            /\ credits[r] > 0
            /\ Stored(r) => payments[r].credited
    /\ \A r \in References : payments[r].credited => claims[r] = 1
    /\ \A h \in Handlers : pc[h] = "notify" =>
            claims[req[h].ref] = 1 /\ notices[req[h].ref] = 0
    /\ \A g, h \in Handlers :
            pc[g] = "notify" /\ pc[h] = "notify" /\ req[g].ref = req[h].ref => g = h
    /\ AckMeansSettled

\* Handlers between two calls on a reference.
At(stages, r) == {h \in Handlers : pc[h] \in stages /\ req[h].ref = r}

\* Handlers that read the record as not credited and may yet grant.
MayGrant(r) == At({"ask", "user", "credit"}, r)

\* Handlers that have granted and not yet claimed.
HasGranted(r) == At({"mark"}, r)

Open(r) == Stored(r) /\ ~payments[r].credited

N == Cardinality(Handlers)

Budget ==
    \A r \in References :
        /\ Open(r) => credits[r] <= N * faults + Cardinality(HasGranted(r))
        /\ ~Open(r) => credits[r] + Cardinality(MayGrant(r)) <= N * faults + N

-----------------------------------------------------------------------------
(* What the helpers do to the handlers, point by point.                    *)

Others(h) == \A g \in Handlers \ {h} : pc'[g] = pc[g] /\ req'[g] = req[g]

HandlerTypes == pc' \in [Handlers -> Stages] /\ req' \in [Handlers -> Request]

LEMMA IdleType == Idle \in Request
BY DEF Idle, Request

LEMMA FinishEffect ==
    ASSUME TypeOK, Busy, NEW h \in Handlers, Finish(h)
    PROVE  HandlerTypes /\ Others(h) /\ pc'[h] = "idle" /\ Busy'
<1>1. HandlerTypes
  BY IdleType DEF TypeOK, Finish, Stages, HandlerTypes
<1>2. Others(h) /\ pc'[h] = "idle"
  BY DEF TypeOK, Finish, Others
<1>3. Busy'
  BY <1>2 DEF Busy, Others
<1> QED
  BY <1>1, <1>2, <1>3

LEMMA GotoEffect ==
    ASSUME TypeOK, Busy, NEW h \in Handlers, pc[h] /= "idle",
           NEW stage \in Stages, Goto(h, stage)
    PROVE  /\ HandlerTypes /\ Others(h) /\ pc'[h] = stage
           /\ req' = req /\ acked' = acked /\ Busy'
<1>1. HandlerTypes /\ req' = req /\ acked' = acked
  BY DEF TypeOK, Goto, HandlerTypes
<1>2. Others(h) /\ pc'[h] = stage
  BY DEF TypeOK, Goto, Others
<1>3. Busy'
  BY <1>1, <1>2 DEF Busy, Others
<1> QED
  BY <1>1, <1>2, <1>3

LEMMA StartEffect ==
    ASSUME TypeOK, Busy, NEW h \in Handlers, NEW stage \in Stages,
           NEW r \in References, NEW e \in Emails \union {NoEmail},
           NEW webhook \in BOOLEAN, Start(h, stage, r, e, webhook)
    PROVE  /\ HandlerTypes /\ Others(h) /\ pc[h] = "idle" /\ pc'[h] = stage
           /\ req'[h] = [ref |-> r, email |-> e, webhook |-> webhook] /\ Busy'
<1>1. HandlerTypes
  BY DEF TypeOK, Start, HandlerTypes, Request
<1>2. /\ Others(h) /\ pc[h] = "idle" /\ pc'[h] = stage
      /\ req'[h] = [ref |-> r, email |-> e, webhook |-> webhook]
  BY DEF TypeOK, Start, Others
<1>3. Busy'
  BY <1>2 DEF Busy, Others
<1> QED
  BY <1>1, <1>2, <1>3

LEMMA ReplyErrorEffect ==
    ASSUME TypeOK, Busy, NEW h \in Handlers, ReplyError(h)
    PROVE  /\ HandlerTypes /\ Others(h) /\ pc'[h] = "idle"
           /\ acked' = acked /\ Busy'
BY FinishEffect DEF ReplyError

LEMMA ReplyOKEffect ==
    ASSUME TypeOK, Busy, NEW h \in Handlers, pc[h] /= "idle", ReplyOK(h)
    PROVE  /\ HandlerTypes /\ Others(h) /\ pc'[h] = "idle"
           /\ acked' \subseteq acked \union {req[h].ref}
           /\ ~req[h].webhook => acked' = acked
           /\ acked' \subseteq References /\ Busy'
<1>1. HandlerTypes /\ Others(h) /\ pc'[h] = "idle" /\ Busy'
  BY FinishEffect DEF ReplyOK
<1>2. /\ acked' \subseteq acked \union {req[h].ref}
      /\ ~req[h].webhook => acked' = acked
      /\ acked' \subseteq References
  BY DEF ReplyOK, TypeOK, Busy
<1> QED
  BY <1>1, <1>2

-----------------------------------------------------------------------------
(* Layer 0: types, and the reference of a busy handler.                    *)

LEMMA InitTypes == Init => TypeOK /\ Busy
BY FaultsAssumption DEF Init, TypeOK, Busy, Stages, Request, Idle, PaymentRecord, Absent

\* The part of the type invariant that the handlers' own state is not.
StoreTypes ==
    /\ accounts \subseteq Emails
    /\ payments \in [References -> PaymentRecord]
    /\ deleter \in [Emails -> {"none", "account", "history"}]
    /\ provider \in [References -> {"none", "open", "success", "failed"}]
    /\ links \subseteq References
    /\ acked \subseteq References
    /\ credits \in [References -> Nat]
    /\ claims \in [References -> Nat]
    /\ notices \in [References -> Nat]
    /\ faults \in 0 .. MaxFaults

LEMMA TypesStep == TypeOK /\ Busy /\ [Next]_vars => TypeOK' /\ Busy'
<1> SUFFICES ASSUME TypeOK, Busy, [Next]_vars
             PROVE  HandlerTypes /\ StoreTypes' /\ Busy'
  BY DEF TypeOK, HandlerTypes, StoreTypes
<1> DEFINE Good == HandlerTypes /\ StoreTypes' /\ Busy'
<1>1. ASSUME NEW h \in Handlers, SaveInitialized(h) PROVE Good
  <2>1. pc[h] /= "idle" /\ ReplyOK(h) /\ req[h].ref \in References
    BY <1>1 DEF SaveInitialized, Busy
  <2>2. req[h].email \in Emails \union {NoEmail}
    BY DEF TypeOK, Request
  <2>3. payments' \in [References -> PaymentRecord]
    BY <1>1, <2>1, <2>2 DEF SaveInitialized, TypeOK, PaymentRecord
  <2>4. links' \subseteq References
    BY <1>1, <2>1 DEF SaveInitialized, TypeOK
  <2> QED
    BY <1>1, <2>1, <2>3, <2>4, ReplyOKEffect
    DEF SaveInitialized, TypeOK, StoreTypes, history
<1>2. ASSUME NEW h \in Handlers, FindPayment(h) PROVE Good
  <2> DEFINE r == req[h].ref
  <2>0. pc[h] = "find" /\ r \in References
    BY <1>2 DEF FindPayment, Busy
  <2>1. CASE ReplyError(h)
    BY <1>2, <2>1, ReplyErrorEffect
    DEF FindPayment, TypeOK, StoreTypes, store, paystack, history
  <2>2. CASE ReplyOK(h)
    BY <1>2, <2>0, <2>2, ReplyOKEffect
    DEF FindPayment, TypeOK, StoreTypes, store, paystack, history
  <2>3. CASE /\ pc' = [pc EXCEPT ![h] = "ask"]
             /\ req' = [req EXCEPT ![h].email = payments[r].email]
             /\ UNCHANGED acked
    <3>1. payments[r].email \in Emails \union {NoEmail}
      BY <2>0 DEF TypeOK, PaymentRecord
    <3>2. HandlerTypes
      BY <2>3, <3>1 DEF TypeOK, HandlerTypes, Stages, Request
    <3>3. req'[h].ref = req[h].ref /\ Others(h)
      BY <2>3 DEF TypeOK, Request, Others
    <3>4. Busy'
      BY <2>0, <3>3 DEF Busy, Others
    <3> QED
      BY <1>2, <2>3, <3>2, <3>4
      DEF FindPayment, TypeOK, StoreTypes, store, paystack, history
  <2> QED
    BY <1>2, <2>1, <2>2, <2>3 DEF FindPayment
<1>3. ASSUME NEW h \in Handlers, AskPaystack(h) PROVE Good
  <2>1. CASE Goto(h, "user")
    BY <1>3, <2>1, GotoEffect
    DEF AskPaystack, TypeOK, StoreTypes, Stages, store, paystack, history
  <2>2. CASE ReplyError(h)
    BY <1>3, <2>2, ReplyErrorEffect
    DEF AskPaystack, TypeOK, StoreTypes, store, paystack, history
  <2> QED
    BY <1>3, <2>1, <2>2 DEF AskPaystack
<1>4. ASSUME NEW h \in Handlers, FindUser(h) PROVE Good
  <2>1. CASE Goto(h, "credit")
    BY <1>4, <2>1, GotoEffect
    DEF FindUser, TypeOK, StoreTypes, Stages, store, paystack, history
  <2>2. CASE ReplyError(h)
    BY <1>4, <2>2, ReplyErrorEffect
    DEF FindUser, TypeOK, StoreTypes, store, paystack, history
  <2> QED
    BY <1>4, <2>1, <2>2 DEF FindUser
<1>5. ASSUME NEW h \in Handlers, CreditUser(h) PROVE Good
  <2>1. CASE Goto(h, "mark") /\ credits' = [credits EXCEPT ![req[h].ref] = @ + 1]
    BY <1>5, <2>1, GotoEffect
    DEF CreditUser, TypeOK, StoreTypes, Stages, Busy, store, paystack
  <2>2. CASE ReplyError(h) /\ UNCHANGED credits
    BY <1>5, <2>2, ReplyErrorEffect
    DEF CreditUser, TypeOK, StoreTypes, store, paystack
  <2> QED
    BY <1>5, <2>1, <2>2 DEF CreditUser
<1>6. ASSUME NEW h \in Handlers, MarkCredited(h) PROVE Good
  <2> DEFINE r == req[h].ref
  <2>0. pc[h] = "mark" /\ r \in References /\ req[h].email \in Emails \union {NoEmail}
    BY <1>6 DEF MarkCredited, Busy, TypeOK, Request
  <2>1. CASE /\ payments' = [payments EXCEPT
                    ![r] = [status |-> "success", email |-> req[h].email,
                            credited |-> TRUE]]
             /\ claims' = [claims EXCEPT ![r] = @ + 1]
             /\ Goto(h, "notify")
    <3>1. payments' \in [References -> PaymentRecord] /\ claims' \in [References -> Nat]
      BY <2>0, <2>1 DEF TypeOK, PaymentRecord
    <3> QED
      BY <1>6, <2>0, <2>1, <3>1, GotoEffect
      DEF MarkCredited, TypeOK, StoreTypes, Stages, paystack
  <2>2. CASE ReplyError(h) /\ UNCHANGED <<payments, claims>>
    BY <1>6, <2>2, ReplyErrorEffect
    DEF MarkCredited, TypeOK, StoreTypes, paystack
  <2> QED
    BY <1>6, <2>1, <2>2 DEF MarkCredited
<1>7. ASSUME NEW h \in Handlers, NotifySuccess(h) PROVE Good
  BY <1>7, ReplyOKEffect
  DEF NotifySuccess, TypeOK, StoreTypes, Busy, store, paystack
<1>8. ASSUME NEW h \in Handlers, CallFails(h) PROVE Good
  <2>1. pc[h] /= "idle" /\ (ReplyError(h) \/ ReplyOK(h))
    BY <1>8 DEF CallFails
  <2>2. faults' \in 0 .. MaxFaults
    BY <1>8, FaultsAssumption DEF CallFails, TypeOK
  <2> QED
    BY <1>8, <2>1, <2>2, ReplyErrorEffect, ReplyOKEffect
    DEF CallFails, TypeOK, StoreTypes, store, paystack, history
<1>9. ASSUME NEW h \in Handlers, NEW r \in References, PaystackWebhookRoute(h, r)
      PROVE  Good
  BY <1>9, StartEffect
  DEF PaystackWebhookRoute, TypeOK, StoreTypes, Stages, store, paystack, history
<1>10. ASSUME NEW h \in Handlers, NEW r \in References, NEW e \in Emails,
              InitializePaymentForPlan(h, r, e)
       PROVE  Good
  BY <1>10, StartEffect
  DEF InitializePaymentForPlan, TypeOK, StoreTypes, Stages, store, history
<1>11. ASSUME NEW h \in Handlers, NEW r \in References, NEW e \in Emails,
              PaystackVerifyRoute(h, r, e)
       PROVE  Good
  BY <1>11, StartEffect
  DEF PaystackVerifyRoute, TypeOK, StoreTypes, Stages, store, paystack, history
<1>12. ASSUME NEW r \in References, CustomerPays(r) PROVE Good
  BY <1>12 DEF CustomerPays, TypeOK, StoreTypes, HandlerTypes, Busy, store, history
<1>13. ASSUME NEW e \in Emails, Register(e) PROVE Good
  BY <1>13 DEF Register, TypeOK, StoreTypes, HandlerTypes, Busy, paystack, history
<1>14. ASSUME NEW e \in Emails PROVE WithoutHistoryOf(e) \in [References -> PaymentRecord]
  BY DEF WithoutHistoryOf, TypeOK, PaymentRecord, Absent
<1>15. ASSUME NEW e \in Emails, DeleteCurrentUser(e) PROVE Good
  BY <1>14, <1>15
  DEF DeleteCurrentUser, TypeOK, StoreTypes, HandlerTypes, Busy, paystack, history
<1>16. ASSUME NEW e \in Emails, DeleteUserByEmail(e) PROVE Good
  BY <1>16 DEF DeleteUserByEmail, TypeOK, StoreTypes, HandlerTypes, Busy, paystack, history
<1>17. ASSUME NEW e \in Emails, FinishDelete(e) PROVE Good
  BY <1>14, <1>17
  DEF FinishDelete, TypeOK, StoreTypes, HandlerTypes, Busy, paystack, history
<1>18. ASSUME Restart PROVE Good
  BY <1>18, IdleType, FaultsAssumption
  DEF Restart, TypeOK, StoreTypes, HandlerTypes, Stages, Busy, store, paystack, history
<1>19. CASE UNCHANGED vars
  BY <1>19 DEF vars, TypeOK, StoreTypes, HandlerTypes, Busy
<1> QED
  BY <1>1, <1>2, <1>3, <1>4, <1>5, <1>6, <1>7, <1>8, <1>9, <1>10, <1>11, <1>12,
     <1>13, <1>15, <1>16, <1>17, <1>18, <1>19 DEF Next, Running, HandlerStep
-----------------------------------------------------------------------------
(* Layer 1: the order of a payment's life.                                 *)

LEMMA InitOneWay == Init => OneWay
BY DEF Init, OneWay, GrantedOnlyIfPaid, SettledOnlyIfGranted, Absent

LEMMA OneWayStep == TypeOK /\ Busy /\ OneWay /\ [Next]_vars => OneWay'
<1> SUFFICES ASSUME TypeOK, Busy, OneWay, [Next]_vars
             PROVE  OneWay'
  OBVIOUS
<1>1. ASSUME NEW h \in Handlers, SaveInitialized(h)
      PROVE  OneWay'
  BY <1>1, ReplyOKEffect
  DEF SaveInitialized, history, OneWay, GrantedOnlyIfPaid,
      SettledOnlyIfGranted, Others, TypeOK, Stages, Busy, Stored
<1>2. ASSUME NEW h \in Handlers, FindPayment(h)
      PROVE  OneWay'
  <2>0. pc[h] = "find" /\ req[h].ref \in References
    BY <1>2 DEF FindPayment, Busy
  <2>1. CASE ReplyError(h)
    BY <1>2, <2>0, <2>1, ReplyErrorEffect
    DEF FindPayment, store, paystack, history, OneWay, GrantedOnlyIfPaid,
        SettledOnlyIfGranted, Others, TypeOK, Stages, Busy, Stored
  <2>2. CASE ReplyOK(h) /\ payments[req[h].ref].credited
    BY <1>2, <2>0, <2>2, ReplyOKEffect
    DEF FindPayment, store, paystack, history, OneWay, GrantedOnlyIfPaid,
        SettledOnlyIfGranted, Others, TypeOK, Stages, Busy, Stored
  <2>3. CASE /\ pc' = [pc EXCEPT ![h] = "ask"]
             /\ req' = [req EXCEPT ![h].email = payments[req[h].ref].email]
             /\ UNCHANGED acked
    <3>1. pc'[h] = "ask" /\ Others(h)
      BY <2>3 DEF TypeOK, Others
    <3> QED
      BY <1>2, <2>0, <2>3, <3>1, SMTT(30)
      DEF FindPayment, store, paystack, history, OneWay, GrantedOnlyIfPaid,
          SettledOnlyIfGranted, Others, TypeOK, Stages, Busy, Stored
  <2> QED
    BY <1>2, <2>1, <2>2, <2>3 DEF FindPayment
<1>3. ASSUME NEW h \in Handlers, AskPaystack(h)
      PROVE  OneWay'
  BY <1>3, ReplyErrorEffect, GotoEffect
  DEF AskPaystack, store, paystack, history, OneWay, GrantedOnlyIfPaid,
      SettledOnlyIfGranted, Others, TypeOK, Stages, Busy, Stored
<1>4. ASSUME NEW h \in Handlers, FindUser(h)
      PROVE  OneWay'
  BY <1>4, ReplyErrorEffect, GotoEffect
  DEF FindUser, store, paystack, history, OneWay, GrantedOnlyIfPaid,
      SettledOnlyIfGranted, Others, TypeOK, Stages, Busy, Stored
<1>5. ASSUME NEW h \in Handlers, CreditUser(h)
      PROVE  OneWay'
  BY <1>5, ReplyErrorEffect, GotoEffect
  DEF CreditUser, store, paystack, OneWay, GrantedOnlyIfPaid,
      SettledOnlyIfGranted, Others, TypeOK, Stages, Busy, Stored
<1>6. ASSUME NEW h \in Handlers, MarkCredited(h)
      PROVE  OneWay'
  BY <1>6, ReplyErrorEffect, GotoEffect
  DEF MarkCredited, paystack, OneWay, GrantedOnlyIfPaid, SettledOnlyIfGranted,
      Others, TypeOK, Stages, Busy, Stored
<1>7. ASSUME NEW h \in Handlers, NotifySuccess(h)
      PROVE  OneWay'
  BY <1>7, ReplyOKEffect
  DEF NotifySuccess, store, paystack, OneWay, GrantedOnlyIfPaid,
      SettledOnlyIfGranted, Others, TypeOK, Stages, Busy, Stored
<1>8. ASSUME NEW h \in Handlers, CallFails(h)
      PROVE  OneWay'
  BY <1>8, ReplyErrorEffect, ReplyOKEffect
  DEF CallFails, store, paystack, history, OneWay, GrantedOnlyIfPaid,
      SettledOnlyIfGranted, Others, TypeOK, Stages, Busy, Stored
<1>9. ASSUME NEW h \in Handlers, NEW r \in References, PaystackWebhookRoute(h,
              r)
      PROVE  OneWay'
  <2>1. /\ pc[h] = "idle" /\ pc'[h] = "find" /\ Others(h)
        /\ req'[h].ref = r
    BY <1>9 DEF PaystackWebhookRoute, Start, Others, TypeOK
  <2> QED
    BY <1>9, <2>1
    DEF PaystackWebhookRoute, store, paystack, history, OneWay,
        GrantedOnlyIfPaid, SettledOnlyIfGranted, Others, TypeOK, Stages, Busy,
        Stored
<1>10. ASSUME NEW h \in Handlers, NEW r \in References, NEW e \in Emails,
              InitializePaymentForPlan(h, r, e)
      PROVE  OneWay'
  <2>1. /\ pc[h] = "idle" /\ pc'[h] = "save" /\ Others(h)
        /\ req'[h].ref = r /\ ~req'[h].webhook
    BY <1>10 DEF InitializePaymentForPlan, Start, Others, TypeOK
  <2> QED
    BY <1>10, <2>1
    DEF InitializePaymentForPlan, AcceptsReference, store, history, OneWay,
        GrantedOnlyIfPaid, SettledOnlyIfGranted, Others, TypeOK, Stages, Busy,
        Stored
<1>11. ASSUME NEW h \in Handlers, NEW r \in References, NEW e \in Emails,
              PaystackVerifyRoute(h, r, e)
      PROVE  OneWay'
  <2>1. /\ pc[h] = "idle" /\ pc'[h] = "find" /\ Others(h)
        /\ req'[h].ref = r
    BY <1>11 DEF PaystackVerifyRoute, Start, Others, TypeOK
  <2> QED
    BY <1>11, <2>1
    DEF PaystackVerifyRoute, store, paystack, history, OneWay,
        GrantedOnlyIfPaid, SettledOnlyIfGranted, Others, TypeOK, Stages, Busy,
        Stored
<1>12. ASSUME NEW r \in References, CustomerPays(r)
      PROVE  OneWay'
  BY <1>12
  DEF CustomerPays, store, history, OneWay, GrantedOnlyIfPaid,
      SettledOnlyIfGranted, Others, TypeOK, Stages, Busy, Stored
<1>13. ASSUME NEW e \in Emails, Register(e)
      PROVE  OneWay'
  BY <1>13
  DEF Register, paystack, history, OneWay, GrantedOnlyIfPaid,
      SettledOnlyIfGranted, Others, TypeOK, Stages, Busy, Stored
<1>14. ASSUME NEW e \in Emails, DeleteCurrentUser(e)
      PROVE  OneWay'
  BY <1>14
  DEF DeleteCurrentUser, WithoutHistoryOf, Absent, paystack, history, OneWay,
      GrantedOnlyIfPaid, SettledOnlyIfGranted, Others, TypeOK, Stages, Busy,
      Stored
<1>15. ASSUME NEW e \in Emails, DeleteUserByEmail(e)
      PROVE  OneWay'
  BY <1>15
  DEF DeleteUserByEmail, paystack, history, OneWay, GrantedOnlyIfPaid,
      SettledOnlyIfGranted, Others, TypeOK, Stages, Busy, Stored
<1>16. ASSUME NEW e \in Emails, FinishDelete(e)
      PROVE  OneWay'
  BY <1>16
  DEF FinishDelete, WithoutHistoryOf, Absent, paystack, history, OneWay,
      GrantedOnlyIfPaid, SettledOnlyIfGranted, Others, TypeOK, Stages, Busy,
      Stored
<1>17. ASSUME Restart
      PROVE  OneWay'
  BY <1>17
  DEF Restart, store, paystack, history, OneWay, GrantedOnlyIfPaid,
      SettledOnlyIfGranted, Others, TypeOK, Stages, Busy, Stored
<1>18. ASSUME UNCHANGED vars
      PROVE  OneWay'
  BY <1>18
  DEF vars, OneWay, GrantedOnlyIfPaid, SettledOnlyIfGranted, Others, TypeOK,
      Stages, Busy, Stored
<1> QED
  BY <1>1, <1>2, <1>3, <1>4, <1>5, <1>6, <1>7, <1>8, <1>9, <1>10, <1>11,
      <1>12, <1>13, <1>14, <1>15, <1>16, <1>17, <1>18
  DEF Next, Running, HandlerStep

-----------------------------------------------------------------------------
(* Layer 2: the claim is exclusive.                                        *)

LEMMA InitOneClaim == Init => OneClaim
BY DEF Init, OneClaim, SettledOnce, AckMeansSettled, Absent

LEMMA OneClaimStep ==
    TypeOK /\ Busy /\ OneWay /\ OneClaim /\ [Next]_vars => OneClaim'
<1> SUFFICES ASSUME TypeOK, Busy, OneWay, OneClaim, [Next]_vars
             PROVE  OneClaim'
  OBVIOUS
<1>1. ASSUME NEW h \in Handlers, SaveInitialized(h)
      PROVE  OneClaim'
  BY <1>1, ReplyOKEffect
  DEF SaveInitialized, history, OneWay, GrantedOnlyIfPaid,
      SettledOnlyIfGranted, OneClaim, SettledOnce, AckMeansSettled, Others,
      TypeOK, Stages, Busy, Stored
<1>2. ASSUME NEW h \in Handlers, FindPayment(h)
      PROVE  OneClaim'
  <2>0. pc[h] = "find" /\ req[h].ref \in References
    BY <1>2 DEF FindPayment, Busy
  <2>1. CASE ReplyError(h)
    BY <1>2, <2>0, <2>1, ReplyErrorEffect
    DEF FindPayment, store, paystack, history, OneWay, GrantedOnlyIfPaid,
        SettledOnlyIfGranted, OneClaim, SettledOnce, AckMeansSettled, Others,
        TypeOK, Stages, Busy, Stored
  <2>2. CASE ReplyOK(h) /\ payments[req[h].ref].credited
    BY <1>2, <2>0, <2>2, ReplyOKEffect
    DEF FindPayment, store, paystack, history, OneWay, GrantedOnlyIfPaid,
        SettledOnlyIfGranted, OneClaim, SettledOnce, AckMeansSettled, Others,
        TypeOK, Stages, Busy, Stored
  <2>3. CASE /\ pc' = [pc EXCEPT ![h] = "ask"]
             /\ req' = [req EXCEPT ![h].email = payments[req[h].ref].email]
             /\ UNCHANGED acked
    <3>1. pc'[h] = "ask" /\ Others(h)
      BY <2>3 DEF TypeOK, Others
    <3> QED
      BY <1>2, <2>0, <2>3, <3>1
      DEF FindPayment, store, paystack, history, OneWay, GrantedOnlyIfPaid,
          SettledOnlyIfGranted, OneClaim, SettledOnce, AckMeansSettled,
          Others, TypeOK, Stages, Busy, Stored
  <2> QED
    BY <1>2, <2>1, <2>2, <2>3 DEF FindPayment
<1>3. ASSUME NEW h \in Handlers, AskPaystack(h)
      PROVE  OneClaim'
  BY <1>3, ReplyErrorEffect, GotoEffect
  DEF AskPaystack, store, paystack, history, OneWay, GrantedOnlyIfPaid,
      SettledOnlyIfGranted, OneClaim, SettledOnce, AckMeansSettled, Others,
      TypeOK, Stages, Busy, Stored
<1>4. ASSUME NEW h \in Handlers, FindUser(h)
      PROVE  OneClaim'
  BY <1>4, ReplyErrorEffect, GotoEffect
  DEF FindUser, store, paystack, history, OneWay, GrantedOnlyIfPaid,
      SettledOnlyIfGranted, OneClaim, SettledOnce, AckMeansSettled, Others,
      TypeOK, Stages, Busy, Stored
<1>5. ASSUME NEW h \in Handlers, CreditUser(h)
      PROVE  OneClaim'
  BY <1>5, ReplyErrorEffect, GotoEffect
  DEF CreditUser, store, paystack, OneWay, GrantedOnlyIfPaid,
      SettledOnlyIfGranted, OneClaim, SettledOnce, AckMeansSettled, Others,
      TypeOK, Stages, Busy, Stored
<1>6. ASSUME NEW h \in Handlers, MarkCredited(h)
      PROVE  OneClaim'
  <2> DEFINE r == req[h].ref
  <2>0. pc[h] = "mark" /\ r \in References
    BY <1>6 DEF MarkCredited, Busy
  <2>1. CASE Stored(r) /\ ~payments[r].credited
    <3>1. /\ payments' = [payments EXCEPT
                ![r] = [status |-> "success", email |-> req[h].email,
                        credited |-> TRUE]]
          /\ claims' = [claims EXCEPT ![r] = @ + 1]
          /\ Goto(h, "notify")
          /\ UNCHANGED <<provider, credits, notices>>
      BY <1>6, <2>1 DEF MarkCredited, paystack
    <3>2. pc'[h] = "notify" /\ req' = req /\ acked' = acked /\ Others(h)
      BY <2>0, <3>1, GotoEffect DEF Stages
    <3>3. claims[r] = 0 /\ notices[r] = 0
      <4>1. claims[r] /= 1
        BY <2>0, <2>1 DEF OneClaim
      <4>2. claims[r] <= 1 /\ notices[r] <= claims[r]
        BY <2>0 DEF OneClaim, SettledOnce
      <4>3. claims[r] \in Nat /\ notices[r] \in Nat
        BY <2>0 DEF TypeOK
      <4> QED
        BY <4>1, <4>2, <4>3
    <3>4. claims'[r] = 1 /\ payments'[r].credited /\ provider[r] = "success"
          /\ credits[r] > 0
      BY <2>0, <3>1, <3>3 DEF TypeOK, OneWay
    <3>5. \A q \in References \ {r} :
                claims'[q] = claims[q] /\ payments'[q] = payments[q]
      BY <3>1 DEF TypeOK
    <3> QED
      BY <2>0, <3>1, <3>2, <3>3, <3>4, <3>5
      DEF OneClaim, SettledOnce, AckMeansSettled, Others, TypeOK, Busy, Stored
  <2>2. CASE ~(Stored(r) /\ ~payments[r].credited)
    <3>1. ReplyError(h) /\ UNCHANGED <<payments, claims, provider, credits, notices>>
      BY <1>6, <2>2 DEF MarkCredited, paystack
    <3> QED
      BY <2>0, <3>1, ReplyErrorEffect
      DEF OneClaim, SettledOnce, AckMeansSettled, Others, TypeOK, Stored
  <2> QED
    BY <2>1, <2>2
<1>7. ASSUME NEW h \in Handlers, NotifySuccess(h)
      PROVE  OneClaim'
  BY <1>7, ReplyOKEffect
  DEF NotifySuccess, store, paystack, OneWay, GrantedOnlyIfPaid,
      SettledOnlyIfGranted, OneClaim, SettledOnce, AckMeansSettled, Others,
      TypeOK, Stages, Busy, Stored
<1>8. ASSUME NEW h \in Handlers, CallFails(h)
      PROVE  OneClaim'
  BY <1>8, ReplyErrorEffect, ReplyOKEffect
  DEF CallFails, store, paystack, history, OneWay, GrantedOnlyIfPaid,
      SettledOnlyIfGranted, OneClaim, SettledOnce, AckMeansSettled, Others,
      TypeOK, Stages, Busy, Stored
<1>9. ASSUME NEW h \in Handlers, NEW r \in References, PaystackWebhookRoute(h,
              r)
      PROVE  OneClaim'
  <2>1. /\ pc[h] = "idle" /\ pc'[h] = "find" /\ Others(h)
        /\ req'[h].ref = r
    BY <1>9 DEF PaystackWebhookRoute, Start, Others, TypeOK
  <2> QED
    BY <1>9, <2>1
    DEF PaystackWebhookRoute, store, paystack, history, OneWay,
        GrantedOnlyIfPaid, SettledOnlyIfGranted, OneClaim, SettledOnce,
        AckMeansSettled, Others, TypeOK, Stages, Busy, Stored
<1>10. ASSUME NEW h \in Handlers, NEW r \in References, NEW e \in Emails,
              InitializePaymentForPlan(h, r, e)
      PROVE  OneClaim'
  <2>1. /\ pc[h] = "idle" /\ pc'[h] = "save" /\ Others(h)
        /\ req'[h].ref = r /\ ~req'[h].webhook
    BY <1>10 DEF InitializePaymentForPlan, Start, Others, TypeOK
  <2> QED
    BY <1>10, <2>1
    DEF InitializePaymentForPlan, AcceptsReference, store, history, OneWay,
        GrantedOnlyIfPaid, SettledOnlyIfGranted, OneClaim, SettledOnce,
        AckMeansSettled, Others, TypeOK, Stages, Busy, Stored
<1>11. ASSUME NEW h \in Handlers, NEW r \in References, NEW e \in Emails,
              PaystackVerifyRoute(h, r, e)
      PROVE  OneClaim'
  <2>1. /\ pc[h] = "idle" /\ pc'[h] = "find" /\ Others(h)
        /\ req'[h].ref = r
    BY <1>11 DEF PaystackVerifyRoute, Start, Others, TypeOK
  <2> QED
    BY <1>11, <2>1
    DEF PaystackVerifyRoute, store, paystack, history, OneWay,
        GrantedOnlyIfPaid, SettledOnlyIfGranted, OneClaim, SettledOnce,
        AckMeansSettled, Others, TypeOK, Stages, Busy, Stored
<1>12. ASSUME NEW r \in References, CustomerPays(r)
      PROVE  OneClaim'
  BY <1>12
  DEF CustomerPays, store, history, OneWay, GrantedOnlyIfPaid,
      SettledOnlyIfGranted, OneClaim, SettledOnce, AckMeansSettled, Others,
      TypeOK, Stages, Busy, Stored
<1>13. ASSUME NEW e \in Emails, Register(e)
      PROVE  OneClaim'
  BY <1>13
  DEF Register, paystack, history, OneWay, GrantedOnlyIfPaid,
      SettledOnlyIfGranted, OneClaim, SettledOnce, AckMeansSettled, Others,
      TypeOK, Stages, Busy, Stored
<1>14. ASSUME NEW e \in Emails, DeleteCurrentUser(e)
      PROVE  OneClaim'
  BY <1>14
  DEF DeleteCurrentUser, WithoutHistoryOf, Absent, paystack, history, OneWay,
      GrantedOnlyIfPaid, SettledOnlyIfGranted, OneClaim, SettledOnce,
      AckMeansSettled, Others, TypeOK, Stages, Busy, Stored
<1>15. ASSUME NEW e \in Emails, DeleteUserByEmail(e)
      PROVE  OneClaim'
  BY <1>15
  DEF DeleteUserByEmail, paystack, history, OneWay, GrantedOnlyIfPaid,
      SettledOnlyIfGranted, OneClaim, SettledOnce, AckMeansSettled, Others,
      TypeOK, Stages, Busy, Stored
<1>16. ASSUME NEW e \in Emails, FinishDelete(e)
      PROVE  OneClaim'
  BY <1>16
  DEF FinishDelete, WithoutHistoryOf, Absent, paystack, history, OneWay,
      GrantedOnlyIfPaid, SettledOnlyIfGranted, OneClaim, SettledOnce,
      AckMeansSettled, Others, TypeOK, Stages, Busy, Stored
<1>17. ASSUME Restart
      PROVE  OneClaim'
  BY <1>17
  DEF Restart, store, paystack, history, OneWay, GrantedOnlyIfPaid,
      SettledOnlyIfGranted, OneClaim, SettledOnce, AckMeansSettled, Others,
      TypeOK, Stages, Busy, Stored
<1>18. ASSUME UNCHANGED vars
      PROVE  OneClaim'
  BY <1>18
  DEF vars, OneWay, GrantedOnlyIfPaid, SettledOnlyIfGranted, OneClaim,
      SettledOnce, AckMeansSettled, Others, TypeOK, Stages, Busy, Stored
<1> QED
  BY <1>1, <1>2, <1>3, <1>4, <1>5, <1>6, <1>7, <1>8, <1>9, <1>10, <1>11,
      <1>12, <1>13, <1>14, <1>15, <1>16, <1>17, <1>18
  DEF Next, Running, HandlerStep
-----------------------------------------------------------------------------
(* Layer 3: how often a payment can be granted.                            *)

LEMMA SomeHandlers ==
    ASSUME NEW S \in SUBSET Handlers
    PROVE  IsFiniteSet(S) /\ Cardinality(S) \in Nat /\ Cardinality(S) <= N
BY HandlersAssumption, FS_Subset, FS_CardinalityType DEF N

LEMMA Counted ==
    ASSUME NEW r \in References
    PROVE  /\ HasGranted(r) \in SUBSET Handlers /\ HasGranted(r)' \in SUBSET Handlers
           /\ MayGrant(r) \in SUBSET Handlers /\ MayGrant(r)' \in SUBSET Handlers
BY DEF HasGranted, MayGrant, At

LEMMA NType == N \in Nat
BY HandlersAssumption, FS_CardinalityType DEF N

\* The same handler is not counted twice.
LEMMA Disjoint ==
    ASSUME NEW r \in References
    PROVE  Cardinality(HasGranted(r)) + Cardinality(MayGrant(r)) <= N
<1> DEFINE A == HasGranted(r)
           B == MayGrant(r)
<1>1. A \cap B = {}
  BY DEF HasGranted, MayGrant, At
<1>2. A \in SUBSET Handlers /\ B \in SUBSET Handlers /\ A \union B \in SUBSET Handlers
  BY Counted
<1> HIDE DEF A, B
<1>3. Cardinality(A \union B) = Cardinality(A) + Cardinality(B) - Cardinality(A \cap B)
  BY <1>2, SomeHandlers, FS_Union
<1>4. Cardinality(A \cap B) = 0
  BY <1>1, FS_EmptySet
<1>5. Cardinality(A) + Cardinality(B) <= N
  BY <1>2, <1>3, <1>4, SomeHandlers, NType
<1> QED
  BY <1>5 DEF A, B

LEMMA Shrinks ==
    ASSUME NEW r \in References, MayGrant(r)' \subseteq MayGrant(r)
    PROVE  Cardinality(MayGrant(r)') <= Cardinality(MayGrant(r))
BY Counted, SomeHandlers, FS_Subset

BudgetOf(r) ==
    /\ Open(r) => credits[r] <= N * faults + Cardinality(HasGranted(r))
    /\ ~Open(r) => credits[r] + Cardinality(MayGrant(r)) <= N * faults + N

\* The types the arithmetic below needs.
Counters(r) ==
    /\ credits[r] \in Nat /\ faults \in Nat
    /\ Cardinality(HasGranted(r)) \in Nat
    /\ Cardinality(MayGrant(r)) \in Nat

LEMMA CountersType ==
    ASSUME NEW r \in References
    PROVE  (TypeOK => Counters(r)) /\ (TypeOK' => Counters(r)')
BY Counted, SomeHandlers, FaultsAssumption DEF TypeOK, Counters

\* A step that grants nothing for r and fails nothing keeps the budget of r
\* when it opens no record, and lets a handler in only while it is open.
LEMMA QuietStep ==
    ASSUME NEW r \in References, TypeOK, TypeOK', BudgetOf(r),
           credits'[r] = credits[r], faults' = faults,
           Open(r)' => Open(r) /\ HasGranted(r)' = HasGranted(r),
           Open(r)' \/ MayGrant(r)' \subseteq MayGrant(r)
    PROVE  BudgetOf(r)'
<1>1. Counters(r) /\ Counters(r)' /\ N * faults \in Nat /\ N \in Nat
  BY CountersType, NType DEF Counters
<1>2. CASE Open(r)'
  BY <1>2 DEF BudgetOf
<1>3. CASE ~Open(r)'
  <2>1. Cardinality(MayGrant(r)') <= Cardinality(MayGrant(r))
    BY <1>3, Shrinks
  <2>2. Cardinality(HasGranted(r)) + Cardinality(MayGrant(r)) <= N
    BY Disjoint
  <2>3. credits[r] + Cardinality(MayGrant(r)) <= N * faults + N
    BY <1>1, <2>2 DEF BudgetOf, Counters
  <2>4. credits'[r] + Cardinality(MayGrant(r)') <= N * faults' + N
    BY <1>1, <2>1, <2>3 DEF Counters
  <2> QED
    BY <1>3, <2>4 DEF BudgetOf
<1> QED
  BY <1>2, <1>3

\* A failure forgets grants that were not claimed yet, one round at most.
LEMMA FaultStep ==
    ASSUME NEW r \in References, TypeOK, TypeOK', BudgetOf(r),
           credits'[r] = credits[r], faults' = faults + 1,
           MayGrant(r)' \subseteq MayGrant(r)
    PROVE  BudgetOf(r)'
<1>1. Counters(r) /\ Counters(r)' /\ N * faults \in Nat /\ N \in Nat
  BY CountersType, NType DEF Counters
<1>2. N * faults' = N * faults + N
  BY <1>1 DEF Counters
<1>3. Cardinality(MayGrant(r)') <= Cardinality(MayGrant(r))
  BY Shrinks
<1>4. Cardinality(HasGranted(r)) + Cardinality(MayGrant(r)) <= N
  BY Disjoint
<1>5. credits[r] + Cardinality(MayGrant(r)) <= N * faults + N
  BY <1>1, <1>4 DEF BudgetOf, Counters
<1> QED
  BY <1>1, <1>2, <1>3, <1>5 DEF BudgetOf, Counters

\* The $inc: the handler moves from those that may grant to those that have.
LEMMA GrantStep ==
    ASSUME TypeOK, TypeOK', NEW h \in Handlers, Others(h),
           pc[h] = "credit", pc'[h] = "mark", req' = req,
           payments' = payments, faults' = faults,
           NEW r \in References, req[h].ref = r, BudgetOf(r),
           credits'[r] = credits[r] + 1
    PROVE  BudgetOf(r)'
<1>1. Counters(r) /\ Counters(r)' /\ N * faults \in Nat /\ N \in Nat
  BY CountersType, NType DEF Counters
<1>2. h \notin HasGranted(r) /\ HasGranted(r)' = HasGranted(r) \union {h}
  BY DEF HasGranted, At, Others
<1>3. h \in MayGrant(r) /\ MayGrant(r)' = MayGrant(r) \ {h}
  BY DEF MayGrant, At, Others
<1>4. Cardinality(HasGranted(r)') = Cardinality(HasGranted(r)) + 1
  BY <1>2, Counted, SomeHandlers, FS_AddElement
<1>5. Cardinality(MayGrant(r)') = Cardinality(MayGrant(r)) - 1
  BY <1>3, Counted, SomeHandlers, FS_RemoveElement
<1>6. Open(r)' <=> Open(r)
  BY DEF Open, Stored
<1> QED
  BY <1>1, <1>4, <1>5, <1>6 DEF BudgetOf, Counters

\* What a step of one handler does to the handlers counted for a reference.
LEMMA CountedHandlers ==
    ASSUME NEW h \in Handlers, Others(h), NEW r \in References
    PROVE  /\ (h \notin HasGranted(r) /\ h \notin HasGranted(r)')
                => HasGranted(r)' = HasGranted(r)
           /\ (h \in MayGrant(r) \/ h \notin MayGrant(r)')
                => MayGrant(r)' \subseteq MayGrant(r)
BY DEF HasGranted, MayGrant, At, Others

LEMMA InitBudget == Init => Budget
<1> SUFFICES ASSUME Init, NEW r \in References PROVE BudgetOf(r)
  BY DEF Budget, BudgetOf
<1>1. ~Open(r) /\ credits[r] = 0 /\ MayGrant(r) = {} /\ faults = 0
  BY DEF Init, Open, Stored, Absent, MayGrant, At
<1> QED
  BY <1>1, NType, FS_EmptySet DEF BudgetOf

LEMMA BudgetStep ==
    TypeOK /\ Busy /\ OneWay /\ Budget /\ [Next]_vars /\ TypeOK' => Budget'
<1> SUFFICES ASSUME TypeOK, Busy, OneWay, Budget, [Next]_vars, TypeOK',
                    NEW q \in References
             PROVE  BudgetOf(q)'
  BY DEF Budget, BudgetOf
<1>0. BudgetOf(q)
  BY DEF Budget, BudgetOf
<1> DEFINE Quiet ==
        /\ credits'[q] = credits[q] /\ faults' = faults
        /\ Open(q)' => Open(q) /\ HasGranted(q)' = HasGranted(q)
        /\ Open(q)' \/ MayGrant(q)' \subseteq MayGrant(q)
<1>q. ASSUME Quiet PROVE BudgetOf(q)'
  BY <1>0, <1>q, QuietStep
<1> HIDE DEF Quiet
<1>1. ASSUME NEW h \in Handlers, SaveInitialized(h)
      PROVE  BudgetOf(q)'
  <2> DEFINE r == req[h].ref
  <2>1. /\ pc[h] = "save" /\ r \in References /\ pc'[h] = "idle" /\ Others(h)
        /\ credits' = credits /\ faults' = faults
    BY <1>1, ReplyOKEffect DEF SaveInitialized, Busy, history
  <2>2. CASE q = r
    <3>1. credits[q] = 0
      BY <2>1, <2>2 DEF OneWay, GrantedOnlyIfPaid, TypeOK
    <3>2. Open(q)'
      BY <1>1, <2>1, <2>2 DEF SaveInitialized, Open, Stored, TypeOK
    <3>3. Counters(q)' /\ N * faults \in Nat
      BY CountersType, NType DEF Counters
    <3> QED
      BY <2>1, <3>1, <3>2, <3>3 DEF BudgetOf, Counters
  <2>3. CASE q /= r
    <3>1. Open(q)' <=> Open(q)
      BY <1>1, <2>1, <2>3 DEF SaveInitialized, Open, Stored, TypeOK
    <3>2. h \notin HasGranted(q) /\ h \notin HasGranted(q)' /\ h \notin MayGrant(q)'
      BY <2>1 DEF HasGranted, MayGrant, At
    <3> QED
      BY <1>q, <2>1, <3>1, <3>2, CountedHandlers DEF Quiet
  <2> QED
    BY <2>2, <2>3
<1>2. ASSUME NEW h \in Handlers, FindPayment(h)
      PROVE  BudgetOf(q)'
  <2> DEFINE r == req[h].ref
  <2>1. pc[h] = "find" /\ r \in References /\ UNCHANGED <<payments, credits, faults>>
    BY <1>2 DEF FindPayment, Busy, store, history
  <2>2. Open(q)' <=> Open(q)
    BY <2>1 DEF Open, Stored
  <2>3. CASE ReplyError(h) \/ ReplyOK(h)
    <3>1. Others(h) /\ pc'[h] = "idle"
      BY <2>1, <2>3, ReplyErrorEffect, ReplyOKEffect
    <3>2. h \notin HasGranted(q) /\ h \notin HasGranted(q)' /\ h \notin MayGrant(q)'
      BY <2>1, <3>1 DEF HasGranted, MayGrant, At
    <3> QED
      BY <1>q, <2>1, <2>2, <3>1, <3>2, CountedHandlers DEF Quiet
  <2>4. CASE /\ Open(r)
             /\ pc' = [pc EXCEPT ![h] = "ask"]
             /\ req' = [req EXCEPT ![h].email = payments[r].email]
    <3>1. pc'[h] = "ask" /\ req'[h].ref = r /\ Others(h)
      BY <2>4 DEF TypeOK, Others, Request
    <3>2. h \notin HasGranted(q) /\ h \notin HasGranted(q)'
      BY <2>1, <3>1 DEF HasGranted, At
    <3>3. h \in MayGrant(q)' => q = r
      BY <3>1 DEF MayGrant, At
    <3> QED
      BY <1>q, <2>1, <2>2, <2>4, <3>1, <3>2, <3>3, CountedHandlers DEF Quiet
  <2> QED
    BY <1>2, <2>3, <2>4 DEF FindPayment, Open
<1>3. ASSUME NEW h \in Handlers, AskPaystack(h)
      PROVE  BudgetOf(q)'
  <2>1. /\ pc[h] = "ask" /\ Others(h) /\ pc'[h] \in {"user", "idle"}
        /\ pc'[h] = "user" => req' = req
        /\ UNCHANGED <<payments, credits, faults>>
    BY <1>3, GotoEffect, ReplyErrorEffect DEF AskPaystack, Stages, store, history
  <2>2. Open(q)' <=> Open(q)
    BY <2>1 DEF Open, Stored
  <2>3. h \notin HasGranted(q) /\ h \notin HasGranted(q)'
    BY <2>1 DEF HasGranted, At
  <2>4. h \in MayGrant(q) \/ h \notin MayGrant(q)'
    BY <2>1 DEF MayGrant, At
  <2> QED
    BY <1>q, <2>1, <2>2, <2>3, <2>4, CountedHandlers DEF Quiet
<1>4. ASSUME NEW h \in Handlers, FindUser(h)
      PROVE  BudgetOf(q)'
  <2>1. /\ pc[h] = "user" /\ Others(h) /\ pc'[h] \in {"credit", "idle"}
        /\ pc'[h] = "credit" => req' = req
        /\ UNCHANGED <<payments, credits, faults>>
    BY <1>4, GotoEffect, ReplyErrorEffect DEF FindUser, Stages, store, history
  <2>2. Open(q)' <=> Open(q)
    BY <2>1 DEF Open, Stored
  <2>3. h \notin HasGranted(q) /\ h \notin HasGranted(q)'
    BY <2>1 DEF HasGranted, At
  <2>4. h \in MayGrant(q) \/ h \notin MayGrant(q)'
    BY <2>1 DEF MayGrant, At
  <2> QED
    BY <1>q, <2>1, <2>2, <2>3, <2>4, CountedHandlers DEF Quiet
<1>5. ASSUME NEW h \in Handlers, CreditUser(h)
      PROVE  BudgetOf(q)'
  <2> DEFINE r == req[h].ref
  <2>1. pc[h] = "credit" /\ r \in References /\ UNCHANGED <<payments, faults>>
    BY <1>5 DEF CreditUser, Busy, store
  <2>2. Open(q)' <=> Open(q)
    BY <2>1 DEF Open, Stored
  <2>3. CASE Goto(h, "mark") /\ credits' = [credits EXCEPT ![r] = @ + 1]
    <3>1. Others(h) /\ pc'[h] = "mark" /\ req' = req
      BY <2>1, <2>3, GotoEffect DEF Stages
    <3>2. CASE q = r
      <4>1. credits'[q] = credits[q] + 1
        BY <2>1, <2>3, <3>2 DEF TypeOK
      <4> QED
        BY <1>0, <2>1, <3>1, <3>2, <4>1, GrantStep
    <3>3. CASE q /= r
      <4>1. credits'[q] = credits[q]
        BY <2>3, <3>3 DEF TypeOK
      <4>2. h \notin HasGranted(q) /\ h \notin HasGranted(q)' /\ h \notin MayGrant(q)'
        BY <3>1, <3>3 DEF HasGranted, MayGrant, At
      <4> QED
        BY <1>q, <2>1, <2>2, <3>1, <4>1, <4>2, CountedHandlers DEF Quiet
    <3> QED
      BY <3>2, <3>3
  <2>4. CASE ReplyError(h) /\ UNCHANGED credits
    <3>1. Others(h) /\ pc'[h] = "idle"
      BY <2>4, ReplyErrorEffect
    <3>2. h \notin HasGranted(q) /\ h \notin HasGranted(q)' /\ h \notin MayGrant(q)'
      BY <2>1, <3>1 DEF HasGranted, MayGrant, At
    <3> QED
      BY <1>q, <2>1, <2>2, <2>4, <3>1, <3>2, CountedHandlers DEF Quiet
  <2> QED
    BY <1>5, <2>3, <2>4 DEF CreditUser
<1>6. ASSUME NEW h \in Handlers, MarkCredited(h)
      PROVE  BudgetOf(q)'
  <2> DEFINE r == req[h].ref
  <2>1. pc[h] = "mark" /\ r \in References /\ UNCHANGED <<credits, faults>>
    BY <1>6 DEF MarkCredited, Busy
  <2>2. Others(h) /\ pc'[h] \in {"notify", "idle"}
    BY <1>6, <2>1, GotoEffect, ReplyErrorEffect DEF MarkCredited, Stages
  <2>3. h \notin MayGrant(q)' /\ h \notin HasGranted(q)'
    BY <2>2 DEF MayGrant, HasGranted, At
  <2>4. CASE q = r
    <3>1. ~Open(q)'
      BY <1>6, <2>1, <2>4 DEF MarkCredited, Open, Stored, TypeOK
    <3> QED
      BY <1>q, <2>1, <2>2, <2>3, <3>1, CountedHandlers DEF Quiet
  <2>5. CASE q /= r
    <3>1. payments'[q] = payments[q]
      BY <1>6, <2>1, <2>5 DEF MarkCredited, TypeOK
    <3>2. (Open(q)' <=> Open(q)) /\ h \notin HasGranted(q)
      BY <2>5, <3>1 DEF Open, Stored, HasGranted, At
    <3> QED
      BY <1>q, <2>1, <2>2, <2>3, <3>2, CountedHandlers DEF Quiet
  <2> QED
    BY <2>4, <2>5
<1>7. ASSUME NEW h \in Handlers, NotifySuccess(h)
      PROVE  BudgetOf(q)'
  <2>1. /\ pc[h] = "notify" /\ Others(h) /\ pc'[h] = "idle"
        /\ UNCHANGED <<payments, credits, faults>>
    BY <1>7, ReplyOKEffect DEF NotifySuccess, store
  <2>2. Open(q)' <=> Open(q)
    BY <2>1 DEF Open, Stored
  <2>3. h \notin HasGranted(q) /\ h \notin HasGranted(q)' /\ h \notin MayGrant(q)'
    BY <2>1 DEF HasGranted, MayGrant, At
  <2> QED
    BY <1>q, <2>1, <2>2, <2>3, CountedHandlers DEF Quiet
<1>8. ASSUME NEW h \in Handlers, CallFails(h)
      PROVE  BudgetOf(q)'
  <2>1. /\ Others(h) /\ pc'[h] = "idle"
        /\ UNCHANGED <<payments, credits>> /\ faults' = faults + 1
    BY <1>8, ReplyOKEffect, ReplyErrorEffect DEF CallFails, store, history
  <2>2. h \notin MayGrant(q)'
    BY <2>1 DEF MayGrant, At
  <2> QED
    BY <1>0, <2>1, <2>2, CountedHandlers, FaultStep
<1>9. ASSUME NEW h \in Handlers, NEW r \in References, PaystackWebhookRoute(h,
              r)
      PROVE  BudgetOf(q)'
  <2>1. /\ pc[h] = "idle" /\ pc'[h] = "find" /\ Others(h)
        /\ UNCHANGED <<payments, credits, faults>>
    BY <1>9 DEF PaystackWebhookRoute, Start, Others, TypeOK, store, history
  <2>2. Open(q)' <=> Open(q)
    BY <2>1 DEF Open, Stored
  <2>3. h \notin HasGranted(q) /\ h \notin HasGranted(q)' /\ h \notin MayGrant(q)'
    BY <2>1 DEF HasGranted, MayGrant, At
  <2> QED
    BY <1>q, <2>1, <2>2, <2>3, CountedHandlers DEF Quiet
<1>10. ASSUME NEW h \in Handlers, NEW r \in References, NEW e \in Emails,
              InitializePaymentForPlan(h, r, e)
      PROVE  BudgetOf(q)'
  <2>1. /\ pc[h] = "idle" /\ pc'[h] = "save" /\ Others(h)
        /\ UNCHANGED <<payments, credits, faults>>
    BY <1>10 DEF InitializePaymentForPlan, Start, Others, TypeOK, store, history
  <2>2. Open(q)' <=> Open(q)
    BY <2>1 DEF Open, Stored
  <2>3. h \notin HasGranted(q) /\ h \notin HasGranted(q)' /\ h \notin MayGrant(q)'
    BY <2>1 DEF HasGranted, MayGrant, At
  <2> QED
    BY <1>q, <2>1, <2>2, <2>3, CountedHandlers DEF Quiet
<1>11. ASSUME NEW h \in Handlers, NEW r \in References, NEW e \in Emails,
              PaystackVerifyRoute(h, r, e)
      PROVE  BudgetOf(q)'
  <2>1. /\ pc[h] = "idle" /\ pc'[h] = "find" /\ Others(h)
        /\ UNCHANGED <<payments, credits, faults>>
    BY <1>11 DEF PaystackVerifyRoute, Start, Others, TypeOK, store, history
  <2>2. Open(q)' <=> Open(q)
    BY <2>1 DEF Open, Stored
  <2>3. h \notin HasGranted(q) /\ h \notin HasGranted(q)' /\ h \notin MayGrant(q)'
    BY <2>1 DEF HasGranted, MayGrant, At
  <2> QED
    BY <1>q, <2>1, <2>2, <2>3, CountedHandlers DEF Quiet
<1>12. ASSUME NEW r \in References, CustomerPays(r)
      PROVE  BudgetOf(q)'
  <2>1. UNCHANGED <<payments, pc, req, credits, faults>>
    BY <1>12 DEF CustomerPays, store, history
  <2> QED
    BY <1>q, <2>1 DEF Quiet, Open, Stored, HasGranted, MayGrant, At
<1>13. ASSUME NEW e \in Emails, Register(e)
      PROVE  BudgetOf(q)'
  <2>1. UNCHANGED <<payments, pc, req, credits, faults>>
    BY <1>13 DEF Register, history
  <2> QED
    BY <1>q, <2>1 DEF Quiet, Open, Stored, HasGranted, MayGrant, At
<1>14. ASSUME NEW e \in Emails, DeleteCurrentUser(e)
      PROVE  BudgetOf(q)'
  <2>1. UNCHANGED <<pc, req, credits, faults>> /\ payments' = WithoutHistoryOf(e)
    BY <1>14 DEF DeleteCurrentUser, history
  <2>2. Open(q)' => Open(q)
    BY <2>1 DEF WithoutHistoryOf, Open, Stored, Absent
  <2> QED
    BY <1>q, <2>1, <2>2 DEF Quiet, HasGranted, MayGrant, At
<1>15. ASSUME NEW e \in Emails, DeleteUserByEmail(e)
      PROVE  BudgetOf(q)'
  <2>1. UNCHANGED <<payments, pc, req, credits, faults>>
    BY <1>15 DEF DeleteUserByEmail, history
  <2> QED
    BY <1>q, <2>1 DEF Quiet, Open, Stored, HasGranted, MayGrant, At
<1>16. ASSUME NEW e \in Emails, FinishDelete(e)
      PROVE  BudgetOf(q)'
  <2>1. /\ UNCHANGED <<pc, req, credits, faults>>
        /\ payments' = payments \/ payments' = WithoutHistoryOf(e)
    BY <1>16 DEF FinishDelete, history
  <2>2. Open(q)' => Open(q)
    BY <2>1 DEF WithoutHistoryOf, Open, Stored, Absent
  <2> QED
    BY <1>q, <2>1, <2>2 DEF Quiet, HasGranted, MayGrant, At
<1>17. ASSUME Restart
      PROVE  BudgetOf(q)'
  <2>1. UNCHANGED <<payments, credits>> /\ faults' = faults + 1
    BY <1>17 DEF Restart, store, history
  <2>2. MayGrant(q)' = {}
    BY <1>17 DEF Restart, MayGrant, At
  <2> QED
    BY <1>0, <2>1, <2>2, FaultStep
<1>18. ASSUME UNCHANGED vars
      PROVE  BudgetOf(q)'
  <2>1. UNCHANGED <<payments, pc, req, credits, faults>>
    BY <1>18 DEF vars
  <2> QED
    BY <1>q, <2>1 DEF Quiet, Open, Stored, HasGranted, MayGrant, At
<1> QED
  BY <1>1, <1>2, <1>3, <1>4, <1>5, <1>6, <1>7, <1>8, <1>9, <1>10, <1>11,
      <1>12, <1>13, <1>14, <1>15, <1>16, <1>17, <1>18
  DEF Next, Running, HandlerStep

-----------------------------------------------------------------------------
(* The theorems.                                                           *)

Inductive == TypeOK /\ Busy /\ OneWay /\ OneClaim /\ Budget

LEMMA InductiveInvariant == Spec => []Inductive
<1>1. Init => Inductive
  BY InitTypes, InitOneWay, InitOneClaim, InitBudget DEF Inductive
<1>2. Inductive /\ [Next]_vars => Inductive'
  BY TypesStep, OneWayStep, OneClaimStep, BudgetStep DEF Inductive
<1> QED
  BY <1>1, <1>2, PTL DEF Spec

LEMMA RoundsGrow ==
    ASSUME NEW f \in Nat, NEW g \in Nat, f <= g
    PROVE  N * (f + 1) <= N * (g + 1)
<1> DEFINE d == g - f
<1>1. d \in Nat /\ g + 1 = (f + 1) + d
  OBVIOUS
<1> HIDE DEF d
<1>2. N * ((f + 1) + d) = N * (f + 1) + N * d /\ N * d \in Nat
  BY <1>1, NType
<1> QED
  BY <1>1, <1>2, NType

LEMMA BudgetGivesBound == Inductive => OverCreditBound
<1> SUFFICES ASSUME Inductive, NEW r \in References
             PROVE  credits[r] <= N * (faults + 1)
  BY DEF OverCreditBound, N
<1>1. Counters(r) /\ N \in Nat /\ N * faults \in Nat
  BY CountersType, NType DEF Inductive, Counters
<1>2. N * (faults + 1) = N * faults + N
  BY <1>1 DEF Counters
<1>3. Cardinality(HasGranted(r)) <= N
  BY Counted, SomeHandlers
<1>4. /\ Open(r) => credits[r] <= N * faults + Cardinality(HasGranted(r))
      /\ ~Open(r) => credits[r] + Cardinality(MayGrant(r)) <= N * faults + N
  BY DEF Inductive, Budget
<1> QED
  BY <1>1, <1>2, <1>3, <1>4 DEF Counters

\* Every reachable state is well typed: the records of payment.go keep their
\* shape, and a handler between two calls is at one of the calls of the code.
THEOREM TypeCorrect == Spec => []TypeOK
<1>1. Inductive => TypeOK
  BY DEF Inductive
<1> QED
  BY <1>1, InductiveInvariant, PTL

\* No tokens without a successful charge, for any number of requests.
THEOREM OnlyPaidIsGranted == Spec => []GrantedOnlyIfPaid
<1>1. Inductive => GrantedOnlyIfPaid
  BY DEF Inductive, OneWay
<1> QED
  BY <1>1, InductiveInvariant, PTL

\* A record says "credited" only after the $inc of step 9.
THEOREM OnlyGrantedIsSettled == Spec => []SettledOnlyIfGranted
<1>1. Inductive => SettledOnlyIfGranted
  BY DEF Inductive, OneWay
<1> QED
  BY <1>1, InductiveInvariant, PTL

\* One handler claims a payment, and notifies its customer at most once.
THEOREM SettledOnceAlways == Spec => []SettledOnce
<1>1. Inductive => SettledOnce
  BY DEF Inductive, OneClaim
<1> QED
  BY <1>1, InductiveInvariant, PTL

\* Paystack is answered 200 only for a payment that was claimed.
THEOREM AckIsSafe == Spec => []AckMeansSettled
<1>1. Inductive => AckMeansSettled
  BY DEF Inductive, OneClaim
<1> QED
  BY <1>1, InductiveInvariant, PTL

\* Races and failures repeat a grant at most |Handlers| * (faults + 1) times.
THEOREM OverCreditIsBounded == Spec => []OverCreditBound
BY BudgetGivesBound, InductiveInvariant, PTL

\* Without overlap and without failures a payment is credited at most once:
\* what the comment of payment.go:905-907 asks for holds of the sequential code.
THEOREM SerialCreditsOnce ==
    ASSUME Cardinality(Handlers) = 1, MaxFaults = 0
    PROVE  Spec => []CreditedAtMostOnce
<1>1. Inductive => CreditedAtMostOnce
  <2> SUFFICES ASSUME Inductive, NEW r \in References PROVE credits[r] <= 1
    BY DEF CreditedAtMostOnce
  <2>1. faults = 0 /\ credits[r] \in Nat
    BY DEF Inductive, TypeOK
  <2>2. credits[r] <= Cardinality(Handlers) * (faults + 1)
    BY BudgetGivesBound DEF OverCreditBound
  <2> QED
    BY <2>1, <2>2
<1> QED
  BY <1>1, InductiveInvariant, PTL

\* Until a call fails, tokens that a record does not show yet are still in the
\* hands of a request that is about to mark it (payment.go grants them, then
\* sets "credited"): nothing else leaves a payment granted and open.
THEOREM OpenGrantIsInHand ==
    Spec => [](\A r \in References :
                   faults = 0 /\ Open(r) /\ credits[r] > 0 => HasGranted(r) /= {})
<1> DEFINE InHand ==
        \A r \in References :
            faults = 0 /\ Open(r) /\ credits[r] > 0 => HasGranted(r) /= {}
<1>1. Inductive => InHand
  <2> SUFFICES ASSUME Inductive, NEW r \in References, faults = 0, Open(r),
                      credits[r] > 0, HasGranted(r) = {}
               PROVE  FALSE
    OBVIOUS
  <2>1. Cardinality(HasGranted(r)) = 0
    BY FS_EmptySet
  <2>2. credits[r] <= N * faults + Cardinality(HasGranted(r))
    BY DEF Inductive, Budget
  <2>3. credits[r] \in Nat /\ N \in Nat
    BY NType DEF Inductive, TypeOK
  <2> QED
    BY <2>1, <2>2, <2>3
<1> HIDE DEF InHand
<1>2. Spec => []InHand
  BY <1>1, InductiveInvariant, PTL
<1> QED
  BY <1>2 DEF InHand

-----------------------------------------------------------------------------
(* Refinement: every step is a step of TokenGrant or changes none of its   *)
(* three views.                                                            *)

Paid == {r \in References : provider[r] = "success"}
Settled == {r \in References : claims[r] > 0}

LEMMA InitRefines == Init => Promise!GrantInit
BY DEF Init, Promise!GrantInit

LEMMA StepRefines ==
    Inductive /\ Inductive' /\ OverCreditBound' /\ [Next]_vars
    => [Promise!GrantNext]_(Promise!gvars)
<1> SUFFICES ASSUME Inductive, Inductive', OverCreditBound', [Next]_vars
             PROVE  [Promise!GrantNext]_(Promise!gvars)
  OBVIOUS
<1> DEFINE Good == [Promise!GrantNext]_(Promise!gvars)
<1>0. TypeOK /\ TypeOK' /\ Busy /\ OneWay /\ OneClaim
  BY DEF Inductive
<1>s. ASSUME Paid' = Paid, credits' = credits, claims' = claims PROVE Good
  BY <1>s DEF Promise!gvars, Paid
<1>g. ASSUME NEW r \in References, Promise!Pay(r) \/ Promise!Grant(r) \/ Promise!Settle(r)
      PROVE  Good
  BY <1>g DEF Promise!GrantNext
<1> SUFFICES Good
  OBVIOUS
<1> HIDE DEF Good
<1>1. ASSUME NEW h \in Handlers, SaveInitialized(h)
      PROVE  Good
  BY <1>1, <1>s DEF SaveInitialized, Paid, store, paystack, history
<1>2. ASSUME NEW h \in Handlers, FindPayment(h)
      PROVE  Good
  BY <1>2, <1>s DEF FindPayment, Paid, store, paystack, history
<1>3. ASSUME NEW h \in Handlers, AskPaystack(h)
      PROVE  Good
  BY <1>3, <1>s DEF AskPaystack, Paid, store, paystack, history
<1>4. ASSUME NEW h \in Handlers, FindUser(h)
      PROVE  Good
  BY <1>4, <1>s DEF FindUser, Paid, store, paystack, history
<1>5. ASSUME NEW h \in Handlers, CreditUser(h)
      PROVE  Good
  <2> DEFINE r == req[h].ref
  <2>1. /\ pc[h] = "credit" /\ r \in References /\ r \in Paid
        /\ Paid' = Paid /\ UNCHANGED <<claims, provider>>
    BY <1>0, <1>5 DEF CreditUser, Busy, OneWay, Paid, paystack
  <2>2. CASE credits' = [credits EXCEPT ![r] = @ + 1]
    <3>1. credits'[r] = credits[r] + 1 /\ credits[r] \in Nat
      BY <1>0, <2>1, <2>2 DEF TypeOK
    <3>2. credits'[r] <= GrantLimit
      <4>1. faults' \in Nat /\ faults' <= MaxFaults
        BY <1>0, FaultsAssumption DEF TypeOK
      <4>2. credits'[r] <= N * (faults' + 1)
        <5>1. \A q \in References : credits'[q] <= Cardinality(Handlers) * (faults' + 1)
          BY DEF OverCreditBound
        <5> QED
          BY <2>1, <5>1 DEF N
      <4>3. N * (faults' + 1) <= N * (MaxFaults + 1)
        BY <4>1, RoundsGrow, FaultsAssumption
      <4>4. /\ credits'[r] \in Nat /\ N * (faults' + 1) \in Nat
            /\ GrantLimit = N * (MaxFaults + 1) /\ GrantLimit \in Nat
        BY <2>1, <3>1, <4>1, NType, FaultsAssumption DEF GrantLimit, N
      <4> QED
        BY <4>2, <4>3, <4>4
    <3>3. credits[r] < GrantLimit
      <4>1. GrantLimit \in Nat
        BY NType, FaultsAssumption DEF GrantLimit, N
      <4> QED
        BY <3>1, <3>2, <4>1
    <3> QED
      BY <1>g, <2>1, <2>2, <3>3 DEF Promise!Grant, Paid
  <2>3. CASE UNCHANGED credits
    BY <1>s, <2>1, <2>3
  <2> QED
    BY <1>5, <2>2, <2>3 DEF CreditUser
<1>6. ASSUME NEW h \in Handlers, MarkCredited(h)
      PROVE  Good
  <2> DEFINE r == req[h].ref
  <2>1. /\ pc[h] = "mark" /\ r \in References
        /\ Paid' = Paid /\ UNCHANGED <<credits, provider>>
    BY <1>0, <1>6 DEF MarkCredited, Busy, Paid, paystack
  <2>2. CASE Stored(r) /\ ~payments[r].credited
    <3>1. claims' = [claims EXCEPT ![r] = @ + 1]
      BY <1>6, <2>2 DEF MarkCredited
    <3>2. claims[r] = 0
      <4>1. claims[r] /= 1 /\ claims[r] <= 1
        BY <1>0, <2>1, <2>2 DEF OneClaim, SettledOnce
      <4> QED
        BY <1>0, <2>1, <4>1 DEF TypeOK
    <3>3. r \notin Settled /\ Settled' = Settled \union {r}
      BY <1>0, <2>1, <3>1, <3>2 DEF Settled, TypeOK
    <3>4. credits[r] > 0
      BY <1>0, <2>1 DEF OneWay
    <3> QED
      BY <1>g, <2>1, <3>3, <3>4 DEF Promise!Settle, Paid, Settled
  <2>3. CASE ~(Stored(r) /\ ~payments[r].credited)
    <3>1. UNCHANGED claims
      BY <1>6, <2>3 DEF MarkCredited
    <3> QED
      BY <1>s, <2>1, <3>1
  <2> QED
    BY <2>2, <2>3
<1>7. ASSUME NEW h \in Handlers, NotifySuccess(h)
      PROVE  Good
  BY <1>7, <1>s DEF NotifySuccess, Paid, store, paystack, history
<1>8. ASSUME NEW h \in Handlers, CallFails(h)
      PROVE  Good
  BY <1>8, <1>s DEF CallFails, Paid, store, paystack, history
<1>9. ASSUME NEW h \in Handlers, NEW r \in References, PaystackWebhookRoute(h,
              r)
      PROVE  Good
  BY <1>9, <1>s DEF PaystackWebhookRoute, Paid, store, paystack, history
<1>10. ASSUME NEW h \in Handlers, NEW r \in References, NEW e \in Emails,
              InitializePaymentForPlan(h, r, e)
      PROVE  Good
  <2>1. provider' = [provider EXCEPT ![r] = "open"] /\ provider[r] = "none"
    BY <1>10 DEF InitializePaymentForPlan, AcceptsReference
  <2>2. Paid' = Paid
    BY <1>0, <2>1 DEF Paid, TypeOK
  <2> QED
    BY <1>10, <1>s, <2>2 DEF InitializePaymentForPlan, history
<1>11. ASSUME NEW h \in Handlers, NEW r \in References, NEW e \in Emails,
              PaystackVerifyRoute(h, r, e)
      PROVE  Good
  BY <1>11, <1>s DEF PaystackVerifyRoute, Paid, store, paystack, history
<1>12. ASSUME NEW r \in References, CustomerPays(r)
      PROVE  Good
  <2>1. PICK outcome \in {"success", "failed"} :
            provider' = [provider EXCEPT ![r] = outcome]
    BY <1>12 DEF CustomerPays
  <2>2. provider[r] /= "success" /\ UNCHANGED <<credits, claims>>
    BY <1>12 DEF CustomerPays, history
  <2>3. CASE outcome = "success"
    <3>1. r \notin Paid /\ Paid' = Paid \union {r}
      BY <1>0, <2>1, <2>2, <2>3 DEF Paid, TypeOK
    <3> QED
      BY <1>g, <2>2, <3>1 DEF Promise!Pay, Paid
  <2>4. CASE outcome = "failed"
    <3>1. Paid' = Paid
      BY <1>0, <2>1, <2>2, <2>4 DEF Paid, TypeOK
    <3> QED
      BY <1>s, <2>2, <3>1
  <2> QED
    BY <2>3, <2>4
<1>13. ASSUME NEW e \in Emails, Register(e)
      PROVE  Good
  BY <1>13, <1>s DEF Register, Paid, store, paystack, history
<1>14. ASSUME NEW e \in Emails, DeleteCurrentUser(e)
      PROVE  Good
  BY <1>14, <1>s DEF DeleteCurrentUser, Paid, store, paystack, history
<1>15. ASSUME NEW e \in Emails, DeleteUserByEmail(e)
      PROVE  Good
  BY <1>15, <1>s DEF DeleteUserByEmail, Paid, store, paystack, history
<1>16. ASSUME NEW e \in Emails, FinishDelete(e)
      PROVE  Good
  BY <1>16, <1>s DEF FinishDelete, Paid, store, paystack, history
<1>17. ASSUME Restart
      PROVE  Good
  BY <1>17, <1>s DEF Restart, Paid, store, paystack, history
<1>18. ASSUME UNCHANGED vars
      PROVE  Good
  BY <1>18, <1>s DEF vars, Paid
<1> QED
  BY <1>1, <1>2, <1>3, <1>4, <1>5, <1>6, <1>7, <1>8, <1>9, <1>10, <1>11,
      <1>12, <1>13, <1>14, <1>15, <1>16, <1>17, <1>18
  DEF Next, Running, HandlerStep

\* The payment code, with all its interleavings, failures, restarts and
\* deletions, implements the abstract promise with the limit on grants.
THEOREM PaymentsImplementPromise == Spec => ImplementsPromise
<1>1. Init => Promise!GrantInit
  BY InitRefines
<1>2. Inductive /\ Inductive' /\ OverCreditBound' /\ [Next]_vars
    => [Promise!GrantNext]_(Promise!gvars)
  BY StepRefines
<1> QED
  BY <1>1, <1>2, BudgetGivesBound, InductiveInvariant, PTL
  DEF Spec, ImplementsPromise, Promise!GrantSpec
\* The promise a customer would expect, with one grant for a payment.
Ideal == INSTANCE TokenGrant WITH
    Limit   <- 1,
    paid    <- {r \in References : provider[r] = "success"},
    granted <- credits,
    settled <- {r \in References : claims[r] > 0}

\* One request at a time, no call that fails and no restart: the payment code
\* then keeps the promise with one grant, through every deletion and
\* registration of an account (the comment at payment.go:905-907).
THEOREM SerialKeepsIdealPromise ==
    ASSUME Cardinality(Handlers) = 1, MaxFaults = 0
    PROVE  Spec => Ideal!GrantSpec
<1>1. GrantLimit = 1
  BY DEF GrantLimit
<1>2. Promise!GrantInit => Ideal!GrantInit
  BY DEF Promise!GrantInit, Ideal!GrantInit
<1>3. [Promise!GrantNext]_(Promise!gvars) => [Ideal!GrantNext]_(Ideal!gvars)
  BY <1>1 DEF Promise!GrantNext, Promise!Pay, Promise!Grant, Promise!Settle,
      Promise!gvars, Ideal!GrantNext, Ideal!Pay, Ideal!Grant, Ideal!Settle,
      Ideal!gvars
<1> QED
  BY <1>2, <1>3, PaymentsImplementPromise, PTL
  DEF ImplementsPromise, Promise!GrantSpec, Ideal!GrantSpec

-----------------------------------------------------------------------------
(* The stream, which reads the records while all of the above goes on.     *)

\* Between the lookup of the record and its claim.
Later == {"ask", "user", "credit", "mark"}

\* A record has a link, and a handler that read it works for its owner.
Owned ==
    /\ \A r \in References : Stored(r) => r \in links
    /\ \A h \in Handlers : pc[h] \in Later =>
            /\ req[h].ref \in links
            /\ Stored(req[h].ref) => payments[req[h].ref].email = req[h].email
    /\ \A r \in References :
            /\ payments[r].status = "success" => payments[r].credited
            /\ ~Stored(r) => payments[r].email = NoEmail

\* What a step does to a record that has a link: its owner stays, unless the
\* record is deleted, and tokens and charges are not taken back.
Kept ==
    /\ links \subseteq links'
    /\ \A r \in links :
            /\ payments'[r].email \in {payments[r].email, NoEmail}
            /\ credits[r] > 0 => credits'[r] > 0
            /\ provider[r] = "success" => provider'[r] = "success"

LEMMA InitOwned == Init => Owned
BY DEF Init, Owned, Later, Stored, Absent

LEMMA OwnedStep ==
    TypeOK /\ Busy /\ OneWay /\ Owned /\ [Next]_vars => Owned' /\ Kept
<1> SUFFICES ASSUME TypeOK, Busy, OneWay, Owned, [Next]_vars
             PROVE  Owned' /\ Kept
  OBVIOUS
<1> DEFINE Good == Owned' /\ Kept
<1>1. ASSUME NEW h \in Handlers, SaveInitialized(h) PROVE Good
  <2>1. /\ Others(h) /\ pc'[h] = "idle" /\ req[h].ref \in References
        /\ req[h].ref \notin links
    BY <1>1, ReplyOKEffect DEF SaveInitialized, Busy, OneWay
  <2>2. payments'[req[h].ref] = [status |-> "initialized",
            email |-> req[h].email, credited |-> FALSE]
    BY <1>1, <2>1 DEF SaveInitialized, TypeOK
  <2>3. \A r \in References \ {req[h].ref} : payments'[r] = payments[r]
    BY <1>1 DEF SaveInitialized, TypeOK
  <2>4. links' = links \union {req[h].ref} /\ UNCHANGED <<credits, provider>>
    BY <1>1 DEF SaveInitialized, history
  <2>5. Owned'
    BY <2>1, <2>2, <2>3, <2>4 DEF Owned, Later, Others, Stored, Busy
  <2>6. Kept
    BY <2>1, <2>3, <2>4 DEF Kept, TypeOK
  <2> QED
    BY <2>5, <2>6
<1>2. ASSUME NEW h \in Handlers, FindPayment(h) PROVE Good
  <2>0. pc[h] = "find" /\ req[h].ref \in References
    BY <1>2 DEF FindPayment, Busy
  <2>1. Kept /\ UNCHANGED <<payments, links>>
    BY <1>2 DEF FindPayment, store, paystack, history, Kept
  <2>2. CASE ReplyError(h) \/ ReplyOK(h)
    <3>1. Others(h) /\ pc'[h] = "idle"
      BY <2>0, <2>2, ReplyErrorEffect, ReplyOKEffect
    <3> QED
      BY <2>1, <3>1 DEF Owned, Later, Others, Stored
  <2>3. CASE /\ Stored(req[h].ref)
             /\ pc' = [pc EXCEPT ![h] = "ask"]
             /\ req' = [req EXCEPT ![h].email = payments[req[h].ref].email]
    <3>1. Others(h) /\ pc'[h] = "ask" /\ req'[h].ref = req[h].ref
      BY <2>3 DEF Others, TypeOK, Request
    <3>2. req'[h].email = payments[req[h].ref].email
      BY <2>3 DEF TypeOK, Request
    <3> QED
      BY <2>0, <2>1, <2>3, <3>1, <3>2 DEF Owned, Later, Others, Stored
  <2> QED
    BY <1>2, <2>2, <2>3 DEF FindPayment
<1>s. ASSUME NEW h \in Handlers, Others(h), UNCHANGED <<payments, links>>,
             \/ pc'[h] \notin Later
             \/ pc[h] \in Later /\ req'[h] = req[h]
      PROVE  Owned'
  BY <1>s DEF Owned, Later, Others, Stored
<1>3. ASSUME NEW h \in Handlers, AskPaystack(h)
      PROVE  Good
  <2>1. /\ Others(h) /\ UNCHANGED <<payments, links>>
        /\ \/ pc'[h] \notin Later
           \/ pc[h] \in Later /\ req'[h] = req[h]
    BY <1>3, ReplyErrorEffect, GotoEffect
    DEF AskPaystack, Stages, Later, store, paystack
  <2>2. Kept
    BY <1>3 DEF AskPaystack, store, paystack, history, Kept
  <2> QED
    BY <1>s, <2>1, <2>2
<1>4. ASSUME NEW h \in Handlers, FindUser(h)
      PROVE  Good
  <2>1. /\ Others(h) /\ UNCHANGED <<payments, links>>
        /\ \/ pc'[h] \notin Later
           \/ pc[h] \in Later /\ req'[h] = req[h]
    BY <1>4, ReplyErrorEffect, GotoEffect
    DEF FindUser, Stages, Later, store, paystack
  <2>2. Kept
    BY <1>4 DEF FindUser, store, paystack, history, Kept
  <2> QED
    BY <1>s, <2>1, <2>2
<1>5. ASSUME NEW h \in Handlers, CreditUser(h)
      PROVE  Good
  <2>1. /\ Others(h) /\ UNCHANGED <<payments, links>>
        /\ \/ pc'[h] \notin Later
           \/ pc[h] \in Later /\ req'[h] = req[h]
    BY <1>5, ReplyErrorEffect, GotoEffect
    DEF CreditUser, Stages, Later, store, paystack
  <2>2. Kept
    BY <1>5 DEF CreditUser, store, paystack, Kept, TypeOK
  <2> QED
    BY <1>s, <2>1, <2>2
<1>6. ASSUME NEW h \in Handlers, MarkCredited(h) PROVE Good
  <2>0. pc[h] = "mark" /\ req[h].ref \in References
    BY <1>6 DEF MarkCredited, Busy
  <2>1. Others(h) /\ pc'[h] \notin Later
    BY <1>6, <2>0, ReplyErrorEffect, GotoEffect DEF MarkCredited, Stages, Later
  <2>2. UNCHANGED <<links, credits, provider>>
    BY <1>6 DEF MarkCredited, paystack
  <2>3. \/ payments' = payments
        \/ /\ Stored(req[h].ref)
           /\ payments'[req[h].ref] = [status |-> "success",
                  email |-> req[h].email, credited |-> TRUE]
           /\ \A r \in References \ {req[h].ref} : payments'[r] = payments[r]
    BY <1>6, <2>0 DEF MarkCredited, TypeOK
  <2>4. Stored(req[h].ref) => payments[req[h].ref].email = req[h].email
    BY <2>0 DEF Owned, Later
  <2>5. \A r \in References : payments'[r].email = payments[r].email
    BY <2>3, <2>4
  <2>6. \A r \in References : Stored(r)' <=> Stored(r)
    BY <2>3 DEF Stored
  <2>7. Owned'
    BY <2>0, <2>1, <2>2, <2>3, <2>5, <2>6 DEF Owned, Others, Later, Busy
  <2>8. Kept
    BY <2>2, <2>5 DEF Kept, TypeOK
  <2> QED
    BY <2>7, <2>8
<1>7. ASSUME NEW h \in Handlers, NotifySuccess(h)
      PROVE  Good
  <2>1. /\ Others(h) /\ UNCHANGED <<payments, links>>
        /\ \/ pc'[h] \notin Later
           \/ pc[h] \in Later /\ req'[h] = req[h]
    BY <1>7, ReplyOKEffect
    DEF NotifySuccess, Later, store, paystack
  <2>2. Kept
    BY <1>7 DEF NotifySuccess, store, paystack, Kept
  <2> QED
    BY <1>s, <2>1, <2>2
<1>8. ASSUME NEW h \in Handlers, CallFails(h)
      PROVE  Good
  <2>1. /\ Others(h) /\ UNCHANGED <<payments, links>>
        /\ \/ pc'[h] \notin Later
           \/ pc[h] \in Later /\ req'[h] = req[h]
    BY <1>8, ReplyErrorEffect, ReplyOKEffect
    DEF CallFails, Later, store, paystack
  <2>2. Kept
    BY <1>8 DEF CallFails, store, paystack, history, Kept
  <2> QED
    BY <1>s, <2>1, <2>2
<1>9. ASSUME NEW h \in Handlers, NEW r \in References,
              PaystackWebhookRoute(h, r)
      PROVE  Good
  <2>1. /\ Others(h) /\ UNCHANGED <<payments, links>>
        /\ \/ pc'[h] \notin Later
           \/ pc[h] \in Later /\ req'[h] = req[h]
    BY <1>9
    DEF PaystackWebhookRoute, Start, Others, TypeOK, Later, store, paystack
  <2>2. Kept
    BY <1>9 DEF PaystackWebhookRoute, store, paystack, history, Kept
  <2> QED
    BY <1>s, <2>1, <2>2
<1>10. ASSUME NEW h \in Handlers, NEW r \in References, NEW e \in Emails,
              InitializePaymentForPlan(h, r, e)
      PROVE  Good
  <2>1. /\ Others(h) /\ UNCHANGED <<payments, links>>
        /\ \/ pc'[h] \notin Later
           \/ pc[h] \in Later /\ req'[h] = req[h]
    BY <1>10
    DEF InitializePaymentForPlan, Start, Others, TypeOK, Later, store
  <2>2. Kept
    BY <1>10 DEF InitializePaymentForPlan, AcceptsReference, store, history, Kept, TypeOK
  <2> QED
    BY <1>s, <2>1, <2>2
<1>11. ASSUME NEW h \in Handlers, NEW r \in References, NEW e \in Emails,
              PaystackVerifyRoute(h, r, e)
      PROVE  Good
  <2>1. /\ Others(h) /\ UNCHANGED <<payments, links>>
        /\ \/ pc'[h] \notin Later
           \/ pc[h] \in Later /\ req'[h] = req[h]
    BY <1>11
    DEF PaystackVerifyRoute, Start, Others, TypeOK, Later, store, paystack
  <2>2. Kept
    BY <1>11 DEF PaystackVerifyRoute, store, paystack, history, Kept
  <2> QED
    BY <1>s, <2>1, <2>2
<1>t. ASSUME UNCHANGED <<payments, links, pc, req>> PROVE Owned'
  BY <1>t DEF Owned, Stored
<1>12. ASSUME NEW r \in References, CustomerPays(r) PROVE Good
  BY <1>12, <1>t DEF CustomerPays, store, history, Kept, TypeOK
<1>13. ASSUME NEW e \in Emails, Register(e) PROVE Good
  BY <1>13, <1>t DEF Register, paystack, history, Kept
<1>w. ASSUME NEW e \in Emails, payments' = WithoutHistoryOf(e),
             UNCHANGED <<links, pc, req, credits, provider>>
      PROVE  Good
  <2>1. \A r \in References : payments'[r] \in {payments[r], Absent}
    BY <1>w DEF WithoutHistoryOf
  <2>2. \A r \in References : Stored(r)' => payments'[r] = payments[r] /\ Stored(r)
    BY <2>1 DEF Stored, Absent
  <2>3. Owned'
    <3>1. \A r \in References : ~Stored(r)' => payments'[r].email = NoEmail
      BY <2>1 DEF Owned, Stored, Absent
    <3>2. \A r \in References :
              payments'[r].status = "success" => payments'[r].credited
      BY <2>1 DEF Owned, Absent
    <3>3. \A r \in References : Stored(r)' => r \in links'
      BY <1>w, <2>2 DEF Owned
    <3>4. ASSUME NEW h \in Handlers, pc'[h] \in Later
          PROVE  /\ req'[h].ref \in links'
                 /\ Stored(req[h].ref)' => payments'[req'[h].ref].email = req'[h].email
      <4>1. req' = req /\ pc' = pc /\ links' = links
        BY <1>w
      <4>2. req[h].ref \in References
        BY <3>4, <4>1 DEF Busy, Later
      <4>3. Stored(req[h].ref)' =>
                payments'[req[h].ref] = payments[req[h].ref] /\ Stored(req[h].ref)
        BY <2>2, <4>1, <4>2 DEF Stored
      <4> QED
        BY <3>4, <4>1, <4>3 DEF Owned
    <3> QED
      BY <3>1, <3>2, <3>3, <3>4 DEF Owned, Stored
  <2>4. Kept
    BY <1>w, <2>1 DEF Kept, Absent, TypeOK
  <2> QED
    BY <2>3, <2>4
<1>14. ASSUME NEW e \in Emails, DeleteCurrentUser(e) PROVE Good
  BY <1>14, <1>w DEF DeleteCurrentUser, paystack, history
<1>15. ASSUME NEW e \in Emails, DeleteUserByEmail(e) PROVE Good
  BY <1>15, <1>t DEF DeleteUserByEmail, paystack, history, Kept
<1>16. ASSUME NEW e \in Emails, FinishDelete(e) PROVE Good
  <2>1. UNCHANGED <<links, pc, req, credits, provider>>
    BY <1>16 DEF FinishDelete, paystack, history
  <2>2. CASE payments' = payments
    BY <1>t, <2>1, <2>2 DEF Kept
  <2>3. CASE payments' = WithoutHistoryOf(e)
    BY <1>w, <2>1, <2>3
  <2> QED
    BY <1>16, <2>2, <2>3 DEF FinishDelete
<1>17. ASSUME Restart PROVE Good
  <2>1. UNCHANGED <<payments, links, credits, provider>>
    BY <1>17 DEF Restart, store, paystack, history
  <2>2. \A h \in Handlers : pc'[h] = "idle"
    BY <1>17 DEF Restart
  <2> QED
    BY <2>1, <2>2 DEF Owned, Kept, Later, Stored
<1>18. CASE UNCHANGED vars
  BY <1>18, <1>t DEF vars, Kept
<1> QED
  BY <1>1, <1>2, <1>3, <1>4, <1>5, <1>6, <1>7, <1>8, <1>9, <1>10, <1>11,
      <1>12, <1>13, <1>14, <1>15, <1>16, <1>17, <1>18
  DEF Next, Running, HandlerStep

LEMMA StreamReads == [StreamNext]_svars => [Next]_vars
BY DEF StreamNext, svars, Next, RestartStreams, StreamStep, StreamTick,
       StreamTickFails, ClientLeaves, PaystackPaymentStreamRoute

\* What a stream told of a record, which had a link when it was told.
Told ==
    \A e \in Callers : stream[e].told \in {"initialized", "success"} =>
        /\ stream[e].ref \in links
        /\ ~Forbidden(payments[stream[e].ref].email, e)
        /\ stream[e].told = "success" =>
               /\ credits[stream[e].ref] > 0
               /\ provider[stream[e].ref] = "success"

StreamInductive == Inductive /\ Owned /\ StreamType /\ Told

LEMMA ToldStays ==
    ASSUME Kept, Told, NEW e \in Callers, stream'[e] = stream[e]
    PROVE  stream'[e].told \in {"initialized", "success"} =>
        /\ stream'[e].ref \in links'
        /\ ~Forbidden(payments'[stream'[e].ref].email, e)
        /\ stream'[e].told = "success" =>
               /\ credits'[stream'[e].ref] > 0
               /\ provider'[stream'[e].ref] = "success"
BY DEF Kept, Told, Forbidden

LEMMA ToldStep ==
    ASSUME StreamInductive, [StreamNext]_svars, Kept
    PROVE  StreamType' /\ Told'
<1> USE DEF StreamInductive
<1>0. Closed.told = "nothing"
  BY DEF Closed
<1>1. CASE UNCHANGED stream
  BY <1>1, ToldStays DEF StreamType, Told
<1>2. CASE RestartStreams
  BY <1>2, <1>0 DEF RestartStreams, StreamType, Told
<1>3. ASSUME NEW e \in Callers, StreamStep(e)
      PROVE  StreamType' /\ Told'
  <2>0. UNCHANGED vars /\ \A c \in Callers \ {e} : stream'[c] = stream[c]
    BY <1>3
    DEF StreamStep, StreamTick, StreamTickFails, ClientLeaves, End,
        PaystackPaymentStreamRoute, StreamType
  <2>u. UNCHANGED <<links, payments, credits, provider>>
    BY <2>0 DEF vars
  <2>1. ASSUME stream' = [stream EXCEPT ![e] = stream'[e]],
               stream'[e] \in Stream \union {Closed},
               stream'[e].told \notin {"initialized", "success"}
        PROVE  StreamType' /\ Told'
    BY <2>0, <2>1, ToldStays DEF StreamType, Told
  <2>2. stream[e].open => stream[e] \in Stream
    BY DEF StreamType, Closed
  <2>3. CASE ClientLeaves(e)
    BY <1>0, <2>1, <2>3 DEF ClientLeaves, StreamType
  <2>4. CASE \E r \in References : PaystackPaymentStreamRoute(e, r)
    BY <2>1, <2>4 DEF PaystackPaymentStreamRoute, StreamType, Stream
  <2>5. CASE stream[e].open /\ End(e, "error")
    <3>1. stream'[e] = [ref |-> stream[e].ref, open |-> FALSE, told |-> "error"]
      BY <2>2, <2>5 DEF End, StreamType, Stream
    <3> QED
      BY <2>1, <2>2, <2>5, <3>1 DEF End, StreamType, Stream
  <2>6. CASE /\ StreamTick(e) /\ Stored(stream[e].ref)
             /\ ~Forbidden(payments[stream[e].ref].email, e)
    <3> DEFINE r == stream[e].ref
    <3>1. r \in References /\ stream[e].open /\ stream[e] \in Stream
      BY <2>2, <2>6 DEF StreamTick, Stream
    <3>2. payments[r].status \in {"initialized", "success"}
      BY <2>6, <3>1 DEF Stored, Inductive, TypeOK, PaymentRecord
    <3>3. /\ r \in links
          /\ payments[r].status = "success" => payments[r].credited
      BY <2>6, <3>1 DEF Owned
    <3>4. payments[r].credited => credits[r] > 0 /\ provider[r] = "success"
      BY <3>1 DEF Inductive, OneWay, SettledOnlyIfGranted, GrantedOnlyIfPaid
    <3>5. stream' \in
             {[stream EXCEPT ![e].open = FALSE, ![e].told = payments[r].status],
              [stream EXCEPT ![e].told = payments[r].status]}
      BY <2>6, <3>1 DEF StreamTick, End, Stored
    <3>6. stream'[e] \in
             {[ref |-> r, open |-> o, told |-> payments[r].status] : o \in BOOLEAN}
      BY <3>1, <3>5 DEF StreamType, Stream
    <3>7. /\ stream'[e].ref = r /\ stream'[e].told = payments[r].status
          /\ stream'[e] \in Stream
      BY <3>1, <3>2, <3>6 DEF Stream
    <3>8. stream' = [stream EXCEPT ![e] = stream'[e]]
      BY <3>5 DEF StreamType
    <3> HIDE DEF r
    <3>9. StreamType'
      BY <3>7, <3>8 DEF StreamType
    <3>10. Told'
      BY <2>0, <2>u, <2>6, <3>3, <3>4, <3>7, ToldStays DEF Told, r
    <3> QED
      BY <3>9, <3>10
  <2> QED
    BY <1>3, <2>3, <2>4, <2>5, <2>6 DEF StreamStep, StreamTick, StreamTickFails
<1> QED
  BY <1>1, <1>2, <1>3 DEF StreamNext, svars

LEMMA StreamInvariant == StreamSpec => []StreamInductive
<1>1. StreamInit => StreamInductive
  BY InitTypes, InitOneWay, InitOneClaim, InitBudget, InitOwned
  DEF StreamInit, StreamInductive, Inductive, StreamType, Told, Closed
<1>2. StreamInductive /\ [StreamNext]_svars => StreamInductive'
  <2> SUFFICES ASSUME StreamInductive, [StreamNext]_svars
               PROVE  StreamInductive'
    OBVIOUS
  <2>1. [Next]_vars
    BY StreamReads
  <2>2. Inductive'
    BY <2>1, TypesStep, OneWayStep, OneClaimStep, BudgetStep
    DEF StreamInductive, Inductive
  <2>3. Owned' /\ Kept
    BY <2>1, OwnedStep DEF StreamInductive, Inductive
  <2> QED
    BY <2>2, <2>3, ToldStep DEF StreamInductive
<1> QED
  BY <1>1, <1>2, PTL DEF StreamSpec

\* A stream tells only statuses that the code stores and the events of the route.
THEOREM StreamTypeCorrect == StreamSpec => []StreamType
<1>1. StreamInductive => StreamType
  BY DEF StreamInductive
<1> QED
  BY <1>1, StreamInvariant, PTL

\* Whoever is told "success" by the stream has the tokens, for any number of
\* handlers, payments and failures.
THEOREM SuccessIsGranted == StreamSpec => []ToldSuccessIsGranted
<1>1. StreamInductive => ToldSuccessIsGranted
  BY DEF StreamInductive, Told, ToldSuccessIsGranted
<1> QED
  BY <1>1, StreamInvariant, PTL

\* The stream tells the status of a record to its owner only, or to an account whose
\* e-mail differs only in case.
THEOREM OwnerIsTold == StreamSpec => []ToldToOwner
<1>1. StreamInductive => ToldToOwner
  BY DEF StreamInductive, Told, ToldToOwner, Forbidden
<1> QED
  BY <1>1, StreamInvariant, PTL

\* Where no two accounts have such e-mails, it tells the owner and nobody else.
THEOREM DistinctOwnersAreTold ==
    ASSUME \A a, b \in Emails : EqualFold(a, b) => a = b
    PROVE  StreamSpec => [](\A e \in Callers :
                                stream[e].told \in {"initialized", "success"} =>
                                    payments[stream[e].ref].email \in {e, NoEmail})
<1> DEFINE Exact == \A e \in Callers :
                        stream[e].told \in {"initialized", "success"} =>
                            payments[stream[e].ref].email \in {e, NoEmail}
<1>1. StreamInductive => Exact
  <2> SUFFICES ASSUME StreamInductive, NEW e \in Callers,
                      stream[e].told \in {"initialized", "success"}
               PROVE  payments[stream[e].ref].email \in {e, NoEmail}
    OBVIOUS
  <2> DEFINE r == stream[e].ref
  <2>1. r \in References /\ e \in Emails
    BY CallersAssumption DEF StreamInductive, StreamType, Stream, Closed
  <2>2. payments[r].email \in Emails \union {NoEmail}
    BY <2>1 DEF StreamInductive, Inductive, TypeOK, PaymentRecord
  <2>3. ~Forbidden(payments[r].email, e)
    BY DEF StreamInductive, Told
  <2> QED
    BY <2>1, <2>2, <2>3 DEF Forbidden
<1> HIDE DEF Exact
<1>2. StreamSpec => []Exact
  BY <1>1, StreamInvariant, PTL
<1> QED
  BY <1>2 DEF Exact

\* An open stream is a reader: beside the streams the payments behave as they do
\* without them, so what holds of Spec, and the promise it implements, holds of
\* the behaviours with streams as well.
THEOREM StreamsOnlyRead == StreamSpec => Spec
<1>1. StreamInit => Init
  BY DEF StreamInit
<1> QED
  BY <1>1, StreamReads, PTL DEF StreamSpec, Spec

\* In particular, what is granted and settled beside open streams is what
\* TokenGrant promises.
THEOREM StreamsKeepPromise == StreamSpec => ImplementsPromise
BY StreamsOnlyRead, PaymentsImplementPromise
=============================================================================
