------------------------- MODULE AnalystRace_proofs -------------------------
(***************************************************************************)
(* Proofs about AnalystRace, for any finite set of models.                 *)
(*                                                                         *)
(* Ordered relates the places of the goroutines, the outcomes, the reader  *)
(* and the closed channel.  Kept says that an answer that was sent is in   *)
(* the channel as long as the caller reads.  Room counts: the channel      *)
(* never holds more results than there are goroutines that have sent.      *)
(***************************************************************************)
EXTENDS AnalystRace, FiniteSetTheorems, TLAPS

Sent == {m \in Models : worker[m] \in {"leaving", "gone"}}

Ordered ==
    /\ \A m \in Models : worker[m] = "none" <=> reader = "start"
    /\ \A m \in Models : outcome[m] = "none" <=> worker[m] \in {"none", "asking"}
    /\ closed => reader /= "start" /\ \A m \in Models : worker[m] = "gone"
    /\ reader = "returned" <=> verdict /= NoVerdict
    /\ verdict \in {"unavailable", "canceled"} => closed
    /\ canceled => reader = "returned" \/ parent
    /\ \A m \in Models : outcome[m] = "stopped" => canceled

Queued(m) == \E i \in 1 .. Len(results) : results[i] = m

Kept ==
    /\ reader = "reading" => \A m \in Sent : outcome[m] = "ok" => Queued(m)
    /\ VerdictAnswered
    /\ NoAnswerLost

Room == Len(results) <= Cardinality(Sent)

-----------------------------------------------------------------------------
(* Types and order.                                                        *)

LEMMA InitTypes == Init => TypeOK /\ Ordered
<1> SUFFICES ASSUME Init PROVE TypeOK /\ Ordered
  OBVIOUS
<1>1. TypeOK
  <2>1. results \in Seq(Models)
    BY DEF Init
  <2>2. closed \in BOOLEAN /\ canceled \in BOOLEAN /\ parent \in BOOLEAN
    BY DEF Init
  <2>3. /\ worker \in [Models -> {"none", "asking", "sending", "leaving", "gone"}]
        /\ outcome \in [Models -> {"none", "ok", "error", "stopped"}]
    BY DEF Init
  <2> QED
    BY <2>1, <2>2, <2>3 DEF Init, TypeOK
<1>2. NoVerdict \notin {"unavailable", "canceled"}
  BY ModelsAssumption
<1>3. Ordered
  BY <1>2 DEF Init, Ordered
<1> QED
  BY <1>1, <1>3

LEMMA TypesStep == TypeOK /\ [Next]_vars => TypeOK'
<1> SUFFICES ASSUME TypeOK, [Next]_vars PROVE TypeOK'
  OBVIOUS
<1> USE DEF TypeOK
<1>1. CASE Assess
  BY <1>1 DEF Assess
<1>2. CASE Receive
  <2>1. Head(results) \in Models /\ Tail(results) \in Seq(Models)
    BY <1>2 DEF Receive
  <2> QED
    BY <1>2, <2>1 DEF Receive, Return
<1>3. CASE ReceivedAll
  BY <1>3 DEF ReceivedAll, Return
<1>4. CASE CloseResults
  BY <1>4 DEF CloseResults
<1>5. ASSUME NEW m \in Models, AssessWithModel(m) PROVE TypeOK'
  BY <1>5 DEF AssessWithModel
<1>6. ASSUME NEW m \in Models, Send(m) PROVE TypeOK'
  BY <1>6 DEF Send
<1>7. ASSUME NEW m \in Models, Leave(m) PROVE TypeOK'
  BY <1>7 DEF Leave
<1>8. CASE ClientGone
  BY <1>8 DEF ClientGone
<1>9. CASE UNCHANGED vars
  BY <1>9 DEF vars
<1> QED
  BY <1>1, <1>2, <1>3, <1>4, <1>5, <1>6, <1>7, <1>8, <1>9 DEF Next, Finished

LEMMA OrderedStep == TypeOK /\ Ordered /\ [Next]_vars => Ordered'
<1> SUFFICES ASSUME TypeOK, Ordered, [Next]_vars PROVE Ordered'
  OBVIOUS
<1> USE DEF TypeOK, Ordered
<1>1. CASE Assess
  BY <1>1 DEF Assess
<1>2. CASE Receive
  <2>1. Head(results) \in Models
    BY <1>2 DEF Receive
  <2>2. CASE outcome[Head(results)] = "ok"
    BY <1>2, <2>1, <2>2, ModelsAssumption DEF Receive, Return
  <2>3. CASE outcome[Head(results)] /= "ok"
    BY <1>2, <2>3 DEF Receive
  <2> QED
    BY <2>2, <2>3
<1>3. CASE ReceivedAll
  BY <1>3, ModelsAssumption DEF ReceivedAll, Return
<1>4. CASE CloseResults
  BY <1>4, ModelsAssumption DEF CloseResults
<1>5. ASSUME NEW m \in Models, AssessWithModel(m) PROVE Ordered'
  BY <1>5 DEF AssessWithModel
<1>6. ASSUME NEW m \in Models, Send(m) PROVE Ordered'
  BY <1>6 DEF Send
<1>7. ASSUME NEW m \in Models, Leave(m) PROVE Ordered'
  BY <1>7 DEF Leave
<1>8. CASE ClientGone
  BY <1>8 DEF ClientGone
<1>9. CASE UNCHANGED vars
  BY <1>9 DEF vars
<1> QED
  BY <1>1, <1>2, <1>3, <1>4, <1>5, <1>6, <1>7, <1>8, <1>9 DEF Next, Finished

-----------------------------------------------------------------------------
(* No answer is lost.                                                      *)

LEMMA InitKept == Init => Kept
BY ModelsAssumption DEF Init, Kept, VerdictAnswered, NoAnswerLost

LEMMA KeptStep == TypeOK /\ Ordered /\ Kept /\ [Next]_vars => Kept'
<1> SUFFICES ASSUME TypeOK, Ordered, Kept, [Next]_vars PROVE Kept'
  OBVIOUS
<1> USE DEF TypeOK, Ordered, Kept, VerdictAnswered, NoAnswerLost, Sent, Queued
<1>1. CASE Assess
  BY <1>1, ModelsAssumption DEF Assess
<1>2. CASE Receive
  <2>1. /\ Head(results) \in Models /\ Head(results) = results[1]
        /\ Len(results) \in Nat /\ Len(results) > 0
        /\ Len(results') = Len(results) - 1
        /\ \A i \in 1 .. Len(results') : results'[i] = results[i + 1]
    BY <1>2 DEF Receive
  <2>2. CASE outcome[Head(results)] = "ok"
    BY <1>2, <2>1, <2>2, ModelsAssumption DEF Receive, Return
  <2>3. CASE outcome[Head(results)] /= "ok"
    <3>1. UNCHANGED <<worker, outcome, reader, verdict, parent>>
      BY <1>2, <2>3 DEF Receive
    <3>2. ASSUME reader = "reading", NEW m \in Sent, outcome[m] = "ok"
          PROVE  \E i \in 1 .. Len(results') : results'[i] = m
      <4>1. PICK i \in 1 .. Len(results) : results[i] = m
        BY <3>2
      <4>2. i - 1 \in 1 .. Len(results') /\ results'[i - 1] = m
        BY <2>1, <2>3, <3>2, <4>1
      <4> QED
        BY <4>2
    <3> QED
      BY <3>1, <3>2
  <2> QED
    BY <2>2, <2>3
<1>3. CASE ReceivedAll
  <2>1. \A m \in Models : outcome[m] \in {"error", "stopped"}
    BY <1>3 DEF ReceivedAll
  <2>2. ~parent => \A m \in Models : outcome[m] = "error"
    BY <1>3, <2>1 DEF ReceivedAll
  <2> QED
    BY <1>3, <2>1, <2>2, ModelsAssumption DEF ReceivedAll, Return
<1>4. CASE CloseResults
  BY <1>4 DEF CloseResults
<1>5. ASSUME NEW m \in Models, AssessWithModel(m) PROVE Kept'
  BY <1>5 DEF AssessWithModel
<1>6. ASSUME NEW m \in Models, Send(m) PROVE Kept'
  <2>1. /\ Len(results) \in Nat /\ Len(results') = Len(results) + 1
        /\ results'[Len(results) + 1] = m
        /\ \A i \in 1 .. Len(results) : results'[i] = results[i]
    BY <1>6 DEF Send
  <2>2. UNCHANGED <<outcome, reader, verdict, parent>>
    BY <1>6 DEF Send
  <2>3. ASSUME reader = "reading", NEW q \in Sent', outcome[q] = "ok"
        PROVE  \E i \in 1 .. Len(results') : results'[i] = q
    <3>1. CASE q = m
      BY <2>1, <3>1
    <3>2. CASE q /= m
      <4>1. q \in Sent
        BY <1>6, <3>2 DEF Send
      <4>2. PICK i \in 1 .. Len(results) : results[i] = q
        BY <2>3, <4>1
      <4> QED
        BY <2>1, <4>2
    <3> QED
      BY <3>1, <3>2
  <2> QED
    BY <2>2, <2>3
<1>7. ASSUME NEW m \in Models, Leave(m) PROVE Kept'
  BY <1>7 DEF Leave
<1>8. CASE ClientGone
  BY <1>8 DEF ClientGone
<1>9. CASE UNCHANGED vars
  BY <1>9 DEF vars
<1> QED
  BY <1>1, <1>2, <1>3, <1>4, <1>5, <1>6, <1>7, <1>8, <1>9 DEF Next, Finished

-----------------------------------------------------------------------------
(* The channel has room.                                                   *)

LEMMA SentFinite ==
    /\ IsFiniteSet(Sent)
    /\ Cardinality(Sent) \in Nat
    /\ Cardinality(Models) \in Nat
    /\ Cardinality(Sent) <= Cardinality(Models)
BY ModelsAssumption, FS_Subset, FS_CardinalityType DEF Sent

LEMMA InitRoom == Init => Room
<1> SUFFICES ASSUME Init PROVE Room
  OBVIOUS
<1>1. Sent = {} /\ Len(results) = 0
  BY DEF Init, Sent
<1> QED
  BY <1>1, FS_EmptySet DEF Room

LEMMA RoomStep == TypeOK /\ Ordered /\ Room /\ [Next]_vars => Room'
<1> SUFFICES ASSUME TypeOK, Ordered, Room, [Next]_vars PROVE Room'
  OBVIOUS
<1>0. Len(results) \in Nat /\ Len(results) <= Cardinality(Sent)
  BY DEF TypeOK, Room
<1>s. ASSUME Sent' = Sent, results' = results PROVE Room'
  BY <1>0, <1>s DEF Room
<1>1. CASE Assess
  <2>1. Sent = {} /\ Sent' = {}
    BY <1>1 DEF Assess, Sent, Ordered
  <2> QED
    BY <1>1, <1>s, <2>1 DEF Assess
<1>2. CASE Receive
  <2>1. Sent' = Sent
    BY <1>2 DEF Receive, Sent
  <2>2. Len(results') = Len(results) - 1 /\ Len(results') \in Nat
    BY <1>2 DEF Receive, TypeOK
  <2> QED
    BY <1>0, <2>1, <2>2, SentFinite DEF Room
<1>3. CASE ReceivedAll
  BY <1>3, <1>s DEF ReceivedAll, Sent
<1>4. CASE CloseResults
  BY <1>4, <1>s DEF CloseResults, Sent
<1>5. ASSUME NEW m \in Models, AssessWithModel(m) PROVE Room'
  <2>1. Sent' = Sent
    BY <1>5 DEF AssessWithModel, Sent, TypeOK
  <2> QED
    BY <1>5, <1>s, <2>1 DEF AssessWithModel
<1>6. ASSUME NEW m \in Models, Send(m) PROVE Room'
  <2>1. Sent' = Sent \union {m} /\ m \notin Sent
    BY <1>6 DEF Send, Sent, TypeOK
  <2>2. Cardinality(Sent') = Cardinality(Sent) + 1
    BY <2>1, SentFinite, FS_AddElement
  <2>3. Len(results') = Len(results) + 1
    BY <1>6 DEF Send, TypeOK
  <2> QED
    BY <1>0, <2>2, <2>3, SentFinite DEF Room
<1>7. ASSUME NEW m \in Models, Leave(m) PROVE Room'
  <2>1. Sent' = Sent
    BY <1>7 DEF Leave, Sent, TypeOK
  <2> QED
    BY <1>7, <1>s, <2>1 DEF Leave
<1>8. CASE ClientGone
  BY <1>8, <1>s DEF ClientGone, Sent
<1>9. CASE UNCHANGED vars
  BY <1>9, <1>s DEF vars, Sent
<1> QED
  BY <1>1, <1>2, <1>3, <1>4, <1>5, <1>6, <1>7, <1>8, <1>9 DEF Next, Finished

-----------------------------------------------------------------------------
(* The theorems.                                                           *)

Inductive == TypeOK /\ Ordered /\ Kept /\ Room

LEMMA InductiveInvariant == Spec => []Inductive
<1>1. Init => Inductive
  BY InitTypes, InitKept, InitRoom DEF Inductive
<1>2. Inductive /\ [Next]_vars => Inductive'
  BY TypesStep, OrderedStep, KeptStep, RoomStep DEF Inductive
<1> QED
  BY <1>1, <1>2, PTL DEF Spec

\* The goroutines, the channel and the caller are where the code can be.
THEOREM RaceTypes == Spec => []TypeOK
<1>1. Inductive => TypeOK
  BY DEF Inductive
<1> QED
  BY <1>1, InductiveInvariant, PTL

\* The verdict of an investigation is the assessment of a model that answered.
THEOREM VerdictIsAnswer == Spec => []VerdictAnswered
<1>1. Inductive => VerdictAnswered
  BY DEF Inductive, Kept
<1> QED
  BY <1>1, InductiveInvariant, PTL

\* Without a verdict no model answered, for any number of models.
THEOREM AnswersAreKept == Spec => []NoAnswerLost
<1>1. Inductive => NoAnswerLost
  BY DEF Inductive, Kept
<1> QED
  BY <1>1, InductiveInvariant, PTL

\* make(chan result, len(models)) is large enough: no send ever blocks.
THEOREM ChannelHasRoom == Spec => []SendNeverBlocks
<1>1. Inductive => SendNeverBlocks
  <2> SUFFICES ASSUME Inductive, NEW m \in Models, worker[m] = "sending"
               PROVE  Len(results) < Capacity
    BY DEF SendNeverBlocks
  <2>1. m \notin Sent /\ Sent \subseteq Models
    BY DEF Sent
  <2>2. Cardinality(Sent \union {m}) = Cardinality(Sent) + 1
    BY <2>1, SentFinite, FS_AddElement
  <2>3. Cardinality(Sent \union {m}) <= Cardinality(Models)
    BY <2>1, ModelsAssumption, FS_Subset
  <2>4. Len(results) <= Cardinality(Sent) /\ Len(results) \in Nat
    BY DEF Inductive, TypeOK, Room
  <2> QED
    BY <2>2, <2>3, <2>4, SentFinite DEF Capacity
<1> QED
  BY <1>1, InductiveInvariant, PTL

\* close(results) comes after the last send.
THEOREM ClosedAfterSends == Spec => []NoSendAfterClose
<1>1. Inductive => NoSendAfterClose
  BY DEF Inductive, Ordered, NoSendAfterClose
<1> QED
  BY <1>1, InductiveInvariant, PTL

-----------------------------------------------------------------------------
(* Refinement.                                                             *)

LEMMA StepRefines ==
    Inductive /\ [Next]_vars => [Answer!AnswerNext]_(Answer!avars)
<1> SUFFICES ASSUME Inductive, [Next]_vars
             PROVE  [Answer!AnswerNext]_(Answer!avars)
  OBVIOUS
<1> DEFINE Good == [Answer!AnswerNext]_(Answer!avars)
<1>s. ASSUME UNCHANGED <<outcome, verdict>> PROVE Good
  BY <1>s DEF Answer!avars
<1>g. ASSUME \/ \E m \in Models : Answer!Answers(m) \/ Answer!Fails(m) \/ Answer!Decide(m)
             \/ Answer!GiveUp
      PROVE  Good
  BY <1>g DEF Answer!AnswerNext
<1> SUFFICES Good
  OBVIOUS
<1> HIDE DEF Good
<1> USE DEF Inductive, TypeOK
<1>1. CASE Assess
  BY <1>1, <1>s DEF Assess
<1>2. CASE Receive
  <2>1. Head(results) \in Models
    BY <1>2 DEF Receive
  <2>2. CASE outcome[Head(results)] = "ok"
    <3>1. Answer!Decide(Head(results))
      BY <1>2, <2>1, <2>2 DEF Receive, Return, Answer!Decide, Ordered
    <3> QED
      BY <1>g, <2>1, <3>1
  <2>3. CASE outcome[Head(results)] /= "ok"
    BY <1>2, <1>s, <2>3 DEF Receive
  <2> QED
    BY <2>2, <2>3
<1>3. CASE ReceivedAll
  <2>1. \A m \in Models : outcome[m] \in {"error", "stopped"}
    BY <1>3 DEF ReceivedAll, Ordered, Kept, Sent, Queued
  <2>2. Answer!GiveUp
    BY <1>3, <2>1 DEF ReceivedAll, Return, Answer!GiveUp, Ordered
  <2> QED
    BY <1>g, <2>2
<1>4. CASE CloseResults
  BY <1>4, <1>s DEF CloseResults
<1>5. ASSUME NEW m \in Models, AssessWithModel(m) PROVE Good
  <2>1. outcome[m] = "none" /\ UNCHANGED verdict
    BY <1>5 DEF AssessWithModel, Ordered
  <2>2. PICK o \in {"ok", "error", "stopped"} : outcome' = [outcome EXCEPT ![m] = o]
    BY <1>5 DEF AssessWithModel
  <2>3. CASE o = "ok"
    <3>1. Answer!Answers(m)
      BY <2>1, <2>2, <2>3 DEF Answer!Answers
    <3> QED
      BY <1>g, <3>1
  <2>4. CASE o \in {"error", "stopped"}
    <3>1. Answer!Fails(m)
      BY <2>1, <2>2, <2>4 DEF Answer!Fails
    <3> QED
      BY <1>g, <3>1
  <2> QED
    BY <2>3, <2>4
<1>6. ASSUME NEW m \in Models, Send(m) PROVE Good
  BY <1>6, <1>s DEF Send
<1>7. ASSUME NEW m \in Models, Leave(m) PROVE Good
  BY <1>7, <1>s DEF Leave
<1>8. CASE ClientGone
  BY <1>8, <1>s DEF ClientGone
<1>9. CASE UNCHANGED vars
  BY <1>9, <1>s DEF vars
<1> QED
  BY <1>1, <1>2, <1>3, <1>4, <1>5, <1>6, <1>7, <1>8, <1>9 DEF Next, Finished

\* The race of goroutines implements the promise of FirstAnswer.
THEOREM RaceImplementsFirstAnswer == Spec => ImplementsFirstAnswer
<1>1. Init => Answer!AnswerInit
  BY DEF Init, Answer!AnswerInit
<1> QED
  BY <1>1, StepRefines, InductiveInvariant, PTL
  DEF Spec, ImplementsFirstAnswer, Answer!AnswerSpec

-----------------------------------------------------------------------------
(* The race comes to an end: there is always a step to take, and every     *)
(* step leaves less to do.                                                 *)

\* Goroutines that have yet to leave a place.
In(places) == {m \in Models : worker[m] \in places}

Unanswered == In({"none", "asking"})
Unsent     == In({"none", "asking", "sending"})
Unfinished == In({"none", "asking", "sending", "leaving"})

ReaderEffort ==
    IF reader = "start" THEN 2 ELSE IF reader = "reading" THEN 1 ELSE 0

\* The channel is closed once, and the client leaves once.
OnceEffort == (IF closed THEN 0 ELSE 1) + (IF parent THEN 0 ELSE 1)

\* To send counts twice: it leaves a result to be received.
WorkersEffort ==
    Cardinality(Unanswered) + Cardinality(Unsent) + Cardinality(Unsent)
        + Cardinality(Unfinished)

Effort == WorkersEffort + Len(results) + ReaderEffort + OnceEffort

\* The caller can go on, or a goroutine of the race can.
CanGoOn ==
    \/ reader = "reading" /\ (results /= <<>> \/ closed)
    \/ ~closed /\ \A m \in Models : worker[m] = "gone"
    \/ \E m \in Models :
           \/ worker[m] \in {"asking", "leaving"}
           \/ worker[m] = "sending" /\ Len(results) < Capacity

Counts ==
    /\ Cardinality(Unanswered) \in Nat
    /\ Cardinality(Unsent) \in Nat
    /\ Cardinality(Unfinished) \in Nat
    /\ WorkersEffort \in Nat
    /\ Len(results) \in Nat
    /\ ReaderEffort \in Nat
    /\ OnceEffort \in Nat

LEMMA InFinite ==
    ASSUME NEW S \in SUBSET Models
    PROVE  IsFiniteSet(S) /\ Cardinality(S) \in Nat
BY ModelsAssumption, FS_Subset, FS_CardinalityType

LEMMA CountsHold ==
    /\ TypeOK => Counts
    /\ TypeOK' => Counts'
<1>1. /\ Unanswered \in SUBSET Models /\ Unanswered' \in SUBSET Models
      /\ Unsent \in SUBSET Models /\ Unsent' \in SUBSET Models
      /\ Unfinished \in SUBSET Models /\ Unfinished' \in SUBSET Models
  BY DEF Unanswered, Unsent, Unfinished, In
<1>2. /\ Cardinality(Unanswered) \in Nat /\ Cardinality(Unanswered') \in Nat
      /\ Cardinality(Unsent) \in Nat /\ Cardinality(Unsent') \in Nat
      /\ Cardinality(Unfinished) \in Nat /\ Cardinality(Unfinished') \in Nat
  BY <1>1, InFinite
<1>w. WorkersEffort \in Nat /\ WorkersEffort' \in Nat
  BY <1>2 DEF WorkersEffort
<1>3. /\ ReaderEffort \in Nat /\ ReaderEffort' \in Nat
      /\ OnceEffort \in Nat /\ OnceEffort' \in Nat
  BY DEF ReaderEffort, OnceEffort
<1> QED
  BY <1>2, <1>w, <1>3 DEF TypeOK, Counts

\* A goroutine that has gone on is one less.
LEMMA OneLess ==
    ASSUME NEW S \in SUBSET Models, NEW m \in S
    PROVE  Cardinality(S \ {m}) = Cardinality(S) - 1
BY InFinite, FS_RemoveElement

\* What moves only the caller, or ends a context, leaves the goroutines alone.
LEMMA SamePlaces ==
    ASSUME worker' = worker
    PROVE  WorkersEffort' = WorkersEffort
BY DEF WorkersEffort, Unanswered, Unsent, Unfinished, In

LEMMA EffortShrinks ==
    Inductive /\ Inductive' /\ [Next]_vars => [Effort' < Effort]_vars
<1> SUFFICES ASSUME Inductive, Inductive', Next PROVE Effort' < Effort \/ UNCHANGED vars
  OBVIOUS
<1>t. TypeOK /\ TypeOK' /\ Ordered
  BY DEF Inductive
<1>0. Counts /\ Counts'
  BY <1>t, CountsHold
<1>n. /\ Cardinality(Unanswered) \in Nat
      /\ Cardinality(Unsent) \in Nat
      /\ Cardinality(Unfinished) \in Nat
  BY <1>0 DEF Counts
<1>w. worker \in [Models -> {"none", "asking", "sending", "leaving", "gone"}]
  BY <1>t DEF TypeOK
<1>1. CASE Assess
  <2>1. \A m \in Models : worker[m] = "none" /\ worker'[m] = "asking"
    BY <1>1, <1>t DEF Assess, Ordered
  <2>2. WorkersEffort' = WorkersEffort
    <3>1. Unanswered' = Unanswered /\ Unsent' = Unsent /\ Unfinished' = Unfinished
      BY <2>1 DEF Unanswered, Unsent, Unfinished, In
    <3> QED
      BY <3>1 DEF WorkersEffort
  <2>3. ReaderEffort = 2 /\ ReaderEffort' = 1
    BY <1>1 DEF Assess, ReaderEffort
  <2>4. OnceEffort' = OnceEffort /\ results' = results
    BY <1>1 DEF Assess, OnceEffort
  <2> QED
    BY <1>0, <2>2, <2>3, <2>4 DEF Counts, Effort
<1>2. CASE Receive
  <2>1. Len(results') = Len(results) - 1
    BY <1>2, <1>t DEF Receive, TypeOK
  <2>2. ReaderEffort' <= ReaderEffort
    BY <1>2 DEF Receive, Return, ReaderEffort
  <2>3. worker' = worker /\ OnceEffort' = OnceEffort
    BY <1>2 DEF Receive, OnceEffort
  <2> QED
    BY <1>0, <2>1, <2>2, <2>3, SamePlaces DEF Counts, Effort
<1>3. CASE ReceivedAll
  <2>1. ReaderEffort = 1 /\ ReaderEffort' = 0
    BY <1>3 DEF ReceivedAll, Return, ReaderEffort
  <2>2. worker' = worker /\ OnceEffort' = OnceEffort /\ results' = results
    BY <1>3 DEF ReceivedAll, OnceEffort
  <2> QED
    BY <1>0, <2>1, <2>2, SamePlaces DEF Counts, Effort
<1>4. CASE CloseResults \/ ClientGone
  <2>1. worker' = worker /\ results' = results
    BY <1>4 DEF CloseResults, ClientGone
  <2>2. ReaderEffort' = ReaderEffort
    BY <1>4 DEF CloseResults, ClientGone, ReaderEffort
  <2>3. OnceEffort' = OnceEffort - 1
    BY <1>4, <1>t DEF TypeOK, CloseResults, ClientGone, OnceEffort
  <2> QED
    BY <1>0, <2>1, <2>2, <2>3, SamePlaces DEF Counts, Effort
<1>5. ASSUME NEW m \in Models, AssessWithModel(m) PROVE Effort' < Effort
  <2>0. worker[m] = "asking" /\ worker' = [worker EXCEPT ![m] = "sending"]
    BY <1>5 DEF AssessWithModel
  <2>1. /\ Len(results') = Len(results)
        /\ ReaderEffort' = ReaderEffort /\ OnceEffort' = OnceEffort
    BY <1>5 DEF AssessWithModel, ReaderEffort, OnceEffort
  <2>2. /\ Unanswered' = Unanswered \ {m} /\ m \in Unanswered
        /\ Unsent' = Unsent /\ Unfinished' = Unfinished
    BY <1>w, <2>0 DEF Unanswered, Unsent, Unfinished, In
  <2>3. Cardinality(Unanswered') = Cardinality(Unanswered) - 1
    BY <2>2, OneLess DEF Unanswered, In
  <2>4. WorkersEffort' = WorkersEffort - 1
    <3>1. /\ Cardinality(Unsent') = Cardinality(Unsent)
          /\ Cardinality(Unfinished') = Cardinality(Unfinished)
      BY <2>2
    <3> QED
      BY <1>n, <2>3, <3>1 DEF WorkersEffort
  <2> QED
    BY <1>0, <2>1, <2>4 DEF Counts, Effort
<1>6. ASSUME NEW m \in Models, Send(m) PROVE Effort' < Effort
  <2>0. worker[m] = "sending" /\ worker' = [worker EXCEPT ![m] = "leaving"]
    BY <1>6 DEF Send
  <2>1. ReaderEffort' = ReaderEffort /\ OnceEffort' = OnceEffort
    BY <1>6 DEF Send, ReaderEffort, OnceEffort
  <2>2. /\ Unsent' = Unsent \ {m} /\ m \in Unsent
        /\ Unanswered' = Unanswered /\ Unfinished' = Unfinished
    BY <1>w, <2>0 DEF Unanswered, Unsent, Unfinished, In
  <2>3. Cardinality(Unsent') = Cardinality(Unsent) - 1
    BY <2>2, OneLess DEF Unsent, In
  <2>4. WorkersEffort' = WorkersEffort - 2
    <3>1. /\ Cardinality(Unanswered') = Cardinality(Unanswered)
          /\ Cardinality(Unfinished') = Cardinality(Unfinished)
      BY <2>2
    <3> QED
      BY <1>n, <2>3, <3>1 DEF WorkersEffort
  <2>5. Len(results') = Len(results) + 1
    BY <1>6, <1>t DEF Send, TypeOK
  <2> QED
    BY <1>0, <2>1, <2>4, <2>5 DEF Counts, Effort
<1>7. ASSUME NEW m \in Models, Leave(m) PROVE Effort' < Effort
  <2>0. worker[m] = "leaving" /\ worker' = [worker EXCEPT ![m] = "gone"]
    BY <1>7 DEF Leave
  <2>1. /\ Len(results') = Len(results)
        /\ ReaderEffort' = ReaderEffort /\ OnceEffort' = OnceEffort
    BY <1>7 DEF Leave, ReaderEffort, OnceEffort
  <2>2. /\ Unfinished' = Unfinished \ {m} /\ m \in Unfinished
        /\ Unanswered' = Unanswered /\ Unsent' = Unsent
    BY <1>w, <2>0 DEF Unanswered, Unsent, Unfinished, In
  <2>3. Cardinality(Unfinished') = Cardinality(Unfinished) - 1
    BY <2>2, OneLess DEF Unfinished, In
  <2>4. WorkersEffort' = WorkersEffort - 1
    <3>1. /\ Cardinality(Unanswered') = Cardinality(Unanswered)
          /\ Cardinality(Unsent') = Cardinality(Unsent)
      BY <2>2
    <3> QED
      BY <1>n, <2>3, <3>1 DEF WorkersEffort
  <2> QED
    BY <1>0, <2>1, <2>4 DEF Counts, Effort
<1> QED
  BY <1>1, <1>2, <1>3, <1>4, <1>5, <1>6, <1>7 DEF Next, Finished

\* Every step leaves less to do: however the models, the reader and a client
\* that hangs up interleave, a race takes finitely many steps (assessConcurrently).
THEOREM RaceIsFinite == Spec => [](Effort \in Nat) /\ [][Effort' < Effort]_vars
<1>1. Inductive => Effort \in Nat
  BY CountsHold DEF Inductive, Counts, Effort
<1>2. Inductive /\ Inductive' /\ [Next]_vars => [Effort' < Effort]_vars
  BY EffortShrinks
<1> QED
  BY <1>1, <1>2, InductiveInvariant, PTL DEF Spec

\* A race that has begun can go on until the caller has returned and the channel
\* is closed: nobody waits for a send, a receive, wg.Wait() or close for ever.
THEOREM RaceNeverStuck ==
    Spec => [](reader = "start" \/ (reader = "returned" /\ closed) \/ CanGoOn)
<1>1. Inductive /\ SendNeverBlocks =>
          reader = "start" \/ (reader = "returned" /\ closed) \/ CanGoOn
  <2> SUFFICES ASSUME Inductive, SendNeverBlocks, reader /= "start",
                      ~(reader = "returned" /\ closed)
               PROVE  CanGoOn
    OBVIOUS
  <2>1. TypeOK /\ Ordered
    BY DEF Inductive
  <2>2. CASE closed
    BY <2>1, <2>2 DEF TypeOK, CanGoOn
  <2>3. CASE ~closed /\ \A m \in Models : worker[m] = "gone"
    BY <2>3 DEF CanGoOn
  <2>4. ASSUME NEW m \in Models, worker[m] /= "gone" PROVE CanGoOn
    BY <2>1, <2>4 DEF TypeOK, Ordered, SendNeverBlocks, CanGoOn
  <2> QED
    BY <2>2, <2>3, <2>4
<1> QED
  BY <1>1, InductiveInvariant, ChannelHasRoom, PTL
=============================================================================
