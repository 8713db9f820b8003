---------------------------- MODULE AnalystRace -----------------------------
(***************************************************************************)
(* Assess and assessConcurrently of internal/ai/analyst.go: every Gemini   *)
(* model is asked by a goroutine of its own, which sends its result to a   *)
(* buffered channel; another goroutine closes the channel when all of them *)
(* are through; the caller reads the channel until the first success, or   *)
(* until it is closed.  The context may be cancelled by the client of      *)
(* /api/investigate at any time.                                           *)
(***************************************************************************)
EXTENDS Naturals, Sequences, FiniteSets

CONSTANTS
    Models,         \* the models to try, without duplicates
    NoVerdict       \* Assess has not returned

ASSUME ModelsAssumption ==
    /\ IsFiniteSet(Models)
    /\ Models /= {}
    /\ {NoVerdict, "unavailable", "canceled"} \cap Models = {}
    /\ NoVerdict \notin {"unavailable", "canceled"}

VARIABLES
    worker,         \* where the goroutine of each model is
    outcome,        \* what its request ended with
    results,        \* the channel: models whose result is waiting in it
    closed,         \* the channel was closed
    reader,         \* where the caller is
    canceled,       \* the shared context was cancelled
    parent,         \* the context of the caller was cancelled
    verdict         \* what the caller returned

vars == <<worker, outcome, results, closed, reader, canceled, parent, verdict>>

TypeOK ==
    /\ worker \in [Models -> {"none", "asking", "sending", "leaving", "gone"}]
    /\ outcome \in [Models -> {"none", "ok", "error", "stopped"}]
    /\ results \in Seq(Models)
    /\ closed \in BOOLEAN
    /\ reader \in {"start", "reading", "returned"}
    /\ canceled \in BOOLEAN
    /\ parent \in BOOLEAN
    /\ verdict \in Models \union {NoVerdict, "unavailable", "canceled"}

Init ==
    /\ worker = [m \in Models |-> "none"]
    /\ outcome = [m \in Models |-> "none"]
    /\ results = <<>>
    /\ closed = FALSE
    /\ reader = "start"
    /\ canceled = FALSE
    /\ parent = FALSE
    /\ verdict = NoVerdict

-----------------------------------------------------------------------------
(* The caller.                                                             *)

\* Slip: the channel holds a single result.
OneSlot == 1

\* make(chan result, len(models))
Capacity == Cardinality(Models)

\* Everything is started at once.
Assess ==
    /\ reader = "start"
    /\ reader' = "reading"
    /\ worker' = [m \in Models |-> "asking"]
    /\ UNCHANGED <<outcome, results, closed, canceled, parent, verdict>>

\* The deferred cancel runs on every way out.
Return(v) ==
    /\ reader' = "returned"
    /\ verdict' = v
    /\ canceled' = TRUE

\* One turn of the loop: a success returns, an error is skipped.
Receive ==
    /\ reader = "reading"
    /\ results /= <<>>
    /\ results' = Tail(results)
    /\ IF outcome[Head(results)] = "ok"
       THEN Return(Head(results))
       ELSE UNCHANGED <<reader, verdict, canceled>>
    /\ UNCHANGED <<worker, outcome, closed, parent>>

\* Slip: a cancelled caller is noticed before the channel is drained.
ReceivedAllTooEarly ==
    /\ reader = "reading"
    /\ parent \/ (closed /\ results = <<>>)
    /\ Return(IF parent THEN "canceled" ELSE "unavailable")
    /\ UNCHANGED <<worker, outcome, results, closed, parent>>

\* The loop ends when the channel is closed and empty.
ReceivedAll ==
    /\ reader = "reading"
    /\ closed /\ results = <<>>
    /\ Return(IF parent THEN "canceled" ELSE "unavailable")
    /\ UNCHANGED <<worker, outcome, results, closed, parent>>

-----------------------------------------------------------------------------
(* The goroutines.                                                         *)

\* assessWithModel: an answer; an error of the API, of the answer's JSON or of
\* the eight seconds; or, once the context is cancelled, the end of the request.
AssessWithModel(m) ==
    /\ worker[m] = "asking"
    /\ worker' = [worker EXCEPT ![m] = "sending"]
    /\ \E o \in {"ok", "error"} \union (IF canceled THEN {"stopped"} ELSE {}) :
            outcome' = [outcome EXCEPT ![m] = o]
    /\ UNCHANGED <<results, closed, reader, canceled, parent, verdict>>

\* The send, which blocks while the buffer is full.
Send(m) ==
    /\ worker[m] = "sending"
    /\ Len(results) < Capacity
    /\ results' = Append(results, m)
    /\ worker' = [worker EXCEPT ![m] = "leaving"]
    /\ UNCHANGED <<outcome, closed, reader, canceled, parent, verdict>>

\* Slip: a goroutine that got an error skips wg.Done().
LeaveOnSuccess(m) ==
    /\ worker[m] = "leaving"
    /\ outcome[m] = "ok"
    /\ worker' = [worker EXCEPT ![m] = "gone"]
    /\ UNCHANGED <<outcome, results, closed, reader, canceled, parent, verdict>>

\* The deferred wg.Done().
Leave(m) ==
    /\ worker[m] = "leaving"
    /\ worker' = [worker EXCEPT ![m] = "gone"]
    /\ UNCHANGED <<outcome, results, closed, reader, canceled, parent, verdict>>

\* Slip: wg.Done() comes before the send.
CloseResultsEarly ==
    /\ ~closed
    /\ \A m \in Models : outcome[m] /= "none"
    /\ closed' = TRUE
    /\ UNCHANGED <<worker, outcome, results, reader, canceled, parent, verdict>>

\* wg.Wait(), then close(results).
CloseResults ==
    /\ ~closed
    /\ \A m \in Models : worker[m] = "gone"
    /\ closed' = TRUE
    /\ UNCHANGED <<worker, outcome, results, reader, canceled, parent, verdict>>

\* The client of /api/investigate hangs up.
ClientGone ==
    /\ ~parent
    /\ parent' = TRUE
    /\ canceled' = TRUE
    /\ UNCHANGED <<worker, outcome, results, closed, reader, verdict>>

\* The investigation is over and no goroutine of it is left.
Finished ==
    /\ reader = "returned" /\ closed
    /\ UNCHANGED vars

Next ==
    \/ Assess
    \/ Receive
    \/ ReceivedAll
    \/ CloseResults
    \/ \E m \in Models : AssessWithModel(m) \/ Send(m) \/ Leave(m)
    \/ ClientGone
    \/ Finished

Spec == Init /\ [][Next]_vars

\* Goroutines run.  A request ends, because of its eight seconds.
Fairness ==
    /\ WF_vars(Receive \/ ReceivedAll)
    /\ WF_vars(CloseResults)
    /\ \A m \in Models : WF_vars(AssessWithModel(m) \/ Send(m) \/ Leave(m))

FairSpec == Spec /\ Fairness
-----------------------------------------------------------------------------
(* Safety.                                                                 *)

\* A verdict is the assessment of a model that answered, never of one whose
\* error arrived first.
VerdictAnswered == verdict \in Models => outcome[verdict] = "ok"

\* An investigation goes without a verdict only if no model answered: neither
\* the order of results nor a client that hangs up discards an answer, and no
\* model is stopped before another one has won, unless the client is gone.
NoAnswerLost ==
    /\ verdict = "unavailable" => \A m \in Models : outcome[m] = "error"
    /\ verdict = "canceled" =>
            parent /\ \A m \in Models : outcome[m] \in {"error", "stopped"}

\* The buffer has room for every result, read or not: a goroutine never waits
\* for a caller that returned with the first success.
SendNeverBlocks ==
    \A m \in Models : worker[m] = "sending" => Len(results) < Capacity

\* Nothing is sent to a closed channel, which would end the whole server.
NoSendAfterClose ==
    closed => \A m \in Models : worker[m] \notin {"asking", "sending"}

\* The race implements the promise of FirstAnswer.
Answer == INSTANCE FirstAnswer WITH
    answered <- {m \in Models : outcome[m] = "ok"},
    failed   <- {m \in Models : outcome[m] \in {"error", "stopped"}}

ImplementsFirstAnswer == Answer!AnswerSpec

-----------------------------------------------------------------------------
(* Liveness, of FairSpec.                                                  *)

\* The caller gets an assessment, whatever the models do.
AssessReturns == reader = "reading" ~> reader = "returned"

\* No goroutine outlives the race for good, although the caller stops reading
\* at the first success.
NoGoroutineLeaks ==
    reader = "reading" ~> closed /\ \A m \in Models : worker[m] = "gone"
=============================================================================
