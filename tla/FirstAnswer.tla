---------------------------- MODULE FirstAnswer -----------------------------
(***************************************************************************)
(* What the analyst promises an investigation, with no goroutine, channel  *)
(* or context in it: the verdict is the answer of a model that answered,   *)
(* and there is none only if every model failed or was told to stop.       *)
(***************************************************************************)
CONSTANTS
    Models,         \* the models that are asked
    NoVerdict       \* there is no verdict yet

VARIABLES
    answered,       \* models that produced an assessment
    failed,         \* models that failed or were told to stop
    verdict         \* the model whose assessment is the verdict

avars == <<answered, failed, verdict>>

AnswerInit ==
    /\ answered = {}
    /\ failed = {}
    /\ verdict = NoVerdict

Answers(m) ==
    /\ m \notin answered \union failed
    /\ answered' = answered \union {m}
    /\ UNCHANGED <<failed, verdict>>

Fails(m) ==
    /\ m \notin answered \union failed
    /\ failed' = failed \union {m}
    /\ UNCHANGED <<answered, verdict>>

Decide(m) ==
    /\ verdict = NoVerdict
    /\ m \in answered
    /\ verdict' = m
    /\ UNCHANGED <<answered, failed>>

\* The analyst gives up: nobody answered, and nobody will.
GiveUp ==
    /\ verdict = NoVerdict
    /\ failed = Models
    /\ verdict' \in {"unavailable", "canceled"}
    /\ UNCHANGED <<answered, failed>>

AnswerNext ==
    \/ \E m \in Models : Answers(m) \/ Fails(m) \/ Decide(m)
    \/ GiveUp

AnswerSpec == AnswerInit /\ [][AnswerNext]_avars
=============================================================================
