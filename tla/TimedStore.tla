----------------------------- MODULE TimedStore -----------------------------
(***************************************************************************)
(* What a cache with a time to live promises its callers, with no lock, no *)
(* clean-up goroutine and no provider in it: a value is served for Life    *)
(* units of time after it was put there and never later, and a caller gets *)
(* either the value of the store or one it found itself and put there.     *)
(***************************************************************************)
EXTENDS Naturals

CONSTANTS
    Keys,           \* what values are kept for
    Values,         \* the values
    Callers,        \* who asks
    Life,           \* how long a value is served
    Nothing         \* no value

VARIABLES
    store,          \* value and remaining life of each key, or Nothing
    given           \* what each caller was given and still holds

svars == <<store, given>>

StoreInit ==
    /\ store = [k \in Keys |-> Nothing]
    /\ given = [c \in Callers |-> Nothing]

\* One unit of time passes; what has no life left is not served again.
Pass ==
    /\ store' = [k \in Keys |->
           IF store[k] = Nothing \/ store[k].left = 0
           THEN Nothing
           ELSE [store[k] EXCEPT !.left = @ - 1]]
    /\ UNCHANGED given

Serve(c, k) ==
    /\ given[c] = Nothing
    /\ store[k] /= Nothing
    /\ given' = [given EXCEPT ![c] = store[k].value]
    /\ UNCHANGED store

\* The caller found the value v itself.
Put(c, k, v) ==
    /\ given[c] = Nothing
    /\ v \in Values
    /\ store' = [store EXCEPT ![k] = [value |-> v, left |-> Life]]
    /\ given' = [given EXCEPT ![c] = v]

Take(c) ==
    /\ given[c] /= Nothing
    /\ given' = [given EXCEPT ![c] = Nothing]
    /\ UNCHANGED store

\* The process that holds the store ends, and its callers with it.
Lose ==
    /\ store' = [k \in Keys |-> Nothing]
    /\ given' = [c \in Callers |-> Nothing]

StoreNext ==
    \/ Pass
    \/ Lose
    \/ \E c \in Callers :
           \/ Take(c)
           \/ \E k \in Keys :
                  \/ Serve(c, k)
                  \/ Put(c, k, given'[c])

StoreSpec == StoreInit /\ [][StoreNext]_svars
=============================================================================
