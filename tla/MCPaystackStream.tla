-------------------------- MODULE MCPaystackStream --------------------------
(* Small instances of PaystackStream for TLC: a customer who has a stream  *)
(* open, another whose e-mail differs only in case, and a stranger.        *)
EXTENDS PaystackStream, TLC

CONSTANTS jane, Jane, joe

MCEmails == {jane, Jane, joe}
MCFold == [e \in MCEmails |-> IF e = Jane THEN jane ELSE e]

\* Only the customer with the stream deletes the account, and the stranger's is
\* gone from the start: a stream that finds a record of a stranger ends, whatever
\* becomes of that record afterwards.
OthersPass ==
    /\ deleter[Jane] = "none" /\ deleter[joe] = "none"
    /\ joe \notin accounts
=============================================================================
