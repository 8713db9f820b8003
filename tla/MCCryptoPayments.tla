-------------------------- MODULE MCCryptoPayments --------------------------
(* Small instances of CryptoPayments for TLC: two customers whose e-mails  *)
(* differ only in case, and a stranger.                                    *)
EXTENDS CryptoPayments, TLC

CONSTANTS jane, Jane, joe

MCEmails == {jane, Jane, joe}
MCFold == [e \in MCEmails |-> IF e = Jane THEN jane ELSE e]

\* Streams read and do not meet, so one customer has them; with three owners of
\* the payment it is in turn the customer's own, the twin's and a stranger's.
\* The stranger's account is gone from the start: a stream that finds a payment of a
\* stranger ends, whatever becomes of that payment afterwards.
OneWatches ==
    /\ \A e \in Emails \ {jane} : stream[e] = Closed
    /\ joe \notin accounts \union deleting
=============================================================================
