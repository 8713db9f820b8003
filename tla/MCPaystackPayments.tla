------------------------- MODULE MCPaystackPayments -------------------------
(* Small instances of PaystackPayments for TLC.                            *)
EXTENDS PaystackPayments, TLC

\* No two e-mails differ only in case.
MCFold == [e \in Emails |-> e]
=============================================================================
