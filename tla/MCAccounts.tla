----------------------------- MODULE MCAccounts -----------------------------
(* Small instances of Accounts for TLC.                                    *)
EXTENDS Accounts, TLC

\* Requests are interchangeable; the e-mails are not, as one of them is the
\* administrator's.
Symmetry == Permutations(Requests)

\* Codes and wallets are fields of their own, and only wallets need a session:
\* behaviours with a second code are explored without sessions.
SecondCodeOrSessions == issued' <= 1 \/ sessions' = {}
=============================================================================
