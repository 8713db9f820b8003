--------------------------- MODULE MCScanBilling ----------------------------
(* Small instances of ScanBilling for TLC.                                 *)
EXTENDS ScanBilling, TLC

\* What the analyst may report: nonsense, or more than a new account has.
Usage == {-1, 6}

\* Scans and e-mails are interchangeable.
Symmetry == Permutations(Scans) \union Permutations(Emails)
=============================================================================
