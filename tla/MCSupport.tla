----------------------------- MODULE MCSupport ------------------------------
(* Small instances of Support for TLC.                                     *)
EXTENDS Support, TLC

\* Requests are interchangeable.
Symmetry == Permutations(Requests)
=============================================================================
