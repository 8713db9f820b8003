--------------------------- MODULE MCAnalystRace ----------------------------
(* A small instance of AnalystRace for TLC: three models.                  *)
EXTENDS AnalystRace
=============================================================================
