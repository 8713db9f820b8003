--------------------------- MODULE MCExchangeRate ---------------------------
(* An instance of ExchangeRate for TLC: two rates, and an answer without.   *)
EXTENDS ExchangeRate

CONSTANTS c1, c2
=============================================================================
