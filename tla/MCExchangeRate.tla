--------------------------- MODULE MCExchangeRate ---------------------------
(* Two currencies, and as many refreshes at a time beside the loop's.      *)
EXTENDS ExchangeRate
=============================================================================
