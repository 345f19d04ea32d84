---------------------------- MODULE MCExchangeHub ----------------------------
(* Instances of ExchangeHub for TLC. *)
EXTENDS ExchangeHub

CONSTANTS o1, o2, o3, acc
=============================================================================
