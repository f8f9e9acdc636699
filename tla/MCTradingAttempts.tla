-------------------------- MODULE MCTradingAttempts -------------------------
(* Two positions, two epochs one switch apart, entries of two units: exits   *)
(* of the first epoch sell what is left, those of the second one unit at a   *)
(* time.                                                                     *)
EXTENDS TradingAttempts

Pair == {1, 2}
Legs == <<2, 1>>
=============================================================================
