-------------------------- MODULE MCScheduleLease --------------------------
(* Two processes; one unit of time is 30 seconds (lease 120, wall 60).     *)
EXTENDS ScheduleLease, TLC

CONSTANTS w1, w2

TwoWriters == {w1, w2}

WriterSymmetry == Permutations(TwoWriters)
============================================================================
