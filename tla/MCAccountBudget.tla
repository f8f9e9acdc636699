-------------------------- MODULE MCAccountBudget --------------------------
(* Two activations, one of each kind, over one midnight.                   *)
EXTENDS AccountBudget

TwoActivations == {"episode", "panel"}
OneEpisode == {"episode"}
TwoLimits == {[day |-> 1, life |-> 2], [day |-> 2, life |-> 3]}
============================================================================
