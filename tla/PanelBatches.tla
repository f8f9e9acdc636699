--------------------------- MODULE PanelBatches ---------------------------
(***************************************************************************)
(* What publishing promises: a batch whose job is on disk becomes visible  *)
(* to readers once and is then done, and one batch is finished before the  *)
(* next is accepted.  PanelPublication implements it stage by stage.       *)
(***************************************************************************)
CONSTANT Batches  \* panels, by content_sha256

VARIABLES
    accepted,  \* batches publishing has taken responsibility for
    visible,   \* batches readers can see
    done       \* batches publishing has nothing left to do for

vars == <<accepted, visible, done>>

Init == accepted = {} /\ visible = {} /\ done = {}

Accept(b) ==
    /\ accepted = done /\ b \notin accepted
    /\ accepted' = accepted \cup {b}
    /\ UNCHANGED <<visible, done>>

Show(b) ==
    /\ b \in accepted \ visible
    /\ visible' = visible \cup {b}
    /\ UNCHANGED <<accepted, done>>

Finish(b) ==
    /\ b \in visible \ done
    /\ done' = done \cup {b}
    /\ UNCHANGED <<accepted, visible>>

Next == \E b \in Batches : Accept(b) \/ Show(b) \/ Finish(b)

Spec == Init /\ [][Next]_vars
===========================================================================
