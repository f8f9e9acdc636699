------------------------ MODULE MCActivationLifecycle ------------------------
(* Families of one schedule, in either lane, and of two: the second          *)
(* overlapping the first, starting where it stops admitting, or both         *)
(* activated an instant before they start.  Of two, one operator activates,  *)
(* and a second process (the renewal timer) rolls the first over.            *)
EXTENDS ActivationLifecycle, TLC

CONSTANTS a1, a2, o1, o2

Family(starts, stops, lane, cmds) ==
    [starts |-> starts, stops |-> stops, episode |-> lane, commands |-> cmds]

Alone == {o1} \X {"activate", "pause", "resume", "abort"} \X {a1}
Single(lane, cmds) == Family(a1 :> 0, a1 :> 1, lane, cmds)
Singles == {Single(FALSE, Alone), Single(TRUE, Alone \cup {<<o1, "stop", a1>>})}

Handover == ({o1} \X {"activate"} \X {a1, a2}) \cup {<<o2, "rollover", a1>>}
Pair(s1, s2, e1, e2) ==
    Family(a1 :> s1 @@ a2 :> s2, a1 :> e1 @@ a2 :> e2, FALSE, Handover)
\* two operators at once on the same activation
Contended == Family(a1 :> 0 @@ a2 :> 0, a1 :> 1 @@ a2 :> 1, FALSE,
                    {o1, o2} \X {"activate", "pause", "abort"} \X {a1})
Handovers == {Pair(0, 0, 1, 2), Pair(0, 1, 1, 2), Pair(1, 1, 3, 3), Contended}
=============================================================================
