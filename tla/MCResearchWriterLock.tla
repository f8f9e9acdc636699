----------------------- MODULE MCResearchWriterLock ------------------------
(* Three processes. *)
EXTENDS ResearchWriterLock

CONSTANTS p1, p2, p3

ThreeProcs == {p1, p2, p3}
============================================================================
