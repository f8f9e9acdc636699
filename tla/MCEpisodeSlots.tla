--------------------------- MODULE MCEpisodeSlots ---------------------------
(* Instances of EpisodeSlots: the constants are plain values.               *)
EXTENDS EpisodeSlots
=============================================================================
