--------------------------- MODULE MCEpisodeRounds ---------------------------
(* Two activations that share ceilings; the answers they may get overlap in  *)
(* one mint, so that both the ceilings and the blocked mints bind.           *)
EXTENDS EpisodeRounds

OverlapBodies == {{1, 2}, {2, 3}}
=============================================================================
