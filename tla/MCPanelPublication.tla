------------------------ MODULE MCPanelPublication ------------------------
(* Three panels, published and replayed in any order.                      *)
EXTENDS PanelPublication

CONSTANTS b1, b2, b3

ThreeBatches == {b1, b2, b3}
===========================================================================
