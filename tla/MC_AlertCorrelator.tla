------------------------- MODULE MC_AlertCorrelator -------------------------
(***************************************************************************)
(* Two registered assets, one depending on the other, an unregistered one, *)
(* and one shared indicator.  Two axes, three alerts for a storm and a     *)
(* cluster of two fit a window of four, so all patterns can hold, clear    *)
(* and hold again in any combination; a gap of two empties the window, a   *)
(* gap of one ages it.                                                     *)
(***************************************************************************)
EXTENDS AlertCorrelator

CONSTANTS vehicle, link, unregistered, hash

MCDependsOn == {<<vehicle, link>>}
=============================================================================
