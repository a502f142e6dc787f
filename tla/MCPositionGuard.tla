--------------------------- MODULE MCPositionGuard ---------------------------
(* Model checking of PositionGuard.  One position is enough: nothing in the  *)
(* handlers modelled here reads another position.                            *)
EXTENDS PositionGuard
=============================================================================
