---------------------------- MODULE MCRandomTick ----------------------------
(* Model checking of RandomTick: two symbols per sleeve's slot are enough for   *)
(* every pick to have a rival.                                                  *)
EXTENDS RandomTick, TLC
CONSTANTS a, b, c
AnySymbols == Permutations(Symbols)
=============================================================================
