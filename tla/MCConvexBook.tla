---------------------------- MODULE MCConvexBook ----------------------------
(* Model checking of ConvexBook: two wildcard symbols, and one configured symbol *)
(* that TREND and PMT both trade.                                               *)
EXTENDS ConvexBook
CONSTANTS w1, w2, b1, WildcardSlots
PerSleeve == [k \in Sleeves |-> IF k = "WILDCARD" THEN WildcardSlots ELSE 1]
=============================================================================
