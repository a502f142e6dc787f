--------------------------- MODULE MCRetentionTrail ---------------------------
(* Model checking of RetentionTrail: a step is half an R, a tick is long enough *)
(* to tell the early window from the rest of the hold.  Arm, ratchet, FX90 and  *)
(* early stop sit at their live values of +1R, +3R, +2R and -0.5R.              *)
EXTENDS RetentionTrail
CONSTANT OneR                \* steps in one R
AtStop == -OneR
AtEarly == -(OneR \div 2)
ASSUME OneR \in Nat /\ Worst = AtStop /\ EarlyAt = AtEarly
=============================================================================
