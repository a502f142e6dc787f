---------------------------- MODULE TickSchedule ----------------------------
(* What random mode promises of its decisions, whatever happens to the       *)
(* process: each bucket is decided at boundaries of its own period, going    *)
(* forward only, never twice for one, never before it and never long after:  *)
(* a tick that was missed is not made up.                                    *)
EXTENDS Integers

CONSTANTS
    Buckets,
    Grace,           \* how old a boundary may be when its decision is begun
    Horizon          \* the clock ends here

VARIABLES
    now,
    every,           \* each bucket's period, which stays
    decided          \* how often a bucket was decided for a boundary

vars == <<now, every, decided>>

Times == 0 .. Horizon
Boundary(t, period) == \E n \in Times : t = n * period

Init == /\ now = 0 /\ every \in [Buckets -> Nat \ {0}]
        /\ decided = [k \in Buckets \X Times |-> 0]

Pass == /\ now < Horizon /\ now' = now + 1
        /\ UNCHANGED <<every, decided>>

\* A decision is begun within the grace, and over before the unit after it is.
Decide(b, t) ==
    /\ decided' = [decided EXCEPT ![<<b, t>>] = 1]
    /\ \A u \in Times : u >= t => decided[<<b, u>>] = 0
    /\ Boundary(t, every[b])
    /\ UNCHANGED <<now, every>>

Next == Pass \/ \E b \in Buckets : \E age \in 0 .. Grace :
                  now - age \in Times /\ Decide(b, now - age)

Spec == Init /\ [][Next]_vars
=============================================================================
