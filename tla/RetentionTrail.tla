---------------------------- MODULE RetentionTrail ----------------------------
(* When a convex position is closed by software (futuresbot/runtime.py): the  *)
(* early stop, the retention trail with its 3R ratchet and cost floor, the    *)
(* FX90 floor, the breakeven stop, the hard clock, and the owner's /arm,      *)
(* polled against a price that may move any distance between two polls.       *)
(*                                                                            *)
(* r, the peak and the anchor count steps of R (a step is a constant fraction *)
(* of R); floors and costs count hundredths of a step, so that a retention of *)
(* p per cent of a peak of n steps is n * p exactly.                          *)
EXTENDS Integers

CONSTANTS
    Worst, Best,     \* the range of r that is explored, in steps; the stop is at Worst
    ArmAt,           \* FUTURES_CONVEX_TRAIL_ARM_R
    Retain,          \* FUTURES_CONVEX_TRAIL_RETAIN_FRAC, per cent
    RatchetAt,       \* FUTURES_CONVEX_TRAIL_RATCHET_R
    RatchetRetain,   \* FUTURES_CONVEX_TRAIL_RATCHET_RETAIN, per cent
    CostFloor,       \* cost_r * FUTURES_CONVEX_COST_FLOOR_MULT, hundredths
    BreakevenAt,     \* FUTURES_CONVEX_BREAKEVEN_ARM_R
    BreakevenCost,   \* FUTURES_CONVEX_BREAKEVEN_COST_PCT, hundredths
    Fx90On,          \* the random mode runs with FUTURES_RANDOM_FX90=on
    Fx90At, Fx90Frac,\* FX90_ARM_R, and FX90_FRAC in per cent
    EarlyAt,         \* -FUTURES_WILDCARD_EARLY_STOP_R
    EarlyWindow,     \* FUTURES_WILDCARD_EARLY_STOP_MINUTES, in ticks
    ClockTicks,      \* FUTURES_CONVEX_TIME_STOP_HOURS, in ticks
    Givebacks,       \* what the owner may type after /arm, as the per cent kept
    MinGap,          \* FUTURES_MANUAL_ARM_MIN_GAP_PCT, hundredths
    BookLag          \* how far the book may trail the fair price, steps

ASSUME TrailAssumption ==
    /\ Worst \in Int /\ Best \in Int /\ Worst < 0 /\ 0 < Best
    /\ ArmAt \in Nat /\ RatchetAt \in Nat /\ BreakevenAt \in Nat
    /\ Fx90At \in Nat \ {0}
    /\ Retain \in 1 .. 99 /\ RatchetRetain \in 1 .. 99 /\ Fx90Frac \in 1 .. 99
    /\ CostFloor \in Nat \ {0} /\ BreakevenCost \in Nat \ {0}
    /\ Fx90On \in BOOLEAN
    /\ EarlyAt \in Int /\ EarlyAt < 0
    /\ EarlyWindow \in Nat /\ ClockTicks \in Nat
    /\ Givebacks \subseteq 1 .. 95
    /\ MinGap \in Nat /\ BookLag \in Nat

ByRule == 0            \* no retention of the owner's own was stamped

VARIABLES
    r,               \* the fair price, as R now
    held,            \* ticks since entry, up to ClockTicks
    peak,            \* convex_peak_r
    manual,          \* manual_arm
    anchor,          \* manual_arm_peak_r
    keep,            \* manual_arm_retain: ByRule, or a member of Givebacks
    fx90,            \* fx90_armed_ts is stamped
    moved,           \* the resting stop is at breakeven (be_stop_price)
    decided,         \* the exit decided first: "none", or its reason
    open,            \* the position is open
    quoted,          \* the floor /arm showed the owner, 0 before
    polled           \* the monitor has seen this price

marks == <<peak, manual, anchor, keep, fx90, moved>>
vars == <<r, held, marks, decided, open, quoted, polled>>

Reasons == {"CONVEX_EARLY_STOP", "RECORD_TP_FLOOR", "CONVEX_RETENTION_TRAIL",
            "CONVEX_TIME_STOP"}

Init ==
    /\ r = 0 /\ held = 0 /\ peak = 0
    /\ manual = FALSE /\ anchor = 0 /\ keep = ByRule
    /\ fx90 = FALSE /\ moved = FALSE
    /\ decided = "none" /\ open = TRUE /\ quoted = 0 /\ polled = FALSE

MaxOf(a, b) == IF a < b THEN b ELSE a

-----------------------------------------------------------------------------
(* The floors *)

\* _trail_retain_for: one step up once the peak is exceptional, never down.
RetainFor(p, base) ==
    IF RatchetAt > 0 /\ p >= RatchetAt THEN MaxOf(base, RatchetRetain) ELSE base

\* The share of p that is kept, but at least what closing costs.
FloorFor(p, base) == MaxOf(RetainFor(p, base) * p, CostFloor)

\* What the trail reads: once armed by hand, the owner's anchor and retention,
\* stamped then and never read from the environment again.
TrailPeak == IF manual THEN anchor ELSE peak
TrailRetain_env == Retain
TrailRetain == IF manual /\ keep # ByRule THEN keep ELSE Retain
TrailFloor == FloorFor(TrailPeak, TrailRetain)

\* Armed, and able to trail: a floor at or above the peak would bank a loss.
TrailLive == (manual \/ peak >= ArmAt) /\ TrailFloor < 100 * TrailPeak

Fx90Live == fx90 /\ Fx90On
Fx90Floor == Fx90Frac * peak

StopLevel == IF moved THEN BreakevenCost ELSE 100 * Worst

\* The highest price, in hundredths of a step, at which this position is closed.
Floor == LET trail == IF TrailLive THEN TrailFloor ELSE 100 * Worst
             fx == IF Fx90Live THEN Fx90Floor ELSE 100 * Worst
         IN  MaxOf(StopLevel, MaxOf(trail, fx))

-----------------------------------------------------------------------------
(* One poll of the monitor: _hourly_exit *)

EarlyStopTriggers == held <= EarlyWindow /\ r <= EarlyAt
ClockTriggers_after == held > ClockTicks
ClockTriggers == held >= ClockTicks

\* The resting stop moves once, when the peak earns it and the price is above it;
\* the move itself may fail (PositionGuard).
MoveToBreakeven(p) ==
    \/ UNCHANGED moved
    \/ /\ BreakevenAt > 0 /\ p >= BreakevenAt /\ BreakevenCost < 100 * r
       /\ moved' = TRUE

Decide(reason) == decided' = reason
ClockOrNothing == IF ClockTriggers THEN Decide("CONVEX_TIME_STOP") ELSE UNCHANGED decided

PollEarly ==
    /\ EarlyStopTriggers
    /\ Decide("CONVEX_EARLY_STOP")
    /\ UNCHANGED marks

\* A price above the anchor raises it, and with it the floor.
RaisedAnchor_followsPrice == IF manual THEN r ELSE anchor
RaisedAnchor == IF manual THEN MaxOf(anchor, r) ELSE anchor

\* A new high is recorded, the anchor with it; only the clock closes on that poll.
PollNewPeak ==
    /\ ~EarlyStopTriggers /\ r > peak
    /\ peak' = r /\ anchor' = RaisedAnchor
    /\ fx90' = (fx90 \/ (Fx90On /\ r >= Fx90At))
    /\ MoveToBreakeven(r)
    /\ ClockOrNothing
    /\ UNCHANGED <<manual, keep>>

\* Otherwise the FX90 floor is asked first, then the trail, then the clock.
TrailTriggers_aboveEntryOnly == TrailLive /\ 0 < r /\ 100 * r <= TrailFloor
TrailTriggers == TrailLive /\ 100 * r <= TrailFloor
PollBelowPeak ==
    /\ ~EarlyStopTriggers /\ r <= peak
    /\ MoveToBreakeven(peak)
    /\ IF Fx90Live /\ 100 * r <= Fx90Floor
       THEN Decide("RECORD_TP_FLOOR") /\ UNCHANGED anchor
       ELSE /\ anchor' = RaisedAnchor
            /\ IF TrailTriggers THEN Decide("CONVEX_RETENTION_TRAIL") ELSE ClockOrNothing
    /\ UNCHANGED <<peak, manual, keep, fx90>>

Poll ==
    /\ open /\ decided = "none"
    /\ PollEarly \/ PollNewPeak \/ PollBelowPeak
    /\ polled' = TRUE
    /\ UNCHANGED <<r, held, open, quoted>>

\* A decided exit is sent until it fills: PositionGuard has the calls.
CloseFills ==
    /\ open /\ decided # "none"
    /\ open' = FALSE
    /\ UNCHANGED <<r, held, marks, decided, quoted, polled>>

-----------------------------------------------------------------------------
(* The market *)

PriceMoves ==
    /\ open
    /\ r' \in Worst .. Best /\ polled' = FALSE
    /\ UNCHANGED <<held, marks, decided, open, quoted>>

Tick ==
    /\ open /\ held < ClockTicks
    /\ held' = held + 1
    /\ UNCHANGED <<r, marks, decided, open, quoted, polled>>

\* The stop resting on MEXC fills, the designed one or the one at breakeven.
StopFills ==
    /\ open /\ 100 * r <= StopLevel
    /\ open' = FALSE
    /\ UNCHANGED <<r, held, marks, decided, quoted, polled>>

-----------------------------------------------------------------------------
(* /arm SYMBOL [GIVEBACK]: _manual_arm.  k is the per cent kept, book the price *)
(* the position can be closed at.                                               *)

\* The floor in force as /arm computes it, and the peak it stamps.
LiveFloor(p) == IF p >= ArmAt THEN FloorFor(p, Retain) ELSE 0
TightensLive_always(level, p) == TRUE
TightensLive(level, p) == LiveFloor(p) = 0 \/ level > LiveFloor(p)
StampedPeak == MaxOf(peak, r)

Arm(k, book) ==
    LET level == FloorFor(r, IF k = ByRule THEN Retain ELSE k)
    IN  /\ open /\ ~manual /\ r > 0
        /\ k = ByRule \/ k >= Retain                       \* never looser than the rule
        /\ TightensLive(level, StampedPeak)
        /\ k # ByRule \/ StampedPeak < ArmAt               \* else it would change nothing
        /\ level < 100 * r                               \* can be trailed from here
        /\ level < 100 * book /\ 100 * book - level >= MinGap
        /\ manual' = TRUE /\ keep' = k /\ anchor' = r /\ peak' = StampedPeak
        /\ quoted' = level
        /\ UNCHANGED <<r, held, fx90, moved, decided, open, polled>>

-----------------------------------------------------------------------------
Closed == ~open /\ UNCHANGED vars

Next == \/ Poll \/ CloseFills \/ PriceMoves \/ Tick \/ StopFills
        \/ \E k \in Givebacks \cup {ByRule}, book \in (r - BookLag) .. r : Arm(k, book)
        \/ Closed

Spec == Init /\ [][Next]_vars

\* The monitor polls every second, time passes, and PositionGuard brings a decided
\* exit about.
FairSpec == Spec /\ WF_vars(Poll) /\ WF_vars(Tick) /\ WF_vars(CloseFills)

-----------------------------------------------------------------------------
TypeOK ==
    /\ r \in Worst .. Best /\ held \in 0 .. ClockTicks
    /\ peak \in 0 .. Best /\ anchor \in 0 .. Best
    /\ manual \in BOOLEAN /\ keep \in Givebacks \cup {ByRule}
    /\ fx90 \in BOOLEAN /\ moved \in BOOLEAN
    /\ decided \in Reasons \cup {"none"}
    /\ open \in BOOLEAN /\ quoted \in Nat /\ polled \in BOOLEAN

\* The design invariant of the trail: "once a trade has built profit, it must never
\* give back more than 100% of it".  No price at or below entry is seen by the
\* monitor, after a peak at the arm or an /arm, without an exit being decided.
RetentionHolds ==
    (open /\ polled /\ r <= 0 /\ (manual \/ peak >= ArmAt)) => decided # "none"

\* "The floor a human was shown is the floor that fires": whatever the price does
\* after /arm, the trail stays live and its floor stays at or above the one quoted.
QuotedFloorFires == manual => TrailLive /\ TrailFloor >= quoted

\* Over all the rules together the level at which the position is closed never
\* falls: not with a new peak, the 3R ratchet, the breakeven move or an /arm.
FloorNeverFalls == [][Floor' >= Floor]_vars

\* The clock is the backstop: a position that reaches it is closed.
ClockCloses == (held = ClockTicks) ~> ~open
=============================================================================
