------------------------- MODULE RetentionTrailProofs -------------------------
(* What RetentionTrail keeps for every choice of arm, retentions, costs,     *)
(* thresholds and givebacks, and whatever the price does.                    *)
EXTENDS RetentionTrail, TLAPS

Share == 1 .. 99     \* per cents

LEMMA ShareIsNat == \A x \in Share : x \in Nat /\ x <= 99
  BY DEF Share

LEMMA BelowHigher ==
    ASSUME NEW level \in Nat, NEW low \in Int, NEW high \in Int, low <= high, level < 100 * low
    PROVE  level < 100 * high /\ 0 < high
  OBVIOUS

LEMMA ProductMono ==
    ASSUME NEW a \in Nat, NEW b \in Nat, NEW p \in Nat, NEW q \in Nat, a <= b, p <= q
    PROVE  a * p \in Nat /\ b * q \in Nat /\ a * p <= b * q
<1>1. a * p <= b * p
  <2>1. PICK d \in Nat : b = a + d
    <3>1. b - a \in Nat /\ b = a + (b - a)
      OBVIOUS
    <3> QED BY <3>1
  <2>2. b * p = a * p + d * p
    BY <2>1
  <2>3. d * p \in Nat /\ a * p \in Nat
    BY <2>1
  <2> QED BY <2>2, <2>3
<1>2. b * p <= b * q
  <2>1. PICK d \in Nat : q = p + d
    <3>1. q - p \in Nat /\ q = p + (q - p)
      OBVIOUS
    <3> QED BY <3>1
  <2>2. b * q = b * p + b * d
    BY <2>1
  <2>3. b * d \in Nat /\ b * p \in Nat
    BY <2>1
  <2> QED BY <2>2, <2>3
<1>3. a * p \in Nat /\ b * p \in Nat /\ b * q \in Nat
  OBVIOUS
<1> QED BY <1>1, <1>2, <1>3

(* The retention only rises with the peak, and with the base. *)
LEMMA RetainShare ==
    ASSUME NEW p \in Nat, NEW b \in Share
    PROVE  RetainFor(p, b) \in Share
  BY TrailAssumption DEF RetainFor, MaxOf, Share

LEMMA RetainMono ==
    ASSUME NEW p \in Nat, NEW q \in Nat, NEW b \in Share, NEW c \in Share, p <= q, b <= c
    PROVE  RetainFor(p, b) <= RetainFor(q, c)
  BY TrailAssumption DEF RetainFor, MaxOf, Share

(* A floor always pays the costs. *)
LEMMA FloorType ==
    ASSUME NEW p \in Nat, NEW b \in Share
    PROVE  FloorFor(p, b) \in Nat /\ CostFloor <= FloorFor(p, b)
<1>1. RetainFor(p, b) \in Nat
  BY RetainShare, ShareIsNat
<1> DEFINE a == RetainFor(p, b)
<1> HIDE DEF a
<1>2. a * p \in Nat
  <2>1. a \in Nat
    BY <1>1 DEF a
  <2> QED BY <2>1, ProductMono
<1> QED BY <1>2, TrailAssumption DEF FloorFor, MaxOf, a

(* And it only rises with the peak and the base. *)
LEMMA FloorMono ==
    ASSUME NEW p \in Nat, NEW q \in Nat, NEW b \in Share, NEW c \in Share, p <= q, b <= c
    PROVE  FloorFor(p, b) <= FloorFor(q, c)
<1> DEFINE a == RetainFor(p, b)  d == RetainFor(q, c)
<1>1. a \in Nat /\ d \in Nat /\ a <= d
  BY RetainShare, RetainMono, ShareIsNat
<1> HIDE DEF a, d
<1>2. a * p \in Nat /\ d * q \in Nat /\ a * p <= d * q
  BY <1>1, ProductMono
<1> QED BY <1>2, TrailAssumption DEF FloorFor, MaxOf, a, d

(* A share of a peak is less than the peak: only the cost floor can reach it. *)
LEMMA FloorBelowPeak ==
    ASSUME NEW p \in Nat, NEW b \in Share, CostFloor < 100 * p
    PROVE  FloorFor(p, b) < 100 * p
<1> DEFINE a == RetainFor(p, b)
<1>1. a \in Nat /\ a <= 99 /\ 99 \in Nat /\ p <= p
  BY RetainShare, ShareIsNat
<1> HIDE DEF a
<1>2. a * p \in Nat /\ a * p <= 99 * p
  BY <1>1, ProductMono
<1>3. p > 0
  BY TrailAssumption
<1> QED BY <1>2, <1>3, TrailAssumption DEF FloorFor, MaxOf, a

-----------------------------------------------------------------------------
(* Once armed by hand the anchor has been reached, pays the costs and keeps  *)
(* what was quoted; and a price that was polled without an exit is above the *)
(* floor in force.                                                           *)
ManualInv == manual => /\ 0 < anchor /\ anchor <= peak
                       /\ keep = ByRule \/ keep >= Retain
                       /\ CostFloor < 100 * anchor
                       /\ quoted <= FloorFor(anchor, TrailRetain)

PolledAbove == (open /\ polled /\ decided = "none" /\ TrailLive) => 100 * r > TrailFloor

TrailInv == TypeOK /\ ManualInv /\ PolledAbove

LEMMA ShareFacts ==
    ASSUME TypeOK
    PROVE  /\ peak \in Nat /\ anchor \in Nat /\ TrailPeak \in Nat
           /\ Retain \in Share /\ TrailRetain \in Share
           /\ \A k \in Givebacks : k \in Share
  BY TrailAssumption DEF TypeOK, TrailPeak, TrailRetain, Share, ByRule

(* With the manual invariant, the trail is live as soon as the costs are paid. *)
LEMMA LiveFacts ==
    ASSUME TypeOK, ManualInv
    PROVE  /\ TrailFloor \in Nat /\ CostFloor <= TrailFloor
           /\ TrailLive <=> (manual \/ peak >= ArmAt) /\ CostFloor < 100 * TrailPeak
           /\ manual => TrailLive
<1>1. TrailPeak \in Nat /\ TrailRetain \in Share
  BY ShareFacts
<1>2. TrailFloor \in Nat /\ CostFloor <= TrailFloor
  BY <1>1, FloorType DEF TrailFloor
<1>3. CostFloor < 100 * TrailPeak => TrailFloor < 100 * TrailPeak
  BY <1>1, FloorBelowPeak DEF TrailFloor
<1>4. manual => CostFloor < 100 * TrailPeak
  BY DEF ManualInv, TrailPeak
<1> QED BY <1>1, <1>2, <1>3, <1>4, TrailAssumption DEF TrailLive

LEMMA TrailInit == Init => TrailInv
<1> SUFFICES ASSUME Init PROVE TrailInv
  OBVIOUS
<1>1. TypeOK
  <2>1. 0 \in Worst .. Best /\ 0 \in 0 .. Best /\ 0 \in 0 .. ClockTicks /\ 0 \in Nat
    BY TrailAssumption
  <2> QED BY <2>1 DEF Init, TypeOK
<1> QED BY <1>1 DEF Init, TrailInv, ManualInv, PolledAbove

LEMMA TrailTypeStep == TypeOK /\ [Next]_vars => TypeOK'
<1> SUFFICES ASSUME TypeOK, [Next]_vars PROVE TypeOK'
  OBVIOUS
<1> USE TrailAssumption DEF TypeOK, marks
<1>1. CASE Poll
  <2>1. RaisedAnchor \in 0 .. Best
    BY DEF RaisedAnchor, MaxOf
  <2>2. moved' \in BOOLEAN /\ decided' \in Reasons \cup {"none"}
    BY <1>1 DEF Poll, PollEarly, PollNewPeak, PollBelowPeak, MoveToBreakeven, Decide,
                ClockOrNothing, Reasons
  <2>3. peak' \in 0 .. Best /\ anchor' \in 0 .. Best /\ fx90' \in BOOLEAN
        /\ UNCHANGED <<manual, keep>>
    BY <1>1, <2>1 DEF Poll, PollEarly, PollNewPeak, PollBelowPeak
  <2>4. polled' = TRUE /\ UNCHANGED <<r, held, open, quoted>>
    BY <1>1 DEF Poll
  <2> QED BY <2>2, <2>3, <2>4
<1>2. CASE CloseFills \/ PriceMoves \/ StopFills \/ Closed
  BY <1>2 DEF CloseFills, PriceMoves, StopFills, Closed, vars
<1>3. CASE Tick
  BY <1>3 DEF Tick
<1>4. ASSUME NEW k \in Givebacks \cup {ByRule}, NEW book \in (r - BookLag) .. r, Arm(k, book)
      PROVE  TypeOK'
  <2>1. k \in Givebacks => k \in Share
    BY ShareFacts
  <2>2. FloorFor(r, IF k = ByRule THEN Retain ELSE k) \in Nat
    BY <1>4, <2>1, FloorType, ShareFacts DEF Arm
  <2> QED BY <1>4, <2>2 DEF Arm, StampedPeak, MaxOf
<1>5. CASE UNCHANGED vars
  BY <1>5 DEF vars
<1> QED BY <1>1, <1>2, <1>3, <1>4, <1>5 DEF Next

LEMMA TrailStep == TrailInv /\ [Next]_vars => TrailInv'
<1> SUFFICES ASSUME TrailInv, [Next]_vars PROVE TrailInv'
  OBVIOUS
<1>0. TypeOK /\ TypeOK' /\ ManualInv /\ PolledAbove
  BY TrailTypeStep DEF TrailInv
<1>a. /\ peak \in Nat /\ anchor \in Nat /\ r \in Int /\ TrailRetain \in Share
  BY <1>0, ShareFacts DEF TypeOK
<1> USE DEF marks
<1>1. CASE Poll
  <2>1. UNCHANGED <<manual, keep, quoted, r, open>> /\ TrailRetain' = TrailRetain
    BY <1>1 DEF Poll, PollEarly, PollNewPeak, PollBelowPeak, TrailRetain
  <2>2. anchor' = anchor \/ anchor' = RaisedAnchor
    BY <1>1 DEF Poll, PollEarly, PollNewPeak, PollBelowPeak
  <2>3. manual => anchor <= anchor' /\ (anchor' = anchor \/ anchor' = r)
    BY <1>a, <2>2 DEF RaisedAnchor, MaxOf
  <2>4. manual => FloorFor(anchor, TrailRetain) <= FloorFor(anchor', TrailRetain)
                  /\ FloorFor(anchor, TrailRetain) \in Nat /\ FloorFor(anchor', TrailRetain) \in Nat
    <3>1. anchor' \in Nat
      BY <1>0 DEF TypeOK
    <3>2. TrailRetain <= TrailRetain
      BY <1>a, ShareIsNat
    <3> QED BY <1>a, <2>3, <3>1, <3>2, FloorMono, FloorType
  <2>5. manual => anchor' <= peak'
    <3>1. manual => anchor <= peak
      BY <1>0 DEF ManualInv
    <3>2. CASE PollEarly
      BY <3>1, <3>2 DEF PollEarly
    <3>3. CASE PollNewPeak
      BY <1>a, <3>1, <3>3 DEF PollNewPeak, RaisedAnchor, MaxOf
    <3>4. CASE PollBelowPeak
      BY <1>a, <3>1, <3>4 DEF PollBelowPeak, RaisedAnchor, MaxOf
    <3> QED BY <1>1, <3>2, <3>3, <3>4 DEF Poll
  <2>6. ManualInv'
    <3>1. CASE manual
      <4>1. /\ 0 < anchor /\ CostFloor < 100 * anchor
            /\ keep = ByRule \/ keep >= Retain
            /\ quoted <= FloorFor(anchor, TrailRetain)
        BY <1>0, <3>1 DEF ManualInv
      <4>2. anchor' \in Nat /\ anchor <= anchor' /\ quoted \in Nat /\ CostFloor \in Nat
        BY <1>0, <2>3, <3>1, TrailAssumption DEF TypeOK
      <4>3. 0 < anchor' /\ CostFloor < 100 * anchor'
        <5>1. anchor \in Int /\ anchor' \in Int /\ CostFloor \in Nat /\ anchor <= anchor'
          BY <1>a, <4>2
        <5>2. CostFloor < 100 * anchor
          BY <4>1
        <5> QED BY <5>1, <5>2, BelowHigher
      <4>4. quoted <= FloorFor(anchor', TrailRetain)
        BY <2>4, <3>1, <4>1, <4>2
      <4> QED BY <2>1, <2>5, <3>1, <4>1, <4>3, <4>4 DEF ManualInv, FloorFor, RetainFor
    <3> QED BY <2>1, <3>1 DEF ManualInv
  <2>7. PolledAbove'
    <3> SUFFICES ASSUME decided' = "none", TrailLive' PROVE 100 * r' > TrailFloor'
      BY DEF PolledAbove
    <3>1. TrailFloor' < 100 * TrailPeak' /\ TrailFloor' \in Nat /\ TrailPeak' \in Nat
      <4>1. TrailPeak' \in Nat /\ TrailRetain' \in Share
        BY <1>0, TrailAssumption DEF TypeOK, TrailPeak, TrailRetain, Share, ByRule
      <4>2. FloorFor(TrailPeak', TrailRetain') \in Nat
        BY <4>1, FloorType
      <4> QED BY <4>1, <4>2 DEF TrailLive, TrailFloor, FloorFor, RetainFor
    <3>2. CASE TrailPeak' <= r
      <4>0. PICK top \in Int, level \in Nat : top = TrailPeak' /\ level = TrailFloor'
        BY <3>1
      <4>1. level < 100 * r
        BY <1>a, <3>1, <3>2, <4>0, BelowHigher
      <4>2. 100 * r > level
        BY <1>a, <4>1
      <4> QED BY <2>1, <4>0, <4>2
    <3>3. CASE ~(TrailPeak' <= r)
      <4>0. TrailPeak' # r /\ ~(r > TrailPeak')
        BY <1>a, <3>1, <3>3
      <4>1. PollBelowPeak
        <5>1. ~PollEarly
          BY <2>1 DEF PollEarly, Decide
        <5>2. ~PollNewPeak
          <6>1. SUFFICES ASSUME PollNewPeak PROVE FALSE
            OBVIOUS
          <6>2. CASE manual
            BY <1>0, <1>a, <2>1, <4>0, <6>1, <6>2
            DEF PollNewPeak, TrailPeak, RaisedAnchor, MaxOf, ManualInv
          <6>3. CASE ~manual
            BY <2>1, <4>0, <6>1, <6>3 DEF PollNewPeak, TrailPeak
          <6> QED BY <6>2, <6>3
        <5> QED BY <1>1, <5>1, <5>2 DEF Poll
      <4>5. TrailPeak' = TrailPeak
        BY <2>1, <2>3, <4>0, <4>1 DEF TrailPeak, PollBelowPeak
      <4>2. TrailFloor' = TrailFloor
        BY <2>1, <4>5 DEF TrailFloor, FloorFor, RetainFor
      <4>3. TrailLive
        BY <2>1, <4>1, <4>2, <4>5 DEF TrailLive, PollBelowPeak
      <4>4. ~TrailTriggers
        BY <4>1 DEF PollBelowPeak, Decide
      <4> QED BY <1>0, <1>a, <2>1, <4>2, <4>3, <4>4, LiveFacts DEF TrailTriggers
    <3> QED BY <3>2, <3>3
  <2> QED BY <1>0, <2>6, <2>7 DEF TrailInv
<1>2. CASE CloseFills \/ StopFills \/ Closed \/ PriceMoves \/ Tick \/ UNCHANGED vars
  <2>1. UNCHANGED <<peak, manual, anchor, keep, quoted>>
    BY <1>2 DEF CloseFills, StopFills, Closed, PriceMoves, Tick, vars
  <2>2. ManualInv'
    BY <1>0, <2>1 DEF ManualInv, TrailRetain, FloorFor, RetainFor
  <2>3. ~open' \/ ~polled' \/ UNCHANGED <<r, open, polled, decided>>
    BY <1>2 DEF CloseFills, StopFills, Closed, PriceMoves, Tick, vars
  <2>4. PolledAbove'
    BY <1>0, <2>1, <2>3 DEF PolledAbove, TrailLive, TrailFloor, TrailPeak, TrailRetain,
                            FloorFor, RetainFor
  <2> QED BY <1>0, <2>2, <2>4 DEF TrailInv
<1>3. ASSUME NEW k \in Givebacks \cup {ByRule}, NEW book \in (r - BookLag) .. r, Arm(k, book)
      PROVE  TrailInv'
  <2> DEFINE base == IF k = ByRule THEN Retain ELSE k
  <2>1. base \in Share /\ r \in Nat
    BY <1>0, <1>3, <1>a, ShareFacts DEF Arm
  <2>2. /\ manual' = TRUE /\ anchor' = r /\ keep' = k /\ peak' = StampedPeak /\ r' = r
        /\ quoted' = FloorFor(r, base) /\ 0 < r /\ FloorFor(r, base) < 100 * r
        /\ k = ByRule \/ k >= Retain
    BY <1>3 DEF Arm
  <2>3. TrailRetain' = base /\ TrailPeak' = r
    BY <2>2 DEF TrailRetain, TrailPeak
  <2>4. FloorFor(r, base) \in Nat /\ CostFloor <= FloorFor(r, base)
    BY <2>1, FloorType
  <2>5. TrailFloor' = FloorFor(r, base) /\ FloorFor(anchor', TrailRetain') = FloorFor(r, base)
    BY <2>2, <2>3 DEF TrailFloor, FloorFor, RetainFor
  <2> HIDE DEF base
  <2>6. r <= peak'
    BY <1>a, <2>2 DEF StampedPeak, MaxOf
  <2>7. ManualInv'
    BY <2>1, <2>2, <2>4, <2>5, <2>6, TrailAssumption DEF ManualInv
  <2>8. PolledAbove'
    BY <2>2, <2>5 DEF PolledAbove
  <2> QED BY <1>0, <2>7, <2>8 DEF TrailInv
<1> QED BY <1>1, <1>2, <1>3 DEF Next

LEMMA TrailInvariant == Spec => []TrailInv
  BY TrailInit, TrailStep, PTL DEF Spec

(* Every variable keeps its type.                                            *)
THEOREM TrailTypeOK == Spec => []TypeOK
<1>1. TrailInv => TypeOK
  BY DEF TrailInv
<1> QED BY <1>1, TrailInvariant, PTL

(* For a sleeve whose costs fit under its arm, whatever the retentions and   *)
(* however the price jumps: the monitor never sees a price at or below entry *)
(* after a peak at the arm, or after an /arm, without deciding to close.     *)
THEOREM ProfitIsNeverGivenBack ==
    ASSUME CostFloor < 100 * ArmAt
    PROVE  Spec => []RetentionHolds
<1>1. TrailInv => RetentionHolds
  <2> SUFFICES ASSUME TrailInv, open, polled, decided = "none", manual \/ peak >= ArmAt
               PROVE  ~(r <= 0)
    BY DEF RetentionHolds
  <2>1. TypeOK /\ ManualInv /\ PolledAbove
    BY DEF TrailInv
  <2>2. TrailLive
    <3>1. CASE manual
      BY <2>1, <3>1, LiveFacts
    <3>2. CASE ~manual
      <4>1. TrailPeak = peak /\ peak >= ArmAt /\ peak \in Nat
        BY <2>1, <3>2 DEF TrailPeak, TypeOK
      <4>2. CostFloor < 100 * TrailPeak
        BY <4>1, TrailAssumption
      <4> QED BY <2>1, <4>2, LiveFacts
    <3> QED BY <3>1, <3>2
  <2>3. 100 * r > TrailFloor /\ TrailFloor \in Nat /\ r \in Int
    BY <2>1, <2>2, LiveFacts DEF PolledAbove, TypeOK
  <2> QED BY <2>3
<1> QED BY <1>1, TrailInvariant, PTL

(* The floor a human was shown keeps trailing and is never undercut.         *)
THEOREM QuoteIsKept == Spec => []QuotedFloorFires
<1>1. TrailInv => QuotedFloorFires
  <2> SUFFICES ASSUME TrailInv, manual PROVE TrailLive /\ TrailFloor >= quoted
    BY DEF QuotedFloorFires
  <2>1. TrailLive
    BY LiveFacts DEF TrailInv
  <2>2. TrailFloor = FloorFor(anchor, TrailRetain)
    BY DEF TrailFloor, TrailPeak
  <2>3. TrailFloor \in Nat /\ quoted \in Nat
    BY LiveFacts DEF TrailInv, TypeOK
  <2> QED BY <2>1, <2>2, <2>3 DEF TrailInv, ManualInv
<1> QED BY <1>1, TrailInvariant, PTL

-----------------------------------------------------------------------------
(* The level at which the position is closed: what the trail, FX90 and the    *)
(* stop each add to it.                                                       *)
TrailPart == IF TrailLive THEN TrailFloor ELSE 100 * Worst
Fx90Part == IF Fx90Live THEN Fx90Floor ELSE 100 * Worst

Parts == /\ TrailPart \in Int /\ Fx90Part \in Int /\ StopLevel \in Int
         /\ 100 * Worst <= TrailPart /\ 100 * Worst <= Fx90Part /\ 100 * Worst <= StopLevel

LEMMA PartTypes == TrailInv => Parts
<1> SUFFICES ASSUME TypeOK, ManualInv PROVE Parts
  BY DEF TrailInv
<1>1. 100 * Worst \in Int /\ 100 * Worst < 0 /\ BreakevenCost \in Nat
  BY TrailAssumption
<1>2. TrailFloor \in Nat
  BY LiveFacts
<1>3. Fx90Floor \in Nat
  <2>1. Fx90Frac \in Nat /\ peak \in Nat /\ Fx90Frac <= Fx90Frac /\ peak <= peak
    BY TrailAssumption DEF TypeOK
  <2> QED BY <2>1, ProductMono DEF Fx90Floor
<1> QED BY <1>1, <1>2, <1>3 DEF Parts, TrailPart, Fx90Part, StopLevel

LEMMA FloorOfParts ==
    ASSUME TrailInv, TrailInv', TrailPart <= TrailPart', Fx90Part <= Fx90Part', StopLevel <= StopLevel'
    PROVE  Floor' >= Floor
<1>1. TrailPart \in Int /\ Fx90Part \in Int /\ StopLevel \in Int
  BY PartTypes DEF Parts
<1>2. TrailPart' \in Int /\ Fx90Part' \in Int /\ StopLevel' \in Int
  <2>1. Parts'
    BY PartTypes, PTL
  <2> QED BY <2>1 DEF Parts
<1>3. Floor = MaxOf(StopLevel, MaxOf(TrailPart, Fx90Part))
  BY DEF Floor, TrailPart, Fx90Part
<1>4. Floor' = MaxOf(StopLevel', MaxOf(TrailPart', Fx90Part'))
  BY DEF Floor, TrailPart, Fx90Part, MaxOf
<1> QED BY <1>1, <1>2, <1>3, <1>4 DEF MaxOf

(* What a step leaves standing: marks are never taken back.                   *)
LEMMA MarksStand ==
    ASSUME TrailInv, [Next]_vars
    PROVE  /\ peak <= peak' /\ peak \in Nat /\ peak' \in Nat
           /\ fx90 => fx90'
           /\ moved => moved'
           /\ manual => manual' /\ keep' = keep /\ anchor <= anchor'
           /\ ~manual /\ manual' => \E k \in Givebacks \cup {ByRule}, book \in (r - BookLag) .. r : Arm(k, book)
<1>0. peak \in Nat /\ anchor \in Nat /\ r \in Int
  BY TrailAssumption DEF TrailInv, TypeOK
<1>1. CASE Poll
  <2>1. moved => moved'
    BY <1>1 DEF Poll, PollEarly, PollNewPeak, PollBelowPeak, MoveToBreakeven, marks
  <2>2. manual => anchor <= RaisedAnchor
    BY <1>0 DEF RaisedAnchor, MaxOf
  <2>3. UNCHANGED <<manual, keep>> /\ (anchor' = anchor \/ anchor' = RaisedAnchor)
    BY <1>1 DEF Poll, PollEarly, PollNewPeak, PollBelowPeak, marks
  <2>4. (peak' = peak /\ fx90' = fx90) \/ PollNewPeak
    BY <1>1 DEF Poll, PollEarly, PollBelowPeak, marks
  <2>5. PollNewPeak => r > peak /\ peak' = r /\ (fx90 => fx90')
    BY DEF PollNewPeak
  <2>6. peak <= peak' /\ peak' \in Nat /\ (fx90 => fx90')
    BY <1>0, <2>4, <2>5
  <2>7. manual => anchor <= anchor'
    BY <1>0, <2>2, <2>3
  <2> QED BY <1>0, <2>1, <2>3, <2>6, <2>7
<1>2. CASE CloseFills \/ PriceMoves \/ Tick \/ StopFills \/ Closed \/ UNCHANGED vars
  BY <1>0, <1>2 DEF CloseFills, PriceMoves, Tick, StopFills, Closed, vars, marks
<1>3. ASSUME NEW k \in Givebacks \cup {ByRule}, NEW book \in (r - BookLag) .. r, Arm(k, book)
      PROVE  ~manual /\ r > 0 /\ peak' = StampedPeak /\ fx90' = fx90 /\ moved' = moved
  BY <1>3 DEF Arm
<1>4. CASE \E k \in Givebacks \cup {ByRule}, book \in (r - BookLag) .. r : Arm(k, book)
  BY <1>0, <1>3, <1>4 DEF StampedPeak, MaxOf
<1> QED BY <1>1, <1>2, <1>4 DEF Next

LEMMA StopStands == ASSUME TrailInv, [Next]_vars PROVE StopLevel <= StopLevel'
<1>1. 100 * Worst \in Int /\ 100 * Worst < 0 /\ BreakevenCost \in Nat
  BY TrailAssumption
<1>2. moved => moved'
  BY MarksStand
<1> QED BY <1>1, <1>2 DEF StopLevel

LEMMA Fx90Stands == ASSUME TrailInv, [Next]_vars PROVE Fx90Part <= Fx90Part'
<1>1. peak <= peak' /\ peak \in Nat /\ peak' \in Nat /\ (Fx90Live => Fx90Live')
  BY MarksStand DEF Fx90Live
<1>2. Fx90Floor \in Nat /\ Fx90Floor' \in Nat /\ Fx90Floor <= Fx90Floor'
  <2>1. Fx90Frac \in Nat /\ Fx90Frac <= Fx90Frac
    BY TrailAssumption
  <2>2. PICK p \in Nat, q \in Nat : p = peak /\ q = peak' /\ p <= q
    BY <1>1
  <2>3. Fx90Frac * p \in Nat /\ Fx90Frac * q \in Nat /\ Fx90Frac * p <= Fx90Frac * q
    BY <2>1, <2>2, ProductMono
  <2> QED BY <2>2, <2>3 DEF Fx90Floor
<1>3. 100 * Worst \in Int /\ 100 * Worst < 0
  BY TrailAssumption
<1> QED BY <1>1, <1>2, <1>3 DEF Fx90Part

LivePart ==
    /\ TrailPeak \in Nat /\ TrailRetain \in Share /\ TrailFloor \in Nat
    /\ TrailLive <=> (manual \/ peak >= ArmAt) /\ CostFloor < 100 * TrailPeak
    /\ manual => TrailLive

LEMMA TrailIsLive == TrailInv => LivePart
  BY ShareFacts, LiveFacts DEF TrailInv, LivePart

LEMMA TrailStands == ASSUME TrailInv, TrailInv', [Next]_vars PROVE TrailPart <= TrailPart'
<1>1. TrailPeak \in Nat /\ TrailRetain \in Share /\ TrailFloor \in Nat
  BY TrailIsLive DEF LivePart
<1>2. /\ TrailPeak' \in Nat /\ TrailRetain' \in Share /\ TrailFloor' \in Nat
      /\ TrailLive' <=> (manual' \/ peak' >= ArmAt) /\ CostFloor < 100 * TrailPeak'
      /\ manual' => TrailLive'
  <2>1. LivePart'
    BY TrailIsLive, PTL
  <2> QED BY <2>1 DEF LivePart
<1>3. CASE ~TrailLive
  <2>1. 100 * Worst \in Int /\ 100 * Worst < 0
    BY TrailAssumption
  <2> QED BY <1>2, <1>3, <2>1 DEF TrailPart
<1>4. CASE TrailLive /\ (manual \/ ~manual')
  <2>1. TrailPeak <= TrailPeak' /\ TrailRetain' = TrailRetain /\ (manual => manual')
    BY <1>4, MarksStand DEF TrailPeak, TrailRetain
  <2>2. TrailRetain <= TrailRetain'
    BY <1>1, <2>1, ShareIsNat
  <2>3. TrailFloor <= FloorFor(TrailPeak', TrailRetain')
    BY <1>1, <1>2, <2>1, <2>2, FloorMono DEF TrailFloor
  <2>4. TrailFloor' = FloorFor(TrailPeak', TrailRetain')
    BY DEF TrailFloor, FloorFor, RetainFor
  <2>5. (manual \/ peak >= ArmAt) /\ CostFloor < 100 * TrailPeak
    BY <1>4, TrailIsLive DEF LivePart
  <2>6. CostFloor < 100 * TrailPeak'
    <3>1. PICK p \in Int, q \in Int : p = TrailPeak /\ q = TrailPeak' /\ p <= q
      BY <1>1, <1>2, <2>1
    <3>2. CostFloor \in Nat /\ CostFloor < 100 * p
      BY <2>5, <3>1, TrailAssumption
    <3>3. CostFloor < 100 * q
      BY <3>1, <3>2, BelowHigher
    <3> QED BY <3>1, <3>3
  <2>7. manual' \/ peak' >= ArmAt
    BY <2>1, <2>5, MarksStand, TrailAssumption
  <2> QED BY <1>1, <1>2, <1>4, <2>3, <2>4, <2>6, <2>7 DEF TrailPart
<1>5. CASE TrailLive /\ ~manual /\ manual'
  <2> PICK k \in Givebacks \cup {ByRule}, book \in (r - BookLag) .. r : Arm(k, book)
    BY <1>5, MarksStand
  <2> DEFINE base == IF k = ByRule THEN Retain ELSE k
  <2>1. /\ r > 0 /\ r \in Nat /\ base \in Share
        /\ TrailPeak' = r /\ TrailRetain' = base
        /\ TightensLive(FloorFor(r, base), StampedPeak)
    <3>1. r > 0 /\ TightensLive(FloorFor(r, base), StampedPeak)
          /\ manual' = TRUE /\ keep' = k /\ anchor' = r
      BY DEF Arm
    <3>2. r \in Nat
      BY <3>1 DEF TrailInv, TypeOK
    <3>3. base \in Share
      BY ShareFacts DEF TrailInv
    <3>4. TrailPeak' = r /\ TrailRetain' = base
      BY <3>1, TrailAssumption DEF TrailPeak, TrailRetain, ByRule
    <3> QED BY <3>1, <3>2, <3>3, <3>4
  <2> HIDE DEF base
  <2>2. TrailFloor' = FloorFor(r, base)
    BY <2>1 DEF TrailFloor, FloorFor, RetainFor
  <2>3. TrailFloor = FloorFor(peak, Retain) /\ peak >= ArmAt
    BY <1>5, TrailIsLive DEF LivePart, TrailFloor, TrailPeak, TrailRetain
  <2>4. StampedPeak \in Nat /\ peak <= StampedPeak /\ StampedPeak >= ArmAt /\ peak \in Nat
    BY <2>1, <2>3, MarksStand, TrailAssumption DEF StampedPeak, MaxOf
  <2>5. Retain \in Share /\ Retain <= Retain
    BY TrailAssumption DEF Share
  <2>6. FloorFor(peak, Retain) <= FloorFor(StampedPeak, Retain)
    BY <2>4, <2>5, FloorMono
  <2>7. LiveFloor(StampedPeak) = FloorFor(StampedPeak, Retain)
    BY <2>4 DEF LiveFloor
  <2>8. FloorFor(StampedPeak, Retain) \in Nat /\ CostFloor <= FloorFor(StampedPeak, Retain)
    BY <2>4, <2>5, FloorType
  <2>9. FloorFor(r, base) > FloorFor(StampedPeak, Retain)
    BY <2>1, <2>7, <2>8, TrailAssumption DEF TightensLive
  <2> QED BY <1>1, <1>2, <1>5, <2>2, <2>3, <2>6, <2>8, <2>9 DEF TrailPart
<1> QED BY <1>3, <1>4, <1>5 

(* Over all the rules together the level at which the position is closed      *)
(* never falls: not with a new peak, the ratchet, the breakeven move, FX90 or *)
(* an /arm, for any retentions, costs and thresholds.                         *)
THEOREM FloorsNeverFall == Spec => FloorNeverFalls
<1>1. TrailInv /\ TrailInv' /\ [Next]_vars => [Floor' >= Floor]_vars
  <2> SUFFICES ASSUME TrailInv, TrailInv', [Next]_vars PROVE Floor' >= Floor
    OBVIOUS
  <2> QED BY StopStands, Fx90Stands, TrailStands, FloorOfParts
<1> QED BY <1>1, TrailInvariant, PTL DEF Spec, FloorNeverFalls
=============================================================================
