-------------------------- MODULE ConvexBookProofs --------------------------
(* Machine-checked proofs about ConvexBook, for any finite set of symbols, any *)
(* slots, budget and day.  Each invariant has one induction step, one case per *)
(* action that can disturb it.                                                 *)
EXTENDS ConvexBook, FiniteSetTheorems, TLAPS

-----------------------------------------------------------------------------
(* Types *)

LEMMA ChargedType ==
    ASSUME NEW ages \in [Charges -> 0 .. Day] PROVE Charged(ages) \in [Charges -> 0 .. Day]
<1>1. 0 \in 0 .. Day
  BY BookAssumption DEF BookAssumption
<1> QED
  BY <1>1 DEF Charged

LEMMA OlderType ==
    ASSUME NEW ages \in [Charges -> 0 .. Day] PROVE Older(ages) \in [Charges -> 0 .. Day]
<1>1. ASSUME NEW i \in Charges
      PROVE (IF ages[i] < Day THEN ages[i] + 1 ELSE Day) \in 0 .. Day
  <2>1. ages[i] \in 0 .. Day
    OBVIOUS
  <2> QED
    BY <2>1, BookAssumption DEF BookAssumption
<1> QED
  BY <1>1 DEF Older

LEMMA CountType ==
    ASSUME NEW b \in [Symbols -> Sleeves \cup {"none"}], NEW k
    PROVE OpenCount(b, k) \in Nat
<1>1. IsFiniteSet({s \in Symbols : b[s] = k})
  BY FS_Subset, BookAssumption DEF BookAssumption
<1> QED
  BY <1>1, FS_CardinalityType DEF OpenCount

LEMMA NotedType ==
    ASSUME NEW S, NEW M, TypeOK, Noted(S, M), held' \subseteq Symbols, flying' \subseteq Symbols
    PROVE told' \subseteq Symbols /\ missed' \subseteq Symbols
  BY DEF Noted, InDoubt

\* The scan's part of the type, which EndScan restores.
ScanOK ==
    /\ pc \in {"idle", "rank", "order", "confirm", "save"} /\ todo \subseteq Symbols
    /\ sleeve \in Sleeves \cup {"none"} /\ (pc # "idle" => sleeve \in Sleeves)
    /\ cand \in Symbols \cup {"none"}
    /\ (pc \in {"order", "confirm", "save"} => cand \in Symbols)
    /\ needSlot \in BOOLEAN /\ before \in Nat /\ opened \subseteq Symbols

LEMMA EndScanType == ASSUME EndScan PROVE ScanOK'
<1>1. needSlot' \in BOOLEAN
  BY DEF EndScan
<1>2. pc' = "idle" /\ sleeve' = "none" /\ todo' = {} /\ cand' = "none" /\ before' = 0
      /\ opened' = {}
  BY DEF EndScan
<1> QED
  BY <1>1, <1>2 DEF ScanOK

LEMMA InitTypeOK == Init => TypeOK
<1>1. 0 \in Nat /\ Day \in 0 .. Day
  BY BookAssumption DEF BookAssumption
<1> QED
  BY <1>1 DEF Init, TypeOK, Sleeves

LEMMA StepTypeOK == TypeOK /\ [Next]_vars => TypeOK'
<1> SUFFICES ASSUME TypeOK, [Next]_vars PROVE TypeOK'
  OBVIOUS
<1> USE BookAssumption DEF BookAssumption, Sleeves
<1>1. ASSUME NEW s \in Symbols, Refused(s) PROVE TypeOK'
  BY <1>1 DEF TypeOK, Refused, exchange, ghosts
<1>2. ASSUME NEW s \in Symbols, Enter(s) PROVE TypeOK'
  BY <1>2 DEF TypeOK, Enter, exchange, ghosts
<1>3. ASSUME NEW s \in Symbols, NEW v \in Symbols, Preempt(v, s) PROVE TypeOK'
  <2>1. /\ preemptLog' \in [Charges -> 0 .. Day]
        /\ evictions' \in [Charges -> 0 .. Day]
    BY <1>3, ChargedType DEF Preempt, TypeOK
  <2>2. /\ book' \in [Symbols -> Sleeves \cup {"none"}]
        /\ file' \in [Symbols -> Sleeves \cup {"none"}]
    BY <1>3 DEF Preempt, Forget, TypeOK
  <2>3. told' \subseteq Symbols /\ missed' \subseteq Symbols
    BY <1>3, NotedType DEF Preempt, TypeOK
  <2>4. ScanOK'
    <3>1. CASE EndScan
      BY <3>1, EndScanType
    <3>2. CASE /\ pc' = "order" /\ cand' = s /\ todo' = todo \ {s} /\ needSlot' = FALSE
               /\ UNCHANGED <<sleeve, before, opened>>
      <4>1. pc = "rank"
        BY <1>3 DEF Preempt
      <4> QED
        BY <3>2, <4>1 DEF TypeOK, ScanOK
    <3> QED
      BY <1>3, <3>1, <3>2 DEF Preempt
  <2>5. held' \subseteq Symbols /\ flying' \subseteq Symbols
    BY <1>3 DEF Preempt, TypeOK
  <2> QED
    BY <2>1, <2>2, <2>3, <2>4, <2>5 DEF TypeOK, ScanOK
<1>22. ASSUME NEW s \in Symbols, NEW v \in Symbols, EvictsUncharged(v, s) PROVE TypeOK'
  <2>1. evictions' \in [Charges -> 0 .. Day]
    BY <1>22, ChargedType DEF EvictsUncharged, TypeOK
  <2>2. told' \subseteq Symbols /\ missed' \subseteq Symbols
    BY <1>22, NotedType DEF EvictsUncharged, TypeOK
  <2> QED
    BY <1>22, <2>1, <2>2 DEF TypeOK, EvictsUncharged, EndScan
<1>4. CASE ScanRunsOut
  BY <1>4 DEF TypeOK, ScanRunsOut, EndScan, exchange, ghosts
<1>5. CASE NothingToEvict
  BY <1>5 DEF TypeOK, NothingToEvict, EndScan, exchange, ghosts
<1>6. CASE OrderTaken
  BY <1>6, NotedType DEF TypeOK, OrderTaken
<1>7. CASE OrderRefused
  BY <1>7 DEF TypeOK, OrderRefused, exchange, ghosts
<1>8. CASE OrderRaises
  BY <1>8, NotedType DEF TypeOK, OrderRaises, EndScan, TellOwner
<1>9. CASE Confirmed
  BY <1>9, NotedType DEF TypeOK, Confirmed, exchange
<1>10. CASE Unlisted
  <2>1. ScanOK'
    <3>1. CASE EndScan
      BY <3>1, EndScanType
    <3>2. CASE pc' = "rank" /\ cand' = "none" /\ UNCHANGED <<sleeve, todo, needSlot, before, opened>>
      BY <1>10, <3>2 DEF TypeOK, ScanOK, Unlisted
    <3> QED
      BY <1>10, <3>1, <3>2 DEF Unlisted
  <2>2. told' \subseteq Symbols /\ missed' \subseteq Symbols
    BY <1>10, NotedType DEF TypeOK, Unlisted, TellOwner, exchange
  <2>3. /\ held' \subseteq Symbols /\ flying' \subseteq Symbols
        /\ book' \in [Symbols -> Sleeves \cup {"none"}]
        /\ file' \in [Symbols -> Sleeves \cup {"none"}]
        /\ preemptLog' \in [Charges -> 0 .. Day] /\ evictions' \in [Charges -> 0 .. Day]
    BY <1>10 DEF TypeOK, Unlisted, exchange
  <2> QED
    BY <2>1, <2>2, <2>3 DEF TypeOK, ScanOK
<1>11. CASE SaveEntered
  BY <1>11 DEF TypeOK, SaveEntered, SaveEntry, EndScan, exchange, ghosts
<1>12. ASSUME NEW s \in Symbols, Closes(s) PROVE TypeOK'
  BY <1>12, NotedType DEF TypeOK, Closes, Forget, scan
<1>13. ASSUME NEW s \in Symbols, RefreshLive(s) PROVE TypeOK'
  BY <1>13, NotedType DEF TypeOK, RefreshLive, scan, exchange
<1>23. ASSUME NEW s \in Symbols, DropsHeld(s) PROVE TypeOK'
  BY <1>23, NotedType DEF TypeOK, DropsHeld, Forget, scan, exchange
<1>14. ASSUME NEW k \in Sleeves, NEW picks \in SUBSET Universe(k), StartScan(k, picks)
       PROVE TypeOK'
  <2>1. Universe(k) \subseteq Symbols
    BY DEF Universe
  <2>2. OpenCount(book, k) \in Nat
    BY CountType DEF TypeOK
  <2> QED
    BY <1>14, <2>1, <2>2 DEF TypeOK, StartScan, SlotsFull, exchange
<1>15. CASE SaveElsewhere
  BY <1>15 DEF TypeOK, SaveElsewhere, exchange, scan, ghosts
<1>16. CASE ReconcileOrphans
  <2>1. book' \in [Symbols -> Sleeves \cup {"none"}] /\ file' = book'
    BY <1>16 DEF TypeOK, ReconcileOrphans, Adopted
  <2> QED
    BY <1>16, <2>1, NotedType DEF TypeOK, ReconcileOrphans, exchange, scan
<1>17. ASSUME NEW s \in Symbols, ExchangeCloses(s) PROVE TypeOK'
  BY <1>17, NotedType DEF TypeOK, ExchangeCloses, scan
<1>18. ASSUME NEW s \in Symbols, LateOrderSettles(s) PROVE TypeOK'
  BY <1>18, NotedType DEF TypeOK, LateOrderSettles, scan
<1>19. CASE Tick
  BY <1>19, OlderType DEF TypeOK, Tick, exchange, scan
<1>20. CASE Restart
  <2>1. Day \in 0 .. Day
    OBVIOUS
  <2>2. preemptLog' \in [Charges -> 0 .. Day]
    BY <1>20, <2>1 DEF Restart
  <2>3. held' = held /\ flying' \subseteq Symbols
    BY <1>20 DEF Restart, TypeOK
  <2>4. told' \subseteq Symbols /\ missed' \subseteq Symbols
    BY <1>20, <2>3, NotedType DEF Restart, TypeOK
  <2> QED
    BY <1>20, <2>2, <2>3, <2>4 DEF TypeOK, Restart, EndScan
<1>21. CASE UNCHANGED vars
  BY <1>21 DEF TypeOK, vars, exchange, scan, ghosts
<1> QED
  BY <1>1, <1>2, <1>3, <1>4, <1>5, <1>6, <1>7, <1>8, <1>9, <1>10, <1>11, <1>12, <1>13,
     <1>14, <1>15, <1>16, <1>17, <1>18, <1>19, <1>20, <1>21, <1>22, <1>23
  DEF Next, Scanning, Between, External

\* Every variable of the book keeps its range.
THEOREM BookTypeOK == Spec => []TypeOK
  BY InitTypeOK, StepTypeOK, PTL DEF Spec

-----------------------------------------------------------------------------
(* Restart: what the state file lacks *)

SavedInv == TypeOK /\ (pc # "save" => \A s \in Symbols :
                          file[s] = book[s] \/ (file[s] = "none" /\ s \in Configured))

LEMMA StepSaved == SavedInv /\ [Next]_vars => SavedInv'
<1> SUFFICES ASSUME SavedInv, [Next]_vars PROVE SavedInv'
  OBVIOUS
<1>1. TypeOK /\ TypeOK'
  BY StepTypeOK DEF SavedInv
<1> DEFINE Saved == \A s \in Symbols :
                       file[s] = book[s] \/ (file[s] = "none" /\ s \in Configured)
<1>2. CASE UNCHANGED <<book, file>> /\ (pc' # "save" => pc # "save")
  BY <1>1, <1>2 DEF SavedInv
<1>3. CASE file' = book'
  BY <1>1, <1>3 DEF SavedInv
<1>4. CASE pc' = "save"
  BY <1>1, <1>4 DEF SavedInv
<1>5. ASSUME NEW s \in Symbols, RefreshLive(s) PROVE Saved'
  BY <1>1, <1>5 DEF RefreshLive, SavedInv, scan, exchange, TypeOK, Recovers, Tracked
<1>6. CASE \E s \in Symbols : RefreshLive(s)
  BY <1>1, <1>5, <1>6 DEF SavedInv
<1>7. CASE Unlisted
  <2>1. CASE sleeve = "PMT"
    BY <1>3, <1>7, <2>1 DEF Unlisted
  <2>2. CASE sleeve # "PMT"
    BY <1>2, <1>7, <2>2 DEF Unlisted
  <2> QED
    BY <2>1, <2>2
<1>8. CASE \E s \in Symbols : Refused(s) \/ Enter(s)
  BY <1>2, <1>8 DEF Refused, Enter
<1>9. CASE \E s \in Symbols, v \in Symbols : Preempt(v, s)
  BY <1>3, <1>9 DEF Preempt, Forget
<1>20. CASE \E s \in Symbols, v \in Symbols : EvictsUncharged(v, s)
  BY <1>2, <1>20 DEF EvictsUncharged, EndScan
<1>10. CASE ScanRunsOut \/ NothingToEvict \/ OrderTaken \/ OrderRefused \/ OrderRaises
  BY <1>2, <1>10 DEF ScanRunsOut, NothingToEvict, OrderTaken, OrderRefused, OrderRaises, EndScan
<1>11. CASE Confirmed
  BY <1>4, <1>11 DEF Confirmed
<1>12. CASE SaveEntered
  BY <1>3, <1>12 DEF SaveEntered, SaveEntry
<1>13. CASE \E s \in Symbols : Closes(s) \/ DropsHeld(s)
  BY <1>3, <1>13 DEF Closes, DropsHeld, Forget
<1>14. CASE \E k \in Sleeves : \E picks \in SUBSET Universe(k) : StartScan(k, picks)
  BY <1>2, <1>14 DEF StartScan
<1>15. CASE SaveElsewhere \/ ReconcileOrphans
  BY <1>3, <1>15 DEF SaveElsewhere, ReconcileOrphans
<1>16. CASE \E s \in Symbols : ExchangeCloses(s) \/ LateOrderSettles(s)
  BY <1>2, <1>16 DEF ExchangeCloses, LateOrderSettles, scan
<1>17. CASE Tick
  BY <1>2, <1>17 DEF Tick, scan
<1>18. CASE Restart
  BY <1>3, <1>18 DEF Restart
<1>19. CASE UNCHANGED vars
  BY <1>2, <1>19 DEF vars, scan
<1> QED
  BY <1>6, <1>7, <1>8, <1>9, <1>10, <1>11, <1>12, <1>13, <1>14, <1>15, <1>16, <1>17, <1>18, <1>19,
     <1>20
  DEF Next, Scanning, Between, External

\* Whatever crashes and refreshes come between, a restart forgets no position but
\* one of a configured symbol, which the refresh adopts again.
THEOREM RestartKeeps == Spec => []RestartKeepsTheBook
<1>1. Init => SavedInv
  BY InitTypeOK DEF Init, SavedInv
<1>2. SavedInv => RestartKeepsTheBook
  BY DEF SavedInv, RestartKeepsTheBook
<1> QED
  BY <1>1, <1>2, StepSaved, PTL DEF Spec

-----------------------------------------------------------------------------
(* What stands on MEXC is known or told *)

\* Strengthened with: of every order that may still land the owner was told, or the
\* process died as it was sent.
KnownInv == TypeOK /\ KnownOrTold /\ flying \subseteq told \cup missed

\* What is noted covers every doubt, if the old notes, the new ones and the entry
\* being confirmed do.
LEMMA NotedCovers ==
    ASSUME NEW S, NEW M, Noted(S, M), flying' \subseteq S \cup M,
           \A s \in held' : Tracked(s)' \/ s \in S \cup M \/ (pc' = "confirm" /\ s = cand')
    PROVE KnownOrTold' /\ flying' \subseteq told' \cup missed'
  BY DEF Noted, InDoubt, KnownOrTold

LEMMA StepKnown == ASSUME KnownInv, [Next]_vars PROVE KnownInv'
<1>1. TypeOK /\ TypeOK'
  BY StepTypeOK DEF KnownInv
<1> DEFINE Covers == KnownOrTold /\ flying \subseteq told \cup missed
<1> SUFFICES Covers'
  BY <1>1 DEF KnownInv
<1> USE <1>1 DEF KnownInv, KnownOrTold, Tracked
<1>2. ASSUME NEW s \in Symbols, Refused(s) \/ Enter(s) PROVE Covers'
  BY <1>2 DEF Refused, Enter, exchange, ghosts
<1>3. ASSUME NEW s \in Symbols, NEW v \in Symbols, Preempt(v, s) PROVE Covers'
  BY <1>3, NotedCovers DEF Preempt, Forget, TypeOK
<1>4. ASSUME NEW s \in Symbols, NEW v \in Symbols, EvictsUncharged(v, s) PROVE Covers'
  BY <1>4, NotedCovers DEF EvictsUncharged
<1>5. CASE ScanRunsOut \/ NothingToEvict \/ OrderRefused
  BY <1>5 DEF ScanRunsOut, NothingToEvict, OrderRefused, EndScan, exchange, ghosts
<1>6. CASE OrderTaken
  BY <1>6, NotedCovers DEF OrderTaken
<1>7. CASE OrderRaises
  <2>1. CASE UNCHANGED <<flying, told, missed>>
    BY <1>7, <2>1 DEF OrderRaises, EndScan
  <2>2. CASE flying' = flying \cup {cand} /\ Noted(told \cup {cand}, missed)
    BY <1>7, <2>2, NotedCovers DEF OrderRaises
  <2> QED
    BY <1>7, <2>1, <2>2 DEF OrderRaises, TellOwner
<1>8. CASE Confirmed
  <2>1. sleeve # "none"
    BY <1>8 DEF TypeOK, Sleeves, Confirmed
  <2> QED
    BY <1>8, <2>1, NotedCovers DEF Confirmed, exchange, TypeOK
<1>9. CASE Unlisted
  <2>1. CASE Noted(told \cup {cand}, missed)
    BY <1>9, <2>1, NotedCovers DEF Unlisted, exchange
  <2>2. CASE Noted(told, missed \cup {cand})
    BY <1>9, <2>2, NotedCovers DEF Unlisted, exchange
  <2> QED
    BY <1>9, <2>1, <2>2 DEF Unlisted, TellOwner
<1>10. CASE SaveEntered
  BY <1>10 DEF SaveEntered, EndScan, exchange
<1>11. ASSUME NEW s \in Symbols, Closes(s) PROVE Covers'
  BY <1>11, NotedCovers DEF Closes, Forget, scan, TypeOK
<1>12. ASSUME NEW s \in Symbols, DropsHeld(s) PROVE Covers'
  BY <1>12, NotedCovers DEF DropsHeld, Forget, scan, exchange, TypeOK
<1>13. ASSUME NEW s \in Symbols, RefreshLive(s) PROVE Covers'
  BY <1>13, NotedCovers DEF RefreshLive, scan, exchange, TypeOK
<1>14. ASSUME NEW k, NEW picks, StartScan(k, picks) PROVE Covers'
  BY <1>14 DEF StartScan, exchange
<1>15. CASE SaveElsewhere
  BY <1>15 DEF SaveElsewhere, exchange, scan, ghosts
<1>16. CASE ReconcileOrphans
  <2>1. \A s \in Symbols : Adopted(s) # "none"
    BY DEF Adopted
  <2>2. \A s \in held : book'[s] # "none"
    BY <1>16, <2>1 DEF ReconcileOrphans, TypeOK
  <2> QED
    BY <1>16, <2>2, NotedCovers DEF ReconcileOrphans, exchange, scan
<1>17. ASSUME NEW s \in Symbols, ExchangeCloses(s) \/ LateOrderSettles(s) PROVE Covers'
  BY <1>17, NotedCovers DEF ExchangeCloses, LateOrderSettles, scan
<1>18. CASE Tick \/ UNCHANGED vars
  BY <1>18 DEF Tick, vars, exchange, scan, ghosts
<1>19. CASE Restart
  <2> DEFINE Lost == missed \cup {s \in Symbols : book[s] # "none" /\ file[s] = "none"}
                            \cup (IF pc \in {"order", "confirm"} THEN {cand} ELSE {})
  <2>1. /\ book' = file /\ held' = held /\ Noted(told, Lost)
        /\ flying' \subseteq flying \cup (IF pc = "order" THEN {cand} ELSE {})
    BY <1>19 DEF Restart
  <2>2. ASSUME NEW s \in held PROVE book'[s] # "none" \/ s \in told \cup Lost
    <3>1. CASE book[s] # "none"
      BY <2>1, <3>1 DEF TypeOK
    <3>2. CASE s \in told \cup missed
      BY <3>2
    <3>3. CASE pc = "confirm" /\ s = cand
      BY <3>3
    <3> QED
      BY <3>1, <3>2, <3>3
  <2>3. flying' \subseteq told \cup Lost
    BY <2>1
  <2> HIDE DEF Lost
  <2> QED
    BY <2>1, <2>2, <2>3, NotedCovers
<1> QED
  BY <1>2, <1>3, <1>4, <1>5, <1>6, <1>7, <1>8, <1>9, <1>10, <1>11, <1>12, <1>13, <1>14, <1>15,
     <1>16, <1>17, <1>18, <1>19
  DEF Next, Scanning, Between, External

\* Whatever fails and whenever the process dies, every position on MEXC is tracked,
\* or its owner was told, or it is the entry being confirmed, or it was lost sight
\* of in one of the four ways the code leaves open.
THEOREM PositionsKnown == Spec => []KnownOrTold
<1>1. Init => KnownInv
  BY InitTypeOK DEF Init, KnownInv, KnownOrTold
<1>2. KnownInv /\ [Next]_vars => KnownInv'
  BY StepKnown
<1>3. KnownInv => KnownOrTold
  BY DEF KnownInv
<1> QED
  BY <1>1, <1>2, <1>3, PTL DEF Spec

-----------------------------------------------------------------------------
(* Slots *)

LEMMA CountFinite ==
    ASSUME NEW b, NEW k
    PROVE IsFiniteSet({s \in Symbols : b[s] = k}) /\ OpenCount(b, k) \in Nat
<1>1. IsFiniteSet({s \in Symbols : b[s] = k})
  BY FS_Subset, BookAssumption DEF BookAssumption
<1> QED
  BY <1>1, FS_CardinalityType DEF OpenCount

LEMMA CountOneMore ==
    ASSUME NEW b \in [Symbols -> Sleeves \cup {"none"}], NEW s \in Symbols, NEW k
    PROVE OpenCount([b EXCEPT ![s] = k], k) <= OpenCount(b, k) + 1
<1> DEFINE S == {x \in Symbols : b[x] = k}
<1>1. {x \in Symbols : [b EXCEPT ![s] = k][x] = k} = S \cup {s}
  OBVIOUS
<1>2. IsFiniteSet(S) /\ Cardinality(S) \in Nat
  BY CountFinite DEF OpenCount
<1>3. Cardinality(S \cup {s}) = Cardinality(S) \/ Cardinality(S \cup {s}) = Cardinality(S) + 1
  BY <1>2, FS_AddElement
<1> QED
  BY <1>1, <1>2, <1>3 DEF OpenCount

LEMMA CountOneLess ==
    ASSUME NEW b \in [Symbols -> Sleeves \cup {"none"}], NEW s \in Symbols, NEW k \in Sleeves,
           b[s] = k
    PROVE OpenCount([b EXCEPT ![s] = "none"], k) = OpenCount(b, k) - 1
<1> DEFINE S == {x \in Symbols : b[x] = k}
<1>1. {x \in Symbols : [b EXCEPT ![s] = "none"][x] = k} = S \ {s}
  BY DEF Sleeves
<1>2. IsFiniteSet(S) /\ s \in S
  BY CountFinite
<1>3. Cardinality(S \ {s}) = Cardinality(S) - 1
  BY <1>2, FS_RemoveElement
<1> QED
  BY <1>1, <1>3 DEF OpenCount

\* Room in the sleeve while a scan has not spent it: a free slot, or the one its
\* eviction left below the count it began with.
SlotInv ==
    /\ TypeOK
    /\ pc = "rank" /\ needSlot => sleeve = "WILDCARD" /\ OpenCount(book, sleeve) = before
    /\ pc \in {"order", "confirm"} => ~needSlot
    /\ pc \in {"rank", "order", "confirm"} /\ ~needSlot
       => OpenCount(book, sleeve) < Slots[sleeve] \/ OpenCount(book, sleeve) < before

LEMMA StepSlots == SlotInv /\ [Next]_vars => SlotInv'
<1> SUFFICES ASSUME SlotInv, [Next]_vars PROVE SlotInv'
  OBVIOUS
<1>1. TypeOK /\ TypeOK'
  BY StepTypeOK DEF SlotInv
<1> USE <1>1
<1>2. CASE pc' \in {"idle", "save"}
  BY <1>2 DEF SlotInv
<1>3. ASSUME NEW s \in Symbols, Refused(s) \/ Enter(s) PROVE SlotInv'
  BY <1>3 DEF SlotInv, Refused, Enter, exchange, ghosts
<1>4. ASSUME NEW s \in Symbols, NEW v \in Symbols, Preempt(v, s), pc' = "order" PROVE SlotInv'
  <2>1. /\ pc = "rank" /\ needSlot /\ book[v] = "WILDCARD"
        /\ book' = [book EXCEPT ![v] = "none"] /\ sleeve' = sleeve /\ ~needSlot'
        /\ before' = before
    BY <1>4 DEF Preempt, Forget, Evictable, EndScan
  <2>2. sleeve = "WILDCARD" /\ OpenCount(book, "WILDCARD") = before
    BY <2>1 DEF SlotInv
  <2>3. OpenCount([book EXCEPT ![v] = "none"], "WILDCARD") = OpenCount(book, "WILDCARD") - 1
    BY <2>1, CountOneLess DEF TypeOK, Sleeves
  <2>4. OpenCount(book', sleeve') < before'
    BY <2>1, <2>2, <2>3 DEF TypeOK
  <2> QED
    BY <1>4, <2>1, <2>4 DEF SlotInv
<1>5. CASE OrderTaken \/ OrderRefused
  BY <1>5 DEF SlotInv, OrderTaken, OrderRefused, exchange, ghosts
<1>6. CASE Unlisted
  BY <1>2, <1>6 DEF SlotInv, Unlisted, EndScan, exchange
<1>7. ASSUME NEW k \in Sleeves, NEW picks, StartScan(k, picks) PROVE SlotInv'
  <2>1. /\ pc' = "rank" /\ sleeve' = k /\ book' = book /\ before' = OpenCount(book, k)
        /\ needSlot' = (OpenCount(book, k) >= Slots[k])
        /\ OpenCount(book, k) >= Slots[k] => k = "WILDCARD"
    BY <1>7 DEF StartScan, SlotsFull
  <2>2. OpenCount(book, k) \in Nat /\ Slots[k] \in Nat
    BY CountFinite, BookAssumption DEF BookAssumption
  <2>3. OpenCount(book', sleeve') = OpenCount(book, k)
    BY <2>1
  <2>4. needSlot' => sleeve' = "WILDCARD"
    BY <2>1
  <2>5. ASSUME ~needSlot' PROVE OpenCount(book', sleeve') < Slots[sleeve']
    <3>1. ~(OpenCount(book, k) >= Slots[k])
      BY <2>1, <2>5
    <3>2. OpenCount(book, k) < Slots[k]
      BY <3>1, <2>2
    <3> QED
      BY <2>1, <2>3, <3>2
  <2> QED
    BY <2>1, <2>3, <2>4, <2>5 DEF SlotInv
<1>8. CASE UNCHANGED <<book, pc, sleeve, needSlot, before>>
  BY <1>8 DEF SlotInv
<1>9. CASE ScanRunsOut \/ NothingToEvict \/ OrderRaises \/ Confirmed \/ SaveEntered \/ Restart
  BY <1>2, <1>9 DEF ScanRunsOut, NothingToEvict, OrderRaises, Confirmed, SaveEntered,
     Restart, EndScan
<1>15. ASSUME NEW s \in Symbols, NEW v \in Symbols, EvictsUncharged(v, s) PROVE SlotInv'
  BY <1>2, <1>15 DEF EvictsUncharged, EndScan
<1>10. ASSUME NEW s \in Symbols, NEW v \in Symbols, Preempt(v, s) PROVE SlotInv'
  BY <1>2, <1>4, <1>10 DEF Preempt, EndScan
<1>11. CASE \E s \in Symbols : Closes(s) \/ DropsHeld(s) \/ RefreshLive(s)
  BY <1>2, <1>11 DEF Closes, DropsHeld, RefreshLive, scan
<1>12. CASE SaveElsewhere \/ ReconcileOrphans
  BY <1>2, <1>12 DEF SaveElsewhere, ReconcileOrphans, scan
<1>13. CASE \E s \in Symbols : ExchangeCloses(s) \/ LateOrderSettles(s)
  BY <1>8, <1>13 DEF ExchangeCloses, LateOrderSettles, scan, ghosts
<1>14. CASE Tick \/ UNCHANGED vars
  BY <1>8, <1>14 DEF Tick, vars, scan, ghosts
<1> QED
  BY <1>3, <1>5, <1>6, <1>7, <1>9, <1>10, <1>11, <1>12, <1>13, <1>14, <1>15
  DEF Next, Scanning, Between, External

\* For every number of slots, an entry leaves its sleeve within them, or no fuller
\* than the scan found it.
THEOREM EntryKeepsSlots == Spec => EntryWithinSlots
<1> DEFINE Within == pc = "confirm" /\ pc' = "save"
                     => \/ OpenCount(book', sleeve) <= Slots[sleeve]
                        \/ OpenCount(book', sleeve) <= before
<1>1. Init => SlotInv
  BY InitTypeOK DEF Init, SlotInv
<1>2. ASSUME SlotInv, [Next]_vars, pc = "confirm", pc' = "save"
      PROVE OpenCount(book', sleeve) <= Slots[sleeve] \/ OpenCount(book', sleeve) <= before
  <2>1. Confirmed
    BY <1>2 DEF Next, Scanning, Between, External, Refused, Enter, Preempt, ScanRunsOut,
       NothingToEvict, EvictsUncharged, OrderTaken, OrderRefused, OrderRaises, Unlisted,
       SaveEntered, Closes, DropsHeld, RefreshLive, StartScan, SaveElsewhere,
       ReconcileOrphans, ExchangeCloses, LateOrderSettles, Tick, Restart, EndScan, scan, vars
  <2>2. book' = [book EXCEPT ![cand] = sleeve] /\ cand \in Symbols
    BY <1>2, <2>1 DEF Confirmed, SlotInv, TypeOK
  <2>3. OpenCount(book', sleeve) <= OpenCount(book, sleeve) + 1
    BY <1>2, <2>2, CountOneMore DEF SlotInv, TypeOK
  <2>4. OpenCount(book, sleeve) < Slots[sleeve] \/ OpenCount(book, sleeve) < before
    BY <1>2 DEF SlotInv
  <2>5. /\ OpenCount(book, sleeve) \in Nat /\ OpenCount(book', sleeve) \in Nat
        /\ Slots[sleeve] \in Nat /\ before \in Nat
    BY <1>2, CountFinite, BookAssumption DEF BookAssumption, SlotInv, TypeOK
  <2> QED
    BY <2>3, <2>4, <2>5
<1>3. SlotInv /\ [Next]_vars => [Within]_vars
  BY <1>2
<1> QED
  BY <1>1, <1>3, StepSlots, PTL DEF Spec, EntryWithinSlots
=============================================================================
