------------------------- MODULE PositionGuardProofs -------------------------
(* What PositionGuard keeps for every backoff, grace, publishing delay, set  *)
(* of handlers and set of faults.                                            *)
EXTENDS PositionGuard, TLAPS

(* A minute more keeps every stamp in its range. *)
LEMMA OlderType == \A p \in Position : Older(p) \in Position
<1> SUFFICES ASSUME NEW p \in Position PROVE Older(p) \in Position
  OBVIOUS
<1>1. /\ AtMost(p.failAge + 1, Backoff) \in 0 .. Backoff
      /\ AtMost(p.bareAge + 1, Retry) \in 0 .. Retry
      /\ AtMost(p.moveAge + 1, Retry) \in 0 .. Retry
  BY GuardAssumption DEF Position, AtMost
<1>2. (IF p.missAge = NoMiss THEN NoMiss ELSE AtMost(p.missAge + 1, Grace))
          \in {NoMiss} \cup 0 .. Grace
  BY GuardAssumption DEF Position, AtMost, NoMiss
<1> QED BY <1>1, <1>2 DEF Older, Position

LEMMA EnteredType == Entered \in Position /\ \A p \in Position : Cleared(p) \in Position
<1>1. /\ Backoff \in 0 .. Backoff /\ Retry \in 0 .. Retry /\ 0 \in 0 .. MaxMoves /\ 0 \in Nat
      /\ NoMiss \in {NoMiss} \cup 0 .. Grace /\ "none" \in Reasons \cup {"none"}
  BY GuardAssumption
<1>2. Entered \in Position
  BY <1>1 DEF Entered, Position
<1> QED BY <1>2 DEF Cleared, Position

(* _note_close_failed keeps the types. *)
LEMMA NoteCloseFailedType ==
    ASSUME NEW p \in Position, why \in Reasons \cup {"none"}
    PROVE  [p EXCEPT !.failAge = 0, !.latch = IF @ = "none" THEN why ELSE @] \in Position
<1>1. 0 \in 0 .. Backoff
  BY GuardAssumption
<1>2. (IF p.latch = "none" THEN why ELSE p.latch) \in Reasons \cup {"none"}
  BY DEF Position
<1> QED BY <1>1, <1>2 DEF Position

LEMMA AfterRestoreType ==
    ASSUME TypeOK, NEW p \in Position, NEW restored \in BOOLEAN, AfterRestore(restored, p)
    PROVE  mem' \in Position /\ disk' \in Position /\ pc' \in {"idle", "place"}
           /\ job' \in {"none", "rearm"} /\ why' \in Reasons \cup {"none"}
<1>1. CASE job = "exit" /\ restored /\ NoteCloseFailed(p) /\ Back
  BY <1>1, NoteCloseFailedType DEF TypeOK, NoteCloseFailed, Save, Back, Goto
<1>2. CASE mem' = p /\ UNCHANGED disk /\ Goto("place", "rearm") /\ UNCHANGED why
  BY <1>2 DEF TypeOK, Goto
<1>3. CASE Save(p) /\ Back
  BY <1>3 DEF TypeOK, Save, Back, Goto
<1>4. CASE mem' = p /\ UNCHANGED disk /\ Back
  BY <1>4 DEF TypeOK, Back, Goto
<1> QED BY <1>1, <1>2, <1>3, <1>4 DEF AfterRestore

LEMMA TypeInit == Init => TypeOK
<1>1. 0 \in 0 .. 2 /\ 1 \in 0 .. 2 /\ 0 \in 0 .. Grace
  BY GuardAssumption
<1> QED BY <1>1, EnteredType DEF Init, TypeOK

LEMMA TypeStep == TypeOK /\ [Next]_vars => TypeOK'
<1> SUFFICES ASSUME TypeOK, [Next]_vars PROVE TypeOK'
  OBVIOUS
<1> USE GuardAssumption DEF TypeOK, exchange, control, ghosts, Goto, Back, Save, Idle
<1>0. /\ 0 \in 0 .. 2 /\ 0 \in 0 .. Grace /\ 0 \in 0 .. Retry
      /\ Backoff \in 0 .. Backoff /\ "none" \in Reasons \cup {"none"}
  OBVIOUS
<1>1. CASE External
  <2>1. CASE ExchangeCloses
    BY <1>0, <2>1 DEF ExchangeCloses, Leaves
  <2>2. CASE InflightSettles
    <3>1. Leaves \/ UNCHANGED <<xOpen, resting, row, absent, exposed, unfilled>>
      BY <2>2 DEF InflightSettles
    <3>2. inflight' = FALSE /\ UNCHANGED <<control, mem, disk, excused, doubted>>
      BY <2>2 DEF InflightSettles
    <3>3. CASE Leaves
      BY <1>0, <3>2, <3>3 DEF Leaves
    <3>4. CASE UNCHANGED <<xOpen, resting, row, absent, exposed, unfilled>>
      <4>1. /\ xOpen' = xOpen /\ resting' = resting /\ row' = row /\ absent' = absent
            /\ exposed' = exposed /\ unfilled' = unfilled
            /\ inflight' = FALSE /\ up' = up /\ pc' = pc /\ job' = job
            /\ why' = why /\ mem' = mem /\ disk' = disk /\ excused' = excused /\ doubted' = doubted
        BY <3>2, <3>4
      <4>2. /\ xOpen' \in BOOLEAN /\ inflight' \in BOOLEAN /\ up' \in BOOLEAN
            /\ excused' \in BOOLEAN /\ exposed' \in BOOLEAN /\ doubted' \in BOOLEAN
            /\ unfilled' \in BOOLEAN
        BY <4>1, Zenon
      <4>3. /\ resting' \in 0 .. 2 /\ absent' \in 0 .. Grace /\ mem' \in Position /\ disk' \in Position
            /\ row' = row /\ pc' = pc /\ job' = job /\ why' = why
        BY <4>1
      <4> QED BY <4>2, <4>3
    <3> QED BY <3>1, <3>3, <3>4
  <2>3. CASE PublishRow
    BY <2>3 DEF PublishRow
  <2>4. CASE Tick
    <3>1. absent' \in 0 .. Grace
      BY <2>4 DEF Tick, AtMost
    <3> QED BY <2>4, <3>1, OlderType DEF Tick
  <2>5. CASE Crash
    <3>1. exposed' \in BOOLEAN /\ unfilled' \in BOOLEAN
      BY <2>5 DEF Crash
    <3> QED BY <2>5, <3>1 DEF Crash
  <2> QED BY <1>1, <2>1, <2>2, <2>3, <2>4, <2>5 DEF External
<1>2. CASE Boot \/ SaveElsewhere
  <2>1. CASE Boot
    BY <2>1 DEF Boot
  <2>2. CASE SaveElsewhere
    BY <2>2 DEF SaveElsewhere
  <2> QED BY <1>2, <2>1, <2>2
<1>3. CASE Closing
  <2>1. ASSUME NEW r \in Reasons, StartExit(r) PROVE TypeOK'
    BY <2>1 DEF StartExit
  <2>2. CASE StartForce \/ StartPreempt
    BY <2>2 DEF StartForce, StartPreempt
  <2>3. CASE Cancel
    BY <2>3 DEF Cancel
  <2>4. CASE CloseFills \/ CloseUnfilled
    <3>1. [mem EXCEPT !.failAge = Backoff, !.latch = "none"] \in Position
      BY <1>0 DEF Position
    <3>2. TakenAsClosed /\ mem' \in Position
      BY <2>4, <3>1 DEF CloseFills, CloseUnfilled, TakenAsClosed
    <3>3. CASE CloseFills
      BY <1>0, <3>2, <3>3 DEF CloseFills, TakenAsClosed, Leaves
    <3>4. CASE CloseUnfilled
      <4>1. exposed' \in BOOLEAN /\ unfilled' \in BOOLEAN
        BY <3>4 DEF CloseUnfilled
      <4> QED BY <3>2, <3>4, <4>1 DEF CloseUnfilled, TakenAsClosed
    <3> QED BY <2>4, <3>3, <3>4
  <2>5. ASSUME NEW lost \in BOOLEAN, CancelRaises(lost) PROVE TypeOK'
    <3>1. exposed' \in BOOLEAN
      BY <2>5 DEF CancelRaises
    <3> QED BY <1>0, <2>5, <3>1 DEF CancelRaises
  <2>6. ASSUME NEW lost \in BOOLEAN, CloseFails(lost) PROVE TypeOK'
    BY <2>6 DEF CloseFails
  <2>7. CASE ReadDetail
    BY <2>7 DEF ReadDetail
  <2>10. CASE DetailFails
    <3>1. unfilled' \in BOOLEAN
      BY <2>10 DEF DetailFails
    <3> QED BY <1>0, <2>10, <3>1 DEF DetailFails
  <2>8. CASE Record
    BY <2>8 DEF Record, Position
  <2>9. CASE SaveClosed
    BY <2>9, EnteredType DEF SaveClosed, ClearAndSave
  <2> QED BY <1>3, <2>1, <2>2, <2>3, <2>4, <2>5, <2>6, <2>7, <2>8, <2>9, <2>10 DEF Closing
<1>4. CASE Stops
  <2>1. CASE Place
    <3>1. (IF job = "repair" THEN [mem EXCEPT !.bare = FALSE] ELSE mem) \in Position
      BY DEF Position
    <3>2. mem' \in Position /\ disk' \in Position /\ pc' \in {"idle", "place"}
          /\ job' \in {"none", "rearm"} /\ why' \in Reasons \cup {"none"}
      BY <2>1, <3>1, AfterRestoreType DEF Place
    <3>3. resting' \in 0 .. 2 /\ excused' \in BOOLEAN
      BY <2>1 DEF Place, AtMost
    <3> QED BY <2>1, <3>2, <3>3 DEF Place
  <2>2. ASSUME NEW lost \in BOOLEAN, PlaceRaises(lost) PROVE TypeOK'
    <3>1. \A seen \in BOOLEAN : Unrestored(mem, seen) \in Position
      BY DEF Unrestored, Position
    <3>2. mem' \in Position /\ disk' \in Position /\ pc' \in {"idle", "place"}
          /\ job' \in {"none", "rearm"} /\ why' \in Reasons \cup {"none"}
      BY <2>2, <3>1, AfterRestoreType DEF PlaceRaises
    <3>3. resting' \in 0 .. 2 /\ exposed' \in BOOLEAN
      BY <2>2 DEF PlaceRaises, AtMost
    <3> QED BY <2>2, <3>2, <3>3 DEF PlaceRaises
  <2>3. CASE Recancel
    BY <2>3 DEF Recancel
  <2>4. ASSUME NEW lost \in BOOLEAN, RecancelRaises(lost) PROVE TypeOK'
    BY <2>4 DEF RecancelRaises
  <2>5. ASSUME NEW lost \in BOOLEAN, MoveRaises(lost) PROVE TypeOK'
    BY <2>5 DEF MoveRaises, AtMost, AfterMoveFailed
  <2>6. CASE StartMove
    <3>1. mem.moves + 1 \in 0 .. MaxMoves
      BY <2>6 DEF StartMove, MovesLeft, Position
    <3>2. [mem EXCEPT !.moves = @ + 1, !.moveAge = 0] \in Position
      BY <1>0, <3>1 DEF Position
    <3> QED BY <2>6, <3>2 DEF StartMove
  <2>7. CASE MoveCancel
    BY <2>7 DEF MoveCancel
  <2>8. CASE MovePlace
    <3>1. [mem EXCEPT !.be = TRUE] \in Position
      BY DEF Position
    <3>2. AtMost(resting + 1, 2) \in 0 .. 2
      BY DEF AtMost
    <3> QED BY <2>8, <3>1, <3>2 DEF MovePlace
  <2>9. CASE StartRepair
    BY <2>9 DEF StartRepair, Position
  <2> QED BY <1>4, <2>1, <2>2, <2>3, <2>4, <2>5, <2>6, <2>7, <2>8, <2>9 DEF Stops
<1>5. CASE Reconcile
  <2>0. ASSUME ClearMiss PROVE mem' \in Position /\ disk' \in Position /\ doubted' \in BOOLEAN
    <3>1. [mem EXCEPT !.missAge = NoMiss] \in Position
      BY DEF Position
    <3> QED BY <2>0, <3>1 DEF ClearMiss
  <2>1. CASE ReconcileSees
    BY <2>0, <2>1 DEF ReconcileSees
  <2>2. CASE ReconcileMisses
    BY <2>2 DEF ReconcileMisses, AtMost
  <2>3. CASE HistoryFails
    BY <2>3 DEF HistoryFails
  <2>4. CASE RowFound
    BY <2>0, <2>4 DEF RowFound
  <2>5. CASE RowMissing
    <3>1. [mem EXCEPT !.missAge = 0] \in Position /\ Cleared(mem) \in Position
      BY EnteredType DEF Position
    <3>2. mem' \in Position /\ disk' \in Position /\ doubted' \in BOOLEAN
      BY <2>5, <3>1 DEF RowMissing
    <3> QED BY <2>5, <3>2 DEF RowMissing
  <2> QED BY <1>5, <2>1, <2>2, <2>3, <2>4, <2>5 DEF Reconcile
<1>6. CASE UNCHANGED vars
  BY <1>6 DEF vars
<1> QED BY <1>1, <1>2, <1>3, <1>4, <1>5, <1>6 DEF Next

(* Every variable keeps its type: in particular the tries, ages and counts   *)
(* that bound the retries stay inside their ranges.                          *)
THEOREM GuardTypeOK == Spec => []TypeOK
  BY TypeInit, TypeStep, PTL DEF Spec

-----------------------------------------------------------------------------
(* The ledger.  A miss marker, the same in memory and in the file, is never  *)
(* older than the position has been gone unless a listing left it out while  *)
(* it was held; memory and file agree on whether it is held; and a held      *)
(* position has no row yet, but for the one just added.                      *)
MissHonest == mem.missAge # NoMiss => doubted \/ (~xOpen /\ mem.missAge <= absent)

LedgerInv ==
    /\ TypeOK
    /\ row = "none" <=> xOpen
    /\ xOpen => absent = 0
    /\ (row = "owed" /\ Lag < Grace) => absent <= Lag
    /\ ~up => pc = "idle"
    /\ pc # "idle" => mem.tracked
    /\ unfilled => xOpen
    /\ pc \in {"detail", "record", "save"} => ~xOpen \/ unfilled
    /\ mem.tracked <=> disk.tracked
    /\ mem.missAge = disk.missAge
    /\ mem.tracked => disk.recs = 0 /\ mem.recs = IF pc = "save" THEN 1 ELSE 0
    /\ ~mem.tracked => disk.recs = mem.recs /\ mem.recs \in {0, 1}
    /\ Lag < Grace => NoCloseIsLost
    /\ MissHonest
    /\ (mem.tracked /\ mem.missAge = NoMiss) => ~doubted

(* p's ledger fields are q's. *)
SameEntry(p, q) == p.tracked = q.tracked /\ p.recs = q.recs /\ p.missAge = q.missAge

(* A step that neither closes, books, misses nor ages the position.          *)
LEMMA QuietStep ==
    ASSUME LedgerInv, TypeOK', UNCHANGED <<xOpen, row, absent, doubted, unfilled>>,
           SameEntry(mem', mem), SameEntry(disk', disk) \/ SameEntry(disk', mem),
           pc # "save", pc' # "save",
           ~up' => pc' = "idle",
           pc' # "idle" => mem.tracked,
           pc' \in {"detail", "record"} => ~xOpen \/ unfilled
    PROVE  LedgerInv'
  BY DEF LedgerInv, SameEntry, MissHonest, NoCloseIsLost, TypeOK

LEMMA LedgerInit == Init => LedgerInv
<1> SUFFICES ASSUME Init PROVE LedgerInv
  OBVIOUS
<1> QED BY TypeInit, GuardAssumption DEF Init, LedgerInv, MissHonest, Entered, NoCloseIsLost, NoMiss

(* The answer of a restore leaves the ledger alone whichever handler gets it. *)
LEMMA AfterRestoreQuiet ==
    ASSUME LedgerInv, TypeOK', pc = "place",
           NEW p, SameEntry(p, mem), p \in Position,
           NEW restored \in BOOLEAN, AfterRestore(restored, p),
           UNCHANGED <<xOpen, row, absent, doubted, unfilled, up>>
    PROVE  LedgerInv'
<1>1. pc' \in {"idle", "place"} /\ (up => mem.tracked) /\ mem.tracked
  BY DEF AfterRestore, Back, Goto, LedgerInv
<1>2. up
  BY DEF LedgerInv
<1>3. SameEntry(mem', mem) /\ (SameEntry(disk', disk) \/ SameEntry(disk', mem))
  <2>1. CASE NoteCloseFailed(p)
    BY <2>1 DEF NoteCloseFailed, Save, SameEntry, Position
  <2>2. CASE mem' = p /\ UNCHANGED disk
    BY <2>2 DEF SameEntry
  <2>3. CASE Save(p)
    BY <2>3 DEF Save, SameEntry
  <2> QED BY <2>1, <2>2, <2>3 DEF AfterRestore
<1> QED BY <1>1, <1>2, <1>3, QuietStep

LEMMA LedgerStep == LedgerInv /\ [Next]_vars => LedgerInv'
<1> SUFFICES ASSUME LedgerInv, [Next]_vars PROVE LedgerInv'
  OBVIOUS
<1>0. TypeOK /\ TypeOK'
  BY TypeStep DEF LedgerInv
<1> USE DEF Goto, Back, Idle, exchange, control, ghosts
<1>1. CASE External
  <2>1. ASSUME Leaves, xOpen, UNCHANGED <<control, mem, disk, doubted>> PROVE LedgerInv'
    BY <1>0, <2>1, GuardAssumption DEF Leaves, LedgerInv, MissHonest, NoCloseIsLost, TypeOK
  <2>2. CASE ExchangeCloses
    BY <2>1, <2>2 DEF ExchangeCloses
  <2>3. CASE InflightSettles
    <3>1. CASE Leaves /\ xOpen
      BY <2>1, <2>3, <3>1 DEF InflightSettles
    <3>2. CASE UNCHANGED <<xOpen, resting, row, absent, exposed, unfilled>>
      BY <1>0, <2>3, <3>2 DEF InflightSettles, LedgerInv, MissHonest, NoCloseIsLost
    <3> QED BY <2>3, <3>1, <3>2 DEF InflightSettles
  <2>4. CASE PublishRow
    BY <1>0, <2>4 DEF PublishRow, LedgerInv, MissHonest, NoCloseIsLost
  <2>5. CASE Tick
    <3>1. \A p \in Position : /\ Older(p).tracked = p.tracked /\ Older(p).recs = p.recs
                              /\ (Older(p).missAge # NoMiss) => p.missAge # NoMiss
                              /\ p.missAge # NoMiss => Older(p).missAge = AtMost(p.missAge + 1, Grace)
      BY DEF Older, Position
    <3>2. (mem.missAge # NoMiss /\ mem.missAge <= absent)
             => AtMost(mem.missAge + 1, Grace) <= AtMost(absent + 1, Grace)
      BY <1>0, GuardAssumption DEF AtMost, Position, TypeOK, NoMiss
    <3>3. mem' = Older(mem) /\ disk' = Older(disk)
          /\ UNCHANGED <<xOpen, row, up, pc, doubted, unfilled>>
      BY <2>5 DEF Tick
    <3>4. ~xOpen => absent' = AtMost(absent + 1, Grace)
      BY <2>5 DEF Tick
    <3>5. MissHonest'
      BY <1>0, <3>1, <3>2, <3>3, <3>4 DEF MissHonest, LedgerInv, TypeOK
    <3>6. xOpen' => absent' = 0
      BY <2>5, <3>3 DEF Tick
    <3>7. (row' = "owed" /\ Lag < Grace) => absent' <= Lag
      BY <1>0, <2>5, GuardAssumption DEF Tick, AtMost, TypeOK, LedgerInv
    <3>8. mem'.tracked = mem.tracked /\ mem'.recs = mem.recs
          /\ disk'.tracked = disk.tracked /\ disk'.recs = disk.recs
      BY <1>0, <3>1, <3>3 DEF TypeOK
    <3>9. mem'.missAge = disk'.missAge /\ (mem'.missAge = NoMiss => mem.missAge = NoMiss)
      <4>1. \A p \in Position : Older(p).missAge = IF p.missAge = NoMiss THEN NoMiss
                                                   ELSE AtMost(p.missAge + 1, Grace)
        BY DEF Older, Position
      <4>2. mem.missAge # NoMiss => AtMost(mem.missAge + 1, Grace) # NoMiss
        BY <1>0, GuardAssumption DEF AtMost, Position, TypeOK, NoMiss
      <4> QED BY <1>0, <3>3, <4>1, <4>2 DEF LedgerInv, TypeOK
    <3> QED BY <1>0, <3>3, <3>5, <3>6, <3>7, <3>8, <3>9 DEF LedgerInv, NoCloseIsLost
  <2>6. CASE Crash
    BY <1>0, <2>6 DEF Crash, LedgerInv, MissHonest, NoCloseIsLost
  <2> QED BY <1>1, <2>2, <2>3, <2>4, <2>5, <2>6 DEF External
<1>2. CASE Boot \/ SaveElsewhere
  <2>1. CASE Boot
    BY <1>0, <2>1 DEF Boot, LedgerInv, MissHonest, NoCloseIsLost
  <2>2. CASE SaveElsewhere
    BY <1>0, <2>2, QuietStep DEF SaveElsewhere, SameEntry
  <2> QED BY <1>2, <2>1, <2>2
<1>3. CASE Closing
  <2>1. ASSUME NEW r \in Reasons, StartExit(r) PROVE LedgerInv'
    BY <1>0, <2>1, QuietStep DEF StartExit, SameEntry
  <2>2. CASE StartForce \/ StartPreempt
    BY <1>0, <2>2, QuietStep DEF StartForce, StartPreempt, SameEntry
  <2>3. CASE Cancel
    BY <1>0, <2>3, QuietStep DEF Cancel, SameEntry, LedgerInv
  <2>4. CASE CloseFills \/ CloseUnfilled
    <3>1. /\ SameEntry(mem', mem) /\ disk' = disk
          /\ pc = "send" /\ pc' = "detail" /\ up' = up /\ xOpen /\ doubted' = doubted
      BY <1>0, <2>4 DEF CloseFills, CloseUnfilled, TakenAsClosed, SameEntry, TypeOK, Position
    <3>2. CASE CloseFills
      <4>1. xOpen' = FALSE /\ row' = "owed" /\ absent' = 0 /\ unfilled' = FALSE
        BY <3>2 DEF CloseFills, Leaves
      <4> QED BY <1>0, <3>1, <4>1, GuardAssumption
              DEF LedgerInv, MissHonest, NoCloseIsLost, SameEntry, TypeOK
    <3>3. CASE CloseUnfilled
      <4>1. UNCHANGED <<xOpen, row, absent>> /\ unfilled' = TRUE
        BY <3>3 DEF CloseUnfilled
      <4> QED BY <1>0, <3>1, <4>1
              DEF LedgerInv, MissHonest, NoCloseIsLost, SameEntry, TypeOK
    <3> QED BY <2>4, <3>2, <3>3
  <2>5. ASSUME NEW lost \in BOOLEAN, CancelRaises(lost) PROVE LedgerInv'
    BY <1>0, <2>5, QuietStep DEF CancelRaises, SameEntry, LedgerInv
  <2>6. ASSUME NEW lost \in BOOLEAN, CloseFails(lost) PROVE LedgerInv'
    BY <1>0, <2>6, QuietStep DEF CloseFails, SameEntry, LedgerInv
  <2>7. CASE ReadDetail
    BY <1>0, <2>7, QuietStep DEF ReadDetail, SameEntry, LedgerInv
  <2>10. CASE DetailFails
    <3>1. /\ pc = "detail" /\ pc' \in {"idle", "place"} /\ unfilled' = FALSE
          /\ UNCHANGED <<xOpen, row, absent, up, mem, disk, doubted>>
      BY <2>10 DEF DetailFails
    <3> QED BY <1>0, <3>1 DEF LedgerInv, MissHonest, NoCloseIsLost
  <2>8. CASE Record
    <3>1. mem'.tracked = mem.tracked /\ mem'.recs = mem.recs + 1 /\ mem'.missAge = mem.missAge
      BY <1>0, <2>8 DEF Record, TypeOK, Position
    <3>2. pc = "record" /\ pc' = "save"
          /\ UNCHANGED <<xOpen, row, absent, up, disk, doubted, unfilled>>
      BY <2>8 DEF Record
    <3> QED BY <1>0, <3>1, <3>2 DEF LedgerInv, MissHonest, NoCloseIsLost
  <2>9. CASE SaveClosed
    <3>1. /\ mem' = Cleared(mem) /\ disk' = Cleared(mem) /\ pc = "save" /\ pc' = "idle"
          /\ UNCHANGED <<xOpen, row, absent, up, unfilled>>
      BY <2>9 DEF SaveClosed, ClearAndSave, Save
    <3>2. Cleared(mem).tracked = FALSE /\ Cleared(mem).recs = mem.recs
          /\ Cleared(mem).missAge = NoMiss
      BY DEF Cleared, Entered
    <3> QED BY <1>0, <3>1, <3>2 DEF LedgerInv, MissHonest, NoCloseIsLost
  <2> QED BY <1>3, <2>1, <2>2, <2>3, <2>4, <2>5, <2>6, <2>7, <2>8, <2>9, <2>10 DEF Closing
<1>4. CASE Stops
  <2>1. CASE Place
    <3>1. /\ (IF job = "repair" THEN [mem EXCEPT !.bare = FALSE] ELSE mem) \in Position
          /\ SameEntry(IF job = "repair" THEN [mem EXCEPT !.bare = FALSE] ELSE mem, mem)
      BY <1>0 DEF Position, TypeOK, SameEntry
    <3> QED BY <1>0, <2>1, <3>1, AfterRestoreQuiet DEF Place
  <2>2. ASSUME NEW lost \in BOOLEAN, PlaceRaises(lost) PROVE LedgerInv'
    <3>1. \A seen \in BOOLEAN : /\ Unrestored(mem, seen) \in Position
                                /\ SameEntry(Unrestored(mem, seen), mem)
      BY <1>0 DEF Unrestored, Position, TypeOK, SameEntry
    <3> QED BY <1>0, <2>2, <3>1, AfterRestoreQuiet DEF PlaceRaises
  <2>3. CASE Recancel
    BY <1>0, <2>3, QuietStep DEF Recancel, SameEntry, LedgerInv
  <2>4. ASSUME NEW lost \in BOOLEAN, RecancelRaises(lost) PROVE LedgerInv'
    BY <1>0, <2>4, QuietStep DEF RecancelRaises, SameEntry, LedgerInv
  <2>5. ASSUME NEW lost \in BOOLEAN, MoveRaises(lost) PROVE LedgerInv'
    BY <1>0, <2>5, QuietStep DEF MoveRaises, SameEntry, LedgerInv, AfterMoveFailed
  <2>6. CASE StartMove \/ StartRepair
    <3>1. SameEntry(mem', mem)
      BY <1>0, <2>6 DEF StartMove, StartRepair, SameEntry, TypeOK, Position
    <3> QED BY <1>0, <2>6, <3>1, QuietStep DEF StartMove, StartRepair, SameEntry
  <2>7. CASE MoveCancel
    BY <1>0, <2>7, QuietStep DEF MoveCancel, SameEntry, LedgerInv
  <2>8. CASE MovePlace
    <3>1. SameEntry(mem', mem) /\ SameEntry(disk', mem)
      BY <1>0, <2>8 DEF MovePlace, Save, SameEntry, TypeOK, Position
    <3> QED BY <1>0, <2>8, <3>1, QuietStep DEF MovePlace, LedgerInv
  <2> QED BY <1>4, <2>1, <2>2, <2>3, <2>4, <2>5, <2>6, <2>7, <2>8 DEF Stops
<1>5. CASE Reconcile
  <2>0. ASSUME ClearMiss
        PROVE  /\ mem'.tracked = mem.tracked /\ mem'.recs = mem.recs
               /\ disk'.tracked = disk.tracked
               /\ pc # "save" => disk'.recs = disk.recs
               /\ mem'.missAge = NoMiss /\ disk'.missAge = NoMiss
               /\ mem.tracked => ~doubted'
    BY <1>0, <2>0 DEF ClearMiss, Save, LedgerInv, TypeOK, Position
  <2>1. CASE ReconcileSees
    <3>1. /\ ClearMiss /\ mem.tracked /\ pc = "idle"
          /\ UNCHANGED <<xOpen, row, absent, up, pc, unfilled>>
      BY <2>1 DEF ReconcileSees
    <3> QED BY <1>0, <2>0, <3>1 DEF LedgerInv, MissHonest, NoCloseIsLost
  <2>2. CASE ReconcileMisses
    BY <1>0, <2>2, QuietStep DEF ReconcileMisses, SameEntry, LedgerInv
  <2>3. CASE HistoryFails
    BY <1>0, <2>3, QuietStep DEF HistoryFails, SameEntry, LedgerInv
  <2>4. CASE RowFound
    <3>1. /\ ClearMiss /\ mem.tracked /\ pc = "history" /\ pc' = "record" /\ ~xOpen
          /\ UNCHANGED <<xOpen, row, absent, up, unfilled>>
      BY <2>4 DEF RowFound, LedgerInv
    <3> QED BY <1>0, <2>0, <3>1 DEF LedgerInv, MissHonest, NoCloseIsLost
  <2>5. CASE RowMissing
    <3>1. /\ row # "out" /\ mem.tracked /\ pc = "history" /\ pc' = "idle"
          /\ UNCHANGED <<xOpen, row, absent, up, unfilled>>
          /\ mem.recs = 0 /\ disk.tracked = mem.tracked /\ disk.recs = 0
      BY <2>5 DEF RowMissing, LedgerInv
    <3>2. CASE mem.missAge = NoMiss /\ Save([mem EXCEPT !.missAge = 0]) /\ doubted' = xOpen
      <4>1. mem'.tracked = mem.tracked /\ mem'.recs = mem.recs /\ mem'.missAge = 0 /\ disk' = mem'
        BY <1>0, <3>2 DEF Save, TypeOK, Position
      <4>2. 0 <= absent /\ xOpen \in BOOLEAN
        BY <1>0 DEF TypeOK
      <4>3. MissHonest'
        BY <3>1, <3>2, <4>1, <4>2 DEF MissHonest
      <4>4. NoCloseIsLost'
        BY <3>1, <4>1 DEF NoCloseIsLost
      <4>5. mem'.missAge # NoMiss
        BY <4>1 DEF NoMiss
      <4> QED BY <1>0, <3>1, <4>1, <4>3, <4>4, <4>5 DEF LedgerInv
    <3>3. CASE mem.missAge # NoMiss /\ MissExpired(mem) /\ Save(Cleared(mem)) /\ UNCHANGED doubted
      <4>1. doubted \/ (~xOpen /\ mem.missAge <= absent /\ mem.missAge >= Grace)
        BY <3>3 DEF LedgerInv, MissHonest, MissExpired
      <4>2. doubted \/ ~(Lag < Grace)
        BY <1>0, <3>1, <3>3, <4>1, GuardAssumption DEF LedgerInv, TypeOK, Position, NoMiss
      <4>3. /\ mem'.tracked = FALSE /\ mem'.recs = mem.recs /\ mem'.missAge = NoMiss
            /\ disk' = mem'
        BY <3>3 DEF Save, Cleared, Entered
      <4>4. Lag < Grace => NoCloseIsLost'
        BY <3>3, <4>2 DEF NoCloseIsLost
      <4> QED BY <1>0, <3>1, <4>3, <4>4 DEF LedgerInv, MissHonest
    <3>4. CASE UNCHANGED <<mem, disk, doubted>>
      BY <1>0, <2>5, <3>1, <3>4, QuietStep DEF RowMissing, SameEntry, LedgerInv
    <3> QED BY <2>5, <3>2, <3>3, <3>4 DEF RowMissing
  <2> QED BY <1>5, <2>1, <2>2, <2>3, <2>4, <2>5 DEF Reconcile
<1>6. CASE UNCHANGED vars
  BY <1>0, <1>6 DEF vars, LedgerInv, MissHonest, NoCloseIsLost
<1> QED BY <1>1, <1>2, <1>3, <1>4, <1>5, <1>6 DEF Next

(* The strengthening holds of every state.                                   *)
LEMMA LedgerInvariant == Spec => []LedgerInv
  BY LedgerInit, LedgerStep, PTL DEF Spec

(* Whatever the grace, as long as MEXC publishes a closed row before it ends: *)
(* no close, by whomever, and no restart between two steps loses the trade or *)
(* records it twice, unless the grace was started by a listing that left out  *)
(* a position MEXC held.                                                      *)
THEOREM CloseNeverLost ==
    ASSUME Lag < Grace
    PROVE  Spec => []NoCloseIsLost
<1>1. LedgerInv => NoCloseIsLost
  BY DEF LedgerInv
<1> QED BY <1>1, LedgerInvariant, PTL

-----------------------------------------------------------------------------
(* The state file implements TradeLedger.                                    *)
(* Steps that leave the position in the exchange's book and in the file alone *)
(* are invisible in the ledger.                                              *)
LEMMA InvisibleStep ==
    ASSUME UNCHANGED <<xOpen, absent, doubted, unfilled>>,
           disk'.tracked = disk.tracked,
           disk'.recs = disk.recs \/ disk.tracked
    PROVE  UNCHANGED Ledger!vars
  BY DEF Ledger!vars

LEMMA AfterRestoreInvisible ==
    ASSUME LedgerInv, TypeOK', pc = "place",
           NEW p \in Position, SameEntry(p, mem),
           NEW restored \in BOOLEAN, AfterRestore(restored, p),
           UNCHANGED <<xOpen, absent, doubted, unfilled>>
    PROVE  UNCHANGED Ledger!vars
<1>1. SameEntry(disk', disk) \/ SameEntry(disk', mem)
  <2>1. CASE NoteCloseFailed(p)
    BY <2>1 DEF NoteCloseFailed, Save, SameEntry, Position
  <2>2. CASE UNCHANGED disk
    BY <2>2 DEF SameEntry
  <2>3. CASE Save(p)
    BY <2>3 DEF Save, SameEntry
  <2> QED BY <2>1, <2>2, <2>3 DEF AfterRestore
<1> QED BY <1>1, InvisibleStep DEF SameEntry, LedgerInv

LEMMA LedgerRefined ==
    LedgerInv /\ LedgerInv' /\ [Next]_vars => [Ledger!Next]_Ledger!vars
<1> SUFFICES ASSUME LedgerInv, LedgerInv', [Next]_vars PROVE [Ledger!Next]_Ledger!vars
  OBVIOUS
<1>0. TypeOK /\ TypeOK'
  BY DEF LedgerInv
<1> USE DEF Goto, Back, Idle, exchange, control, ghosts
<1>1. CASE External
  <2>1. ASSUME Leaves, xOpen, UNCHANGED <<disk, doubted>> PROVE Ledger!CloseOnExchange
    BY <2>1 DEF Leaves, Ledger!CloseOnExchange, LedgerInv
  <2>2. CASE ExchangeCloses
    BY <2>1, <2>2 DEF ExchangeCloses, Ledger!Next
  <2>3. CASE InflightSettles
    <3>1. CASE Leaves /\ xOpen
      BY <2>1, <2>3, <3>1 DEF InflightSettles, Ledger!Next
    <3>2. CASE UNCHANGED <<xOpen, resting, row, absent, exposed, unfilled>>
      BY <2>3, <3>2, InvisibleStep DEF InflightSettles
    <3> QED BY <2>3, <3>1, <3>2 DEF InflightSettles
  <2>4. CASE PublishRow
    BY <2>4, InvisibleStep DEF PublishRow
  <2>5. CASE Tick
    <3>1. disk'.tracked = disk.tracked /\ disk'.recs = disk.recs
          /\ UNCHANGED <<xOpen, doubted, unfilled>>
      BY <1>0, <2>5 DEF Tick, Older, TypeOK, Position
    <3>2. CASE xOpen \/ absent = Grace
      <4>1. absent' = absent
        BY <1>0, <2>5, <3>2, GuardAssumption DEF Tick, AtMost, LedgerInv, TypeOK
      <4> QED BY <3>1, <4>1, InvisibleStep
    <3>3. CASE ~xOpen /\ absent # Grace
      <4>1. absent < Grace /\ absent' = absent + 1
        BY <1>0, <2>5, <3>3, GuardAssumption DEF Tick, AtMost, TypeOK
      <4> QED BY <3>1, <3>3, <4>1 DEF Ledger!Next, Ledger!Pass
    <3> QED BY <3>2, <3>3
  <2>6. CASE Crash
    <3>1. UNCHANGED <<xOpen, absent, doubted, disk>> /\ unfilled' = (unfilled /\ ~mem.tracked)
      BY <2>6 DEF Crash
    <3>2. CASE unfilled /\ mem.tracked
      BY <3>1, <3>2 DEF LedgerInv, Ledger!Next, Ledger!NotBooked
    <3>3. CASE ~(unfilled /\ mem.tracked)
      BY <1>0, <3>1, <3>3, InvisibleStep DEF TypeOK
    <3> QED BY <3>2, <3>3
  <2> QED BY <1>1, <2>2, <2>3, <2>4, <2>5, <2>6 DEF External
<1>2. CASE Boot \/ SaveElsewhere
  BY <1>2, InvisibleStep DEF Boot, SaveElsewhere, LedgerInv
<1>3. CASE Closing
  <2>1. CASE CloseFills \/ CloseUnfilled
    <3>1. pc = "send" /\ xOpen /\ mem.tracked /\ disk.tracked /\ UNCHANGED <<disk, doubted>>
      BY <2>1 DEF CloseFills, CloseUnfilled, TakenAsClosed, LedgerInv
    <3>2. CASE CloseFills
      BY <3>1, <3>2 DEF CloseFills, Leaves, LedgerInv, Ledger!Next, Ledger!CloseOnExchange
    <3>3. CASE CloseUnfilled
      <4>1. unfilled' = TRUE /\ UNCHANGED <<xOpen, absent>>
        BY <3>3 DEF CloseUnfilled
      <4>2. CASE unfilled
        BY <1>0, <3>1, <4>1, <4>2, InvisibleStep DEF TypeOK
      <4>3. CASE ~unfilled
        BY <3>1, <4>1, <4>3 DEF Ledger!Next, Ledger!TakenAsClosed
      <4> QED BY <4>2, <4>3
    <3> QED BY <2>1, <3>2, <3>3
  <2>2. CASE SaveClosed
    <3>1. /\ disk'.tracked = FALSE /\ disk'.recs = mem.recs
          /\ UNCHANGED <<xOpen, absent, doubted, unfilled>>
      BY <2>2 DEF SaveClosed, ClearAndSave, Save, Cleared, Entered
    <3>2. disk.tracked /\ mem.recs = 1 /\ (~xOpen \/ unfilled)
      BY <2>2 DEF SaveClosed, LedgerInv
    <3> QED BY <3>1, <3>2 DEF Ledger!Next, Ledger!Record
  <2>3. CASE DetailFails
    <3>1. UNCHANGED <<xOpen, absent, doubted, disk>> /\ unfilled' = FALSE /\ disk.tracked
      BY <2>3 DEF DetailFails, LedgerInv
    <3>2. CASE unfilled
      BY <3>1, <3>2 DEF Ledger!Next, Ledger!NotBooked
    <3>3. CASE ~unfilled
      BY <1>0, <3>1, <3>3, InvisibleStep DEF TypeOK
    <3> QED BY <3>2, <3>3
  <2>4. \/ UNCHANGED <<xOpen, absent, doubted, unfilled, disk>>
        \/ CloseFills \/ CloseUnfilled \/ SaveClosed \/ DetailFails
    BY <1>3 DEF Closing, StartExit, StartForce, StartPreempt, Cancel, CancelRaises, CloseFails,
                ReadDetail, Record
  <2> QED BY <2>1, <2>2, <2>3, <2>4, InvisibleStep
<1>4. CASE Stops
  <2>1. CASE Place
    <3>1. /\ (IF job = "repair" THEN [mem EXCEPT !.bare = FALSE] ELSE mem) \in Position
          /\ SameEntry(IF job = "repair" THEN [mem EXCEPT !.bare = FALSE] ELSE mem, mem)
      BY <1>0 DEF Position, TypeOK, SameEntry
    <3> QED BY <1>0, <2>1, <3>1, AfterRestoreInvisible DEF Place
  <2>2. ASSUME NEW lost \in BOOLEAN, PlaceRaises(lost) PROVE UNCHANGED Ledger!vars
    <3>1. \A seen \in BOOLEAN : /\ Unrestored(mem, seen) \in Position
                                /\ SameEntry(Unrestored(mem, seen), mem)
      BY <1>0 DEF Unrestored, Position, TypeOK, SameEntry
    <3> QED BY <1>0, <2>2, <3>1, AfterRestoreInvisible DEF PlaceRaises
  <2>3. CASE MovePlace
    <3>1. /\ disk'.tracked = mem.tracked /\ disk'.recs = mem.recs
          /\ UNCHANGED <<xOpen, absent, doubted, unfilled>>
      BY <1>0, <2>3 DEF MovePlace, Save, TypeOK, Position
    <3> QED BY <2>3, <3>1, InvisibleStep DEF MovePlace, LedgerInv
  <2>4. \/ UNCHANGED <<xOpen, absent, doubted, unfilled, disk>>
        \/ Place \/ MovePlace \/ \E lost \in BOOLEAN : PlaceRaises(lost)
    BY <1>4 DEF Stops, Recancel, RecancelRaises, MoveRaises, StartMove, MoveCancel, StartRepair
  <2> QED BY <2>1, <2>2, <2>3, <2>4, InvisibleStep
<1>5. CASE Reconcile
  <2>1. ASSUME ClearMiss, pc # "save", mem.tracked, UNCHANGED <<xOpen, absent, unfilled>>
        PROVE  [Ledger!Next]_Ledger!vars
    <3>1. disk'.tracked = disk.tracked /\ disk'.recs = disk.recs /\ disk.tracked
      BY <1>0, <2>1 DEF ClearMiss, Save, LedgerInv, TypeOK, Position
    <3>2. UNCHANGED doubted \/ (doubted' = FALSE /\ doubted)
      BY <1>0, <2>1 DEF ClearMiss, TypeOK
    <3>3. CASE doubted' = FALSE /\ doubted
      BY <2>1, <3>1, <3>3 DEF Ledger!Next, Ledger!Cleared
    <3> QED BY <2>1, <3>1, <3>2, <3>3, InvisibleStep
  <2>2. CASE RowMissing
    <3>1. mem.tracked /\ disk.tracked /\ mem.recs = 0 /\ UNCHANGED <<xOpen, absent, unfilled>>
      BY <2>2 DEF RowMissing, LedgerInv
    <3>2. CASE mem.missAge = NoMiss /\ Save([mem EXCEPT !.missAge = 0]) /\ doubted' = xOpen
      <4>1. ~doubted /\ disk'.tracked
        BY <1>0, <3>1, <3>2 DEF LedgerInv, Save, TypeOK, Position
      <4>2. CASE xOpen
        BY <1>0, <3>1, <3>2, <4>1, <4>2 DEF Ledger!Next, Ledger!LeftOut, TypeOK
      <4>3. CASE ~xOpen
        BY <1>0, <3>1, <3>2, <4>1, <4>3, InvisibleStep DEF TypeOK
      <4> QED BY <4>2, <4>3
    <3>3. CASE mem.missAge # NoMiss /\ MissExpired(mem) /\ Save(Cleared(mem)) /\ UNCHANGED doubted
      <4>1. doubted \/ absent = Grace
        BY <1>0, <3>3, GuardAssumption
        DEF LedgerInv, MissHonest, MissExpired, TypeOK, Position, NoMiss
      <4>2. disk'.tracked = FALSE /\ disk'.recs = 0
        BY <3>1, <3>3 DEF Save, Cleared, Entered
      <4> QED BY <3>1, <3>3, <4>1, <4>2 DEF Ledger!Next, Ledger!Drop
    <3>4. CASE UNCHANGED <<mem, disk, doubted>>
      BY <3>1, <3>4, InvisibleStep
    <3> QED BY <2>2, <3>2, <3>3, <3>4 DEF RowMissing
  <2>3. CASE ReconcileSees
    BY <2>1, <2>3 DEF ReconcileSees
  <2>4. CASE RowFound
    <3>1. mem.tracked
      BY <2>4 DEF RowFound, LedgerInv
    <3> QED BY <2>1, <2>4, <3>1 DEF RowFound
  <2>5. CASE ReconcileMisses \/ HistoryFails
    BY <2>5, InvisibleStep DEF ReconcileMisses, HistoryFails
  <2> QED BY <1>5, <2>2, <2>3, <2>4, <2>5 DEF Reconcile
<1>6. CASE UNCHANGED vars
  BY <1>6, InvisibleStep DEF vars
<1> QED BY <1>1, <1>2, <1>3, <1>4, <1>5, <1>6 DEF Next

(* For every grace and publishing delay, every handler set and every set of  *)
(* faults the state file follows TradeLedger: the position leaves it once,   *)
(* recorded only after MEXC has closed it or by the handler whose accepted   *)
(* close did not fill, and unrecorded only after the whole grace or under a  *)
(* doubt that no listing has cleared.                                        *)
THEOREM FileImplementsLedger == Spec => LedgerSpec
<1>1. Init => Ledger!Init
  BY DEF Init, Ledger!Init, Entered
<1>2. LedgerInv /\ LedgerInv' /\ [Next]_vars => [Ledger!Next]_Ledger!vars
  BY LedgerRefined
<1> QED BY <1>1, <1>2, LedgerInvariant, PTL DEF Spec, LedgerSpec, Ledger!Spec

-----------------------------------------------------------------------------
(* The resting stop.  Which handler can be at which step; an exit and a        *)
(* preemption have waited out the backoff, and a move runs without a latch.    *)
StopInv ==
    /\ TypeOK
    /\ ~up => pc = "idle" /\ job = "none"
    /\ pc = "idle" => job = "none"
    /\ pc = "cancel" => job \in {"exit", "force", "preempt"}
    /\ pc = "send" => job \in {"exit", "force", "forceKept", "preempt"}
    /\ pc \in {"moveCancel", "movePlace"} => job = "move"
    /\ pc = "recancel" => job \in {"move", "repair"}
    /\ pc = "cancel" /\ job \in {"exit", "preempt"} => mem.failAge = Backoff
    /\ job = "move" => mem.latch = "none"
    /\ "preempt" \notin Handlers => job \notin {"preempt", "rearm"}

LEMMA StopInit == Init => StopInv
  BY TypeInit DEF Init, StopInv

LEMMA AfterRestoreStop ==
    ASSUME StopInv, TypeOK', up, up' = up, pc = "place", NEW p, NEW restored \in BOOLEAN, AfterRestore(restored, p)
    PROVE  StopInv'
<1>1. \/ pc' = "idle" /\ job' = "none"
      \/ pc' = "place" /\ job' = "rearm" /\ job = "preempt"
  BY DEF AfterRestore, Goto, Back, NoteCloseFailed
<1> QED BY <1>1 DEF StopInv

LEMMA StopStep == StopInv /\ [Next]_vars => StopInv'
<1> SUFFICES ASSUME StopInv, [Next]_vars PROVE StopInv'
  OBVIOUS
<1>0. TypeOK /\ TypeOK'
  BY TypeStep DEF StopInv
<1> USE DEF Goto, Back, Idle, exchange, control
<1>1. CASE External
  <2>1. CASE ExchangeCloses \/ InflightSettles \/ PublishRow
    BY <1>0, <2>1 DEF ExchangeCloses, InflightSettles, PublishRow, StopInv
  <2>2. CASE Tick
    <3>1. mem'.latch = mem.latch /\ (mem.failAge = Backoff => mem'.failAge = Backoff)
      BY <1>0, <2>2, GuardAssumption DEF Tick, Older, AtMost, TypeOK, Position
    <3> QED BY <1>0, <2>2, <3>1 DEF Tick, StopInv
  <2>3. CASE Crash
    BY <1>0, <2>3 DEF Crash, StopInv
  <2> QED BY <1>1, <2>1, <2>2, <2>3 DEF External
<1>2. CASE Boot \/ SaveElsewhere
  BY <1>0, <1>2 DEF Boot, SaveElsewhere, StopInv
<1>3. CASE Closing
  <2>1. ASSUME NEW r \in Reasons, StartExit(r) PROVE StopInv'
    <3>1. mem.failAge = Backoff
      BY <1>0, <2>1, GuardAssumption DEF StartExit, Deferred, TypeOK, Position
    <3> QED BY <1>0, <2>1, <3>1 DEF StartExit, StopInv
  <2>2. CASE StartForce
    BY <1>0, <2>2 DEF StartForce, StopInv
  <2>3. CASE StartPreempt
    <3>1. mem.failAge = Backoff
      BY <1>0, <2>3, GuardAssumption DEF StartPreempt, Deferred, TypeOK, Position
    <3> QED BY <1>0, <2>3, <3>1 DEF StartPreempt, StopInv
  <2>4. CASE Cancel
    BY <1>0, <2>4 DEF Cancel, StopInv
  <2>5. CASE CloseFills \/ CloseUnfilled
    BY <1>0, <2>5 DEF CloseFills, CloseUnfilled, TakenAsClosed, StopInv
  <2>6. ASSUME NEW lost \in BOOLEAN, CancelRaises(lost) PROVE StopInv'
    BY <1>0, <2>6 DEF CancelRaises, StopInv
  <2>7. ASSUME NEW lost \in BOOLEAN, CloseFails(lost) PROVE StopInv'
    BY <1>0, <2>7 DEF CloseFails, StopInv
  <2>8. CASE ReadDetail
    BY <1>0, <2>8 DEF ReadDetail, StopInv
  <2>9. CASE DetailFails
    BY <1>0, <2>9 DEF DetailFails, StopInv
  <2>10. CASE Record
    <3>1. mem'.latch = mem.latch
      BY <1>0, <2>10 DEF Record, TypeOK, Position
    <3> QED BY <1>0, <2>10, <3>1 DEF Record, StopInv
  <2>11. CASE SaveClosed
    BY <1>0, <2>11 DEF SaveClosed, StopInv
  <2> QED BY <1>3, <2>1, <2>2, <2>3, <2>4, <2>5, <2>6, <2>7, <2>8, <2>9, <2>10, <2>11 DEF Closing
<1>4. CASE Stops
  <2>1. CASE Place
    BY <1>0, <2>1, AfterRestoreStop DEF Place, StopInv
  <2>2. ASSUME NEW lost \in BOOLEAN, PlaceRaises(lost) PROVE StopInv'
    <3> PICK seen \in BOOLEAN : AfterRestore(FALSE, Unrestored(mem, seen))
      BY <2>2 DEF PlaceRaises
    <3> QED BY <1>0, <2>2, AfterRestoreStop DEF PlaceRaises, StopInv
  <2>3. CASE Recancel
    BY <1>0, <2>3 DEF Recancel, StopInv
  <2>4. ASSUME NEW lost \in BOOLEAN, RecancelRaises(lost) PROVE StopInv'
    BY <1>0, <2>4 DEF RecancelRaises, StopInv
  <2>5. ASSUME NEW lost \in BOOLEAN, MoveRaises(lost) PROVE StopInv'
    BY <1>0, <2>5 DEF MoveRaises, AfterMoveFailed, StopInv
  <2>6. CASE StartMove
    <3>1. mem'.latch = "none"
      BY <1>0, <2>6 DEF StartMove, TypeOK, Position
    <3> QED BY <1>0, <2>6, <3>1 DEF StartMove, StopInv
  <2>7. CASE MoveCancel
    BY <1>0, <2>7 DEF MoveCancel, StopInv
  <2>8. CASE MovePlace
    BY <1>0, <2>8 DEF MovePlace, StopInv
  <2>9. CASE StartRepair
    BY <1>0, <2>9 DEF StartRepair, StopInv
  <2> QED BY <1>4, <2>1, <2>2, <2>3, <2>4, <2>5, <2>6, <2>7, <2>8, <2>9 DEF Stops
<1>5. CASE Reconcile
  <2>1. CASE ReconcileSees
    <3>1. mem'.latch = mem.latch
      BY <1>0, <2>1 DEF ReconcileSees, ClearMiss, Save, TypeOK, Position
    <3> QED BY <1>0, <2>1, <3>1 DEF ReconcileSees, StopInv
  <2>2. CASE RowFound
    <3>1. mem'.latch = mem.latch
      BY <1>0, <2>2 DEF RowFound, ClearMiss, Save, TypeOK, Position
    <3> QED BY <1>0, <2>2, <3>1 DEF RowFound, StopInv
  <2>3. CASE ReconcileMisses \/ HistoryFails \/ RowMissing
    BY <1>0, <2>3 DEF ReconcileMisses, HistoryFails, RowMissing, StopInv
  <2> QED BY <1>5, <2>1, <2>2, <2>3 DEF Reconcile
<1>6. CASE UNCHANGED vars
  BY <1>0, <1>6 DEF vars, StopInv
<1> QED BY <1>1, <1>2, <1>3, <1>4, <1>5, <1>6 DEF Next

LEMMA StopInvariant == Spec => []StopInv
  BY StopInit, StopStep, PTL DEF Spec

(* The step that takes a restored stop down during a backoff is of a forced   *)
(* close or of a repair: for every backoff, handler set and set of faults.    *)
THEOREM BackoffSparesTheStop == Spec => BackoffKeepsStop
<1>1. StopInv /\ [Next]_vars
        => [(resting' < resting /\ xOpen' /\ mem.latch # "none" /\ mem.failAge < Backoff)
               => job \in {"force", "repair"}]_vars
  <2> SUFFICES ASSUME StopInv, [Next]_vars, resting' < resting, xOpen', mem.latch # "none",
                      mem.failAge < Backoff
               PROVE  job \in {"force", "repair"}
    OBVIOUS
  <2>0. resting \in 0 .. 2 /\ mem.failAge \in 0 .. Backoff /\ Backoff \in Nat
    BY GuardAssumption DEF StopInv, TypeOK, Position
  <2>1. pc \in {"cancel", "recancel", "moveCancel"}
    <3>1. CASE UNCHANGED resting
      BY <2>0, <3>1
    <3>2. CASE Leaves
      BY <3>2 DEF Leaves
    <3>3. ASSUME NEW sent \in {1, 2}, resting' = AtMost(resting + sent, 2) PROVE FALSE
      BY <2>0, <3>3 DEF AtMost
    <3>4. ASSUME NEW lost \in BOOLEAN, PlaceRaises(lost) PROVE FALSE
      BY <2>0, <3>4 DEF PlaceRaises, AtMost
    <3>5. ASSUME NEW lost \in BOOLEAN, MoveRaises(lost) PROVE pc = "moveCancel"
      BY <2>0, <3>5 DEF MoveRaises, AtMost
    <3>6. \/ UNCHANGED resting \/ Leaves \/ pc \in {"cancel", "recancel", "moveCancel"}
          \/ \E sent \in {1, 2} : resting' = AtMost(resting + sent, 2)
          \/ \E lost \in BOOLEAN : PlaceRaises(lost) \/ MoveRaises(lost)
      <4>1. CASE External \/ Boot \/ SaveElsewhere \/ UNCHANGED vars
        BY <4>1 DEF External, ExchangeCloses, InflightSettles, PublishRow, Tick, Crash, Boot,
                    SaveElsewhere, exchange, vars
      <4>2. CASE Closing
        BY <4>2 DEF Closing, StartExit, StartForce, StartPreempt, Cancel, CloseFills, CloseUnfilled,
                    CancelRaises,
                    CloseFails, ReadDetail, DetailFails, Record, SaveClosed, exchange
      <4>3. CASE Stops
        BY <4>3 DEF Stops, Place, Recancel, RecancelRaises, StartMove, MoveCancel, MovePlace,
                    StartRepair, exchange
      <4>4. CASE Reconcile
        BY <4>4 DEF Reconcile, ReconcileSees, ReconcileMisses, HistoryFails, RowFound, RowMissing, exchange
      <4> QED BY <4>1, <4>2, <4>3, <4>4 DEF Next
    <3> QED BY <3>1, <3>2, <3>3, <3>4, <3>5, <3>6
  <2> QED BY <2>0, <2>1 DEF StopInv
<1> QED BY <1>1, StopInvariant, PTL DEF Spec, BackoffKeepsStop

(* A place follows a cancel that was answered, or the second bracket counts.  *)
BracketInv ==
    ~excused => /\ resting <= 1
                /\ pc \in {"place", "movePlace"} => resting = 0
                /\ pc = "send" /\ job # "forceKept" => resting = 0

LEMMA BracketStep ==
    ASSUME "preempt" \notin Handlers
    PROVE  StopInv /\ BracketInv /\ [Next]_vars => BracketInv'
<1> SUFFICES ASSUME StopInv, BracketInv, [Next]_vars PROVE BracketInv'
  OBVIOUS
<1>0. resting \in 0 .. 2 /\ job \notin {"preempt", "rearm"}
  BY DEF StopInv, TypeOK
<1> USE DEF Goto, Back, Idle, exchange, control, ghosts, BracketInv
<1>1. CASE External
  BY <1>0, <1>1 DEF External, ExchangeCloses, InflightSettles, PublishRow, Tick, Crash, Leaves
<1>2. CASE Boot \/ SaveElsewhere
  BY <1>0, <1>2 DEF Boot, SaveElsewhere
<1>3. CASE Closing
  <2>1. CASE CloseFills \/ CloseUnfilled
    BY <1>0, <2>1 DEF CloseFills, CloseUnfilled, TakenAsClosed, Leaves
  <2>2. CASE Cancel \/ \E lost \in BOOLEAN : CancelRaises(lost) \/ CloseFails(lost)
    BY <1>0, <2>2 DEF Cancel, CancelRaises, CloseFails, StopInv
  <2>3. CASE ~(CloseFills \/ CloseUnfilled) /\ ~(Cancel \/ \E lost \in BOOLEAN : CancelRaises(lost) \/ CloseFails(lost))
    BY <1>0, <1>3, <2>3 DEF Closing, StartExit, StartForce, StartPreempt, ReadDetail, DetailFails,
                            Record, SaveClosed
  <2> QED BY <2>1, <2>2, <2>3
<1>4. CASE Stops
  <2>0. ASSUME NEW p, NEW restored \in BOOLEAN, AfterRestore(restored, p) PROVE pc' = "idle"
    BY <1>0, <2>0 DEF AfterRestore, NoteCloseFailed
  <2>1. CASE Place
    <3>1. pc' = "idle" /\ pc = "place"
      BY <2>0, <2>1 DEF Place
    <3>2. PICK sent \in {1, 2} : resting' = AtMost(resting + sent, 2) /\ excused' = (excused \/ sent = 2)
      BY <2>1 DEF Place
    <3>3. ~excused' => ~excused /\ sent = 1
      BY <3>2
    <3>4. ~excused => resting = 0
      BY <3>1
    <3>5. sent = 1 /\ resting = 0 => resting' = 1
      BY <3>2 DEF AtMost
    <3> QED BY <3>1, <3>3, <3>4, <3>5
  <2>2. ASSUME NEW lost \in BOOLEAN, PlaceRaises(lost) PROVE BracketInv'
    <3>1. pc' = "idle" /\ pc = "place"
      BY <2>0, <2>2 DEF PlaceRaises
    <3> QED BY <1>0, <2>2, <3>1 DEF PlaceRaises, AtMost
  <2>3. CASE Recancel \/ MoveCancel \/ MovePlace \/ StartMove \/ StartRepair
    <3>1. CASE MovePlace
      BY <1>0, <3>1 DEF MovePlace, AtMost
    <3>2. CASE Recancel \/ MoveCancel
      BY <1>0, <3>2 DEF Recancel, MoveCancel
    <3>3. CASE StartMove \/ StartRepair
      BY <1>0, <3>3 DEF StartMove, StartRepair
    <3> QED BY <2>3, <3>1, <3>2, <3>3
  <2>4. ASSUME NEW lost \in BOOLEAN, RecancelRaises(lost) \/ MoveRaises(lost) PROVE BracketInv'
    BY <1>0, <2>4 DEF RecancelRaises, MoveRaises, AtMost, AfterMoveFailed
  <2> QED BY <1>4, <2>1, <2>2, <2>3, <2>4 DEF Stops
<1>5. CASE Reconcile
  BY <1>0, <1>5 DEF Reconcile, ReconcileSees, ReconcileMisses, HistoryFails, RowFound, RowMissing
<1>6. CASE UNCHANGED vars
  BY <1>0, <1>6 DEF vars
<1> QED BY <1>1, <1>2, <1>3, <1>4, <1>5, <1>6 DEF Next

(* Where no slot is preempted, two brackets rest only in the two cases the    *)
(* code accepts, whatever is refused or lost and wherever the process dies.   *)
THEOREM BracketIsSingle ==
    ASSUME "preempt" \notin Handlers
    PROVE  Spec => []SingleBracket
<1>1. Init => BracketInv
  BY DEF Init, BracketInv
<1>2. StopInv /\ BracketInv /\ [Next]_vars => BracketInv'
  BY BracketStep
<1>3. StopInv /\ BracketInv => SingleBracket
  BY DEF BracketInv, SingleBracket
<1> QED BY <1>1, <1>2, <1>3, StopInvariant, PTL DEF Spec

(* What rests, wherever a handler may stop.  A step with the bracket down is  *)
(* made good by the flag, and the flag of a repair is up for the whole of it; *)
(* a dead process has nothing in memory that the file does not say.           *)
ProtectInv ==
    /\ row = "none" \/ ~xOpen
    /\ (pc \in {"detail", "record", "save"} /\ xOpen) => exposed \/ resting > 0
    /\ ~up => mem = disk
    /\ disk.tracked => mem.tracked
    /\ job = "repair" => mem.bare
    /\ (KeepsStop /\ mem.tracked /\ xOpen /\ ~exposed) => resting > 0 \/ mem.bare

(* A step that leaves the bracket, the position and the flags alone, and goes *)
(* to a step where the bracket rests only from one.                           *)
LEMMA QuietProtect ==
    ASSUME ProtectInv,
           UNCHANGED <<xOpen, resting, row, exposed>>, up' = up, up,
           mem'.tracked = mem.tracked, mem'.bare = mem.bare,
           disk' = disk \/ disk' = mem',
           job' = "repair" => mem.bare,
           KeepsStop' => KeepsStop \/ mem.bare,
           pc' \in {"detail", "record", "save"}
              => pc \in {"detail", "record", "save"} \/ ~xOpen
    PROVE  ProtectInv'
  BY DEF ProtectInv

(* A step after which MEXC holds the position no more.                        *)
LEMMA GoneProtect ==
    ASSUME ProtectInv, ~xOpen', up' = up, up \/ UNCHANGED <<mem, disk>>,
           disk'.tracked => mem'.tracked,
           job' = "repair" => mem'.bare
    PROVE  ProtectInv'
  BY DEF ProtectInv

(* What a failed restore leaves: the flag, unless a listing leaves it out.    *)
LEMMA UnrestoredBare ==
    ASSUME NEW seen \in BOOLEAN, mem \in Position
    PROVE  /\ Unrestored(mem, seen).tracked = mem.tracked
           /\ seen => Unrestored(mem, seen).bare
  BY DEF Unrestored, Position

LEMMA AfterRestoreSaves ==
    ASSUME StopInv, NEW restored \in BOOLEAN, NEW p \in Position, pc = "place",
           AfterRestore(restored, p)
    PROVE  /\ mem'.tracked = p.tracked /\ mem'.bare = p.bare
           /\ disk' = disk \/ disk' = mem'
           /\ job' \in {"none", "rearm"} /\ pc' \in {"idle", "place"}
           /\ pc' = "place" => job' = "rearm"
<1>1. CASE job = "exit" /\ restored /\ NoteCloseFailed(p) /\ Back
  BY <1>1 DEF NoteCloseFailed, Save, Back, Goto, Position
<1>2. CASE mem' = p /\ UNCHANGED disk /\ Goto("place", "rearm") /\ UNCHANGED why
  BY <1>2 DEF Goto
<1>3. CASE Save(p) /\ Back
  BY <1>3 DEF Save, Back, Goto
<1>4. CASE mem' = p /\ UNCHANGED disk /\ Back
  BY <1>4 DEF Back, Goto
<1> QED BY <1>1, <1>2, <1>3, <1>4 DEF AfterRestore

LEMMA ProtectStep == StopInv /\ StopInv' /\ ProtectInv /\ [Next]_vars => ProtectInv'
<1> SUFFICES ASSUME StopInv, StopInv', ProtectInv, [Next]_vars PROVE ProtectInv'
  OBVIOUS
<1>0. /\ resting \in 0 .. 2 /\ mem \in Position /\ disk \in Position
      /\ mem' \in Position /\ disk' \in Position /\ exposed \in BOOLEAN
  BY DEF StopInv, TypeOK
<1>b. ~up => pc = "idle" /\ job = "none"
  BY DEF StopInv
<1> USE DEF Goto, Back, Idle, exchange, control, ghosts
<1>1. CASE External
  <2>1. CASE Tick
    <3>1. \A q \in Position : Older(q).bare = q.bare /\ Older(q).tracked = q.tracked
      BY DEF Older, Position
    <3> QED BY <1>0, <2>1, <3>1 DEF Tick, ProtectInv, KeepsStop
  <2>2. CASE ExchangeCloses
    BY <2>2, GoneProtect DEF ExchangeCloses, Leaves, ProtectInv
  <2>3. CASE InflightSettles
    <3>1. CASE Leaves
      BY <2>3, <3>1, GoneProtect DEF InflightSettles, Leaves, ProtectInv
    <3>2. CASE UNCHANGED <<xOpen, resting, row, absent, exposed, unfilled>>
      BY <2>3, <3>2 DEF InflightSettles, ProtectInv, KeepsStop
    <3> QED BY <2>3, <3>1, <3>2 DEF InflightSettles
  <2>4. CASE PublishRow
    BY <2>4 DEF PublishRow, ProtectInv, KeepsStop
  <2>5. CASE Crash
    <3>1. /\ mem' = disk /\ disk' = disk /\ pc' = "idle" /\ job' = "none"
          /\ UNCHANGED <<xOpen, resting, row>>
      BY <2>5 DEF Crash
    <3>2. (xOpen /\ resting = 0 /\ ~exposed') => ~exposed /\ KeepsStop /\ (mem.bare => disk.bare)
      BY <2>5 DEF Crash
    <3>3. resting > 0 \/ resting = 0
      BY <1>0
    <3> QED BY <3>1, <3>2, <3>3 DEF ProtectInv
  <2> QED BY <1>1, <2>1, <2>2, <2>3, <2>4, <2>5 DEF External
<1>2. CASE Boot \/ SaveElsewhere
  <2>1. CASE Boot
    BY <2>1 DEF Boot, ProtectInv, KeepsStop
  <2>2. CASE SaveElsewhere
    BY <2>2 DEF SaveElsewhere, ProtectInv, KeepsStop
  <2> QED BY <1>2, <2>1, <2>2
<1>3. CASE Closing
  <2>1. CASE CloseFills \/ CloseUnfilled
    <3>1. /\ job \in {"exit", "force", "forceKept", "preempt"} /\ up
          /\ UNCHANGED <<up, job, disk>> /\ pc' = "detail"
      BY <1>b, <2>1 DEF CloseFills, CloseUnfilled, TakenAsClosed, StopInv
    <3>2. mem'.tracked = mem.tracked
      BY <1>0, <2>1 DEF CloseFills, CloseUnfilled, TakenAsClosed, Position
    <3>3. CASE CloseFills
      BY <3>1, <3>2, <3>3, GoneProtect DEF CloseFills, Leaves, ProtectInv
    <3>4. CASE CloseUnfilled
      <4>1. UNCHANGED <<xOpen, resting, row>> /\ exposed' = (exposed \/ resting = 0)
        BY <3>4 DEF CloseUnfilled
      <4>2. exposed' \/ resting' > 0
        <5>1. resting = 0 \/ resting > 0
          BY <1>0
        <5>2. resting' = resting /\ (exposed' <=> (exposed \/ resting = 0))
          BY <4>1, Zenon
        <5> QED BY <5>1, <5>2
      <4>3. (KeepsStop' /\ mem'.tracked /\ xOpen' /\ ~exposed') => resting' > 0 \/ mem'.bare
        BY <4>2
      <4>4. /\ row' = "none" \/ ~xOpen'
            /\ disk'.tracked => mem'.tracked
            /\ job' # "repair" /\ up'
        BY <3>1, <3>2, <4>1 DEF ProtectInv
      <4> QED BY <4>2, <4>3, <4>4 DEF ProtectInv
    <3> QED BY <2>1, <3>3, <3>4
  <2>2. CASE Cancel
    <3>1. up /\ ~KeepsStop'
      BY <1>b, <2>2 DEF Cancel, StopInv, KeepsStop
    <3>2. job' # "repair"
      BY <2>2 DEF Cancel, StopInv
    <3> QED BY <2>2, <3>1, <3>2 DEF Cancel, ProtectInv
  <2>3. ASSUME NEW lost \in BOOLEAN, CancelRaises(lost) PROVE ProtectInv'
    <3>1. up /\ KeepsStop /\ pc' \in {"idle", "send", "place"} /\ job' # "repair"
      BY <1>b, <2>3 DEF CancelRaises, KeepsStop
    <3>2. /\ exposed' = (xOpen /\ (exposed \/ lost)) /\ resting' = IF lost THEN 0 ELSE resting
          /\ UNCHANGED <<xOpen, row, up, mem, disk>>
      BY <2>3 DEF CancelRaises
    <3>3. (xOpen /\ ~exposed') => ~exposed /\ resting' = resting
      BY <3>2
    <3> QED BY <3>1, <3>2, <3>3 DEF ProtectInv
  <2>4. ASSUME NEW lost \in BOOLEAN, CloseFails(lost) PROVE ProtectInv'
    <3>1. /\ up /\ (KeepsStop' => KeepsStop) /\ pc' \in {"idle", "place"} /\ job' # "repair"
      BY <1>b, <2>4 DEF CloseFails, KeepsStop, StopInv
    <3>2. UNCHANGED <<xOpen, resting, row, exposed, up, mem, disk>>
      BY <2>4 DEF CloseFails
    <3> QED BY <3>1, <3>2, QuietProtect
  <2>5. CASE (\E r \in Reasons : StartExit(r)) \/ StartForce \/ StartPreempt
    <3>1. /\ up /\ KeepsStop /\ pc' = "cancel" /\ job' # "repair"
          /\ UNCHANGED <<xOpen, resting, row, exposed, up, mem, disk>>
      BY <2>5 DEF StartExit, StartForce, StartPreempt, KeepsStop
    <3> QED BY <3>1, QuietProtect
  <2>6. CASE ReadDetail \/ DetailFails \/ Record
    <3>1. /\ up /\ mem'.tracked = mem.tracked /\ mem'.bare = mem.bare /\ disk' = disk
          /\ UNCHANGED <<xOpen, resting, row, exposed, up>>
      BY <1>0, <1>b, <2>6 DEF ReadDetail, DetailFails, Record, Position
    <3>2. (job' = "repair" => job = "repair") /\ pc \in {"detail", "record", "save"}
      BY <2>6 DEF ReadDetail, DetailFails, Record
    <3> QED BY <3>1, <3>2 DEF ProtectInv
  <2>7. CASE SaveClosed
    <3>1. /\ mem' = disk' /\ ~mem'.tracked /\ job' = "none" /\ pc' = "idle"
          /\ UNCHANGED <<up, xOpen, row>> /\ up
      BY <1>b, <2>7 DEF SaveClosed, ClearAndSave, Save, Cleared, Entered
    <3> QED BY <3>1 DEF ProtectInv
  <2> QED BY <1>3, <2>1, <2>2, <2>3, <2>4, <2>5, <2>6, <2>7 DEF Closing
<1>4. CASE Stops
  <2>1. CASE Place
    <3>1. PICK p \in Position : AfterRestore(TRUE, p) /\ p.tracked = mem.tracked
      <4>1. /\ (IF job = "repair" THEN [mem EXCEPT !.bare = FALSE] ELSE mem) \in Position
            /\ (IF job = "repair" THEN [mem EXCEPT !.bare = FALSE] ELSE mem).tracked = mem.tracked
        BY <1>0 DEF Position
      <4> QED BY <2>1, <4>1 DEF Place
    <3>2. resting' > 0 /\ up /\ pc = "place" /\ UNCHANGED <<xOpen, row, up>>
      BY <1>0, <1>b, <2>1 DEF Place, AtMost
    <3>3. /\ mem'.tracked = mem.tracked /\ (disk' = disk \/ disk' = mem')
          /\ job' \in {"none", "rearm"} /\ pc' \in {"idle", "place"}
      BY <3>1, <3>2, AfterRestoreSaves
    <3> QED BY <3>2, <3>3 DEF ProtectInv
  <2>2. ASSUME NEW lost \in BOOLEAN, PlaceRaises(lost) PROVE ProtectInv'
    <3>1. PICK seen \in BOOLEAN : AfterRestore(FALSE, Unrestored(mem, seen))
                                  /\ exposed' = (xOpen /\ ~seen)
      BY <2>2 DEF PlaceRaises
    <3>2. up /\ pc = "place" /\ UNCHANGED <<xOpen, row, up>>
      BY <1>b, <2>2 DEF PlaceRaises
    <3>3. Unrestored(mem, seen) \in Position
      BY <1>0 DEF Unrestored, Position
    <3>4. /\ mem'.tracked = Unrestored(mem, seen).tracked
          /\ mem'.bare = Unrestored(mem, seen).bare
          /\ (disk' = disk \/ disk' = mem')
          /\ job' \in {"none", "rearm"} /\ pc' \in {"idle", "place"}
      BY <3>1, <3>2, <3>3, AfterRestoreSaves
    <3>5. mem'.tracked = mem.tracked /\ (seen => mem'.bare)
      BY <1>0, <3>4, UnrestoredBare
    <3> QED BY <3>1, <3>2, <3>4, <3>5 DEF ProtectInv
  <2>3. CASE Recancel \/ MoveCancel
    <3>1. up /\ pc' \in {"place", "movePlace"} /\ UNCHANGED <<xOpen, row, exposed, up, mem, disk, job>>
      BY <1>b, <2>3 DEF Recancel, MoveCancel
    <3>2. job # "forceKept"
      BY <2>3 DEF Recancel, MoveCancel, StopInv
    <3> QED BY <3>1, <3>2 DEF ProtectInv, KeepsStop
  <2>4. CASE StartMove \/ StartRepair
    <3>1. /\ up /\ KeepsStop /\ mem'.tracked = mem.tracked /\ mem'.bare = mem.bare /\ disk' = disk
          /\ UNCHANGED <<xOpen, resting, row, exposed, up>>
      BY <1>0, <2>4 DEF StartMove, StartRepair, KeepsStop, Position
    <3>2. (job' = "repair" => mem.bare) /\ pc' \in {"moveCancel", "recancel"}
      BY <2>4 DEF StartMove, StartRepair
    <3> QED BY <3>1, <3>2, QuietProtect
  <2>5. ASSUME NEW lost \in BOOLEAN, RecancelRaises(lost) \/ MoveRaises(lost) PROVE ProtectInv'
    <3>1. /\ up /\ pc' \in {"place", "recancel"}
          /\ UNCHANGED <<xOpen, row, exposed, up, mem, disk, job>>
      BY <1>b, <2>5 DEF RecancelRaises, MoveRaises, AfterMoveFailed
    <3>2. job # "forceKept"
      BY <2>5 DEF RecancelRaises, MoveRaises, StopInv
    <3> QED BY <3>1, <3>2 DEF ProtectInv, KeepsStop
  <2>6. CASE MovePlace
    <3>1. /\ resting' > 0 /\ up /\ disk' = mem' /\ pc' = "idle" /\ job' = "none"
          /\ UNCHANGED <<xOpen, row, up>>
      BY <1>0, <1>b, <2>6 DEF MovePlace, AtMost, Save
    <3> QED BY <3>1 DEF ProtectInv
  <2> QED BY <1>4, <2>1, <2>2, <2>3, <2>4, <2>5, <2>6 DEF Stops
<1>5. CASE Reconcile
  <2>0. ASSUME ClearMiss PROVE /\ mem'.tracked = mem.tracked /\ mem'.bare = mem.bare
                               /\ disk' = disk \/ disk' = mem'
    BY <1>0, <2>0 DEF ClearMiss, Save, Position
  <2>1. CASE ReconcileSees
    <3>1. UNCHANGED <<xOpen, resting, row, exposed, up, pc, job>> /\ up /\ pc = "idle" /\ ClearMiss
      BY <2>1 DEF ReconcileSees
    <3> QED BY <2>0, <3>1, QuietProtect DEF KeepsStop, ProtectInv
  <2>2. CASE ReconcileMisses \/ HistoryFails
    <3>1. /\ UNCHANGED <<xOpen, resting, row, exposed, up, mem, disk>> /\ up /\ KeepsStop
          /\ pc' \in {"history", "idle"} /\ job' # "repair"
      BY <1>b, <2>2 DEF ReconcileMisses, HistoryFails, KeepsStop
    <3> QED BY <3>1, QuietProtect
  <2>3. CASE RowFound
    <3>1. /\ ~xOpen /\ up /\ UNCHANGED <<xOpen, resting, row, exposed, up, job>> /\ KeepsStop
          /\ ClearMiss
      BY <1>b, <2>3 DEF RowFound, ProtectInv, KeepsStop
    <3> QED BY <2>0, <3>1, QuietProtect DEF ProtectInv
  <2>4. CASE RowMissing
    <3>1. /\ UNCHANGED <<xOpen, resting, row, exposed, up>> /\ up /\ KeepsStop
          /\ pc' = "idle" /\ job' = "none"
      BY <1>b, <2>4 DEF RowMissing, KeepsStop
    <3>2. CASE Save([mem EXCEPT !.missAge = 0])
      <4>1. mem'.tracked = mem.tracked /\ mem'.bare = mem.bare /\ disk' = mem'
        BY <1>0, <3>2 DEF Save, Position
      <4> QED BY <3>1, <4>1, QuietProtect
    <3>3. CASE Save(Cleared(mem))
      <4>1. ~mem'.tracked /\ disk' = mem'
        BY <3>3 DEF Save, Cleared, Entered
      <4> QED BY <3>1, <4>1 DEF ProtectInv
    <3>4. CASE UNCHANGED <<mem, disk>>
      BY <3>1, <3>4, QuietProtect
    <3> QED BY <2>4, <3>2, <3>3, <3>4 DEF RowMissing
  <2> QED BY <1>5, <2>1, <2>2, <2>3, <2>4 DEF Reconcile
<1>6. CASE UNCHANGED vars
  BY <1>6 DEF vars, ProtectInv, KeepsStop
<1> QED BY <1>1, <1>2, <1>3, <1>4, <1>5, <1>6 DEF Next

(* Whatever is refused, lost or left out and wherever the process dies: a     *)
(* position left open at rest has its stop on the exchange or the flag that   *)
(* brings it back, unless its bracket went in one of the four ways nothing    *)
(* in the code makes good.                                                    *)
THEOREM StopOrFlagAtRest == Spec => []ProtectedAtRest
<1>1. Init => ProtectInv
  BY DEF Init, ProtectInv, Entered
<1>2. StopInv /\ StopInv' /\ ProtectInv /\ [Next]_vars => ProtectInv'
  BY ProtectStep
<1>3. ProtectInv => ProtectedAtRest
  BY DEF ProtectInv, ProtectedAtRest, Idle, KeepsStop
<1> QED BY <1>1, <1>2, <1>3, StopInvariant, PTL DEF Spec
=============================================================================
