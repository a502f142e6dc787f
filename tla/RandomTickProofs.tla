-------------------------- MODULE RandomTickProofs --------------------------
(* Machine-checked proofs about RandomTick, for any periods, grace, deferral,  *)
(* slots and horizon.                                                          *)
EXTENDS RandomTick, FiniteSetTheorems, TLAPS

-----------------------------------------------------------------------------
(* Boundaries and counts *)

LEMMA BoundaryInRange ==
    ASSUME now \in Times, NEW every \in Nat \ {0}
    PROVE LastBoundary(every) \in Times /\ LastBoundary(every) <= now
<1>1. now \in Nat /\ Horizon \in Nat
  BY TickAssumption DEF TickAssumption, Times
<1>2. (now \div every) \in Nat /\ (now \div every) * every <= now
  BY <1>1
<1>3. (now \div every) * every \in Nat
  BY <1>2
<1> QED
  BY <1>1, <1>2, <1>3 DEF LastBoundary, Times

LEMMA CountTypes ==
    ASSUME IsFiniteSet(book), IsFiniteSet(past), NEW t, NEW k
    PROVE /\ Cardinality({p \in book : p.sleeve = k}) \in Nat
          /\ Cardinality({p \in book : p.sleeve = k /\ p.ts + Clock > t}) \in Nat
          /\ Cardinality({r \in ClosedSince(t) : r.pos.sleeve = k}) \in Nat
<1>1. IsFiniteSet({p \in book : p.sleeve = k})
  BY FS_Subset
<1>2. IsFiniteSet({p \in book : p.sleeve = k /\ p.ts + Clock > t})
  BY FS_Subset
<1>3. {r \in ClosedSince(t) : r.pos.sleeve = k} \subseteq past
  BY DEF ClosedSince
<1>4. IsFiniteSet({r \in ClosedSince(t) : r.pos.sleeve = k})
  BY <1>3, FS_Subset
<1> QED
  BY <1>1, <1>2, <1>4, FS_CardinalityType

LEMMA BookAtType ==
    ASSUME TypeOK, NEW t
    PROVE BookAt(t) \in [held : SUBSET Symbols, count : [Sleeves -> Nat]]
<1>1. ASSUME NEW k \in Sleeves
      PROVE Cardinality({p \in book : p.sleeve = k})
              + Cardinality({r \in ClosedSince(t) : r.pos.sleeve = k}) \in Nat
  <2>1. IsFiniteSet(book) /\ IsFiniteSet(past)
    BY DEF TypeOK
  <2>2. /\ Cardinality({p \in book : p.sleeve = k}) \in Nat
        /\ Cardinality({r \in ClosedSince(t) : r.pos.sleeve = k}) \in Nat
    BY <2>1, CountTypes
  <2> QED
    BY <2>2
<1>2. {p.sym : p \in book} \cup {r.pos.sym : r \in ClosedSince(t)} \in SUBSET Symbols
  BY DEF TypeOK, Positions, ClosedSince
<1> QED
  BY <1>1, <1>2 DEF BookAt

LEMMA InUseType ==
    ASSUME TypeOK, NEW t PROVE InUseAt(t) \in [Sleeves -> Nat]
<1>1. ASSUME NEW k \in Sleeves
      PROVE Cardinality({p \in book : p.sleeve = k /\ p.ts + Clock > t}) \in Nat
  <2>1. IsFiniteSet(book) /\ IsFiniteSet(past)
    BY DEF TypeOK
  <2> QED
    BY <2>1, CountTypes
<1> QED
  BY <1>1 DEF InUseAt

-----------------------------------------------------------------------------
(* Types *)

LEMMA InitTypeOK == Init => TypeOK
<1> SUFFICES ASSUME Init PROVE TypeOK
  OBVIOUS
<1>1. 0 \in Times /\ Horizon \in Nat
  BY TickAssumption DEF TickAssumption, Times
<1>2. IsFiniteSet(book) /\ IsFiniteSet(past)
  BY FS_EmptySet DEF Init
<1>3. Nothing \in [held : SUBSET Symbols, count : [Sleeves -> Nat]]
  BY DEF Nothing
<1>4. Nothing.count \in [Sleeves -> Nat]
  BY DEF Nothing
<1>5. ran \in Marks /\ saved \in Marks
  BY DEF Init, Marks
<1>6. ran.tick <= now /\ ran.eval <= now /\ saved.tick <= now /\ saved.eval <= now
  BY DEF Init
<1>7. decided \in [Buckets \X Times -> Nat]
  BY DEF Init
<1> QED
  BY <1>1, <1>2, <1>3, <1>4, <1>5, <1>6, <1>7 DEF Init, TypeOK, Buckets

LEMMA ClosedType ==
    ASSUME TypeOK, NEW gone \in SUBSET book, Closed(gone)
    PROVE /\ book' \subseteq Positions /\ IsFiniteSet(book')
          /\ past' \subseteq [pos : Positions, out : Times] /\ IsFiniteSet(past')
<1>1. book' \subseteq Positions /\ IsFiniteSet(book')
  BY FS_Subset DEF Closed, TypeOK
<1>2. IsFiniteSet(gone)
  BY FS_Subset DEF TypeOK
<1> DEFINE rows == {[pos |-> p, out |-> now] : p \in gone}
<1>3. rows \subseteq [pos : Positions, out : Times]
  BY DEF TypeOK
<1>4. IsFiniteSet(rows)
  <2> DEFINE row[p \in gone] == [pos |-> p, out |-> now]
  <2>1. rows = {row[p] : p \in gone}
    OBVIOUS
  <2>2. row \in Surjection(gone, rows)
    BY <2>1 DEF Surjection
  <2> QED
    BY <1>2, <2>2, FS_Surjection
<1>5. IsFiniteSet(past') 
  BY <1>4, FS_Union DEF Closed, TypeOK
<1> QED
  BY <1>1, <1>3, <1>5 DEF Closed, TypeOK

LEMMA DecideType ==
    ASSUME TypeOK, NEW b \in Buckets, NEW t \in Times, Decide(b, t)
    PROVE decided' \in [Buckets \X Times -> Nat]
<1>1. <<b, t>> \in Buckets \X Times
  OBVIOUS
<1> QED
  BY <1>1 DEF Decide, TypeOK

LEMMA OpensType ==
    ASSUME TypeOK, NEW b \in Buckets, NEW t \in Times, NEW s \in Symbols, NEW view,
           Opens(b, t, s, view)
    PROVE book' \subseteq Positions /\ IsFiniteSet(book')
<1>1. Position(s, b, t) \in Positions
  BY DEF Position, Positions, SleeveOf, Sleeves, TypeOK
<1>2. IsFiniteSet(book')
  BY FS_AddElement DEF Opens, TypeOK
<1> QED
  BY <1>1, <1>2 DEF Opens, TypeOK

LEMMA NextBucketType ==
    ASSUME TypeOK, pc = "bucket", NEW view \in [held : SUBSET Symbols, count : [Sleeves -> Nat]],
           NextBucket(view)
    PROVE /\ pc' \in {"idle", "bucket"} /\ bucket' \in Buckets
          /\ seen' \in [held : SUBSET Symbols, count : [Sleeves -> Nat]]
<1>1. Nothing \in [held : SUBSET Symbols, count : [Sleeves -> Nat]]
  BY DEF Nothing
<1> QED
  BY <1>1 DEF NextBucket, TypeOK, Buckets

LEMMA StepTypeOK == TypeOK /\ [Next]_vars => TypeOK'
<1> SUFFICES ASSUME TypeOK, [Next]_vars PROVE TypeOK'
  OBVIOUS
<1>t. /\ Horizon \in Nat /\ TickEvery \in Nat \ {0} /\ EvalEvery \in Nat \ {0}
      /\ now \in Nat
  BY TickAssumption DEF TickAssumption, TypeOK, Times
<1>b. /\ LastBoundary(TickEvery) \in Times /\ LastBoundary(TickEvery) <= now
      /\ LastBoundary(EvalEvery) \in Times /\ LastBoundary(EvalEvery) <= now
  BY <1>t, BoundaryInRange DEF TypeOK
<1>n. Nothing \in [held : SUBSET Symbols, count : [Sleeves -> Nat]]
  BY DEF Nothing
<1>1. CASE PassTime
  <2>1. /\ now' \in Times /\ ran'.tick <= now' /\ ran'.eval <= now'
        /\ saved'.tick <= now' /\ saved'.eval <= now'
    BY <1>1, <1>t DEF PassTime, TypeOK, Times, marks, Marks
  <2>2. atTick' \in [Sleeves -> Nat]
    BY <1>1, InUseType DEF PassTime, TypeOK
  <2>3. past' \subseteq past
    BY <1>1 DEF PassTime
  <2>4. IsFiniteSet(past') /\ past' \subseteq [pos : Positions, out : Times]
    BY <2>3, FS_Subset DEF TypeOK
  <2>5. heldUp' \in BOOLEAN
    BY <1>1 DEF PassTime, TypeOK
  <2> QED
    BY <1>1, <2>1, <2>2, <2>4, <2>5 DEF PassTime, TypeOK, marks
<1>2. CASE Die
  <2>1. decided' \in [Buckets \X Times -> Nat]
    BY <1>2 DEF Die, TypeOK, Buckets, Trading
  <2>2. saved.tick <= now /\ saved.eval <= now
    BY DEF TypeOK
  <2> QED
    BY <1>2, <1>n, <2>1, <2>2 DEF Die, TypeOK, positions, Buckets
<1>3. CASE Boot
  BY <1>3 DEF Boot, TypeOK, marks, positions, ghosts
<1>4. CASE TogglePause
  BY <1>4 DEF TogglePause, TypeOK, marks, positions
<1>5. CASE SaveElsewhere
  BY <1>5 DEF SaveElsewhere, TypeOK, positions, ghosts
<1>6. ASSUME NEW p \in book, Leaves(p) PROVE TypeOK'
  <2>1. Closed({p}) /\ {p} \in SUBSET book
    BY <1>6 DEF Leaves
  <2> QED
    BY <1>6, <2>1, ClosedType DEF Leaves, TypeOK, marks, ghosts
<1>7. ASSUME NEW gone \in SUBSET book, StartCycle(gone) PROVE TypeOK'
  <2>1. Closed(gone)
    BY <1>7 DEF StartCycle
  <2> QED
    BY <1>7, <2>1, ClosedType DEF StartCycle, TypeOK, marks, ghosts
<1>8. CASE CycleRaises
  BY <1>8 DEF CycleRaises, TypeOK, marks, positions, ghosts
<1>9. CASE EvalSkipped
  BY <1>9 DEF EvalSkipped, TypeOK, marks, positions, ghosts
<1>10. CASE EvalSelectFails
  BY <1>10 DEF EvalSelectFails, TypeOK, marks, positions, ghosts
<1>11. CASE EvalMark
  <2>1. ran' \in Marks /\ ran'.tick <= now /\ ran'.eval <= now /\ ran'.eval \in Times
    BY <1>11, <1>b DEF EvalMark, TypeOK, Marks
  <2>2. decided' \in [Buckets \X Times -> Nat]
    BY <1>11, <1>b, DecideType DEF EvalMark, TypeOK, Buckets
  <2> QED
    BY <1>11, <2>1, <2>2 DEF EvalMark, TypeOK, positions
<1>12. CASE EvalMarkRaises
  BY <1>12, <1>b DEF EvalMarkRaises, TypeOK, positions, Marks
<1>13. CASE EvalOpen
  <2>1. decided' \in [Buckets \X Times -> Nat]
    BY <1>13, DecideType DEF EvalOpen, TypeOK, Buckets
  <2>2. book' \subseteq Positions /\ IsFiniteSet(book')
    BY <1>13, OpensType DEF EvalOpen, TypeOK, Buckets
  <2> QED
    BY <1>13, <2>1, <2>2 DEF EvalOpen, TypeOK, marks
<1>14. CASE TickSkipped
  BY <1>14 DEF TickSkipped, TypeOK, marks, positions, ghosts
<1>15. CASE TickSelectFails
  BY <1>15 DEF TickSelectFails, TypeOK, marks, positions
<1>16. CASE TickMark
  <2>1. ran' \in Marks /\ ran'.tick <= now /\ ran'.eval <= now /\ ran'.tick \in Times
    BY <1>16, <1>b DEF TickMark, TypeOK, Marks
  <2>2. seen' \in [held : SUBSET Symbols, count : [Sleeves -> Nat]]
    BY <1>16, BookAtType DEF TickMark
  <2>3. late' \subseteq Times
    BY <1>16, <1>b DEF TickMark, TypeOK
  <2> QED
    BY <1>16, <2>1, <2>2, <2>3 DEF TickMark, TypeOK, positions, Buckets
<1>17. CASE TickMarkRaises
  BY <1>17, <1>b DEF TickMarkRaises, TypeOK, positions, Marks
<1>18. CASE BucketLeftToEval
  BY <1>18, NextBucketType DEF BucketLeftToEval, TypeOK, marks, positions, ghosts
<1>19. CASE BucketOpensNothing
  <2>1. decided' \in [Buckets \X Times -> Nat]
    BY <1>19, DecideType DEF BucketOpensNothing, Trading, TypeOK
  <2> QED
    BY <1>19, <2>1, NextBucketType DEF BucketOpensNothing, Trading, TypeOK, marks, positions
<1>20. CASE BucketOpens
  <2>1. decided' \in [Buckets \X Times -> Nat]
    BY <1>20, DecideType DEF BucketOpens, Trading, TypeOK
  <2>2. PICK s \in Symbols : Opens(bucket, ran.tick, s, seen) /\ NextBucket(Counted(bucket, s))
    BY <1>20 DEF BucketOpens
  <2>3. book' \subseteq Positions /\ IsFiniteSet(book')
    BY <1>20, <2>2, OpensType DEF BucketOpens, Trading, TypeOK
  <2>4. Counted(bucket, s) \in [held : SUBSET Symbols, count : [Sleeves -> Nat]]
    BY DEF Counted, TypeOK, SleeveOf, Sleeves
  <2>5. /\ pc' \in {"idle", "bucket"} /\ bucket' \in Buckets
        /\ seen' \in [held : SUBSET Symbols, count : [Sleeves -> Nat]]
    BY <1>20, <2>2, <2>4, NextBucketType DEF BucketOpens, Trading
  <2> QED
    BY <1>20, <2>1, <2>3, <2>5 DEF BucketOpens, Trading, TypeOK, marks
<1>21. CASE UNCHANGED vars
  BY <1>21 DEF vars, TypeOK, marks, positions, ghosts
<1> QED
  BY <1>1, <1>2, <1>3, <1>4, <1>5, <1>6, <1>7, <1>8, <1>9, <1>10, <1>11, <1>12, <1>13, <1>14,
     <1>15, <1>16, <1>17, <1>18, <1>19, <1>20, <1>21
     DEF Next, Environment, Exits, TrendEval, RandomTickStep

\* Type correctness: marks are boundaries the clock has passed, and the step that
\* trades a tick or a close always has one marked.
THEOREM TickTypeOK == Spec => []TypeOK
<1> QED
  BY InitTypeOK, StepTypeOK, PTL DEF Spec

-----------------------------------------------------------------------------
(* Once only, and TREND first                                                *)
(*                                                                           *)
(* DecidedOnce is not inductive: a crash forgets what memory knew.  What     *)
(* carries it is the file: nothing was decided that is not marked there, so  *)
(* that a boundary later than the last mark of memory, which is no earlier   *)
(* than the file's, has been decided by nobody.                              *)

Wild == {"WC_LONG", "WC_SHORT"}
TrendMark == IF TrendEvent THEN saved.eval ELSE saved.tick
Remaining ==
    CASE bucket = "TREND" -> Buckets
      [] bucket = "WC_LONG" -> Wild
      [] bucket = "WC_SHORT" -> {"WC_SHORT"}

MarkedInv ==
    /\ saved.tick <= ran.tick /\ saved.eval <= ran.eval
    /\ \A t \in Times : decided[<<"TREND", t>>] > 0 => t <= TrendMark
    /\ \A b \in Wild : \A t \in Times : decided[<<b, t>>] > 0 => t <= saved.tick

OnceInv ==
    /\ DecidedOnce
    /\ MarkedInv
    /\ pc \in {"bucket", "evalOpen"} => saved = ran
    /\ pc = "bucket" =>
          \A b \in Remaining : (b = "TREND" /\ TrendEvent) \/ decided[<<b, ran.tick>>] = 0
    /\ pc = "evalOpen" => TrendEvent /\ decided[<<"TREND", ran.eval>>] = 0

\* A tick that did not wait its deferral found the close marked, and saved that mark
\* with its own.
FirstInv ==
    TrendEvent =>
       /\ \A b \in Wild : \A t \in Times : decided[<<b, t>>] > 0 => t <= saved.eval \/ t \in late
       /\ pc = "bucket" => ran.tick <= saved.eval \/ ran.tick \in late
       /\ pc = "evalOpen" => \A b \in Wild : decided[<<b, ran.eval>>] = 0 \/ ran.eval \in late

\* The rest of a cycle leaves marks and decisions alone.
LEMMA QuietStep ==
    ASSUME OnceInv, FirstInv, UNCHANGED <<decided, ran, saved, source, late>>,
           pc' \in {"idle", "eval", "tick"} \/ UNCHANGED <<pc, bucket>>
    PROVE OnceInv' /\ FirstInv'
<1> QED
  BY DEF OnceInv, FirstInv, MarkedInv, DecidedOnce, TrendMark, TrendEvent, Remaining

\* A boundary that is due has not been decided.
LEMMA DueUndecided ==
    ASSUME TypeOK, OnceInv, NEW t \in Times
    PROVE /\ t > ran.tick => \A b \in Wild : decided[<<b, t>>] = 0
          /\ t > ran.tick /\ ~TrendEvent => decided[<<"TREND", t>>] = 0
          /\ t > ran.eval /\ TrendEvent => decided[<<"TREND", t>>] = 0
<1>1. \A b \in Buckets : decided[<<b, t>>] \in Nat
  BY DEF TypeOK
<1>2. /\ saved.tick \in Int /\ saved.eval \in Int /\ ran.tick \in Int /\ ran.eval \in Int
      /\ t \in Int
  BY TickAssumption DEF TickAssumption, TypeOK, Marks, Times
<1> QED
  BY <1>1, <1>2 DEF OnceInv, MarkedInv, TrendMark, Wild, Buckets

\* What one decision does to the counts.
LEMMA DecideCounts ==
    ASSUME TypeOK, NEW b \in Buckets, NEW t \in Times, decided[<<b, t>>] = 0,
           decided' = [decided EXCEPT ![<<b, t>>] = @ + 1]
    PROVE /\ decided'[<<b, t>>] = 1
          /\ \A c \in Buckets : \A u \in Times :
                <<c, u>> # <<b, t>> => decided'[<<c, u>>] = decided[<<c, u>>]
          /\ DecidedOnce => DecidedOnce'
<1>1. <<b, t>> \in Buckets \X Times /\ DOMAIN decided = Buckets \X Times
  BY DEF TypeOK
<1>2. decided'[<<b, t>>] = 1
  BY <1>1
<1>3. \A k \in Buckets \X Times : k # <<b, t>> => decided'[k] = decided[k]
  BY <1>1
<1>4. DecidedOnce => DecidedOnce'
  BY <1>2, <1>3 DEF DecidedOnce
<1> QED
  BY <1>2, <1>3, <1>4

\* A decision of the bucket whose turn it is, for the tick that is marked.
LEMMA BucketStep ==
    ASSUME TypeOK, OnceInv, FirstInv, Trading, UNCHANGED <<ran, saved, source, late>>,
           Decide(bucket, ran.tick),
           \/ pc' = "idle"
           \/ pc' = "bucket" /\ bucket = "TREND" /\ bucket' = "WC_LONG"
           \/ pc' = "bucket" /\ bucket = "WC_LONG" /\ bucket' = "WC_SHORT"
    PROVE OnceInv' /\ FirstInv'
<1>1. bucket \in Buckets /\ ran.tick \in Times /\ pc = "bucket"
  BY DEF TypeOK, Trading
<1>2. decided[<<bucket, ran.tick>>] = 0
  BY <1>1 DEF OnceInv, Remaining, Trading, Wild, Buckets
<1>3. /\ decided'[<<bucket, ran.tick>>] = 1
      /\ \A c \in Buckets : \A u \in Times :
            <<c, u>> # <<bucket, ran.tick>> => decided'[<<c, u>>] = decided[<<c, u>>]
      /\ DecidedOnce'
  BY <1>1, <1>2, DecideCounts DEF Decide, OnceInv
<1>4. saved = ran /\ (bucket = "TREND" => ~TrendEvent) /\ TrendEvent' = TrendEvent
  BY <1>1 DEF OnceInv, Trading, TrendEvent
<1>5. ran.tick \in Int /\ ran.tick <= ran.tick
  BY TickAssumption DEF TickAssumption, TypeOK, Marks, Times
<1>6. MarkedInv'
  <2>1. ASSUME NEW u \in Times, decided'[<<"TREND", u>>] > 0 PROVE u <= TrendMark'
    BY <1>1, <1>3, <1>4, <1>5, <2>1 DEF OnceInv, MarkedInv, TrendMark, Buckets
  <2>2. ASSUME NEW c \in Wild, NEW u \in Times, decided'[<<c, u>>] > 0 PROVE u <= saved'.tick
    BY <1>1, <1>3, <1>4, <1>5, <2>2 DEF OnceInv, MarkedInv, Wild, Buckets
  <2> QED
    BY <2>1, <2>2 DEF OnceInv, MarkedInv
<1>7. OnceInv'
  <2>1. pc' = "bucket" => \A c \in Remaining' : decided'[<<c, ran.tick>>] = 0
    BY <1>1, <1>3 DEF OnceInv, Remaining, Wild, Buckets
  <2> QED
    BY <1>3, <1>4, <1>6, <2>1 DEF OnceInv
<1>8. FirstInv'
  <2>1. ASSUME TrendEvent, NEW c \in Wild, NEW u \in Times, decided'[<<c, u>>] > 0
        PROVE u <= saved.eval \/ u \in late
    BY <1>1, <1>3, <2>1 DEF FirstInv, Wild, Buckets
  <2> QED
    BY <1>1, <1>4, <2>1 DEF FirstInv
<1> QED
  BY <1>7, <1>8

\* A decision of the evaluation, for the close that is marked.
LEMMA EvalStep ==
    ASSUME TypeOK, OnceInv, FirstInv, pc = "evalOpen", UNCHANGED <<ran, saved, source, late>>,
           Decide("TREND", ran.eval), pc' \in {"idle", "tick"}
    PROVE OnceInv' /\ FirstInv'
<1>1. "TREND" \in Buckets /\ ran.eval \in Times
  BY DEF TypeOK, Buckets
<1>2. decided[<<"TREND", ran.eval>>] = 0 /\ TrendEvent /\ TrendEvent' /\ saved = ran
  BY DEF OnceInv, TrendEvent
<1>3. /\ decided'[<<"TREND", ran.eval>>] = 1
      /\ \A c \in Buckets : \A u \in Times :
            <<c, u>> # <<"TREND", ran.eval>> => decided'[<<c, u>>] = decided[<<c, u>>]
      /\ DecidedOnce'
  BY <1>1, <1>2, DecideCounts DEF Decide, OnceInv
<1>4. ran.eval \in Int /\ ran.eval <= ran.eval
  BY TickAssumption DEF TickAssumption, TypeOK, Marks, Times
<1>5. \A c \in Wild : \A u \in Times : decided'[<<c, u>>] = decided[<<c, u>>]
  BY <1>3 DEF Wild, Buckets
<1>6. MarkedInv'
  BY <1>1, <1>2, <1>3, <1>4, <1>5 DEF OnceInv, MarkedInv, TrendMark
<1> QED
  BY <1>2, <1>3, <1>5, <1>6 DEF OnceInv, FirstInv

LEMMA InitOnce == Init => OnceInv /\ FirstInv
  BY DEF Init, OnceInv, MarkedInv, FirstInv, DecidedOnce, TrendMark, TrendEvent, Wild, Buckets

LEMMA DieKeeps == TypeOK /\ OnceInv /\ FirstInv /\ Die => OnceInv' /\ FirstInv'
<1> SUFFICES ASSUME TypeOK, OnceInv, FirstInv, Die PROVE OnceInv' /\ FirstInv'
  OBVIOUS
<1>0. pc' = "idle" /\ ran' = saved /\ UNCHANGED <<saved, source, late>>
  BY DEF Die
<1>1. CASE UNCHANGED decided
  <2>1. saved.tick <= saved.tick /\ saved.eval <= saved.eval
    BY TickAssumption DEF TickAssumption, TypeOK, Marks, Times
  <2> QED
    BY <1>0, <1>1, <2>1 DEF OnceInv, FirstInv, MarkedInv, DecidedOnce, TrendMark, TrendEvent
<1>2. CASE pc = "evalOpen" /\ Decide("TREND", ran.eval)
  BY <1>0, <1>2, EvalStep DEF OnceInv
<1>3. CASE Trading /\ Decide(bucket, ran.tick)
  BY <1>0, <1>3, BucketStep DEF OnceInv, Trading
<1> QED
  BY <1>1, <1>2, <1>3 DEF Die, Decide

\* Marks only grow, and every decision stays behind the larger ones.
LEMMA MarksGrow ==
    ASSUME TypeOK, OnceInv, FirstInv, NEW m \in Marks,
           saved.tick <= m.tick, saved.eval <= m.eval
    PROVE /\ \A t \in Times : decided[<<"TREND", t>>] > 0 =>
                t <= IF TrendEvent THEN m.eval ELSE m.tick
          /\ \A b \in Wild : \A t \in Times : decided[<<b, t>>] > 0 => t <= m.tick
          /\ TrendEvent => \A b \in Wild : \A t \in Times :
                decided[<<b, t>>] > 0 => t <= m.eval \/ t \in late
<1>1. /\ saved.tick \in Int /\ saved.eval \in Int /\ m.tick \in Int /\ m.eval \in Int
      /\ \A t \in Times : t \in Int
  BY TickAssumption DEF TickAssumption, TypeOK, Marks, Times
<1>2. ASSUME NEW t \in Times, decided[<<"TREND", t>>] > 0
      PROVE t <= IF TrendEvent THEN m.eval ELSE m.tick
  <2>1. t <= TrendMark
    BY <1>2 DEF OnceInv, MarkedInv
  <2>2. t \in Int
    BY <1>1
  <2> QED
    BY <1>1, <2>1, <2>2 DEF TrendMark
<1>3. ASSUME NEW b \in Wild, NEW t \in Times, decided[<<b, t>>] > 0 PROVE t <= m.tick
  <2>1. t <= saved.tick
    BY <1>3 DEF OnceInv, MarkedInv
  <2>2. t \in Int
    BY <1>1
  <2> QED
    BY <1>1, <2>1, <2>2
<1>4. ASSUME TrendEvent, NEW b \in Wild, NEW t \in Times, decided[<<b, t>>] > 0
      PROVE t <= m.eval \/ t \in late
  <2>1. t <= saved.eval \/ t \in late
    BY <1>4 DEF FirstInv
  <2>2. t \in Int
    BY <1>1
  <2> QED
    BY <1>1, <2>1, <2>2
<1> QED
  BY <1>2, <1>3, <1>4

LEMMA EvalMarkKeeps == TypeOK /\ OnceInv /\ FirstInv /\ EvalMark => OnceInv' /\ FirstInv'
<1> SUFFICES ASSUME TypeOK, OnceInv, FirstInv, EvalMark PROVE OnceInv' /\ FirstInv'
  OBVIOUS
<1> DEFINE s == LastBoundary(EvalEvery)
<1>1. s \in Times /\ s > ran.eval /\ TrendEvent
  BY BoundaryInRange, TickAssumption DEF TickAssumption, TypeOK, EvalMark, EvalDue, Due
<1>2. /\ saved' = ran' /\ ran'.tick = ran.tick /\ ran'.eval = s
      /\ UNCHANGED <<source, late>> /\ TrendEvent'
      /\ pc' \in {"tick", "evalOpen"}
  BY <1>1 DEF EvalMark, TypeOK, Marks, TrendEvent
<1>3. /\ saved.tick \in Int /\ saved.eval \in Int /\ ran.tick \in Int /\ ran.eval \in Int
      /\ s \in Int /\ saved.tick <= ran.tick /\ saved.eval <= ran.eval
  BY <1>1, TickAssumption DEF TickAssumption, TypeOK, Marks, Times, OnceInv, MarkedInv
<1>4. decided[<<"TREND", s>>] = 0
  BY <1>1, DueUndecided
<1>5. \A b \in Wild : decided[<<b, s>>] = 0 \/ s \in late
  <2>1. ASSUME NEW b \in Wild, decided[<<b, s>>] > 0 PROVE s \in late
    BY <1>1, <1>3, <2>1 DEF FirstInv
  <2>2. \A b \in Wild : decided[<<b, s>>] \in Nat
    BY <1>1 DEF TypeOK, Wild, Buckets
  <2> QED
    BY <2>1, <2>2
<1>6. /\ \A t \in Times : decided[<<"TREND", t>>] > 0 => t <= s
      /\ \A b \in Wild : \A t \in Times : decided[<<b, t>>] > 0 => t <= ran.tick
      /\ \A b \in Wild : \A t \in Times : decided[<<b, t>>] > 0 => t <= s \/ t \in late
  <2>1. /\ ran' \in Marks
        /\ saved.tick <= ran'.tick /\ saved.eval <= ran'.eval
    BY <1>1, <1>2, <1>3 DEF EvalMark, TypeOK, Marks
  <2> QED
    BY <1>1, <1>2, <2>1, MarksGrow
<1>10. MarkedInv' <=> /\ ran.tick <= ran.tick /\ s <= s
                      /\ \A t \in Times : decided'[<<"TREND", t>>] > 0 => t <= s
                      /\ \A b \in Wild : \A t \in Times : decided'[<<b, t>>] > 0 => t <= ran.tick
  BY <1>2 DEF MarkedInv, TrendMark
<1>7. \/ UNCHANGED decided /\ pc' = "evalOpen"
      \/ Decide("TREND", s) /\ pc' = "tick"
  BY DEF EvalMark
<1>8. CASE UNCHANGED decided /\ pc' = "evalOpen"
  <2>1. MarkedInv'
    BY <1>3, <1>6, <1>8, <1>10
  <2>2. OnceInv'
    BY <1>2, <1>4, <1>8, <2>1 DEF OnceInv, DecidedOnce
  <2> QED
    BY <1>2, <1>5, <1>6, <1>8, <2>2 DEF FirstInv
<1>9. CASE Decide("TREND", s) /\ pc' = "tick"
  <2>1. /\ decided'[<<"TREND", s>>] = 1
        /\ \A c \in Buckets : \A u \in Times :
              <<c, u>> # <<"TREND", s>> => decided'[<<c, u>>] = decided[<<c, u>>]
        /\ DecidedOnce'
    BY <1>1, <1>4, <1>9, DecideCounts DEF Decide, OnceInv, Buckets
  <2>2. \A c \in Wild : \A u \in Times : decided'[<<c, u>>] = decided[<<c, u>>]
    BY <2>1 DEF Wild, Buckets
  <2>3. ASSUME NEW t \in Times, decided'[<<"TREND", t>>] > 0 PROVE t <= s
    <3>1. CASE t = s
      BY <1>3, <3>1
    <3>2. CASE t # s
      <4>1. decided[<<"TREND", t>>] > 0
        BY <2>1, <2>3, <3>2 DEF Buckets
      <4> QED
        BY <1>6, <4>1
    <3> QED
      BY <3>1, <3>2
  <2>4. MarkedInv'
    BY <1>3, <1>6, <1>10, <2>2, <2>3
  <2>5. \A b \in Wild : \A t \in Times : decided'[<<b, t>>] > 0 => t <= s \/ t \in late
    BY <1>6, <2>2
  <2> QED
    BY <1>2, <1>9, <2>1, <2>4, <2>5 DEF OnceInv, FirstInv
<1> QED
  BY <1>7, <1>8, <1>9

LEMMA TickMarkKeeps == TypeOK /\ OnceInv /\ FirstInv /\ TickMark => OnceInv' /\ FirstInv'
<1> SUFFICES ASSUME TypeOK, OnceInv, FirstInv, TickMark PROVE OnceInv' /\ FirstInv'
  OBVIOUS
<1> DEFINE t0 == LastBoundary(TickEvery)
<1>1. t0 \in Times /\ t0 > ran.tick
  BY BoundaryInRange, TickAssumption DEF TickAssumption, TypeOK, TickMark, TickRuns, TickDue, Due
<1>2. /\ saved' = ran' /\ ran'.eval = ran.eval /\ ran'.tick = t0
      /\ UNCHANGED <<source, decided>> /\ (TrendEvent' <=> TrendEvent)
      /\ pc' = "bucket" /\ bucket' = "TREND"
  BY DEF TickMark, TypeOK, Marks, TrendEvent
<1>3. /\ saved.tick \in Int /\ saved.eval \in Int /\ ran.tick \in Int /\ ran.eval \in Int
      /\ t0 \in Int /\ saved.tick <= ran.tick /\ saved.eval <= ran.eval
  BY <1>1, TickAssumption DEF TickAssumption, TypeOK, Marks, Times, OnceInv, MarkedInv
<1>4. /\ \A b \in Wild : decided[<<b, t0>>] = 0
      /\ ~TrendEvent => decided[<<"TREND", t0>>] = 0
  BY <1>1, DueUndecided
<1>5. /\ \A t \in Times : decided[<<"TREND", t>>] > 0 => t <= IF TrendEvent THEN ran.eval ELSE t0
      /\ \A b \in Wild : \A t \in Times : decided[<<b, t>>] > 0 => t <= t0
      /\ TrendEvent => \A b \in Wild : \A t \in Times :
            decided[<<b, t>>] > 0 => t <= ran.eval \/ t \in late
  <2>1. /\ ran' \in Marks
        /\ saved.tick <= ran'.tick /\ saved.eval <= ran'.eval
    BY <1>1, <1>2, <1>3 DEF TickMark, TypeOK, Marks
  <2> QED
    BY <1>2, <2>1, MarksGrow
<1>6. MarkedInv'
  <2>1. t0 <= t0 /\ ran.eval <= ran.eval
    BY <1>3
  <2> QED
    BY <1>2, <1>5, <2>1 DEF MarkedInv, TrendMark
<1>7. \A b \in Remaining' : (b = "TREND" /\ TrendEvent) \/ decided[<<b, t0>>] = 0
  BY <1>2, <1>4 DEF Remaining, Buckets, Wild
<1>8. OnceInv'
  BY <1>2, <1>6, <1>7 DEF OnceInv, DecidedOnce
<1>9. TrendEvent => t0 <= ran.eval \/ t0 \in late'
  BY <1>3 DEF TickMark, TickRuns, TickWaits
<1>10. \A t \in late : t \in late'
  BY DEF TickMark
<1>11. FirstInv'
  <2>1. ASSUME TrendEvent, NEW b \in Wild, NEW t \in Times, decided[<<b, t>>] > 0
        PROVE t <= ran.eval \/ t \in late'
    BY <1>5, <1>10, <2>1
  <2> QED
    BY <1>2, <1>9, <2>1 DEF FirstInv
<1> QED
  BY <1>8, <1>11

LEMMA RaisesKeeps ==
    ASSUME TypeOK, OnceInv, FirstInv, EvalMarkRaises \/ TickMarkRaises
    PROVE OnceInv' /\ FirstInv'
<1>1. /\ pc' = "idle" /\ UNCHANGED <<decided, saved, source, late>>
      /\ ran.tick <= ran'.tick /\ ran.eval <= ran'.eval
      /\ ran'.tick \in Int /\ ran'.eval \in Int
  <2>1. /\ LastBoundary(EvalEvery) \in Int /\ LastBoundary(TickEvery) \in Int
        /\ ran.tick \in Int /\ ran.eval \in Int
    BY BoundaryInRange, TickAssumption DEF TickAssumption, TypeOK, Times, Marks
  <2> QED
    BY <2>1 DEF EvalMarkRaises, TickMarkRaises, TickRuns, TickDue, EvalDue, Due, TypeOK, Marks
<1>2. saved.tick <= ran'.tick /\ saved.eval <= ran'.eval
  <2>1. saved.tick \in Int /\ saved.eval \in Int /\ ran.tick \in Int /\ ran.eval \in Int
    BY TickAssumption DEF TickAssumption, TypeOK, Times, Marks
  <2> QED
    BY <1>1, <2>1 DEF OnceInv, MarkedInv
<1> QED
  BY <1>1, <1>2 DEF OnceInv, FirstInv, MarkedInv, DecidedOnce, TrendMark, TrendEvent

LEMMA SaveKeeps == TypeOK /\ OnceInv /\ FirstInv /\ SaveElsewhere => OnceInv' /\ FirstInv'
<1> SUFFICES ASSUME TypeOK, OnceInv, FirstInv, SaveElsewhere PROVE OnceInv' /\ FirstInv'
  OBVIOUS
<1>1. /\ pc' = "idle" /\ saved' = ran /\ UNCHANGED <<decided, ran, source, late>>
  BY DEF SaveElsewhere, ghosts
<1>2. /\ saved.tick \in Int /\ saved.eval \in Int /\ ran.tick \in Int /\ ran.eval \in Int
      /\ saved.tick <= ran.tick /\ saved.eval <= ran.eval
      /\ \A t \in Times : t \in Int
  BY TickAssumption DEF TickAssumption, TypeOK, Marks, Times, OnceInv, MarkedInv
<1>3. MarkedInv'
  BY <1>1, <1>2 DEF OnceInv, MarkedInv, TrendMark, TrendEvent
<1>4. OnceInv'
  BY <1>1, <1>3 DEF OnceInv, DecidedOnce
<1>5. FirstInv'
  BY <1>1, <1>2 DEF FirstInv, TrendEvent
<1> QED
  BY <1>4, <1>5

LEMMA StepOnce == TypeOK /\ OnceInv /\ FirstInv /\ [Next]_vars => OnceInv' /\ FirstInv'
<1> SUFFICES ASSUME TypeOK, OnceInv, FirstInv, [Next]_vars PROVE OnceInv' /\ FirstInv'
  OBVIOUS
<1>1. CASE PassTime \/ Boot \/ TogglePause \/ CycleRaises \/ UNCHANGED vars
  BY <1>1, QuietStep DEF PassTime, Boot, TogglePause, CycleRaises, vars, marks, ghosts
<1>2. ASSUME NEW p \in book, Leaves(p) PROVE OnceInv' /\ FirstInv'
  BY <1>2, QuietStep DEF Leaves, marks, ghosts
<1>3. ASSUME NEW gone \in SUBSET book, StartCycle(gone) PROVE OnceInv' /\ FirstInv'
  BY <1>3, QuietStep DEF StartCycle, marks, ghosts
<1>4. CASE EvalSkipped \/ EvalSelectFails \/ TickSkipped \/ TickSelectFails
  BY <1>4, QuietStep DEF EvalSkipped, EvalSelectFails, TickSkipped, TickSelectFails, marks, ghosts
<1>5. CASE Die
  BY <1>5, DieKeeps
<1>6. CASE SaveElsewhere
  BY <1>6, SaveKeeps
<1>7. CASE EvalMark
  BY <1>7, EvalMarkKeeps
<1>8. CASE TickMark
  BY <1>8, TickMarkKeeps
<1>9. CASE EvalMarkRaises \/ TickMarkRaises
  BY <1>9, RaisesKeeps
<1>10. CASE EvalOpen
  <2>1. pc = "evalOpen" /\ Decide("TREND", ran.eval) /\ pc' = "tick"
        /\ UNCHANGED <<ran, saved, source, late>>
    BY <1>10 DEF EvalOpen, marks
  <2> QED
    BY <2>1, EvalStep
<1>11. CASE BucketLeftToEval
  <2>1. /\ pc = "bucket" /\ bucket = "TREND" /\ pc' = "bucket" /\ bucket' = "WC_LONG"
        /\ UNCHANGED <<decided, ran, saved, source, late>>
    BY <1>11 DEF BucketLeftToEval, NextBucket, marks, ghosts
  <2> QED
    BY <2>1 DEF OnceInv, FirstInv, MarkedInv, DecidedOnce, TrendMark, TrendEvent, Remaining, Wild, Buckets
<1>12. CASE BucketOpensNothing \/ BucketOpens
  <2>1. \E view : NextBucket(view)
    BY <1>12 DEF BucketOpensNothing, BucketOpens
  <2>2. bucket \in Buckets
    BY DEF TypeOK
  <2>3. \/ pc' = "idle"
        \/ pc' = "bucket" /\ bucket = "TREND" /\ bucket' = "WC_LONG"
        \/ pc' = "bucket" /\ bucket = "WC_LONG" /\ bucket' = "WC_SHORT"
    BY <2>1, <2>2 DEF NextBucket, Buckets
  <2>4. Trading /\ Decide(bucket, ran.tick) /\ UNCHANGED <<ran, saved, source, late>>
    BY <1>12 DEF BucketOpensNothing, BucketOpens, marks
  <2> QED
    BY <2>3, <2>4, BucketStep
<1> QED
  BY <1>1, <1>2, <1>3, <1>4, <1>5, <1>6, <1>7, <1>8, <1>9, <1>10, <1>11, <1>12
     DEF Next, Environment, Exits, TrendEval, RandomTickStep

\* No bucket is decided twice for a tick or a close (runtime.py 9470, 9396): over
\* restarts, failed saves and pauses, for every cadence, grace and deferral.
THEOREM TicksDecidedOnce == Spec => []DecidedOnce
<1>1. OnceInv => DecidedOnce
  BY DEF OnceInv
<1> QED
  BY <1>1, InitTypeOK, StepTypeOK, InitOnce, StepOnce, PTL DEF Spec

-----------------------------------------------------------------------------
(* The decisions follow TickSchedule                                         *)
(*                                                                           *)
(* OnceInv says that a bucket has decided nothing at or after the boundary   *)
(* whose turn it is.  What is missing is that the boundary is one, and that  *)
(* the step is within its grace: a cycle lets the clock move once, and `lag` *)
(* says whether it has.                                                      *)

TurnInv ==
    /\ ~up => pc = "idle"
    /\ pc = "evalOpen" => /\ Schedule!Boundary(ran.eval, EvalEvery)
                          /\ now - ran.eval < Grace + lag
    /\ pc = "bucket" => /\ Schedule!Boundary(ran.tick, TickEvery)
                        /\ now - ran.tick < Grace + lag

\* The latest boundary is a multiple of its period.
LEMMA LastIsBoundary ==
    ASSUME now \in Times, NEW period \in Nat \ {0}
    PROVE Schedule!Boundary(LastBoundary(period), period)
<1>1. now \in Nat /\ Horizon \in Nat /\ now <= Horizon
  BY TickAssumption DEF TickAssumption, Times
<1> DEFINE n == now \div period
<1>2. n \in Nat /\ n <= now
  BY <1>1
<1>3. n \in 0 .. Horizon /\ LastBoundary(period) = n * period
  BY <1>1, <1>2 DEF LastBoundary
<1> HIDE DEF n
<1> QED
  BY <1>3 DEF Schedule!Boundary, Schedule!Times

LEMMA InitTurn == Init => TurnInv
  BY DEF Init, TurnInv

\* Where the turn is another's, or the same a moment later.
LEMMA QuietTurn ==
    ASSUME TurnInv, up' => pc' \notin {"evalOpen", "bucket"}, ~up' => pc' = "idle"
    PROVE TurnInv'
<1> QED
  BY DEF TurnInv

LEMMA StepTurn == TypeOK /\ TurnInv /\ [Next]_vars => TurnInv'
<1> SUFFICES ASSUME TypeOK, TurnInv, [Next]_vars PROVE TurnInv'
  OBVIOUS
<1>0. /\ now \in Int /\ lag \in Int /\ lag >= 0 /\ Grace \in Int
      /\ EvalEvery \in Nat \ {0} /\ TickEvery \in Nat \ {0}
  BY TickAssumption DEF TickAssumption, TypeOK, Times
<1>1. CASE PassTime
  <2>1. UNCHANGED <<up, pc, ran>> /\ now' = now + 1 /\ (up => lag = 0 /\ lag' = 1)
    BY <1>1 DEF PassTime, marks
  <2>2. pc = "evalOpen" => ran.eval \in Int
    BY TickAssumption DEF TickAssumption, TypeOK, Times
  <2>3. pc = "bucket" => ran.tick \in Int
    BY TickAssumption DEF TickAssumption, TypeOK, Times
  <2> QED
    BY <1>0, <2>1, <2>2, <2>3 DEF TurnInv
<1>2. CASE Die \/ Boot \/ TogglePause \/ SaveElsewhere \/ CycleRaises
  <2>1. pc' = "idle"
    BY <1>2 DEF Die, Boot, TogglePause, SaveElsewhere, CycleRaises, TurnInv
  <2> QED
    BY <2>1, QuietTurn
<1>3. ASSUME NEW p \in book, Leaves(p) PROVE TurnInv'
  BY <1>3, QuietTurn DEF Leaves
<1>4. ASSUME NEW gone \in SUBSET book, StartCycle(gone) PROVE TurnInv'
  BY <1>4, QuietTurn DEF StartCycle
<1>5. CASE EvalSkipped \/ EvalSelectFails \/ EvalMarkRaises \/ EvalOpen
           \/ TickSkipped \/ TickSelectFails \/ TickMarkRaises
  <2>1. pc' \in {"idle", "tick"} /\ up' = up /\ pc # "idle"
    BY <1>5 DEF EvalSkipped, EvalSelectFails, EvalMarkRaises, EvalOpen, TickSkipped, TickSelectFails,
                TickMarkRaises, TickRuns
  <2> QED
    BY <2>1, QuietTurn DEF TurnInv
<1>6. CASE EvalMark
  <2>1. /\ pc = "eval" /\ UNCHANGED <<up, now, lag>> /\ pc' \in {"tick", "evalOpen"}
        /\ ran'.eval = LastBoundary(EvalEvery) /\ now - LastBoundary(EvalEvery) < Grace
    BY <1>6 DEF EvalMark, EvalDue, Due, TypeOK, Marks
  <2>2. Schedule!Boundary(LastBoundary(EvalEvery), EvalEvery) /\ LastBoundary(EvalEvery) \in Int
    BY <1>0, LastIsBoundary, BoundaryInRange, TickAssumption DEF TypeOK, TickAssumption, Times
  <2> QED
    BY <1>0, <2>1, <2>2 DEF TurnInv, Schedule!Boundary, Schedule!Times
<1>7. CASE TickMark
  <2>1. /\ pc = "tick" /\ UNCHANGED <<up, now, lag>> /\ pc' = "bucket"
        /\ ran'.tick = LastBoundary(TickEvery) /\ now - LastBoundary(TickEvery) < Grace
    BY <1>7 DEF TickMark, TickRuns, TickDue, Due, TypeOK, Marks
  <2>2. Schedule!Boundary(LastBoundary(TickEvery), TickEvery) /\ LastBoundary(TickEvery) \in Int
    BY <1>0, LastIsBoundary, BoundaryInRange, TickAssumption DEF TypeOK, TickAssumption, Times
  <2> QED
    BY <1>0, <2>1, <2>2 DEF TurnInv, Schedule!Boundary, Schedule!Times
<1>8. CASE BucketLeftToEval \/ BucketOpensNothing \/ BucketOpens
  <2>1. pc = "bucket" /\ pc' \in {"idle", "bucket"} /\ UNCHANGED <<up, now, lag, ran>>
    BY <1>8 DEF BucketLeftToEval, BucketOpensNothing, BucketOpens, Trading, NextBucket, marks
  <2> QED
    BY <2>1 DEF TurnInv, Schedule!Boundary, Schedule!Times
<1>9. CASE UNCHANGED vars
  BY <1>9 DEF vars, marks, TurnInv, Schedule!Boundary, Schedule!Times
<1> QED
  BY <1>1, <1>2, <1>3, <1>4, <1>5, <1>6, <1>7, <1>8, <1>9
     DEF Next, Environment, Exits, TrendEval, RandomTickStep

\* One decision, for a boundary beyond all that its bucket has decided.
LEMMA DecisionFollows ==
    ASSUME TypeOK, NEW b \in Buckets, NEW t \in Times, Decide(b, t), UNCHANGED <<now, source>>,
           Schedule!Boundary(t, Every[b]), t <= now, now - t <= Grace,
           \A u \in Times : u >= t => decided[<<b, u>>] = 0
    PROVE Schedule!Next
<1>1. now \in Int /\ t \in Int /\ Grace \in Int
  BY TickAssumption DEF TickAssumption, TypeOK, Times
<1> DEFINE age == now - t
<1>2. age \in 0 .. Grace /\ now - age = t
  BY <1>1
<1>3. decided[<<b, t>>] = 0
  BY <1>1
<1>4. decided' = [decided EXCEPT ![<<b, t>>] = 1]
  BY <1>3 DEF Decide, TypeOK
<1>5. Every' = Every
  BY DEF Every, TrendEvent
<1>6. Schedule!Decide(b, t)
  BY <1>4, <1>5 DEF Schedule!Decide, Schedule!Times, Times
<1> QED
  BY <1>2, <1>6 DEF Schedule!Next, Schedule!Times, Times

\* A bucket's turn in a tick, also when the process dies in it.
LEMMA BucketFollows ==
    ASSUME TypeOK, OnceInv, TurnInv, Trading, Decide(bucket, ran.tick), UNCHANGED <<now, source>>
    PROVE Schedule!Next
<1>1. /\ pc = "bucket" /\ bucket \in Buckets /\ ran.tick \in Times /\ saved = ran
      /\ decided[<<bucket, ran.tick>>] = 0 /\ (bucket = "TREND" => ~TrendEvent)
  BY DEF Trading, TypeOK, OnceInv, Remaining, Buckets, Wild
<1>2. /\ now \in Int /\ lag \in {0, 1} /\ Grace \in Int /\ ran.tick \in Int /\ ran.tick <= now
      /\ \A u \in Times : u \in Int
  BY <1>1, TickAssumption DEF TickAssumption, TypeOK, Times
<1>3. now - ran.tick <= Grace
  BY <1>1, <1>2 DEF TurnInv
<1>4. Schedule!Boundary(ran.tick, Every[bucket])
  BY <1>1 DEF TurnInv, Every
<1>5. ASSUME NEW u \in Times, u >= ran.tick PROVE decided[<<bucket, u>>] = 0
  <2>1. decided[<<bucket, u>>] \in Nat
    BY <1>1 DEF TypeOK
  <2>2. decided[<<bucket, u>>] > 0 => u <= ran.tick
    BY <1>1 DEF OnceInv, MarkedInv, TrendMark, Wild, Buckets
  <2> QED
    BY <1>1, <1>2, <1>5, <2>1, <2>2
<1> QED
  BY <1>1, <1>2, <1>3, <1>4, <1>5, DecisionFollows

\* The evaluation's turn, also when the process dies in it.
LEMMA EvalFollows ==
    ASSUME TypeOK, OnceInv, TurnInv, pc = "evalOpen", Decide("TREND", ran.eval),
           UNCHANGED <<now, source>>
    PROVE Schedule!Next
<1>1. /\ "TREND" \in Buckets /\ ran.eval \in Times /\ saved = ran /\ TrendEvent
      /\ decided[<<"TREND", ran.eval>>] = 0
  BY DEF TypeOK, OnceInv, Buckets
<1>2. /\ now \in Int /\ lag \in {0, 1} /\ Grace \in Int /\ ran.eval \in Int /\ ran.eval <= now
      /\ \A u \in Times : u \in Int
  BY <1>1, TickAssumption DEF TickAssumption, TypeOK, Times
<1>3. now - ran.eval <= Grace
  BY <1>2 DEF TurnInv
<1>4. Schedule!Boundary(ran.eval, Every["TREND"])
  BY <1>1 DEF TurnInv, Every
<1>5. ASSUME NEW u \in Times, u >= ran.eval PROVE decided[<<"TREND", u>>] = 0
  <2>1. decided[<<"TREND", u>>] \in Nat
    BY <1>1 DEF TypeOK
  <2>2. decided[<<"TREND", u>>] > 0 => u <= ran.eval
    BY <1>1 DEF OnceInv, MarkedInv, TrendMark
  <2> QED
    BY <1>1, <1>2, <1>5, <2>1, <2>2
<1> QED
  BY <1>1, <1>2, <1>3, <1>4, <1>5, DecisionFollows

\* A close that is logged only: paused, or TREND off.
LEMMA LoggedFollows ==
    ASSUME TypeOK, OnceInv, EvalMark, Decide("TREND", LastBoundary(EvalEvery))
    PROVE Schedule!Next
<1> DEFINE s == LastBoundary(EvalEvery)
<1>1. /\ s \in Times /\ s <= now /\ Schedule!Boundary(s, EvalEvery) /\ TrendEvent
      /\ s > ran.eval /\ now - s < Grace /\ UNCHANGED <<now, source>> /\ "TREND" \in Buckets
  BY BoundaryInRange, LastIsBoundary, TickAssumption
     DEF TickAssumption, TypeOK, EvalMark, EvalDue, Due, Buckets
<1>2. /\ now \in Int /\ Grace \in Int /\ s \in Int /\ ran.eval \in Int /\ saved.eval \in Int
      /\ \A u \in Times : u \in Int
  BY <1>1, TickAssumption DEF TickAssumption, TypeOK, Marks, Times
<1> HIDE DEF s
<1>3. Schedule!Boundary(s, Every["TREND"])
  BY <1>1 DEF Every
<1>4. ASSUME NEW u \in Times, u >= s PROVE decided[<<"TREND", u>>] = 0
  <2>1. u > ran.eval
    BY <1>1, <1>2, <1>4
  <2> QED
    BY <1>1, <2>1, DueUndecided
<1>5. Decide("TREND", s) /\ now - s <= Grace
  BY <1>1, <1>2 DEF s
<1> QED
  BY <1>1, <1>3, <1>4, <1>5, DecisionFollows

LEMMA ScheduleRefined ==
    TypeOK /\ OnceInv /\ TurnInv /\ [Next]_vars => [Schedule!Next]_Schedule!vars
<1> SUFFICES ASSUME TypeOK, OnceInv, TurnInv, [Next]_vars PROVE [Schedule!Next]_Schedule!vars
  OBVIOUS
<1>1. ASSUME UNCHANGED <<now, source, decided>> PROVE [Schedule!Next]_Schedule!vars
  BY <1>1 DEF Schedule!vars, Every, TrendEvent
<1>2. CASE PassTime
  <2>1. Every' = Every
    BY <1>2 DEF PassTime, Every, TrendEvent
  <2> QED
    BY <1>2, <2>1 DEF PassTime, Schedule!Next, Schedule!Pass
<1>3. CASE Die
  BY <1>1, <1>3, BucketFollows, EvalFollows DEF Die, Decide
<1>4. CASE EvalMark
  BY <1>1, <1>4, LoggedFollows DEF EvalMark
<1>5. CASE EvalOpen
  BY <1>5, EvalFollows DEF EvalOpen
<1>6. CASE BucketOpensNothing \/ BucketOpens
  BY <1>6, BucketFollows DEF BucketOpensNothing, BucketOpens
<1>7. CASE Boot \/ TogglePause \/ SaveElsewhere \/ CycleRaises \/ EvalSkipped \/ EvalSelectFails
           \/ EvalMarkRaises \/ TickSkipped \/ TickSelectFails \/ TickMark \/ TickMarkRaises
           \/ BucketLeftToEval \/ UNCHANGED vars
  BY <1>1, <1>7 DEF Boot, TogglePause, SaveElsewhere, CycleRaises, EvalSkipped, EvalSelectFails,
     EvalMarkRaises, TickSkipped, TickSelectFails, TickMark, TickMarkRaises, BucketLeftToEval, vars, ghosts
<1>8. ASSUME NEW p \in book, Leaves(p) PROVE [Schedule!Next]_Schedule!vars
  BY <1>1, <1>8 DEF Leaves, ghosts
<1>9. ASSUME NEW gone \in SUBSET book, StartCycle(gone) PROVE [Schedule!Next]_Schedule!vars
  BY <1>1, <1>9 DEF StartCycle, ghosts
<1> QED
  BY <1>2, <1>3, <1>4, <1>5, <1>6, <1>7, <1>8, <1>9
     DEF Next, Environment, Exits, TrendEval, RandomTickStep

\* The decisions of random mode follow TickSchedule, over restarts at any point, failed
\* saves, pauses and slow orders: forward over each bucket's own boundaries, once for
\* each, none after its grace (random_mode.due_tick, runtime.py 9470).
THEOREM DecisionsFollowSchedule == Spec => ScheduleSpec
<1>1. Init => Schedule!Init
  BY TickAssumption DEF TickAssumption, Init, Schedule!Init, Schedule!Times, Times, Every
<1>2. TypeOK /\ OnceInv /\ TurnInv /\ [Next]_vars => [Schedule!Next]_Schedule!vars
  BY ScheduleRefined
<1> QED
  BY <1>1, <1>2, InitTypeOK, StepTypeOK, InitOnce, StepOnce, InitTurn, StepTurn, PTL
     DEF Spec, ScheduleSpec, Schedule!Spec

-----------------------------------------------------------------------------
(* TREND before WILDCARD *)

LEMMA StepTrendFirst ==
    ASSUME TypeOK, OnceInv, FirstInv, [Next]_vars, NEW t \in Times,
           decided'[<<"TREND", t>>] # decided[<<"TREND", t>>]
    PROVE \/ decided[<<"WC_LONG", t>>] = 0 /\ decided[<<"WC_SHORT", t>>] = 0
          \/ t \in late
<1>1. ASSUME NEW b \in Buckets, NEW u \in Times, Decide(b, u) PROVE b = "TREND" /\ u = t
  <2>1. <<"TREND", t>> = <<b, u>>
    BY <1>1 DEF Decide, TypeOK, Buckets
  <2> QED
    BY <2>1
<1>2. CASE pc = "evalOpen" /\ Decide("TREND", ran.eval)
  <2>1. t = ran.eval
    BY <1>1, <1>2 DEF TypeOK, Buckets
  <2> QED
    BY <1>2, <2>1 DEF OnceInv, FirstInv, Wild
<1>3. CASE Trading /\ Decide(bucket, ran.tick)
  <2>1. t = ran.tick /\ bucket = "TREND" /\ pc = "bucket"
    BY <1>1, <1>3 DEF TypeOK, Trading
  <2> QED
    BY <2>1 DEF OnceInv, Remaining, Buckets
<1>4. CASE EvalMark /\ Decide("TREND", LastBoundary(EvalEvery))
  <2>1. LastBoundary(EvalEvery) \in Times
    BY BoundaryInRange, TickAssumption DEF TickAssumption, TypeOK
  <2>2. t = LastBoundary(EvalEvery) /\ t > ran.eval /\ TrendEvent
    BY <1>1, <1>4, <2>1 DEF EvalMark, EvalDue, Due, Buckets
  <2>3. /\ saved.eval \in Int /\ ran.eval \in Int /\ t \in Int /\ saved.eval <= ran.eval
        /\ \A b \in Wild : decided[<<b, t>>] \in Nat
    BY TickAssumption DEF TickAssumption, TypeOK, Marks, Times, OnceInv, MarkedInv, Wild, Buckets
  <2>4. \A b \in Wild : decided[<<b, t>>] > 0 => t <= saved.eval \/ t \in late
    BY <2>2 DEF FirstInv
  <2> QED
    BY <2>2, <2>3, <2>4 DEF Wild
<1>5. decided' = decided => FALSE
  OBVIOUS
<1> QED
  BY <1>2, <1>3, <1>4, <1>5
     DEF Next, Environment, Exits, TrendEval, RandomTickStep, vars, ghosts, PassTime, Die, Boot,
         TogglePause, SaveElsewhere, Leaves, StartCycle, CycleRaises, EvalSkipped, EvalSelectFails,
         EvalMark, EvalMarkRaises, EvalOpen, TickSkipped, TickSelectFails, TickMark, TickMarkRaises,
         BucketLeftToEval, BucketOpensNothing, BucketOpens, Decide

\* TREND comes before WILDCARD (runtime.py 15259) unless the tick had waited for it
\* to the end of its deferral.
THEOREM TrendGoesFirst == Spec => TrendFirst
<1>1. TypeOK /\ OnceInv /\ FirstInv /\ [Next]_vars
        => [\A t \in Times :
              decided'[<<"TREND", t>>] # decided[<<"TREND", t>>]
                => \/ decided[<<"WC_LONG", t>>] = 0 /\ decided[<<"WC_SHORT", t>>] = 0
                   \/ t \in late]_vars
  BY StepTrendFirst
<1> QED
  BY <1>1, InitTypeOK, StepTypeOK, InitOnce, StepOnce, PTL DEF Spec, TrendFirst

-----------------------------------------------------------------------------
(* Waiting                                                                    *)

LEMMA TimesMono ==
    ASSUME NEW p \in Int, NEW q \in Int, NEW n \in Nat, p <= q PROVE p * n <= q * n
<1>1. PICK d \in Nat : q = p + d
  <2>1. q - p \in Nat /\ q = p + (q - p)
    OBVIOUS
  <2> QED BY <2>1
<1>2. q * n = p * n + d * n /\ d * n \in Nat /\ p * n \in Int
  BY <1>1
<1> QED BY <1>2

LEMMA Division ==
    ASSUME NEW n \in Nat, NEW every \in Nat \ {0}
    PROVE n \div every \in Nat /\ (n \div every) * every <= n /\ n < (n \div every) * every + every
  OBVIOUS

\* With time the latest boundary stays, or it is the new time.
LEMMA BoundaryMoves ==
    ASSUME now \in Nat, now' = now + 1, NEW every \in Nat \ {0}
    PROVE /\ LastBoundary(every)' = ((now + 1) \div every) * every
          /\ LastBoundary(every)' # now + 1 => LastBoundary(every)' = LastBoundary(every)
<1> DEFINE p == now \div every  q == (now + 1) \div every
<1>1. /\ p \in Nat /\ p * every <= now /\ now < p * every + every
      /\ q \in Nat /\ q * every <= now + 1 /\ now + 1 < q * every + every
  BY Division
<1>2. LastBoundary(every) = p * every /\ LastBoundary(every)' = q * every
  BY DEF LastBoundary
<1>0. LastBoundary(every)' = ((now + 1) \div every) * every
  BY <1>2
<1> HIDE DEF p, q
<1>3. CASE q * every # now + 1
  <2>1. p * every \in Nat /\ q * every \in Nat /\ (p + 1) * every = p * every + every
        /\ (q + 1) * every = q * every + every
    BY <1>1
  <2>2. ~(p + 1 <= q)
    <3>1. p + 1 <= q => (p + 1) * every <= q * every
      BY <1>1, TimesMono
    <3> QED BY <1>1, <1>3, <2>1, <3>1
  <2>3. ~(q + 1 <= p)
    <3>1. q + 1 <= p => (q + 1) * every <= p * every
      BY <1>1, TimesMono
    <3> QED BY <1>1, <1>3, <2>1, <3>1
  <2>4. p = q
    BY <1>1, <2>2, <2>3
  <2> QED BY <1>0, <1>2, <2>4
<1>4. CASE q * every = now + 1
  BY <1>0, <1>2, <1>4
<1> QED BY <1>3, <1>4

LEMMA BoundaryStays ==
    ASSUME now' = now, NEW every PROVE LastBoundary(every)' = LastBoundary(every)
  BY DEF LastBoundary

\* The latest boundary is not marked yet, or it is the last one marked.  While the
\* clock has not moved since the cycle began, a bucket is of that boundary; and if
\* only waiting can have held the tick up, then after the cycle begun at the end of
\* the deferral it is marked.
Marked == ran.tick = LastBoundary(TickEvery)
Waited == now - LastBoundary(TickEvery)
WaitInv ==
    /\ ran.tick <= LastBoundary(TickEvery) /\ saved.tick <= LastBoundary(TickEvery)
    /\ ~up => pc = "idle"
    /\ ~heldUp => up /\ ~paused
    /\ pc = "bucket" /\ lag = 0 => Marked
    /\ ~heldUp /\ pc = "idle" /\ lag = 0 /\ Waited >= Defer => Marked
    /\ ~heldUp /\ Waited > Defer => Marked

LEMMA InitWait == ASSUME Defer > 0 PROVE Init => WaitInv
<1> SUFFICES ASSUME Init PROVE WaitInv
  OBVIOUS
<1>1. now = 0 /\ now \in Times
  BY InitTypeOK DEF Init, TypeOK
<1>2. LastBoundary(TickEvery) = 0
  BY <1>1, BoundaryInRange, TickAssumption DEF TickAssumption, Times
<1>3. ran.tick = -1 /\ saved.tick = -1 /\ Waited = 0 /\ up /\ ~paused /\ pc = "idle"
  BY <1>1, <1>2 DEF Init, Waited
<1>4. Defer \in Nat
  BY TickAssumption DEF TickAssumption
<1> QED
  BY <1>2, <1>3, <1>4 DEF WaitInv

\* A step that leaves the clock and the marks alone, and ends no cycle.
LEMMA SameWait ==
    ASSUME WaitInv, now' = now, ran' = ran, saved'.tick \in {saved.tick, ran.tick}, lag' = lag,
           heldUp' = heldUp, ~heldUp' => up' /\ ~paused', pc' \in {pc, "eval", "evalOpen", "tick"},
           ~up' => pc' = "idle"
    PROVE WaitInv'
<1>1. LastBoundary(TickEvery)' = LastBoundary(TickEvery)
  BY BoundaryStays
<1>2. Waited' = Waited /\ (Marked <=> Marked')
  BY <1>1 DEF Waited, Marked
<1> QED
  BY <1>1, <1>2 DEF WaitInv

\* A step after which it is held up, at a mark that is the old one or the boundary's.
LEMMA HeldWait ==
    ASSUME WaitInv, TypeOK, now' = now, ran'.tick \in {ran.tick, saved.tick, LastBoundary(TickEvery)},
           saved' = saved, heldUp', pc' = "idle"
    PROVE WaitInv'
<1>1. LastBoundary(TickEvery)' = LastBoundary(TickEvery) /\ LastBoundary(TickEvery) \in Int
  BY BoundaryStays, BoundaryInRange, TickAssumption DEF TickAssumption, TypeOK, Times
<1> QED
  BY <1>1 DEF WaitInv

\* The clock moves in a unit in which a cycle began and, unless an order was slow,
\* came to its end.
LEMMA TimeWait ==
    ASSUME TypeOK, WaitInv, Defer > 0, PassTime PROVE WaitInv'
<1>1. /\ now \in Nat /\ now' = now + 1 /\ now' \in Times /\ lag' = 1 /\ UNCHANGED <<up, paused, pc, ran, saved>>
      /\ up => lag = 0 /\ pc \in {"idle", "bucket", "evalOpen"}
  BY TickAssumption DEF TickAssumption, PassTime, TypeOK, Times, marks
<1> DEFINE lb == LastBoundary(TickEvery)
<1>2. /\ lb \in Nat /\ lb' \in Nat /\ lb <= now /\ lb' <= now + 1
      /\ lb' = ((now + 1) \div TickEvery) * TickEvery
      /\ lb' # now + 1 => lb' = lb
  <2>1. lb \in Nat /\ lb <= now
    BY BoundaryInRange, TickAssumption DEF TickAssumption, TypeOK, Times
  <2>2. lb' = ((now + 1) \div TickEvery) * TickEvery /\ (lb' # now + 1 => lb' = lb)
    BY <1>1, BoundaryMoves, TickAssumption DEF TickAssumption
  <2>3. lb' \in Nat /\ lb' <= now + 1
    BY <1>1, <2>1, <2>2
  <2> QED BY <2>1, <2>2, <2>3
<1>3. /\ lb' = now + 1 => heldUp' = (~up \/ paused)
      /\ lb' # now + 1 => heldUp' = (heldUp \/ pc = "evalOpen")
  BY <1>1, <1>2 DEF PassTime
<1>4. Waited = now - lb /\ Waited' = now + 1 - lb'
  <2>1. Waited = now - lb /\ Waited' = now' - lb'
    BY DEF Waited
  <2>2. now' = now + 1
    BY <1>1
  <2> HIDE DEF lb
  <2> QED BY <1>1, <1>2, <2>1, <2>2
<1>9. Marked /\ lb' = lb => Marked'
  BY <1>1 DEF Marked
<1> HIDE DEF lb
<1>5. ran.tick <= lb /\ saved.tick <= lb
  BY DEF WaitInv, lb
<1>6. ran'.tick <= lb' /\ saved'.tick <= lb'
  <2>1. ran.tick \in Int /\ saved.tick \in Int /\ lb <= lb'
    BY <1>1, <1>2, TickAssumption DEF TickAssumption, TypeOK, Marks, Times
  <2> QED
    BY <1>1, <1>2, <1>5, <2>1
<1>7. ~heldUp' => up' /\ ~paused'
  BY <1>1, <1>3 DEF WaitInv
<1>8. ~heldUp' /\ Waited' > Defer => Marked'
  <2> SUFFICES ASSUME ~heldUp', Waited' > Defer PROVE Marked'
    OBVIOUS
  <2>1. Defer \in Nat
    BY TickAssumption DEF TickAssumption
  <2>2. lb' # now + 1
    BY <1>1, <1>2, <1>4, <2>1
  <2>5. lb' = lb /\ Waited >= Defer
    BY <1>1, <1>2, <1>4, <2>1, <2>2
  <2>6. ~heldUp /\ pc # "evalOpen"
    BY <1>3, <2>2
  <2>3. up /\ lag = 0 /\ pc \in {"idle", "bucket"}
    BY <1>1, <2>6 DEF WaitInv
  <2>4. Marked
    BY <2>3, <2>5, <2>6 DEF WaitInv
  <2> QED BY <1>9, <2>4, <2>5
<1> QED
  BY <1>1, <1>6, <1>7, <1>8 DEF WaitInv, lb

\* The tick ends a cycle only if it is marked, or must still wait.
LEMMA SkipWait ==
    ASSUME TypeOK, WaitInv, TickSkipped, Defer < Grace PROVE WaitInv'
<1>1. /\ now' = now /\ UNCHANGED <<lag, up, paused, ran, saved, heldUp, bucket>> /\ pc' = "idle"
  BY DEF TickSkipped, marks, ghosts
<1>2. LastBoundary(TickEvery)' = LastBoundary(TickEvery) /\ Waited' = Waited /\ (Marked <=> Marked')
  BY <1>1, BoundaryStays DEF Waited, Marked
<1>3. ~heldUp /\ Waited >= Defer => Marked
  <2> SUFFICES ASSUME ~heldUp, Waited >= Defer PROVE Marked
    OBVIOUS
  <2>1. Waited \in Int /\ Defer \in Nat /\ Grace \in Nat /\ ran.tick \in Int /\ LastBoundary(TickEvery) \in Int
    <3>1. LastBoundary(TickEvery) \in Int /\ now \in Int
      BY BoundaryInRange, TickAssumption DEF TickAssumption, TypeOK, Times
    <3>2. ran.tick \in Int
      BY TickAssumption DEF TickAssumption, TypeOK, Times, Marks
    <3> QED BY <3>1, <3>2, TickAssumption DEF TickAssumption, Waited
  <2>2. ~paused /\ ~TickWaits
    BY <2>1 DEF WaitInv, TickWaits, Waits, Waited
  <2>3. ~TickDue
    BY <2>2 DEF TickSkipped
  <2>4. CASE Waited > Defer
    BY <2>4 DEF WaitInv
  <2>5. CASE Waited <= Defer
    <3>1. Waited < Grace
      BY <2>1, <2>5
    <3>2. ~(LastBoundary(TickEvery) > ran.tick)
      BY <2>3, <3>1 DEF TickDue, Due, Waited
    <3> QED BY <2>1, <3>2 DEF WaitInv, Marked
  <2> QED BY <2>1, <2>4, <2>5
<1> QED
  BY <1>1, <1>2, <1>3 DEF WaitInv

\* The mark is the boundary's; a bucket of a cycle that is not over keeps it.
LEMMA MarkWait ==
    ASSUME TypeOK, WaitInv, TickMark PROVE WaitInv'
<1>1. /\ now' = now /\ ran'.tick = LastBoundary(TickEvery) /\ saved'.tick = LastBoundary(TickEvery)
      /\ UNCHANGED <<up, paused, heldUp>>
  BY DEF TickMark, TypeOK, Marks
<1>2. LastBoundary(TickEvery)' = LastBoundary(TickEvery) /\ LastBoundary(TickEvery) \in Int
  BY <1>1, BoundaryStays, BoundaryInRange, TickAssumption DEF TickAssumption, TypeOK, Times
<1>3. Marked' /\ pc' = "bucket" /\ up' = up /\ (up \/ pc # "idle")
  BY <1>1, <1>2 DEF Marked, TickMark, TickRuns
<1> QED
  BY <1>1, <1>2, <1>3 DEF WaitInv

LEMMA BucketWait ==
    ASSUME TypeOK, WaitInv, BucketLeftToEval \/ BucketOpensNothing \/ BucketOpens PROVE WaitInv'
<1>1. /\ now' = now /\ UNCHANGED <<lag, up, paused, ran, saved, heldUp>> /\ pc = "bucket" /\ pc' \in {"idle", "bucket"}
  BY DEF BucketLeftToEval, BucketOpensNothing, BucketOpens, Trading, NextBucket, marks, ghosts
<1>2. LastBoundary(TickEvery)' = LastBoundary(TickEvery) /\ Waited' = Waited /\ (Marked <=> Marked')
  BY <1>1, BoundaryStays DEF Waited, Marked
<1> QED
  BY <1>1, <1>2 DEF WaitInv

LEMMA StepWait ==
    ASSUME 0 < Defer, Defer < Grace
    PROVE TypeOK /\ WaitInv /\ [Next]_vars => WaitInv'
<1> SUFFICES ASSUME TypeOK, WaitInv, [Next]_vars PROVE WaitInv'
  OBVIOUS
<1>1. CASE PassTime
  BY <1>1, TimeWait
<1>2. CASE Die \/ TogglePause \/ CycleRaises \/ EvalMarkRaises \/ TickSelectFails \/ TickMarkRaises
  <2>1. /\ now' = now /\ saved' = saved /\ heldUp' /\ pc' = "idle"
        /\ ran'.tick \in {ran.tick, saved.tick, LastBoundary(TickEvery)}
    BY <1>2 DEF Die, TogglePause, CycleRaises, EvalMarkRaises, TickSelectFails, TickMarkRaises, TypeOK, Marks, marks
  <2> QED BY <2>1, HeldWait
<1>3. CASE Boot
  <2>1. heldUp
    BY <1>3 DEF Boot, WaitInv
  <2>2. now' = now /\ ran' = ran /\ saved' = saved /\ heldUp' /\ pc' = pc
    BY <1>3, <2>1 DEF Boot, marks, ghosts
  <2>3. pc = "idle"
    BY <1>3 DEF Boot, WaitInv
  <2> QED BY <2>2, <2>3, HeldWait
<1>4. CASE SaveElsewhere \/ (\E p \in book : Leaves(p)) \/ EvalSkipped \/ EvalSelectFails \/ EvalOpen
  <2>1. /\ now' = now /\ ran' = ran /\ saved' \in {saved, ran} /\ lag' = lag /\ heldUp' = heldUp
        /\ UNCHANGED <<up, paused>> /\ pc' \in {pc, "tick"} /\ (up \/ pc # "idle")
    BY <1>4 DEF SaveElsewhere, Leaves, EvalSkipped, EvalSelectFails, EvalOpen, marks, ghosts
  <2> QED BY <2>1, SameWait DEF WaitInv
<1>5. CASE TickSkipped
  BY <1>5, SkipWait
<1>6. CASE TickMark
  BY <1>6, MarkWait
<1>7. CASE BucketLeftToEval \/ BucketOpensNothing \/ BucketOpens
  BY <1>7, BucketWait
<1>8. CASE (\E gone \in SUBSET book : StartCycle(gone)) \/ EvalMark
  <2>1. /\ now' = now /\ ran'.tick = ran.tick /\ saved'.tick \in {saved.tick, ran.tick} /\ heldUp' = heldUp
        /\ UNCHANGED <<up, paused>> /\ pc' \in {"eval", "evalOpen", "tick"} /\ (up \/ pc # "idle")
    BY <1>8 DEF StartCycle, EvalMark, TypeOK, Marks, marks, ghosts
  <2>2. LastBoundary(TickEvery)' = LastBoundary(TickEvery) /\ Waited' = Waited /\ (Marked <=> Marked')
    BY <2>1, BoundaryStays DEF Waited, Marked
  <2> QED BY <2>1, <2>2 DEF WaitInv
<1>9. CASE UNCHANGED vars
  <2>1. now' = now /\ ran' = ran /\ saved' = saved /\ lag' = lag /\ heldUp' = heldUp /\ UNCHANGED <<up, paused, pc>>
    BY <1>9 DEF vars, marks, ghosts
  <2> QED BY <2>1, SameWait DEF WaitInv
<1> QED
  BY <1>1, <1>2, <1>3, <1>4, <1>5, <1>6, <1>7, <1>8, <1>9
     DEF Next, Environment, Exits, TrendEval, RandomTickStep

\* Waiting for due positions or for TREND never costs a tick (random_mode.py 93-97),
\* for every grace that is longer than the deferral.
THEOREM WaitingIsFree ==
    ASSUME 0 < Defer, Defer < Grace
    PROVE Spec => []WaitingLosesNoTick
<1>1. TypeOK /\ WaitInv => WaitingLosesNoTick
  <2> SUFFICES ASSUME TypeOK, WaitInv, ~heldUp, Missed PROVE FALSE
    BY DEF WaitingLosesNoTick
  <2>1. Waited >= Grace /\ ~Marked
    BY DEF Missed, Waited, Marked
  <2>2. Waited \in Int /\ Defer \in Nat /\ Grace \in Nat
    BY BoundaryInRange, TickAssumption DEF TickAssumption, TypeOK, Times, Waited
  <2> QED BY <2>1, <2>2 DEF WaitInv
<1>2. Init => WaitInv
  BY InitWait
<1>3. TypeOK /\ WaitInv /\ [Next]_vars => WaitInv'
  BY StepWait
<1> QED
  BY <1>1, <1>2, <1>3, InitTypeOK, StepTypeOK, PTL DEF Spec
-----------------------------------------------------------------------------
(* The slots of a tick                                                       *)
(*                                                                           *)
(* What a tick may open is counted by BookAt, from the book and the history  *)
(* as they are when it is run.  That this count is no lower than what was    *)
(* open at the tick rests on three things: the book never holds two          *)
(* positions of one symbol; a symbol freed since the tick is not taken       *)
(* before the tick is run, nor while a slow order of it is under way; and    *)
(* nothing leaves the book while an order is.                                *)

TickNow == LastBoundary(TickEvery)
InBook(k) == {p \in book : p.sleeve = k}
OpenedNow(k) == {p \in book : p.sleeve = k /\ p.ts = TickNow}

\* Held at the latest tick and not due then: still, or closed since.
StillHeld(k) == {p \in book : p.sleeve = k /\ p.in < TickNow /\ p.ts + Clock > TickNow}
Gone == {r \in past : OpenAt(r, TickNow) /\ r.pos.ts + Clock > TickNow}
GoneOf(k) == {r \in Gone : r.pos.sleeve = k}
HeldThen(k) == StillHeld(k) \cup {r.pos : r \in GoneOf(k)}

FreedIsFree == \A p \in book : \A r \in Gone : p.sym # r.pos.sym

BookInv ==
    /\ \A p \in book : p.ts <= p.in /\ p.in <= now
    /\ \A r \in past : r.out <= now
    /\ \A p, q \in book : p.sym = q.sym => p = q
    /\ \A k \in Sleeves : Cardinality(InBook(k)) <= Slots(k)

EvalInv ==
    pc = "evalOpen" => /\ ran.eval < TickNow => Gone = {}
                       /\ ran.eval > TickNow => now >= TickNow + Grace

ViewInv ==
    pc = "bucket" =>
       /\ ran.tick <= TickNow
       /\ ran.tick < TickNow => Gone = {}
       /\ ran.tick = TickNow => \A r \in Gone : r.pos.sym \in seen.held
       /\ \A p \in book : p.sym \in seen.held
       /\ \A k \in Sleeves : Cardinality(InBook(k)) <= seen.count[k]
       /\ ran.tick = TickNow =>
             \A k \in Sleeves : atTick[k] + Cardinality(OpenedNow(k)) <= seen.count[k]

FreedInv == now < TickNow + Grace \/ (pc = "evalOpen" /\ ran.eval = TickNow) => FreedIsFree
CountInv == \A k \in Sleeves : atTick[k] <= Cardinality(HeldThen(k))

FillInv == BookInv /\ EvalInv /\ ViewInv /\ FreedInv /\ CountInv /\ FillsTheTicksSlots

\* The sets that are counted are finite.
LEMMA FillFinite ==
    ASSUME TypeOK, NEW k
    PROVE /\ IsFiniteSet(InBook(k)) /\ IsFiniteSet(OpenedNow(k)) /\ IsFiniteSet(StillHeld(k))
          /\ IsFiniteSet(GoneOf(k)) /\ IsFiniteSet({r.pos : r \in GoneOf(k)})
          /\ Cardinality({r.pos : r \in GoneOf(k)}) <= Cardinality(GoneOf(k))
          /\ IsFiniteSet(HeldThen(k))
<1>1. IsFiniteSet(book) /\ IsFiniteSet(past)
  BY DEF TypeOK
<1>2. IsFiniteSet(InBook(k)) /\ IsFiniteSet(OpenedNow(k)) /\ IsFiniteSet(StillHeld(k))
  BY <1>1, FS_Subset DEF InBook, OpenedNow, StillHeld
<1>3. GoneOf(k) \subseteq past
  BY DEF GoneOf, Gone
<1>4. IsFiniteSet(GoneOf(k))
  BY <1>1, <1>3, FS_Subset
<1> DEFINE poses == {r.pos : r \in GoneOf(k)}
           pose == [r \in GoneOf(k) |-> r.pos]
<1>5. pose \in Surjection(GoneOf(k), poses)
  BY DEF Surjection
<1>6. IsFiniteSet(poses) /\ Cardinality(poses) <= Cardinality(GoneOf(k))
  BY <1>4, <1>5, FS_Surjection
<1>7. IsFiniteSet(HeldThen(k))
  BY <1>2, <1>6, FS_Union DEF HeldThen
<1> QED
  BY <1>2, <1>4, <1>6, <1>7

LEMMA FillCounts ==
    ASSUME TypeOK, NEW k
    PROVE /\ Cardinality(InBook(k)) \in Nat /\ Cardinality(OpenedNow(k)) \in Nat
          /\ Cardinality(HeldThen(k)) \in Nat
  BY FillFinite, FS_CardinalityType

\* BookAt holds every symbol of the book, and counts every position of it.
LEMMA BookAtHolds ==
    ASSUME TypeOK, NEW t
    PROVE /\ \A p \in book : p.sym \in BookAt(t).held
          /\ \A k \in Sleeves : Cardinality(InBook(k)) <= BookAt(t).count[k]
<1>1. ASSUME NEW k \in Sleeves PROVE Cardinality(InBook(k)) <= BookAt(t).count[k]
  <2>1. IsFiniteSet(book) /\ IsFiniteSet(past)
    BY DEF TypeOK
  <2>2. /\ Cardinality({p \in book : p.sleeve = k}) \in Nat
        /\ Cardinality({r \in ClosedSince(t) : r.pos.sleeve = k}) \in Nat
    BY <2>1, CountTypes
  <2>3. BookAt(t).count[k] = Cardinality({p \in book : p.sleeve = k})
                             + Cardinality({r \in ClosedSince(t) : r.pos.sleeve = k})
    BY DEF BookAt
  <2> QED
    BY <2>2, <2>3 DEF InBook
<1> QED
  BY <1>1 DEF BookAt

\* Run before a freed symbol is taken again, the tick counts what was held at it and
\* what it has opened.
LEMMA BookAtCounts ==
    ASSUME TypeOK, BookInv, FreedIsFree
    PROVE /\ \A r \in Gone : r.pos.sym \in BookAt(TickNow).held
          /\ \A k \in Sleeves : Cardinality(HeldThen(k)) + Cardinality(OpenedNow(k))
                                  <= BookAt(TickNow).count[k]
<1>1. Gone = ClosedSince(TickNow)
  BY DEF FreedIsFree, Gone, ClosedSince
<1>2. \A r \in Gone : r.pos.sym \in BookAt(TickNow).held
  BY <1>1 DEF BookAt
<1>3. ASSUME NEW k \in Sleeves
      PROVE Cardinality(HeldThen(k)) + Cardinality(OpenedNow(k)) <= BookAt(TickNow).count[k]
  <2> DEFINE poses == {r.pos : r \in GoneOf(k)}
  <2>1. /\ IsFiniteSet(InBook(k)) /\ IsFiniteSet(OpenedNow(k)) /\ IsFiniteSet(StillHeld(k))
        /\ IsFiniteSet(GoneOf(k)) /\ IsFiniteSet(poses)
        /\ Cardinality(poses) <= Cardinality(GoneOf(k))
    BY FillFinite
  <2>2. StillHeld(k) \cap OpenedNow(k) = {}
    <3>1. ASSUME NEW p \in book, p.in < TickNow, p.ts = TickNow PROVE FALSE
      <4>1. p.ts <= p.in /\ p.ts \in Int /\ p.in \in Int
        BY TickAssumption DEF TickAssumption, BookInv, TypeOK, Positions, Times
      <4> QED
        BY <3>1, <4>1
    <3> QED
      BY <3>1 DEF StillHeld, OpenedNow
  <2>3. Cardinality(StillHeld(k) \cup OpenedNow(k))
          = Cardinality(StillHeld(k)) + Cardinality(OpenedNow(k))
    <3>1. Cardinality(StillHeld(k) \cap OpenedNow(k)) = 0
      BY <2>2, FS_EmptySet
    <3>2. Cardinality(StillHeld(k)) \in Nat /\ Cardinality(OpenedNow(k)) \in Nat
      BY <2>1, FS_CardinalityType
    <3>3. Cardinality(StillHeld(k) \cup OpenedNow(k))
            = Cardinality(StillHeld(k)) + Cardinality(OpenedNow(k))
                - Cardinality(StillHeld(k) \cap OpenedNow(k))
      BY <2>1, FS_Union
    <3> QED
      BY <3>1, <3>2, <3>3
  <2>4. Cardinality(StillHeld(k) \cup OpenedNow(k)) <= Cardinality(InBook(k))
    BY <2>1, FS_Subset DEF StillHeld, OpenedNow, InBook
  <2>5. Cardinality(HeldThen(k)) <= Cardinality(StillHeld(k)) + Cardinality(poses)
    <3>1. Cardinality(StillHeld(k) \cap poses) \in Nat
      BY <2>1, FS_Intersection, FS_CardinalityType
    <3>2. /\ Cardinality(StillHeld(k) \cup poses) \in Nat /\ Cardinality(poses) \in Nat
          /\ Cardinality(StillHeld(k)) \in Nat
      BY <2>1, FS_Union, FS_CardinalityType
    <3>3. Cardinality(StillHeld(k) \cup poses)
            = Cardinality(StillHeld(k)) + Cardinality(poses) - Cardinality(StillHeld(k) \cap poses)
      BY <2>1, FS_Union
    <3> QED
      BY <3>1, <3>2, <3>3 DEF HeldThen
  <2>6. BookAt(TickNow).count[k] = Cardinality(InBook(k)) + Cardinality(GoneOf(k))
    BY <1>1 DEF BookAt, InBook, GoneOf
  <2>7. /\ Cardinality(StillHeld(k)) \in Nat /\ Cardinality(OpenedNow(k)) \in Nat
        /\ Cardinality(poses) \in Nat /\ Cardinality(InBook(k)) \in Nat
        /\ Cardinality(GoneOf(k)) \in Nat /\ Cardinality(HeldThen(k)) \in Nat
    BY <2>1, FillCounts, FS_CardinalityType
  <2> HIDE DEF poses
  <2> QED
    BY <2>1, <2>3, <2>4, <2>5, <2>6, <2>7
<1> QED
  BY <1>2, <1>3

\* A step that opens, closes and begins nothing.
LEMMA QuietFill ==
    ASSUME FillInv, UNCHANGED <<now, book, past, atTick>>,
           \/ pc' \notin {"evalOpen", "bucket"}
           \/ UNCHANGED <<pc, ran, seen>>
    PROVE FillInv'
<1>1. TickNow' = TickNow
  BY BoundaryStays DEF TickNow
<1>2. Gone' = Gone /\ FreedIsFree' = FreedIsFree
  BY <1>1 DEF Gone, OpenAt, FreedIsFree
<1>3. /\ \A k : InBook(k)' = InBook(k) /\ OpenedNow(k)' = OpenedNow(k)
      /\ \A k : HeldThen(k)' = HeldThen(k)
  BY <1>1, <1>2 DEF InBook, OpenedNow, HeldThen, StillHeld, GoneOf
<1>4. BookInv'
  BY <1>3 DEF FillInv, BookInv
<1>5. EvalInv' /\ FreedInv'
  BY <1>1, <1>2 DEF FillInv, EvalInv, FreedInv
<1>6. ViewInv'
  BY <1>1, <1>2, <1>3 DEF FillInv, ViewInv
<1>7. CountInv'
  BY <1>3 DEF FillInv, CountInv
<1>8. FillsTheTicksSlots'
  BY <1>1, <1>3 DEF FillInv, FillsTheTicksSlots, OpenedNow, TickNow
<1> QED
  BY <1>4, <1>5, <1>6, <1>7, <1>8 DEF FillInv

\* A position that closes goes from the book to the history, and was held at the tick
\* there as it was here.
LEMMA ClosedFill ==
    ASSUME TypeOK, TypeOK', FillInv, NEW gone \in SUBSET book, Closed(gone),
           UNCHANGED <<now, atTick>>, pc = "idle", pc' \in {"idle", "eval"}
    PROVE FillInv'
<1>1. TickNow' = TickNow /\ TickNow \in Int /\ TickNow <= now /\ now \in Int
  BY BoundaryStays, BoundaryInRange, TickAssumption DEF TickAssumption, TickNow, TypeOK, Times
<1>2. /\ \A p \in book : p.ts \in Int /\ p.in \in Int /\ p.ts <= p.in /\ p.in <= now
      /\ book' \subseteq book
      /\ Clock \in Int
  BY TickAssumption DEF TickAssumption, FillInv, BookInv, TypeOK, Positions, Times, Closed
<1> DEFINE out(p) == [pos |-> p, out |-> now]
<1>3. \A r : r \in past' <=> r \in past \/ \E p \in gone : r = out(p)
  BY DEF Closed
<1>4. ASSUME NEW k PROVE HeldThen(k)' = HeldThen(k)
  <2>1. ASSUME NEW p \in gone, p.sleeve = k, p.in < TickNow, p.ts + Clock > TickNow
        PROVE p \in HeldThen(k)'
    <3>1. out(p) \in GoneOf(k)'
      BY <1>1, <1>3, <2>1 DEF GoneOf, Gone, OpenAt
    <3> QED
      BY <3>1 DEF HeldThen
  <2>2. ASSUME NEW p \in StillHeld(k) PROVE p \in HeldThen(k)'
    <3>1. p \in book /\ p.sleeve = k /\ p.in < TickNow /\ p.ts + Clock > TickNow
      BY DEF StillHeld
    <3>2. CASE p \in gone
      BY <2>1, <3>1, <3>2
    <3>3. CASE p \notin gone
      BY <1>1, <3>1, <3>3 DEF Closed, HeldThen, StillHeld
    <3> QED BY <3>2, <3>3
  <2>3. ASSUME NEW r \in GoneOf(k) PROVE r.pos \in HeldThen(k)'
    BY <1>1, <1>3 DEF GoneOf, Gone, OpenAt, HeldThen
  <2>4. StillHeld(k)' \subseteq StillHeld(k)
    BY <1>1, <1>2 DEF StillHeld
  <2>5. ASSUME NEW r \in GoneOf(k)' PROVE r.pos \in HeldThen(k)
    <3>1. r \in past' /\ OpenAt(r, TickNow) /\ r.pos.ts + Clock > TickNow /\ r.pos.sleeve = k
      BY <1>1 DEF GoneOf, Gone, OpenAt
    <3>2. CASE r \in past
      BY <3>1, <3>2 DEF HeldThen, GoneOf, Gone
    <3>3. ASSUME NEW p \in gone, r = out(p) PROVE r.pos \in HeldThen(k)
      BY <3>1, <3>3 DEF HeldThen, StillHeld, OpenAt
    <3> QED BY <1>3, <3>1, <3>2, <3>3
  <2> QED
    BY <2>2, <2>3, <2>4, <2>5 DEF HeldThen
<1>5. \A k : Cardinality(InBook(k)') <= Cardinality(InBook(k)) /\ Cardinality(OpenedNow(k)') <= Cardinality(OpenedNow(k))
  <2>1. \A k : InBook(k)' \subseteq InBook(k) /\ OpenedNow(k)' \subseteq OpenedNow(k)
    BY <1>1, <1>2 DEF InBook, OpenedNow
  <2> QED
    BY <2>1, FillFinite, FS_Subset
<1>6. BookInv'
  <2>1. \A k \in Sleeves : Cardinality(InBook(k))' <= Slots(k)
    <3> TAKE k \in Sleeves
    <3>0. InBook(k)' \subseteq InBook(k)
      BY <1>2 DEF InBook
    <3>1. Cardinality(InBook(k)) \in Nat /\ Cardinality(InBook(k)') \in Nat
      BY <3>0, FillFinite, FS_Subset, FS_CardinalityType
    <3>2. Slots(k) \in Nat
      BY TickAssumption DEF TickAssumption, Slots
    <3> QED
      BY <1>5, <3>1, <3>2 DEF FillInv, BookInv
  <2>2. \A r \in past' : r.out <= now'
    BY <1>1, <1>3 DEF FillInv, BookInv
  <2> QED
    BY <1>2, <2>1, <2>2 DEF FillInv, BookInv
<1>7. FreedInv'
  <2> SUFFICES ASSUME now < TickNow + Grace, NEW p \in book', NEW r \in Gone' PROVE p.sym # r.pos.sym
    BY <1>1 DEF FreedInv, FreedIsFree
  <2>1. FreedIsFree
    BY DEF FillInv, FreedInv
  <2>2. p \in book /\ p \notin gone
    BY DEF Closed
  <2>3. CASE r \in past
    BY <1>1, <2>1, <2>2, <2>3 DEF FreedIsFree, Gone, OpenAt
  <2>4. ASSUME NEW q \in gone, r = out(q) PROVE p.sym # r.pos.sym
    BY <2>2, <2>4 DEF FillInv, BookInv
  <2> QED BY <1>3, <2>3, <2>4 DEF Gone
<1>8. CountInv'
  BY <1>4 DEF FillInv, CountInv
<1>9. FillsTheTicksSlots'
  <2> SUFFICES ASSUME NEW k \in Sleeves
               PROVE atTick[k] + Cardinality(OpenedNow(k)') <= Slots(k)
    BY <1>1 DEF FillsTheTicksSlots, OpenedNow, TickNow
  <2>1. Cardinality(OpenedNow(k)) \in Nat /\ Cardinality(OpenedNow(k)') \in Nat
    <3>1. OpenedNow(k)' \subseteq OpenedNow(k)
      BY <1>1, <1>2 DEF OpenedNow
    <3> QED
      BY <3>1, FillFinite, FS_Subset, FS_CardinalityType
  <2>2. atTick[k] \in Nat /\ Slots(k) \in Nat
    BY TickAssumption DEF TickAssumption, Slots, TypeOK
  <2>3. atTick[k] + Cardinality(OpenedNow(k)) <= Slots(k)
    BY DEF FillInv, FillsTheTicksSlots, OpenedNow, TickNow
  <2> QED
    BY <1>5, <2>1, <2>2, <2>3
<1>10. EvalInv' /\ ViewInv'
  BY DEF EvalInv, ViewInv
<1> QED
  BY <1>6, <1>7, <1>8, <1>9, <1>10 DEF FillInv

\* A new position changes what is counted of its own sleeve, and of its own tick.
LEMMA Opened ==
    ASSUME TypeOK, BookInv, NEW b \in Buckets, NEW t \in Times, t <= now, NEW s \in Symbols,
           book' = book \cup {Position(s, b, t)}, UNCHANGED <<now, past>>,
           \A p \in book : p.sym # s
    PROVE /\ TickNow' = TickNow /\ Gone' = Gone
          /\ \A k : HeldThen(k)' = HeldThen(k)
          /\ \A k \in Sleeves \ {SleeveOf(b)} : InBook(k)' = InBook(k) /\ OpenedNow(k)' = OpenedNow(k)
          /\ Cardinality(InBook(SleeveOf(b))') = Cardinality(InBook(SleeveOf(b))) + 1
          /\ t # TickNow => OpenedNow(SleeveOf(b))' = OpenedNow(SleeveOf(b))
          /\ t = TickNow => Cardinality(OpenedNow(SleeveOf(b))') = Cardinality(OpenedNow(SleeveOf(b))) + 1
<1> DEFINE new == Position(s, b, t)
<1>1. TickNow' = TickNow /\ TickNow \in Int /\ TickNow <= now /\ now \in Int
  BY BoundaryStays, BoundaryInRange, TickAssumption DEF TickAssumption, TickNow, TypeOK, Times
<1>2. /\ new \notin book /\ new.sleeve = SleeveOf(b) /\ new.ts = t /\ new.in = now
  BY DEF Position
<1>3. Gone' = Gone
  BY <1>1 DEF Gone, OpenAt
<1> HIDE DEF new
<1>4. book' = book \cup {new}
  BY DEF new
<1>5. \A k : StillHeld(k)' = StillHeld(k)
  BY <1>1, <1>2, <1>4 DEF StillHeld
<1>6. \A k : HeldThen(k)' = HeldThen(k)
  BY <1>3, <1>5 DEF HeldThen, GoneOf
<1>7. \A k \in Sleeves \ {SleeveOf(b)} : InBook(k)' = InBook(k) /\ OpenedNow(k)' = OpenedNow(k)
  BY <1>1, <1>2, <1>4 DEF InBook, OpenedNow
<1>8. Cardinality(InBook(SleeveOf(b))') = Cardinality(InBook(SleeveOf(b))) + 1
  <2>1. InBook(SleeveOf(b))' = InBook(SleeveOf(b)) \cup {new} /\ new \notin InBook(SleeveOf(b))
    BY <1>2, <1>4 DEF InBook
  <2> QED BY <2>1, FillFinite, FS_AddElement
<1>9. t # TickNow => OpenedNow(SleeveOf(b))' = OpenedNow(SleeveOf(b))
  BY <1>1, <1>2, <1>4 DEF OpenedNow
<1>10. t = TickNow => Cardinality(OpenedNow(SleeveOf(b))') = Cardinality(OpenedNow(SleeveOf(b))) + 1
  <2> SUFFICES ASSUME t = TickNow
               PROVE Cardinality(OpenedNow(SleeveOf(b))') = Cardinality(OpenedNow(SleeveOf(b))) + 1
    OBVIOUS
  <2>1. OpenedNow(SleeveOf(b))' = OpenedNow(SleeveOf(b)) \cup {new} /\ new \notin OpenedNow(SleeveOf(b))
    BY <1>1, <1>2, <1>4 DEF OpenedNow
  <2> QED BY <2>1, FillFinite, FS_AddElement
<1> QED
  BY <1>1, <1>3, <1>6, <1>7, <1>8, <1>9, <1>10

\* One order into a sleeve with a slot left, by a view of the book that is complete and,
\* for the tick's own order, counts what was held at the tick.
LEMMA OpenFill ==
    ASSUME TypeOK, FillInv, NEW b \in Buckets, NEW t \in Times, t <= now, NEW s \in Symbols,
           NEW view, view.count \in [Sleeves -> Nat],
           Opens(b, t, s, view), UNCHANGED <<now, past, atTick>>,
           \A p \in book : p.sym \in view.held,
           \A k \in Sleeves : Cardinality(InBook(k)) <= view.count[k],
           t = TickNow => \A k \in Sleeves : atTick[k] + Cardinality(OpenedNow(k)) <= view.count[k]
    PROVE /\ BookInv' /\ CountInv' /\ FillsTheTicksSlots'
          /\ TickNow' = TickNow /\ Gone' = Gone
          /\ book' = book \cup {Position(s, b, t)}
          /\ \A k \in Sleeves : Cardinality(InBook(k)') <= view.count[k] + (IF k = SleeveOf(b) THEN 1 ELSE 0)
          /\ t = TickNow => \A k \in Sleeves :
                atTick[k] + Cardinality(OpenedNow(k)') <= view.count[k] + (IF k = SleeveOf(b) THEN 1 ELSE 0)
<1> DEFINE own == SleeveOf(b)
<1>1. /\ book' = book \cup {Position(s, b, t)} /\ \A p \in book : p.sym # s
      /\ view.count[own] < Slots(own) /\ own \in Sleeves
  BY DEF Opens, SleeveOf, Sleeves
<1>2. /\ TickNow' = TickNow /\ Gone' = Gone
      /\ \A k : HeldThen(k)' = HeldThen(k)
      /\ \A k \in Sleeves \ {own} : InBook(k)' = InBook(k) /\ OpenedNow(k)' = OpenedNow(k)
      /\ Cardinality(InBook(own)') = Cardinality(InBook(own)) + 1
      /\ t # TickNow => OpenedNow(own)' = OpenedNow(own)
      /\ t = TickNow => Cardinality(OpenedNow(own)') = Cardinality(OpenedNow(own)) + 1
  BY <1>1, Opened DEF FillInv
<1>3. /\ \A k \in Sleeves : Cardinality(InBook(k)) \in Nat /\ Cardinality(OpenedNow(k)) \in Nat
      /\ \A k \in Sleeves : Slots(k) \in Nat /\ view.count[k] \in Nat /\ atTick[k] \in Nat
  BY FillCounts, TickAssumption DEF TickAssumption, Slots, TypeOK
<1>4. BookInv'
  <2>1. Position(s, b, t).sym = s /\ Position(s, b, t).ts = t /\ Position(s, b, t).in = now
    BY DEF Position
  <2>2. ASSUME NEW k \in Sleeves PROVE Cardinality(InBook(k)') <= Slots(k)
    <3>1. CASE k = own
      BY <1>1, <1>2, <1>3, <3>1
    <3>2. CASE k # own
      BY <1>2, <3>2 DEF FillInv, BookInv
    <3> QED BY <3>1, <3>2
  <2>3. now \in Int /\ now <= now
    BY TickAssumption DEF TickAssumption, TypeOK, Times
  <2> HIDE DEF Position
  <2>4. \A p \in book' : p.ts <= p.in /\ p.in <= now
    BY <1>1, <2>1, <2>3 DEF FillInv, BookInv
  <2>5. \A p, q \in book' : p.sym = q.sym => p = q
    BY <1>1, <2>1 DEF FillInv, BookInv
  <2> QED
    BY <2>2, <2>4, <2>5 DEF FillInv, BookInv
<1>5. CountInv'
  BY <1>2 DEF FillInv, CountInv
<1>6. \A k \in Sleeves : Cardinality(InBook(k)') <= view.count[k] + (IF k = SleeveOf(b) THEN 1 ELSE 0)
  <2> TAKE k \in Sleeves
  <2>1. CASE k = own
    BY <1>1, <1>2, <1>3, <2>1
  <2>2. CASE k # own
    BY <1>2, <1>3, <2>2
  <2> QED BY <2>1, <2>2
<1>7. t = TickNow => \A k \in Sleeves :
         atTick[k] + Cardinality(OpenedNow(k)') <= view.count[k] + (IF k = SleeveOf(b) THEN 1 ELSE 0)
  <2> SUFFICES ASSUME t = TickNow, NEW k \in Sleeves
               PROVE atTick[k] + Cardinality(OpenedNow(k)')
                       <= view.count[k] + (IF k = SleeveOf(b) THEN 1 ELSE 0)
    OBVIOUS
  <2>0. atTick[k] + Cardinality(OpenedNow(k)) <= view.count[k]
    OBVIOUS
  <2>1. CASE k = own
    BY <1>1, <1>2, <1>3, <2>0, <2>1
  <2>2. CASE k # own
    BY <1>2, <1>3, <2>0, <2>2
  <2> QED BY <2>1, <2>2
<1>8. FillsTheTicksSlots'
  <2> SUFFICES ASSUME NEW k \in Sleeves
               PROVE atTick[k] + Cardinality(OpenedNow(k)') <= Slots(k)
    BY <1>2 DEF FillsTheTicksSlots, OpenedNow, TickNow
  <2>1. CASE k # own \/ t # TickNow
    <3>1. OpenedNow(k)' = OpenedNow(k)
      BY <1>2, <2>1
    <3> QED
      BY <3>1 DEF FillInv, FillsTheTicksSlots, OpenedNow, TickNow
  <2>2. CASE k = own /\ t = TickNow
    <3>1. atTick[own] + Cardinality(OpenedNow(own)) <= view.count[own]
      BY <1>1, <2>2
    <3> QED
      BY <1>1, <1>2, <1>3, <2>2, <3>1
  <2> QED BY <2>1, <2>2
<1> QED
  BY <1>1, <1>2, <1>4, <1>5, <1>6, <1>7, <1>8

\* At a tick nobody has closed since it, and what is in use at it is in the book.
LEMMA TimeFill ==
    ASSUME TypeOK, TypeOK', FillInv, PassTime PROVE FillInv'
<1>1. /\ now \in Nat /\ now' = now + 1 /\ TickNow \in Int /\ TickNow <= now
      /\ TickNow' = ((now + 1) \div TickEvery) * TickEvery
      /\ TickNow' # now + 1 => TickNow' = TickNow
      /\ TickEvery \in Nat \ {0} /\ Grace \in Nat
  <2>1. now \in Nat /\ now' = now + 1 /\ TickEvery \in Nat \ {0} /\ Grace \in Nat
    BY TickAssumption DEF TickAssumption, PassTime, TypeOK, Times
  <2>2. TickNow \in Int /\ TickNow <= now
    BY <2>1, BoundaryInRange DEF TickNow, TypeOK, Times
  <2> QED
    BY <2>1, <2>2, BoundaryMoves DEF TickNow
<1>2. /\ UNCHANGED <<pc, ran, seen, book>>
      /\ atTick' = IF TickNow' = now + 1 THEN InUseAt(now + 1) ELSE atTick
      /\ past' = {r \in past : \E every \in {TickEvery, EvalEvery} :
                    OpenAt(r, ((now + 1) \div every) * every)}
  BY <1>1 DEF PassTime, marks
<1>3. /\ \A p \in book : p.ts \in Int /\ p.in \in Int /\ p.ts <= p.in /\ p.in <= now
      /\ \A r \in past : r.out \in Int /\ r.out <= now
  BY TickAssumption DEF TickAssumption, FillInv, BookInv, TypeOK, Positions, Times
<1>4. \A k : InBook(k)' = InBook(k)
  BY <1>2 DEF InBook
<1>5. BookInv'
  BY <1>1, <1>2, <1>3, <1>4 DEF FillInv, BookInv
<1>6. CASE TickNow' # now + 1
  <2>1. TickNow' = TickNow /\ atTick' = atTick
    BY <1>1, <1>2, <1>6
  <2>2. Gone' = Gone
    BY <1>1, <1>2, <2>1 DEF Gone, OpenAt
  <2>3. \A k : OpenedNow(k)' = OpenedNow(k) /\ HeldThen(k)' = HeldThen(k)
    BY <1>2, <2>1, <2>2 DEF OpenedNow, HeldThen, StillHeld, GoneOf
  <2>4. FreedInv'
    BY <1>1, <1>2, <2>1, <2>2 DEF FillInv, FreedInv, FreedIsFree
  <2>5. EvalInv'
    BY <1>1, <1>2, <2>1, <2>2 DEF FillInv, EvalInv
  <2>6. ViewInv'
    BY <1>2, <1>4, <2>1, <2>2, <2>3 DEF FillInv, ViewInv
  <2>7. CountInv' /\ FillsTheTicksSlots'
    BY <2>1, <2>3 DEF FillInv, CountInv, FillsTheTicksSlots, OpenedNow, TickNow
  <2> QED
    BY <1>5, <2>4, <2>5, <2>6, <2>7 DEF FillInv
<1>7. CASE TickNow' = now + 1
  <2>1. Gone' = {}
    BY <1>1, <1>2, <1>3, <1>7 DEF Gone, OpenAt
  <2>2. \A k : OpenedNow(k)' = {}
    BY <1>1, <1>2, <1>3, <1>7 DEF OpenedNow
  <2>3. \A k \in Sleeves : atTick'[k] = Cardinality(HeldThen(k)') /\ HeldThen(k)' \subseteq InBook(k)
    <3> TAKE k \in Sleeves
    <3>1. HeldThen(k)' = {p \in book : p.sleeve = k /\ p.ts + Clock > now + 1}
      BY <1>1, <1>2, <1>3, <1>7, <2>1 DEF HeldThen, StillHeld, GoneOf
    <3>2. atTick'[k] = Cardinality({p \in book : p.sleeve = k /\ p.ts + Clock > now + 1})
      BY <1>2, <1>7 DEF InUseAt
    <3> QED BY <3>1, <3>2 DEF InBook
  <2>4. FreedInv' /\ CountInv'
    <3>1. \A k \in Sleeves : atTick'[k] \in Nat
      BY DEF TypeOK
    <3> QED BY <2>1, <2>3, <3>1 DEF FreedInv, FreedIsFree, CountInv
  <2>5. EvalInv'
    <3>1. pc = "evalOpen" => ran.eval <= now /\ ran.eval \in Int
      BY TickAssumption DEF TickAssumption, TypeOK, Times
    <3> QED BY <1>1, <1>2, <1>7, <2>1, <3>1 DEF EvalInv
  <2>6. ViewInv'
    <3>1. pc = "bucket" => ran.tick <= now /\ ran.tick \in Int
      BY TickAssumption DEF TickAssumption, TypeOK, Times
    <3> QED BY <1>1, <1>2, <1>4, <1>7, <2>1, <3>1 DEF FillInv, ViewInv
  <2>7. FillsTheTicksSlots'
    <3> SUFFICES ASSUME NEW k \in Sleeves
                 PROVE atTick'[k] + Cardinality(OpenedNow(k)') <= Slots(k)
      BY DEF FillsTheTicksSlots, OpenedNow, TickNow
    <3>1. Cardinality(OpenedNow(k)') = 0
      BY <2>2, FS_EmptySet
    <3>2. Cardinality(HeldThen(k)') <= Cardinality(InBook(k)) /\ Cardinality(InBook(k)) <= Slots(k)
      BY <2>3, FillFinite, FS_Subset DEF FillInv, BookInv
    <3>3. atTick'[k] \in Nat /\ Cardinality(InBook(k)) \in Nat /\ Slots(k) \in Nat
      BY FillCounts, TickAssumption DEF TickAssumption, Slots, TypeOK
    <3> QED BY <2>3, <3>1, <3>2, <3>3
  <2> QED
    BY <1>5, <2>4, <2>5, <2>6, <2>7 DEF FillInv
<1> QED BY <1>6, <1>7

\* An evaluation period begins with the tick, or a whole period after it.
LEMMA EvalBoundary ==
    ASSUME TypeOK, NEW n \in Nat, TickEvery = n * EvalEvery
    PROVE \/ LastBoundary(EvalEvery) = TickNow
          \/ LastBoundary(EvalEvery) >= TickNow + EvalEvery
<1> DEFINE m == now \div TickEvery  f == now \div EvalEvery
<1>1. now \in Nat /\ EvalEvery \in Nat \ {0} /\ TickEvery \in Nat \ {0}
  BY TickAssumption DEF TickAssumption, TypeOK, Times
<1>2. m \in Nat /\ m * TickEvery <= now
  BY <1>1, Division
<1>3. f \in Nat /\ now < f * EvalEvery + EvalEvery
  BY <1>1, Division
<1>4. LastBoundary(EvalEvery) = f * EvalEvery /\ TickNow = m * TickEvery
  BY DEF LastBoundary, TickNow
<1> HIDE DEF m, f
<1>5. m * n \in Nat /\ m * TickEvery = (m * n) * EvalEvery
  BY <1>1, <1>2
<1> DEFINE g == m * n
<1>6. g \in Nat /\ TickNow = g * EvalEvery
  BY <1>4, <1>5
<1>a. g * EvalEvery <= now
  BY <1>2, <1>5
<1> HIDE DEF g
<1>7. (f + 1) * EvalEvery = f * EvalEvery + EvalEvery /\ (g + 1) * EvalEvery = g * EvalEvery + EvalEvery
      /\ f * EvalEvery \in Nat /\ g * EvalEvery \in Nat
  BY <1>1, <1>3, <1>6
<1>8. CASE f < g
  <2>1. (f + 1) * EvalEvery <= g * EvalEvery
    BY <1>1, <1>3, <1>6, <1>8, TimesMono
  <2> QED BY <1>1, <1>3, <1>7, <1>a, <2>1
<1>9. CASE f = g
  BY <1>4, <1>6, <1>9
<1>10. CASE f > g
  <2>1. (g + 1) * EvalEvery <= f * EvalEvery
    BY <1>1, <1>3, <1>6, <1>10, TimesMono
  <2> QED BY <1>4, <1>6, <1>7, <2>1
<1> QED BY <1>3, <1>6, <1>8, <1>9, <1>10

\* The close that is marked is the tick's own, or its grace is over with the tick's.
LEMMA EvalMarkFill ==
    ASSUME TypeOK, TypeOK', FillInv, EvalMark, Grace <= EvalEvery,
           NEW n \in Nat, TickEvery = n * EvalEvery
    PROVE FillInv'
<1>1. UNCHANGED <<now, book, past, atTick, seen>> /\ pc' \in {"tick", "evalOpen"}
  BY DEF EvalMark, positions
<1>2. CASE pc' = "tick"
  BY <1>1, <1>2, QuietFill
<1>3. CASE pc' = "evalOpen"
  <2>1. /\ ran'.eval = LastBoundary(EvalEvery) /\ now - LastBoundary(EvalEvery) < Grace
        /\ LastBoundary(EvalEvery) \in Int /\ LastBoundary(EvalEvery) <= now
        /\ now \in Int /\ Grace \in Int /\ EvalEvery \in Int /\ TickNow \in Int
    BY BoundaryInRange, TickAssumption
       DEF TickAssumption, EvalMark, EvalDue, Due, TypeOK, Marks, Times, TickNow
  <2>2. (ran'.eval = TickNow /\ now < TickNow + Grace) \/ ran'.eval >= TickNow + EvalEvery
    BY <2>1, EvalBoundary
  <2>3. TickNow' = TickNow
    BY <1>1, BoundaryStays DEF TickNow
  <2>4. Gone' = Gone /\ FreedIsFree' = FreedIsFree
    BY <1>1, <2>3 DEF Gone, OpenAt, FreedIsFree
  <2>5. /\ \A k : InBook(k)' = InBook(k) /\ OpenedNow(k)' = OpenedNow(k)
        /\ \A k : HeldThen(k)' = HeldThen(k)
    BY <1>1, <2>3, <2>4 DEF InBook, OpenedNow, HeldThen, StillHeld, GoneOf
  <2>6. EvalInv'
    BY <1>1, <2>1, <2>2, <2>3 DEF EvalInv
  <2>7. FreedInv'
    BY <1>1, <2>1, <2>2, <2>3, <2>4 DEF FillInv, FreedInv
  <2>8. BookInv' /\ CountInv' /\ ViewInv'
    BY <1>1, <1>3, <2>5 DEF FillInv, BookInv, CountInv, ViewInv
  <2>9. FillsTheTicksSlots'
    BY <1>1, <2>3, <2>5 DEF FillInv, FillsTheTicksSlots, OpenedNow, TickNow
  <2> QED BY <2>6, <2>7, <2>8, <2>9 DEF FillInv
<1> QED BY <1>1, <1>2, <1>3

LEMMA EvalOpenFill ==
    ASSUME TypeOK, TypeOK', FillInv, EvalOpen PROVE FillInv'
<1>1. UNCHANGED <<now, past, atTick, ran, seen>> /\ pc = "evalOpen" /\ pc' = "tick"
  BY DEF EvalOpen, marks
<1>2. CASE UNCHANGED book
  BY <1>1, <1>2, QuietFill
<1>3. ASSUME NEW s \in Symbols, Opens("TREND", ran.eval, s, BookAt(ran.eval)) PROVE FillInv'
  <2> DEFINE t == ran.eval  view == BookAt(ran.eval)
  <2>1. t \in Times /\ t <= now /\ "TREND" \in Buckets /\ view.count \in [Sleeves -> Nat]
    BY <1>1, BookAtType DEF TypeOK, Buckets
  <2>2. /\ \A p \in book : p.sym \in view.held
        /\ \A k \in Sleeves : Cardinality(InBook(k)) <= view.count[k]
    BY BookAtHolds
  <2>3. t = TickNow => /\ FreedIsFree
                       /\ \A r \in Gone : r.pos.sym \in view.held
                       /\ \A k \in Sleeves : Cardinality(HeldThen(k)) + Cardinality(OpenedNow(k)) <= view.count[k]
    BY <1>1, BookAtCounts DEF FillInv, FreedInv
  <2>4. t = TickNow => \A k \in Sleeves : atTick[k] + Cardinality(OpenedNow(k)) <= view.count[k]
    <3> SUFFICES ASSUME t = TickNow, NEW k \in Sleeves
                 PROVE atTick[k] + Cardinality(OpenedNow(k)) <= view.count[k]
      OBVIOUS
    <3>1. /\ Cardinality(HeldThen(k)) \in Nat /\ Cardinality(OpenedNow(k)) \in Nat
          /\ atTick[k] \in Nat /\ view.count[k] \in Nat
      BY <2>1, FillCounts DEF TypeOK
    <3>2. atTick[k] <= Cardinality(HeldThen(k))
      BY DEF FillInv, CountInv
    <3>3. Cardinality(HeldThen(k)) + Cardinality(OpenedNow(k)) <= view.count[k]
      BY <2>3
    <3> HIDE DEF view
    <3> QED BY <3>1, <3>2, <3>3
  <2>5. Opens("TREND", t, s, view) /\ s \notin view.held
    BY <1>3 DEF Opens
  <2> HIDE DEF t, view
  <2>6. /\ BookInv' /\ CountInv' /\ FillsTheTicksSlots' /\ TickNow' = TickNow /\ Gone' = Gone
        /\ book' = book \cup {Position(s, "TREND", t)}
    BY <1>1, <2>1, <2>2, <2>4, <2>5, OpenFill
  <2>7. FreedInv'
    <3> SUFFICES ASSUME now < TickNow + Grace, NEW p \in book', NEW r \in Gone PROVE p.sym # r.pos.sym
      BY <1>1, <2>6 DEF FreedInv, FreedIsFree
    <3>0. TickNow \in Int /\ now \in Int /\ Grace \in Int /\ t \in Int
      BY <2>1, BoundaryInRange, TickAssumption DEF TickAssumption, TickNow, TypeOK, Times
    <3>1. t = TickNow
      BY <1>1, <3>0 DEF FillInv, EvalInv, t
    <3>2. CASE p \in book
      BY <2>3, <3>1, <3>2 DEF FreedIsFree
    <3>3. CASE p = Position(s, "TREND", t)
      BY <2>3, <2>5, <3>1, <3>3 DEF Position
    <3> QED BY <2>6, <3>2, <3>3
  <2>8. EvalInv' /\ ViewInv'
    BY <1>1 DEF EvalInv, ViewInv
  <2> QED BY <2>6, <2>7, <2>8 DEF FillInv
<1> QED BY <1>2, <1>3 DEF EvalOpen

\* The tick takes its view inside its grace.
LEMMA TickMarkFill ==
    ASSUME TypeOK, TypeOK', FillInv, TickMark PROVE FillInv'
<1>1. /\ UNCHANGED <<now, book, past, atTick>> /\ pc' = "bucket"
      /\ ran'.tick = TickNow /\ seen' = BookAt(TickNow)
  BY DEF TickMark, TypeOK, Marks, positions, TickNow
<1>2. now < TickNow + Grace /\ TickNow \in Int
  <2>1. now - TickNow < Grace
    BY DEF TickMark, TickRuns, TickDue, Due, TickNow
  <2>2. TickNow \in Int /\ now \in Int /\ Grace \in Int
    BY BoundaryInRange, TickAssumption DEF TickAssumption, TickNow, TypeOK, Times
  <2> QED BY <2>1, <2>2
<1>3. FreedIsFree
  BY <1>2 DEF FillInv, FreedInv
<1>4. /\ \A r \in Gone : r.pos.sym \in BookAt(TickNow).held
      /\ \A k \in Sleeves : Cardinality(HeldThen(k)) + Cardinality(OpenedNow(k)) <= BookAt(TickNow).count[k]
  BY <1>3, BookAtCounts DEF FillInv
<1>5. /\ \A p \in book : p.sym \in BookAt(TickNow).held
      /\ \A k \in Sleeves : Cardinality(InBook(k)) <= BookAt(TickNow).count[k]
  BY BookAtHolds
<1>6. \A k \in Sleeves : atTick[k] + Cardinality(OpenedNow(k)) <= BookAt(TickNow).count[k]
  <2> TAKE k \in Sleeves
  <2>1. /\ Cardinality(HeldThen(k)) \in Nat /\ Cardinality(OpenedNow(k)) \in Nat /\ atTick[k] \in Nat
        /\ BookAt(TickNow).count[k] \in Nat
    BY FillCounts, BookAtType DEF TypeOK
  <2>2. atTick[k] <= Cardinality(HeldThen(k))
    BY DEF FillInv, CountInv
  <2>3. Cardinality(HeldThen(k)) + Cardinality(OpenedNow(k)) <= BookAt(TickNow).count[k]
    BY <1>4
  <2> QED BY <2>1, <2>2, <2>3
<1>7. TickNow' = TickNow
  BY <1>1, BoundaryStays DEF TickNow
<1>8. Gone' = Gone /\ FreedIsFree' = FreedIsFree
  BY <1>1, <1>7 DEF Gone, OpenAt, FreedIsFree
<1>9. /\ \A k : InBook(k)' = InBook(k) /\ OpenedNow(k)' = OpenedNow(k)
      /\ \A k : HeldThen(k)' = HeldThen(k)
  BY <1>1, <1>7, <1>8 DEF InBook, OpenedNow, HeldThen, StillHeld, GoneOf
<1>10. ViewInv'
  BY <1>1, <1>2, <1>4, <1>5, <1>6, <1>7, <1>8, <1>9 DEF ViewInv
<1>11. BookInv' /\ CountInv' /\ EvalInv' /\ FreedInv'
  BY <1>1, <1>3, <1>8, <1>9 DEF FillInv, BookInv, CountInv, EvalInv, FreedInv
<1>12. FillsTheTicksSlots'
  BY <1>1, <1>7, <1>9 DEF FillInv, FillsTheTicksSlots, OpenedNow, TickNow
<1> QED BY <1>10, <1>11, <1>12 DEF FillInv

LEMMA BucketOpensFill ==
    ASSUME TypeOK, TypeOK', FillInv, BucketOpens PROVE FillInv'
<1> DEFINE t == ran.tick
<1>1. /\ UNCHANGED <<now, past, atTick, ran>> /\ pc = "bucket" /\ pc' \in {"idle", "bucket"}
      /\ t \in Times /\ t <= now /\ bucket \in Buckets /\ seen.count \in [Sleeves -> Nat]
  BY DEF BucketOpens, Trading, marks, NextBucket, TypeOK
<1>2. PICK s \in Symbols : Opens(bucket, t, s, seen) /\ NextBucket(Counted(bucket, s))
  BY DEF BucketOpens
<1>3. s \notin seen.held /\ (pc' = "bucket" => seen' = Counted(bucket, s))
  BY <1>2 DEF Opens, NextBucket
<1>4. ViewInv /\ FreedInv
  BY DEF FillInv
<1>5. /\ BookInv' /\ CountInv' /\ FillsTheTicksSlots' /\ TickNow' = TickNow /\ Gone' = Gone
      /\ book' = book \cup {Position(s, bucket, t)}
      /\ \A k \in Sleeves : Cardinality(InBook(k)') <= seen.count[k] + (IF k = SleeveOf(bucket) THEN 1 ELSE 0)
      /\ t = TickNow => \A k \in Sleeves :
            atTick[k] + Cardinality(OpenedNow(k)') <= seen.count[k] + (IF k = SleeveOf(bucket) THEN 1 ELSE 0)
  <2>1. /\ \A p \in book : p.sym \in seen.held
        /\ \A k \in Sleeves : Cardinality(InBook(k)) <= seen.count[k]
        /\ t = TickNow => \A k \in Sleeves : atTick[k] + Cardinality(OpenedNow(k)) <= seen.count[k]
    BY <1>1, <1>4 DEF ViewInv
  <2> HIDE DEF t
  <2> QED BY <1>1, <1>2, <2>1, OpenFill
<1>6. /\ \A k \in Sleeves : Counted(bucket, s).count[k]
                              = seen.count[k] + (IF k = SleeveOf(bucket) THEN 1 ELSE 0)
      /\ Counted(bucket, s).held = seen.held \cup {s}
  BY <1>1 DEF Counted, TypeOK
<1>7. Position(s, bucket, t).sym = s
  BY DEF Position
<1>8. TickNow \in Int /\ t \in Int /\ t <= TickNow
  BY <1>1, <1>4, BoundaryInRange, TickAssumption DEF TickAssumption, TickNow, TypeOK, Times, ViewInv
<1>9. FreedInv'
  <2> SUFFICES ASSUME now < TickNow + Grace, NEW p \in book', NEW r \in Gone PROVE p.sym # r.pos.sym
    BY <1>1, <1>5 DEF FreedInv, FreedIsFree
  <2>1. t = TickNow /\ r.pos.sym \in seen.held
    BY <1>1, <1>4, <1>8 DEF ViewInv
  <2>2. CASE p \in book
    BY <1>4, <2>2 DEF FreedInv, FreedIsFree
  <2>3. CASE p = Position(s, bucket, t)
    BY <1>3, <1>7, <2>1, <2>3
  <2> QED BY <1>5, <2>2, <2>3
<1>10. ViewInv'
  <2> SUFFICES ASSUME pc' = "bucket" PROVE ViewInv'
    BY DEF ViewInv
  <2>1. /\ t <= TickNow /\ (t < TickNow => Gone = {})
        /\ t = TickNow => \A r \in Gone : r.pos.sym \in seen.held
        /\ \A p \in book : p.sym \in seen.held
    BY <1>1, <1>4 DEF ViewInv
  <2>2. seen'.held = seen.held \cup {s}
        /\ \A k \in Sleeves : seen'.count[k] = seen.count[k] + (IF k = SleeveOf(bucket) THEN 1 ELSE 0)
    BY <1>3, <1>6
  <2>3. \A p \in book' : p.sym \in seen'.held
    BY <1>5, <1>7, <2>1, <2>2
  <2>4. /\ \A k \in Sleeves : Cardinality(InBook(k)') <= seen'.count[k]
        /\ t = TickNow => \A k \in Sleeves : atTick'[k] + Cardinality(OpenedNow(k)') <= seen'.count[k]
    BY <1>1, <1>5, <2>2
  <2> QED
    BY <1>1, <1>5, <2>1, <2>2, <2>3, <2>4 DEF ViewInv
<1>11. EvalInv'
  BY <1>1 DEF EvalInv
<1> QED BY <1>5, <1>9, <1>10, <1>11 DEF FillInv

LEMMA InitFill == Init => FillInv
<1> SUFFICES ASSUME Init PROVE FillInv
  OBVIOUS
<1>1. /\ book = {} /\ past = {} /\ pc = "idle" /\ atTick = Nothing.count
  BY DEF Init
<1>2. /\ \A k : InBook(k) = {} /\ OpenedNow(k) = {} /\ HeldThen(k) = {}
      /\ Gone = {}
  BY <1>1 DEF InBook, OpenedNow, HeldThen, StillHeld, GoneOf, Gone
<1>3. /\ \A k : Cardinality(InBook(k)) = 0 /\ Cardinality(OpenedNow(k)) = 0 /\ Cardinality(HeldThen(k)) = 0
      /\ \A k \in Sleeves : atTick[k] = 0 /\ 0 <= Slots(k)
  BY <1>1, <1>2, FS_EmptySet, TickAssumption DEF TickAssumption, Slots, Nothing
<1>4. FillsTheTicksSlots
  BY <1>3 DEF FillsTheTicksSlots, OpenedNow, TickNow
<1> QED
  BY <1>1, <1>2, <1>3, <1>4
     DEF FillInv, BookInv, EvalInv, ViewInv, FreedInv, FreedIsFree, CountInv

LEMMA StepFill ==
    ASSUME Grace <= EvalEvery, NEW n \in Nat, TickEvery = n * EvalEvery
    PROVE TypeOK /\ FillInv /\ [Next]_vars => FillInv'
<1> SUFFICES ASSUME TypeOK, FillInv, [Next]_vars PROVE FillInv'
  OBVIOUS
<1>0. TypeOK'
  BY StepTypeOK
<1>1. CASE PassTime
  BY <1>0, <1>1, TimeFill
<1>2. CASE \/ Die \/ TogglePause \/ SaveElsewhere \/ CycleRaises \/ EvalSkipped \/ EvalSelectFails
           \/ EvalMarkRaises \/ TickSkipped \/ TickSelectFails \/ TickMarkRaises
  <2>1. UNCHANGED <<now, book, past, atTick>> /\ (pc' \notin {"evalOpen", "bucket"} \/ UNCHANGED <<pc, ran, seen>>)
    BY <1>2 DEF Die, TogglePause, SaveElsewhere, CycleRaises, EvalSkipped, EvalSelectFails,
                EvalMarkRaises, TickSkipped, TickSelectFails, TickMarkRaises, marks, positions, ghosts
  <2> QED BY <2>1, QuietFill
<1>3. CASE Boot \/ BucketLeftToEval \/ BucketOpensNothing \/ UNCHANGED vars
  <2>1. UNCHANGED <<now, book, past, atTick, ran>> /\ (pc' # "evalOpen" \/ pc' = pc)
        /\ (pc' = "bucket" => pc = "bucket" /\ seen' = seen)
    BY <1>3 DEF Boot, BucketLeftToEval, BucketOpensNothing, NextBucket, Trading, vars, marks,
                positions, ghosts
  <2>2. CASE pc' = "bucket"
    BY <2>1, <2>2, QuietFill
  <2>3. CASE pc' = "evalOpen"
    <3>1. UNCHANGED <<pc, ran, seen>>
      BY <1>3, <2>3 DEF Boot, BucketLeftToEval, BucketOpensNothing, NextBucket, Trading, vars, marks,
                        positions, ghosts
    <3> QED BY <2>1, <3>1, QuietFill
  <2> QED BY <2>1, <2>2, <2>3, QuietFill
<1>4. ASSUME NEW p \in book, Leaves(p) PROVE FillInv'
  <2>1. /\ Closed({p}) /\ {p} \in SUBSET book /\ UNCHANGED <<now, atTick>> /\ pc = "idle" /\ pc' = "idle"
    BY <1>4 DEF Leaves, ghosts
  <2> QED BY <1>0, <2>1, ClosedFill
<1>5. ASSUME NEW gone \in SUBSET book, StartCycle(gone) PROVE FillInv'
  <2>1. Closed(gone) /\ UNCHANGED <<now, atTick>> /\ pc = "idle" /\ pc' = "eval"
    BY <1>5 DEF StartCycle, ghosts
  <2> QED BY <1>0, <2>1, ClosedFill
<1>6. CASE EvalMark
  BY <1>0, <1>6, EvalMarkFill
<1>7. CASE EvalOpen
  BY <1>0, <1>7, EvalOpenFill
<1>8. CASE TickMark
  BY <1>0, <1>8, TickMarkFill
<1>9. CASE BucketOpens
  BY <1>0, <1>9, BucketOpensFill
<1> QED
  BY <1>1, <1>2, <1>3, <1>4, <1>5, <1>6, <1>7, <1>8, <1>9
     DEF Next, Environment, Exits, TrendEval, RandomTickStep

\* A tick never fills more slots than were free at it (runtime.py 8914), however late it
\* is run, whatever closes meanwhile and whichever orders are slow: for evaluations
\* that divide the ticks and a grace no longer than the period of one, as random_mode.py
\* has them (12 h, 15 min, 15 min).
THEOREM TicksFillTheirSlots ==
    ASSUME Grace <= EvalEvery, \E n \in Nat : TickEvery = n * EvalEvery
    PROVE Spec => []FillsTheTicksSlots
<1>1. PICK n \in Nat : TickEvery = n * EvalEvery
  OBVIOUS
<1>2. TypeOK /\ FillInv /\ [Next]_vars => FillInv'
  BY <1>1, StepFill
<1>3. FillInv => FillsTheTicksSlots
  BY DEF FillInv
<1> QED
  BY <1>2, <1>3, InitFill, InitTypeOK, StepTypeOK, PTL DEF Spec
=============================================================================
