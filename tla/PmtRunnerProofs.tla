--------------------------- MODULE PmtRunnerProofs ---------------------------
(* Machine-checked proofs about PmtRunner, for any number of contracts, any     *)
(* price levels, any settings of rungs, trigger, pullback and floor, and any    *)
(* choice of what may go wrong.                                                 *)
EXTENDS PmtRunner, TLAPS

-----------------------------------------------------------------------------
(* The operators on a position's record *)

LEMMA Settings ==
    /\ Prices \subseteq Int /\ 0 \in Prices /\ Stop \in Prices /\ Breakeven \in Prices
    /\ Size \in Nat /\ Size >= 1 /\ Share \in [1 .. Size -> Nat]
    /\ LockAt \in [Prices -> Prices] /\ NoStop \notin Prices /\ AdoptedStops \subseteq Prices
BY RunnerAssumption DEF RunnerAssumption

LEMMA BankVolBounds ==
    ASSUME NEW n \in 1 .. Size
    PROVE BankVol(n) \in 0 .. n - 1 /\ BankVol(n) \in 0 .. Size
<1>1. Share[n] \in Nat /\ n \in Int /\ n >= 1 /\ n <= Size /\ Size \in Int
  BY Settings
<1> QED
  BY <1>1 DEF BankVol, Smaller, Larger

LEMMA FillingBounds ==
    ASSUME NEW n \in 0 .. Size
    PROVE Filling(n) \subseteq 0 .. n /\ Filling(n) \subseteq 0 .. Size
<1>1. n \in Int /\ Size \in Int /\ 0 <= n /\ n <= Size
  BY Settings
<1> QED
  BY <1>1 DEF Filling

\* The book, the stop and the peak of a record.
Same(q, m) ==
    /\ q.tracked = m.tracked /\ q.contracts = m.contracts /\ q.banked = m.banked
    /\ q.short = m.short /\ q.sl = m.sl /\ q.be = m.be /\ q.peak = m.peak

\* A close that is refused or cannot be read, a repair, a lock stop: only flags and
\* the known lock change.
LEMMA LatchOnly ==
    ASSUME NEW m \in Position
    PROVE /\ Same(m, m) /\ Failed(m) \in Position /\ Same(Failed(m), m)
          /\ [m EXCEPT !.latch = FALSE] \in Position /\ Same([m EXCEPT !.latch = FALSE], m)
          /\ [m EXCEPT !.latch = FALSE].bare = m.bare /\ Failed(m).bare = m.bare
BY DEF Failed, Position, Same

LEMMA FlagOnly ==
    ASSUME NEW m \in Position, NEW b \in BOOLEAN
    PROVE Flag(m, b) \in Position /\ Same(Flag(m, b), m) /\ Flag(m, b).bare = b
BY DEF Flag, Position, Same

LEMMA LockOnly ==
    ASSUME NEW m \in Position, NEW p \in Prices
    PROVE /\ [m EXCEPT !.lock = p] \in Position /\ Same([m EXCEPT !.lock = p], m)
          /\ [m EXCEPT !.lock = p].bare = m.bare
BY DEF Position, Same

LEMMA EffectiveStop ==
    ASSUME NEW m \in Position
    PROVE /\ Effective(m) \in Prices /\ Effective(m) \in Int /\ m.sl \in Prices /\ m.sl \in Int
          /\ \A q : Same(q, m) => Effective(q) = Effective(m)
<1>1. m.sl \in Prices /\ m.be \in Prices \cup {NoStop} /\ Prices \subseteq Int
  BY Settings DEF Position
<1> QED
  BY <1>1 DEF Effective, Same

\* The records a position starts and ends with.
LEMMA StartRecord ==
    /\ \A b \in Prices \cup {NoStop} : Start(b) \in Position
    /\ Untracked \in Position /\ Untracked.tracked = FALSE
<1>0. NoStop \in Prices \cup {NoStop} /\ FALSE \in BOOLEAN
  OBVIOUS
<1>1. \A b \in Prices \cup {NoStop} : Start(b) \in Position
  <2> SUFFICES ASSUME NEW b \in Prices \cup {NoStop} PROVE Start(b) \in Position
    OBVIOUS
  <2>1. /\ 0 \in {p \in Prices : p >= 0} /\ Size \in 1 .. Size /\ Stop \in Prices /\ 0 \in Nat
        /\ [r \in 1 .. 2 |-> 0] \in [1 .. 2 -> Nat]
    BY Settings
  <2> QED
    BY <2>1 DEF Start, Position
<1>2. Start(NoStop) \in Position
  BY <1>0, <1>1
<1>3. Untracked = [Start(NoStop) EXCEPT !.tracked = FALSE]
  BY DEF Untracked
<1> QED
  BY <1>1, <1>2, <1>3 DEF Position

LEMMA Less ==
    ASSUME NEW c \in 1 .. Size, NEW v \in 0 .. c - 1, NEW f \in 0 .. v, NEW s \in Nat
    PROVE Larger(1, c - v) = c - v /\ c - v \in 1 .. Size /\ s + (v - f) \in Nat
BY Settings DEF Larger

\* A bank moves contracts from held to banked, remembers what it did not fill, and
\* may tighten the stop.
LEMMA BankedFields ==
    ASSUME NEW m \in Position, NEW r \in 1 .. 2, NEW f \in Filling(BankVol(m.contracts))
    PROVE /\ Banked(m, r, f) \in Position
          /\ Banked(m, r, f).tracked = m.tracked
          /\ Banked(m, r, f).contracts = m.contracts - BankVol(m.contracts)
          /\ Banked(m, r, f).banked = [m.banked EXCEPT ![r] = BankVol(m.contracts)]
          /\ Banked(m, r, f).short = m.short + (BankVol(m.contracts) - f)
          /\ Banked(m, r, f).peak = m.peak /\ Banked(m, r, f).bare = m.bare
          /\ Banked(m, r, f).be = m.be
          /\ Banked(m, r, f).sl = IF Improves(m, r) THEN Breakeven ELSE m.sl
<1>1. /\ m.contracts \in 1 .. Size /\ m.banked \in [1 .. 2 -> Nat] /\ m.sl \in Prices
      /\ m.short \in Nat
  BY DEF Position
<1> DEFINE v == BankVol(m.contracts)
<1>2. v \in 0 .. m.contracts - 1 /\ v \in 0 .. Size
  BY <1>1, BankVolBounds
<1>3. f \in 0 .. v
  BY <1>2, FillingBounds
<1> DEFINE sl == IF Improves(m, r) THEN Breakeven ELSE m.sl
<1>4. sl \in Prices
  BY <1>1, Settings
<1>5. /\ Larger(1, m.contracts - v) = m.contracts - v /\ m.contracts - v \in 1 .. Size
      /\ m.short + (v - f) \in Nat
  BY <1>1, <1>2, <1>3, Less
<1>6. [m.banked EXCEPT ![r] = v] \in [1 .. 2 -> Nat]
  <2>1. v \in Nat
    BY <1>2
  <2> HIDE DEF v
  <2> QED
    BY <1>1, <2>1
<1>7. Banked(m, r, f) = [m EXCEPT !.contracts = m.contracts - v,
                                  !.banked = [m.banked EXCEPT ![r] = v],
                                  !.short = m.short + (v - f), !.sl = sl]
  BY <1>5 DEF Banked, Position
<1> HIDE DEF v, sl
<1>8. Banked(m, r, f) \in Position
  BY <1>4, <1>5, <1>6, <1>7 DEF Position
<1>9. /\ Banked(m, r, f).contracts = m.contracts - v /\ Banked(m, r, f).tracked = m.tracked
      /\ Banked(m, r, f).banked = [m.banked EXCEPT ![r] = v]
      /\ Banked(m, r, f).short = m.short + (v - f) /\ Banked(m, r, f).be = m.be
      /\ Banked(m, r, f).peak = m.peak /\ Banked(m, r, f).bare = m.bare
      /\ Banked(m, r, f).sl = sl
  BY <1>7 DEF Position
<1>10. v = BankVol(m.contracts) /\ sl = IF Improves(m, r) THEN Breakeven ELSE m.sl
  BY DEF v, sl
<1> QED
  BY <1>8, <1>9, <1>10

-----------------------------------------------------------------------------
(* What MEXC does with an order or a stop *)

LEMMA FillsEffect ==
    ASSUME TypeOK, NEW n \in 0 .. Size, Fills(n)
    PROVE /\ held' \in 0 .. Size /\ held' <= held /\ (held' > 0 => held' = held - n)
          /\ held' > 0 => UNCHANGED stops
          /\ stops' \subseteq Prices /\ target' \in BOOLEAN /\ price' = price
<1>1. held \in 0 .. Size /\ Size \in Nat /\ n \in Nat /\ n <= Size
  BY Settings DEF TypeOK
<1>2. CASE n >= held
  <2>1. held' = 0 /\ stops' = {} /\ target' = FALSE /\ price' = price
    BY <1>2 DEF Fills, Gone
  <2>2. target' \in BOOLEAN
    BY <2>1
  <2>3. held' \in 0 .. Size /\ held' <= held /\ ~(held' > 0)
    BY <1>1, <2>1
  <2> QED
    BY <2>1, <2>2, <2>3
<1>3. CASE ~(n >= held)
  <2>1. held' = held - n /\ stops' = stops /\ target' = target /\ price' = price
    BY <1>3 DEF Fills
  <2> QED
    BY <1>1, <1>3, <2>1 DEF TypeOK
<1> QED
  BY <1>2, <1>3

LEMMA RestsEffect ==
    ASSUME TypeOK, NEW s \in Prices, NEW kept \in SUBSET Prices, NEW t \in BOOLEAN,
           Rests(s, kept, t)
    PROVE /\ held' \in 0 .. Size /\ held' <= held
          /\ held' > 0 => stops' = kept \cup {s}
          /\ stops' \subseteq Prices /\ target' \in BOOLEAN /\ price' = price
<1>1. held \in 0 .. Size /\ Size \in Nat
  BY Settings DEF TypeOK
<1>2. CASE price <= s
  <2>1. held' = 0 /\ stops' = {} /\ target' = FALSE /\ price' = price
    BY <1>2 DEF Rests, Gone
  <2>2. target' \in BOOLEAN
    BY <2>1
  <2>3. held' \in 0 .. Size /\ held' <= held /\ ~(held' > 0)
    BY <1>1, <2>1
  <2> QED
    BY <2>1, <2>2, <2>3
<1>3. CASE ~(price <= s)
  <2>1. held' = held /\ stops' = kept \cup {s} /\ target' = t /\ price' = price
    BY <1>3 DEF Rests
  <2> QED
    BY <1>1, <2>1
<1> QED
  BY <1>2, <1>3
-----------------------------------------------------------------------------
(* Types *)

LEMMA InitType == Init => TypeOK
<1> SUFFICES ASSUME Init PROVE TypeOK
  OBVIOUS
<1>1. PICK b \in AdoptedStops \cup {NoStop} : mem = Start(b)
  BY DEF Init
<1>2. mem \in Position /\ disk \in Position
  BY <1>1, StartRecord, Settings DEF Init
<1>3. Effective(mem) \in Prices
  BY <1>2, EffectiveStop
<1>4. target \in BOOLEAN /\ changed \in BOOLEAN /\ unfinished \in BOOLEAN
  BY DEF Init
<1>5. price \in Prices /\ held \in 0 .. Size /\ stops \subseteq Prices /\ cur \in Prices
  BY <1>3, Settings DEF Init
<1> QED
  BY <1>2, <1>4, <1>5 DEF Init, TypeOK, Steps

\* What an action does at MEXC: a move of the market, an order for at most what was
\* entered, a stop, or the end of the bracket.
LEMMA ExchangeEffect ==
    ASSUME TypeOK,
           \/ UNCHANGED exchange
           \/ PriceMoves
           \/ BracketGone
           \/ \E n \in 0 .. Size : Fills(n)
           \/ \E s \in Prices : \E kept \in SUBSET Prices : \E t \in BOOLEAN : Rests(s, kept, t)
    PROVE /\ held' \in 0 .. Size /\ held' <= held
          /\ stops' \subseteq Prices /\ target' \in BOOLEAN /\ price' \in Prices
<1>0. /\ held \in 0 .. Size /\ stops \subseteq Prices /\ target \in BOOLEAN /\ price \in Prices
      /\ held <= held
  BY Settings DEF TypeOK
<1>1. CASE UNCHANGED exchange
  BY <1>0, <1>1 DEF exchange
<1>2. CASE PriceMoves
  <2>1. price' \in Prices
    BY <1>2 DEF PriceMoves
  <2>2. CASE Gone
    <3>1. held' = 0 /\ stops' = {} /\ target' = FALSE
      BY <2>2 DEF Gone
    <3>2. held' \in 0 .. Size /\ held' <= held
      BY <1>0, <3>1, Settings
    <3> QED
      BY <2>1, <3>1, <3>2
  <2>3. CASE UNCHANGED <<held, stops, target>>
    BY <1>0, <2>1, <2>3
  <2> QED
    BY <1>2, <2>2, <2>3 DEF PriceMoves
<1>3. CASE BracketGone
  BY <1>0, <1>3 DEF BracketGone
<1>4. CASE \E n \in 0 .. Size : Fills(n)
  BY <1>0, <1>4, FillsEffect
<1>5. CASE \E s \in Prices : \E kept \in SUBSET Prices : \E t \in BOOLEAN : Rests(s, kept, t)
  BY <1>0, <1>5, RestsEffect
<1> QED
  BY <1>1, <1>2, <1>3, <1>4, <1>5

\* MEXC holds fewer contracts after a step, never more.
LEMMA ExchangeStep ==
    ASSUME TypeOK, Next
    PROVE /\ held' \in 0 .. Size /\ held' <= held
          /\ stops' \subseteq Prices /\ target' \in BOOLEAN /\ price' \in Prices
<1>0. stops \in SUBSET Prices /\ {} \in SUBSET Prices /\ target \in BOOLEAN /\ TRUE \in BOOLEAN
  BY DEF TypeOK
<1>1. /\ mem.contracts \in 0 .. Size /\ mem.sl \in Prices /\ LockAt[mem.peak] \in Prices
      /\ BankVol(mem.contracts) \in 0 .. Size /\ Effective(mem) \in Prices
  <2>1. mem \in Position /\ mem.contracts \in 1 .. Size /\ mem.peak \in Prices
    BY DEF TypeOK, Position
  <2>2. Effective(mem) \in Prices /\ mem.sl \in Prices
    BY <2>1, EffectiveStop
  <2>3. BankVol(mem.contracts) \in 0 .. Size
    BY <2>1, BankVolBounds
  <2>4. LockAt[mem.peak] \in Prices
    BY <2>1, Settings
  <2>5. mem.contracts \in 0 .. Size
    BY <2>1
  <2> QED
    BY <2>2, <2>3, <2>4, <2>5
<1> DEFINE Orders == \E n \in 0 .. Size : Fills(n)
           Brackets == \E s \in Prices : \E kept \in SUBSET Prices : \E t \in BOOLEAN :
                          Rests(s, kept, t)
<1>2. \A n \in 0 .. Size : \A f \in Filling(n) : Fills(f) => Orders
  BY FillingBounds
<1>3. CASE Bank
  <2>1. PICK r \in 1 .. 2 : BankTaken(r) \/ BankRaises(r)
    BY <1>3 DEF Bank
  <2>2. (\E f \in Filling(BankVol(mem.contracts)) : Fills(f)) \/ UNCHANGED exchange
    BY <2>1 DEF BankTaken, BankRaises
  <2>3. Orders \/ UNCHANGED exchange
    BY <1>1, <1>2, <2>2
  <2> QED
    BY <2>3, ExchangeEffect
<1>4. CASE SwapCancel
  <2>1. BracketGone \/ UNCHANGED exchange
    BY <1>4 DEF SwapCancel, BracketGone, exchange
  <2> QED
    BY <2>1, ExchangeEffect
<1>5. CASE SwapPlace \/ LockPlace
  <2>1. Rests(mem.sl, {}, TRUE) \/ Rests(LockAt[mem.peak], stops, target) \/ UNCHANGED exchange
    BY <1>5 DEF SwapPlace, LockPlace
  <2>2. Brackets \/ UNCHANGED exchange
    BY <1>0, <1>1, <2>1
  <2> QED
    BY <2>2, ExchangeEffect
<1>6. CASE Close
  <2>1. \/ BracketGone \/ UNCHANGED exchange
        \/ Rests(Effective(mem), {}, TRUE)
        \/ \E f \in Filling(mem.contracts) : Fills(f)
    BY <1>6 DEF Close, CloseCancelled, CancelRaises, OrderRaises, CloseRestored, RestoreFails,
                CloseTaken, CloseUnread
  <2>2. Orders \/ Brackets \/ BracketGone \/ UNCHANGED exchange
    BY <1>0, <1>1, <1>2, <2>1
  <2> QED
    BY <2>2, ExchangeEffect
<1>7. CASE Repair
  <2>1. BracketGone \/ Rests(Effective(mem), stops, TRUE) \/ UNCHANGED exchange
    BY <1>7 DEF Repair, RepairCancel, RepairPlace
  <2>2. Brackets \/ BracketGone \/ UNCHANGED exchange
    BY <1>0, <1>1, <2>1
  <2> QED
    BY <2>2, ExchangeEffect
<1>8. CASE PriceMoves
  BY <1>8, ExchangeEffect
<1>9. CASE Crash \/ Poll \/ PollLatched \/ BankSave \/ Decide \/ Reconcile
  <2>1. UNCHANGED exchange
    BY <1>9 DEF Crash, Poll, PollLatched, BankSave, Decide, Reconcile
  <2> QED
    BY <2>1, ExchangeEffect
<1> QED
  BY <1>3, <1>4, <1>5, <1>6, <1>7, <1>8, <1>9 DEF Next, Swap, Lock

\* The record in memory: raised by a poll, booked by a bank, read back after a death,
\* forgotten, or kept but for its flags.
LEMMA RecordStep ==
    ASSUME TypeOK, Next
    PROVE /\ mem' \in Position /\ disk' \in {disk, mem'}
          /\ \/ mem' = [mem EXCEPT !.peak = Larger(@, price)] /\ Poll
             \/ \E r \in 1 .. 2 : BankTaken(r)
             \/ mem' = disk /\ disk' = disk /\ Crash
             \/ mem' = Untracked /\ disk' = Untracked
             \/ Same(mem', mem)
<1>0. mem \in Position /\ disk \in Position /\ price \in Prices /\ price \in Int /\ 0 \in Prices
  BY Settings DEF TypeOK
<1>1. CASE Poll
  <2>1. Larger(mem.peak, price) \in Prices /\ Larger(mem.peak, price) >= 0
    <3>1. mem.peak \in Prices /\ mem.peak \in Int /\ mem.peak >= 0
      BY <1>0, Settings DEF Position
    <3> QED
      BY <1>0, <3>1 DEF Larger
  <2>2. mem' = [mem EXCEPT !.peak = Larger(mem.peak, price)] /\ disk' = disk
    BY <1>1 DEF Poll
  <2>3. mem' \in Position
    BY <1>0, <2>1, <2>2 DEF Position
  <2> QED
    BY <1>1, <2>2, <2>3
<1>2. CASE \E r \in 1 .. 2 : BankTaken(r)
  <2>1. PICK r \in 1 .. 2, f \in Filling(BankVol(mem.contracts)) : mem' = Banked(mem, r, f)
    BY <1>2 DEF BankTaken
  <2>2. disk' = disk
    BY <1>2 DEF BankTaken
  <2> QED
    BY <1>0, <1>2, <2>1, <2>2, BankedFields
<1>3. CASE Crash
  BY <1>0, <1>3 DEF Crash
<1>4. CASE Forget
  BY <1>4, StartRecord DEF Forget
<1>5. CASE LockPlace
  <2>1. LockAt[mem.peak] \in Prices
    BY <1>0, Settings DEF Position
  <2>2. (mem' = [mem EXCEPT !.lock = LockAt[mem.peak]] \/ mem' = mem) /\ disk' = disk
    BY <1>5 DEF LockPlace
  <2>3. mem' \in Position /\ Same(mem', mem)
    BY <1>0, <2>1, <2>2, LatchOnly, LockOnly
  <2> QED
    BY <2>2, <2>3
<1>6. CASE CloseRestored
  BY <1>0, <1>6, LatchOnly DEF CloseRestored
<1>7. CASE RestoreFails
  <2>1. mem' \in {Flag(mem, TRUE), mem} /\ disk' = disk
    BY <1>7 DEF RestoreFails
  <2>2. TRUE \in BOOLEAN
    OBVIOUS
  <2>3. mem' \in Position /\ Same(mem', mem)
    BY <1>0, <2>1, <2>2, LatchOnly, FlagOnly
  <2> QED
    BY <2>1, <2>3
<1>8. CASE RepairPlace
  <2>1. mem' \in {Flag(mem, FALSE), mem} /\ disk' = mem'
    BY <1>8 DEF RepairPlace
  <2>2. FALSE \in BOOLEAN
    OBVIOUS
  <2>3. mem' \in Position /\ Same(mem', mem)
    BY <1>0, <2>1, <2>2, LatchOnly, FlagOnly
  <2> QED
    BY <2>1, <2>3
<1>9. CASE \E f \in Filling(mem.contracts) : CloseUnread(f)
  <2>1. mem' = [mem EXCEPT !.latch = FALSE] /\ disk' = disk
    BY <1>9 DEF CloseUnread
  <2> QED
    BY <1>0, <2>1, LatchOnly
<1>10. CASE PriceMoves \/ PollLatched \/ (\E r \in 1 .. 2 : BankRaises(r)) \/ Swap \/ Decide
             \/ CloseCancelled \/ CancelRaises \/ OrderRaises \/ RepairCancel
  <2>1. mem' = mem /\ disk' \in {disk, mem}
    BY <1>10 DEF PriceMoves, PollLatched, BankRaises, Swap, SwapCancel, SwapPlace, BankSave,
                 Decide, CloseCancelled, CancelRaises, OrderRaises, RepairCancel
  <2> QED
    BY <1>0, <2>1, LatchOnly
<1>11. (\E f \in Filling(mem.contracts) : CloseTaken(f)) \/ Reconcile => Forget
  BY DEF CloseTaken, Reconcile
<1> QED
  BY <1>1, <1>2, <1>3, <1>4, <1>5, <1>6, <1>7, <1>8, <1>9, <1>10, <1>11
     DEF Next, Bank, Lock, Close, Repair

LEMMA ControlStep ==
    ASSUME TypeOK, Next
    PROVE pc' \in Steps /\ cur' \in Prices
<1>0. pc \in Steps /\ cur \in Prices /\ price \in Prices /\ 0 \in Prices
  BY Settings DEF TypeOK
<1>1. CASE PriceMoves \/ Reconcile
  BY <1>0, <1>1 DEF PriceMoves, Reconcile, poll
<1>2. CASE Crash
  BY <1>0, <1>2 DEF Crash, Rest, Steps
<1>3. CASE Poll
  BY <1>0, <1>3 DEF Poll, Steps
<1>4. CASE PollLatched
  BY <1>0, <1>4 DEF PollLatched, StartClose, Steps
<1>5. CASE Bank
  BY <1>0, <1>5 DEF Bank, BankTaken, BankRaises, Goto, Steps
<1>6. CASE Swap
  BY <1>0, <1>6 DEF Swap, SwapCancel, SwapPlace, BankSave, Goto, Steps
<1>7. CASE Lock
  BY <1>0, <1>7 DEF Lock, LockPlace, Decide, StartClose, Rest, Steps
<1>8. CASE Close
  BY <1>0, <1>8 DEF Close, CloseCancelled, CancelRaises, OrderRaises, CloseRestored, RestoreFails,
                    CloseTaken, CloseUnread, Goto, Rest, Steps
<1>9. CASE Repair
  BY <1>0, <1>9 DEF Repair, RepairCancel, RepairPlace, Goto, Rest, Steps
<1> QED
  BY <1>1, <1>2, <1>3, <1>4, <1>5, <1>6, <1>7, <1>8, <1>9 DEF Next

LEMMA ChangedStep ==
    ASSUME TypeOK, Next
    PROVE changed' \in BOOLEAN
<1>0. changed \in BOOLEAN
  BY DEF TypeOK
<1>1. CASE UNCHANGED changed
  BY <1>0, <1>1
<1>2. CASE changed' = FALSE \/ changed' = TRUE
  BY <1>2
<1>3. CASE Poll
  <2>1. changed' = (price > mem.peak) /\ (price > mem.peak) \in BOOLEAN
    BY <1>3 DEF Poll
  <2> QED
    BY <2>1
<1>4. CASE PriceMoves \/ Reconcile
  <2>1. UNCHANGED changed
    BY <1>4 DEF PriceMoves, Reconcile, poll
  <2> QED
    BY <1>1, <2>1
<1>5. CASE Bank \/ Swap
  <2>1. UNCHANGED changed
    BY <1>5 DEF Bank, BankTaken, BankRaises, Swap, SwapCancel, SwapPlace, BankSave, Goto
  <2> QED
    BY <1>1, <2>1
<1>6. CASE Crash \/ PollLatched \/ Lock \/ Close \/ Repair
  <2>1. UNCHANGED changed \/ changed' = FALSE \/ changed' = TRUE
    BY <1>6 DEF Crash, PollLatched, Lock, LockPlace, Decide, StartClose, Close, CloseCancelled,
                CancelRaises, OrderRaises, CloseRestored, RestoreFails, CloseTaken, CloseUnread,
                Repair, RepairCancel, RepairPlace, Goto, Rest
  <2> QED
    BY <1>1, <1>2, <2>1
<1> QED
  BY <1>3, <1>4, <1>5, <1>6 DEF Next

LEMMA UnfinishedStep ==
    ASSUME TypeOK, Next
    PROVE unfinished' \in BOOLEAN
<1>0. unfinished \in BOOLEAN /\ (~mem.bare) \in BOOLEAN
  BY DEF TypeOK
<1>1. CASE UNCHANGED unfinished \/ unfinished' = FALSE
  BY <1>0, <1>1
<1>2. CASE unfinished' = ~mem.bare
  BY <1>0, <1>2
<1>3. CASE Crash
  <2>1. unfinished' = (~disk.bare /\ (unfinished \/ mem.bare \/ pc \in BracketDown))
    BY <1>3 DEF Crash
  <2>2. (~disk.bare /\ (unfinished \/ mem.bare \/ pc \in BracketDown)) \in BOOLEAN
    OBVIOUS
  <2> QED
    BY <2>1, <2>2
<1>4. CASE PriceMoves \/ Poll \/ PollLatched \/ Bank \/ Lock \/ Reconcile \/ Repair
  <2>1. UNCHANGED unfinished \/ unfinished' = FALSE
    BY <1>4 DEF PriceMoves, Poll, PollLatched, Bank, BankTaken, BankRaises, Lock, LockPlace,
                Decide, Reconcile, Forget, Repair, RepairCancel, RepairPlace
  <2> QED
    BY <1>1, <2>1
<1>5. CASE Swap \/ Close
  <2>1. UNCHANGED unfinished \/ unfinished' = FALSE \/ unfinished' = ~mem.bare
    BY <1>5 DEF Swap, SwapCancel, SwapPlace, BankSave, Close, CloseCancelled, CancelRaises,
                OrderRaises, CloseRestored, RestoreFails, CloseTaken, CloseUnread, Forget
  <2> QED
    BY <1>1, <1>2, <2>1
<1> QED
  BY <1>3, <1>4, <1>5 DEF Next

LEMMA NextType == ASSUME TypeOK, Next PROVE TypeOK'
<1>1. mem' \in Position /\ disk' \in Position
  BY RecordStep DEF TypeOK
<1> QED
  BY <1>1, ExchangeStep, ControlStep, ChangedStep, UnfinishedStep DEF TypeOK

LEMMA StutterType == ASSUME TypeOK, UNCHANGED vars PROVE TypeOK'
BY DEF TypeOK, vars, exchange, poll

\* State and metadata keep their types, for any settings.
THEOREM RunnerTypeOK == Spec => []TypeOK
<1>1. ASSUME TypeOK, [Next]_vars PROVE TypeOK'
  BY <1>1, NextType, StutterType
<1> QED
  BY InitType, <1>1, PTL DEF Spec

-----------------------------------------------------------------------------
(* Contracts *)

\* A tracked record counts every contract once, and MEXC holds no more than it says
\* but for what was left unfilled.
Counts(m, h) ==
    m.tracked => /\ m.contracts + m.banked[1] + m.banked[2] = Size
                 /\ h <= m.contracts + m.short

\* The rung that is being banked has not been banked.
BookInv ==
    /\ Counts(mem, held) /\ Counts(disk, held)
    /\ \A r \in 1 .. 2 : pc = BankStep[r] => mem.banked[r] = 0

\* The claim survives whatever leaves the counts alone and lets MEXC hold less.
LEMMA CountsKept ==
    ASSUME NEW m \in Position, NEW q, q.tracked => Same(q, m),
           NEW h \in Int, NEW k \in Int, k <= h, Counts(m, h)
    PROVE Counts(q, k)
<1> SUFFICES ASSUME q.tracked
             PROVE q.contracts + q.banked[1] + q.banked[2] = Size /\ k <= q.contracts + q.short
  BY DEF Counts
<1>1. m.contracts \in Int /\ m.short \in Int
  BY Settings DEF Position
<1>2. /\ m.tracked /\ q.contracts = m.contracts /\ q.banked = m.banked /\ q.short = m.short
  BY DEF Same
<1>3. m.contracts + m.banked[1] + m.banked[2] = Size /\ h <= m.contracts + m.short
  BY <1>2 DEF Counts
<1> QED
  BY <1>1, <1>2, <1>3

\* An accepted bank takes off the book what it takes off MEXC, and what it should
\* have taken is remembered as not filled.
LEMMA BankCounts ==
    ASSUME TypeOK, BookInv, NEW r \in 1 .. 2, BankTaken(r)
    PROVE Counts(mem, held)' /\ Counts(disk, held)'
<1>0. /\ mem \in Position /\ mem.contracts \in 1 .. Size /\ mem.banked \in [1 .. 2 -> Nat]
      /\ mem.short \in Nat /\ held \in 0 .. Size /\ Size \in Nat
      /\ disk \in Position
  BY Settings DEF TypeOK, Position
<1> DEFINE v == BankVol(mem.contracts)
<1>1. v \in 0 .. mem.contracts - 1 /\ v \in 0 .. Size
  BY <1>0, BankVolBounds
<1>2. mem.banked[r] = 0
  BY DEF BankTaken, At, BookInv
<1>3. PICK f \in Filling(v) : Fills(f) /\ mem' = Banked(mem, r, f)
  BY DEF BankTaken
<1>4. f \in 0 .. v /\ f \in 0 .. Size
  BY <1>1, FillingBounds
<1>5. /\ mem'.contracts = mem.contracts - v /\ mem'.banked = [mem.banked EXCEPT ![r] = v]
      /\ mem'.short = mem.short + (v - f) /\ mem'.tracked = mem.tracked
  BY <1>0, <1>3, BankedFields
<1>6. disk' = disk
  BY DEF BankTaken
<1> HIDE DEF v
<1>7. held' \in 0 .. Size /\ held' <= held /\ (held' > 0 => held' = held - f)
  BY <1>3, <1>4, FillsEffect
<1>8. Counts(disk, held)'
  <2>1. Counts(disk, held')
    <3>1. Same(disk, disk) /\ held \in Int /\ held' \in Int /\ held' <= held /\ Counts(disk, held)
      BY <1>0, <1>7 DEF Same, BookInv
    <3> QED
      BY <1>0, <3>1, CountsKept
  <2> QED
    BY <1>6, <2>1 DEF Counts
<1>9. ASSUME mem'.tracked
      PROVE /\ mem'.contracts + mem'.banked[1] + mem'.banked[2] = Size
            /\ held' <= mem'.contracts + mem'.short
  <2>1. mem.contracts + mem.banked[1] + mem.banked[2] = Size
        /\ held <= mem.contracts + mem.short
    BY <1>5, <1>9 DEF BookInv, Counts
  <2>2. mem'.contracts + mem'.banked[1] + mem'.banked[2] = Size
    <3>1. CASE r = 1
      BY <1>0, <1>1, <1>2, <1>5, <2>1, <3>1
    <3>2. CASE r = 2
      BY <1>0, <1>1, <1>2, <1>5, <2>1, <3>2
    <3> QED
      BY <3>1, <3>2
  <2>3. mem'.contracts + mem'.short = mem.contracts + mem.short - f
    BY <1>0, <1>1, <1>4, <1>5
  <2>4. held' <= mem'.contracts + mem'.short
    <3>1. CASE held' > 0
      BY <1>0, <1>4, <1>7, <2>1, <2>3, <3>1
    <3>2. CASE held' = 0
      BY <1>0, <1>1, <1>4, <1>5, <3>2
    <3> QED
      BY <1>7, <3>1, <3>2
  <2> QED
    BY <2>2, <2>4
<1> QED
  BY <1>8, <1>9 DEF Counts

LEMMA NextCounts ==
    ASSUME TypeOK, BookInv, Next
    PROVE Counts(mem, held)' /\ Counts(disk, held)'
<1>0. /\ mem \in Position /\ disk \in Position /\ held \in Int /\ held' \in Int /\ held' <= held
      /\ Counts(mem, held) /\ Counts(disk, held) /\ disk' \in {disk, mem'}
  BY ExchangeStep, RecordStep DEF TypeOK, BookInv
<1>1. CASE \E r \in 1 .. 2 : BankTaken(r)
  BY <1>1, BankCounts
<1>2. CASE ~\E r \in 1 .. 2 : BankTaken(r)
  <2>1. Counts(mem', held')
    <3>1. CASE mem' = [mem EXCEPT !.peak = Larger(@, price)]
      <4>1. /\ mem'.tracked = mem.tracked /\ mem'.contracts = mem.contracts
            /\ mem'.banked = mem.banked /\ mem'.short = mem.short
        BY <1>0, <3>1 DEF Position
      <4>2. mem.contracts + mem.short \in Int
        BY <1>0, Settings DEF Position
      <4> QED
        BY <1>0, <4>1, <4>2 DEF Counts
    <3>2. CASE mem' = disk
      BY <1>0, <3>2, LatchOnly, CountsKept
    <3>3. CASE mem' = Untracked
      BY <3>3, StartRecord DEF Counts
    <3>4. CASE Same(mem', mem)
      BY <1>0, <3>4, CountsKept
    <3> QED
      BY <1>2, <3>1, <3>2, <3>3, <3>4, RecordStep
  <2>2. Counts(disk', held')
    <3>1. CASE disk' = disk
      BY <1>0, <3>1, LatchOnly, CountsKept
    <3> QED
      BY <1>0, <2>1, <3>1
  <2> QED
    BY <2>1, <2>2 DEF Counts
<1> QED
  BY <1>1, <1>2

\* Only a poll starts a bank, and only of a rung that is due.
LEMMA NextDue ==
    ASSUME TypeOK, BookInv, Next, NEW r \in 1 .. 2, pc' = BankStep[r]
    PROVE mem'.banked[r] = 0
<1>0. mem \in Position /\ BankStep[1] = "bank1" /\ BankStep[2] = "bank2"
  BY DEF TypeOK, BankStep
<1>1. pc' \in {"bank1", "bank2"} /\ (pc = pc' => mem.banked[r] = 0)
  BY <1>0 DEF BookInv
<1>2. CASE PriceMoves
  BY <1>1, <1>2 DEF PriceMoves, poll
<1>3. CASE Crash \/ PollLatched \/ Bank \/ Swap
  BY <1>1, <1>3 DEF Crash, PollLatched, StartClose, Bank, BankTaken, BankRaises, Swap, SwapCancel,
                    SwapPlace, BankSave, Rest, Goto
<1>4. CASE Lock \/ Close \/ Repair
  BY <1>1, <1>4 DEF Lock, LockPlace, Decide, StartClose, Close, CloseCancelled, CancelRaises,
                    OrderRaises, CloseRestored, RestoreFails, CloseTaken, CloseUnread, Repair,
                    RepairCancel, RepairPlace, Rest, Goto
<1>5. CASE Poll
  <2>1. mem'.banked = mem.banked
    BY <1>0, <1>5 DEF Poll, Position
  <2>2. Due(mem, r, price)
    <3>1. CASE r = 1
      BY <1>0, <1>5, <3>1 DEF Poll
    <3>2. CASE r = 2
      BY <1>0, <1>5, <3>2 DEF Poll
    <3> QED
      BY <3>1, <3>2
  <2> QED
    BY <2>1, <2>2 DEF Due
<1>6. CASE Reconcile
  BY <1>1, <1>6 DEF Reconcile, At, poll
<1> QED
  BY <1>2, <1>3, <1>4, <1>5, <1>6 DEF Next

LEMMA InitBooks == Init => BookInv
<1> SUFFICES ASSUME Init PROVE BookInv
  OBVIOUS
<1>1. PICK b \in AdoptedStops \cup {NoStop} : mem = Start(b)
  BY DEF Init
<1>2. Start(b).contracts = Size /\ Start(b).banked = [r \in 1 .. 2 |-> 0] /\ Start(b).short = 0
  BY DEF Start
<1>3. Size \in Nat /\ disk = mem /\ held = Size /\ pc = "idle"
  BY Settings DEF Init
<1> QED
  BY <1>1, <1>2, <1>3 DEF BookInv, Counts, BankStep

\* Over refused, unanswered and unfilled orders and restarts, memory and file count
\* every contract entered once, and fewer as held than MEXC holds only by what
\* accepted banks left unfilled, for any size, bank fraction and rungs.
THEOREM BooksAlwaysAddUp == Spec => []BooksAddUp
<1>1. ASSUME TypeOK, BookInv, [Next]_vars PROVE BookInv'
  <2>1. CASE Next
    BY <1>1, <2>1, NextCounts, NextDue DEF BookInv, BankStep
  <2>2. CASE UNCHANGED vars
    BY <1>1, <2>2 DEF BookInv, Counts, vars, exchange, poll
  <2> QED
    BY <1>1, <2>1, <2>2
<1>2. BookInv => BooksAddUp
  BY DEF BookInv, Counts, BooksAddUp
<1> QED
  BY InitBooks, RunnerTypeOK, <1>1, <1>2, PTL DEF Spec

-----------------------------------------------------------------------------
(* The peak *)

\* The steps of a poll up to its decision.
Polling == {"bank1", "bank2", "swapCancel", "swapPlace", "bankSave", "lock", "decide"}

\* The peak is on file, or the lock closes at that very peak, or it is the price of
\* the running poll, which will save it.
PeakKept == mem.peak <= disk.peak \/ LockAt[mem.peak] >= mem.peak
PeakInv == PeakKept \/ (pc \in Polling /\ changed /\ mem.peak = cur)

LEMMA PeakNumbers ==
    ASSUME TypeOK
    PROVE /\ mem.peak \in Int /\ disk.peak \in Int /\ price \in Int /\ cur \in Int
          /\ mem.peak \in Prices /\ LockAt[mem.peak] \in Int
<1>1. mem.peak \in Prices /\ disk.peak \in Prices /\ price \in Prices /\ cur \in Prices
  BY DEF TypeOK, Position
<1> QED
  BY <1>1, Settings

LEMMA InitPeak == Init => PeakInv
<1> SUFFICES ASSUME Init PROVE PeakInv
  OBVIOUS
<1>1. PICK b \in AdoptedStops \cup {NoStop} : mem = Start(b) /\ disk = mem
  BY DEF Init
<1>2. Start(b).peak = 0
  BY DEF Start
<1> QED
  BY <1>1, <1>2 DEF PeakInv, PeakKept

\* A step that keeps the peak in memory, and saves it or leaves the file alone.
LEMMA PeakSame ==
    ASSUME TypeOK, mem'.peak = mem.peak, disk' \in {disk, mem'}, PeakKept
    PROVE PeakKept'
<1>1. mem'.peak \in Int
  BY PeakNumbers
<1> QED
  BY <1>1 DEF PeakKept

LEMMA NextPeak == ASSUME TypeOK, PeakInv, Next PROVE PeakInv'
<1>0. /\ mem \in Position /\ mem.peak \in Prices /\ LockAt[mem.peak] \in Int
      /\ mem.peak \in Int /\ disk.peak \in Int /\ price \in Int /\ cur \in Int
      /\ disk' \in {disk, mem'}
  BY PeakNumbers, RecordStep DEF TypeOK
<1>1. CASE Poll
  <2>0. PeakKept
    BY <1>1 DEF Poll, At, PeakInv, Polling
  <2>4. mem'.peak = Larger(mem.peak, price)
    BY <1>0, <1>1 DEF Poll, Position
  <2>5. pc' \in Polling
    BY <1>1 DEF Poll, Polling
  <2>1. cur' = price /\ disk' = disk /\ (price > mem.peak => changed')
    BY <1>1 DEF Poll
  <2>2. CASE price > mem.peak
    <3>1. mem'.peak = price
      BY <1>0, <2>4, <2>2 DEF Larger
    <3> QED
      BY <2>5, <2>1, <2>2, <3>1 DEF PeakInv
  <2>3. CASE ~(price > mem.peak)
    <3>1. mem'.peak = mem.peak
      BY <1>0, <2>4, <2>3 DEF Larger
    <3> QED
      BY <1>0, <2>0, <3>1, PeakSame DEF PeakInv
  <2> QED
    BY <2>2, <2>3
<1>2. CASE Crash \/ Reconcile \/ \E f \in Filling(mem.contracts) : CloseTaken(f)
  <2>1. mem' = disk'
    BY <1>2 DEF Crash, Reconcile, CloseTaken, Forget
  <2>2. mem'.peak \in Int
    <3>1. mem' \in Position
      BY RecordStep
    <3> QED
      BY <3>1, Settings DEF Position
  <2> QED
    BY <2>1, <2>2 DEF PeakInv, PeakKept
<1>3. CASE Bank \/ Swap \/ LockPlace
  <2>1. mem'.peak = mem.peak
    <3>1. CASE \E r \in 1 .. 2 : BankTaken(r)
      <4>1. PICK r \in 1 .. 2, f \in Filling(BankVol(mem.contracts)) : mem' = Banked(mem, r, f)
        BY <3>1 DEF BankTaken
      <4> QED
        BY <1>0, <4>1, BankedFields
    <3>2. CASE LockPlace
      <4>1. mem' = [mem EXCEPT !.lock = LockAt[mem.peak]] \/ mem' = mem
        BY <3>2 DEF LockPlace
      <4> QED
        BY <1>0, <4>1 DEF Position
    <3>3. CASE Swap \/ \E r \in 1 .. 2 : BankRaises(r)
      BY <3>3 DEF Swap, SwapCancel, SwapPlace, BankSave, BankRaises
    <3> QED
      BY <1>3, <3>1, <3>2, <3>3 DEF Bank
  <2>2. pc' \in Polling /\ cur' = cur /\ (changed => changed')
    <3>1. CASE Bank
      <4>1. PICK r \in 1 .. 2 : BankTaken(r) \/ BankRaises(r)
        BY <3>1 DEF Bank
      <4>2. pc' \in {"swapCancel", "bankSave", "lock"} /\ cur' = cur /\ (changed => changed')
        <5>1. CASE BankTaken(r)
          BY <5>1 DEF BankTaken, Goto
        <5>2. CASE BankRaises(r)
          BY <5>2 DEF BankRaises, Goto
        <5> QED
          BY <4>1, <5>1, <5>2
      <4>3. pc' \in Polling
        BY <4>2 DEF Polling
      <4> QED
        BY <4>2, <4>3
    <3>2. CASE Swap
      <4>1. CASE SwapCancel
        <5>1. UNCHANGED <<cur, changed>> /\ pc' \in {"swapPlace", "bankSave"}
          BY <4>1 DEF SwapCancel, Goto
        <5> QED
          BY <5>1 DEF Polling
      <4>2. CASE SwapPlace \/ BankSave
        <5>1. UNCHANGED <<cur, changed>> /\ pc' \in {"bankSave", "lock"}
          BY <4>2 DEF SwapPlace, BankSave, Goto
        <5> QED
          BY <5>1 DEF Polling
      <4> QED
        BY <3>2, <4>1, <4>2 DEF Swap
    <3>3. CASE LockPlace
      BY <3>3 DEF LockPlace, Polling
    <3> QED
      BY <1>3, <3>1, <3>2, <3>3
  <2>3. CASE PeakKept
    BY <1>0, <2>1, <2>3, PeakSame DEF PeakInv
  <2>4. CASE changed /\ mem.peak = cur
    BY <2>1, <2>2, <2>4 DEF PeakInv
  <2> QED
    BY <2>3, <2>4 DEF PeakInv
<1>4. CASE Decide
  <2>1. mem' = mem /\ disk' = IF changed /\ ~LockHit THEN mem ELSE disk
    BY <1>4 DEF Decide
  <2>2. CASE changed /\ ~LockHit
    BY <1>0, <2>1, <2>2 DEF PeakInv, PeakKept
  <2>3. CASE ~changed
    BY <2>1, <2>3 DEF PeakInv, PeakKept
  \* A poll that raised the peak closes only where the lock is not below it.
  <2>4. CASE LockHit /\ mem.peak = cur
    <3>1. LockAt[mem.peak] >= mem.peak
      BY <1>0, <2>4 DEF LockHit
    <3> QED
      BY <2>1, <3>1 DEF PeakInv, PeakKept
  <2>5. CASE PeakKept
    BY <1>0, <2>1, <2>5, PeakSame DEF PeakInv
  <2> QED
    BY <2>2, <2>3, <2>4, <2>5 DEF PeakInv
<1>5. CASE PollLatched \/ Repair \/ (Close /\ ~\E f \in Filling(mem.contracts) : CloseTaken(f))
  <2>1. PeakKept
    BY <1>5 DEF PollLatched, Repair, RepairCancel, RepairPlace, Close, CloseCancelled, CancelRaises,
                OrderRaises, CloseRestored, RestoreFails, CloseUnread, At, PeakInv, Polling
  <2>2. mem'.peak = mem.peak
    <3>1. CASE mem' = mem
      BY <3>1
    <3>2. CASE mem' = Failed(mem) \/ mem' = [mem EXCEPT !.latch = FALSE]
      BY <1>0, <3>2, LatchOnly DEF Same
    <3>3. CASE mem' = Flag(mem, TRUE)
      BY <1>0, <3>3, FlagOnly DEF Same
    <3>4. CASE mem' = Flag(mem, FALSE)
      BY <1>0, <3>4, FlagOnly DEF Same
    <3>5. CASE PollLatched \/ Repair
      BY <3>1, <3>4, <3>5 DEF PollLatched, Repair, RepairCancel, RepairPlace
    <3>6. CASE Close /\ ~\E f \in Filling(mem.contracts) : CloseTaken(f)
      BY <3>1, <3>2, <3>3, <3>6 DEF Close, CloseCancelled, CancelRaises, OrderRaises, CloseRestored,
                                    RestoreFails, CloseUnread
    <3> QED
      BY <1>5, <3>5, <3>6
  <2> QED
    BY <1>0, <2>1, <2>2, PeakSame DEF PeakInv
<1>6. CASE PriceMoves
  BY <1>6 DEF PriceMoves, poll, PeakInv, PeakKept
<1> QED
  BY <1>1, <1>2, <1>3, <1>4, <1>5, <1>6 DEF Next, Lock

\* From one poll to the next, and over a restart between them, the recorded peak
\* never falls, for any settings of trigger, pullback and floor: where the lock
\* lies below the peak.
THEOREM PeakNeverForgotten == Spec => PeakOutlivesRestarts
<1>1. ASSUME TypeOK, PeakInv, [Next]_vars PROVE PeakInv'
  <2>1. CASE UNCHANGED vars
    BY <1>1, <2>1 DEF PeakInv, PeakKept, vars, poll
  <2> QED
    BY <1>1, <2>1, NextPeak
<1>2. ASSUME TypeOK, PeakInv, [Next]_vars
      PROVE [At("idle") /\ mem.tracked /\ mem'.tracked /\ LockAt[mem.peak] < mem.peak
             => mem'.peak >= mem.peak]_vars
  <2> SUFFICES ASSUME Next, pc = "idle", mem'.tracked, LockAt[mem.peak] < mem.peak
               PROVE mem'.peak >= mem.peak
    BY <1>2 DEF At
  <2>0. /\ mem \in Position /\ mem.peak \in Int /\ disk.peak \in Int /\ price \in Int
        /\ LockAt[mem.peak] \in Int
    BY <1>2, PeakNumbers DEF TypeOK
  <2>1. mem.peak <= disk.peak
    BY <1>2, <2>0 DEF PeakInv, PeakKept, Polling
  <2>2. CASE mem' = [mem EXCEPT !.peak = Larger(@, price)]
    <3>1. mem'.peak = Larger(mem.peak, price)
      BY <2>0, <2>2 DEF Position
    <3> QED
      BY <2>0, <3>1 DEF Larger
  <2>3. CASE mem' = disk
    BY <2>1, <2>3
  <2>4. CASE mem' = Untracked
    BY <2>4, StartRecord
  <2>5. CASE Same(mem', mem)
    BY <2>0, <2>5 DEF Same
  <2>6. ~\E r \in 1 .. 2 : BankTaken(r)
    BY DEF BankTaken, BankStep, At
  <2> QED
    BY <1>2, <2>2, <2>3, <2>4, <2>5, <2>6, RecordStep
<1> QED
  BY InitPeak, RunnerTypeOK, <1>1, <1>2, PTL DEF Spec, PeakOutlivesRestarts

-----------------------------------------------------------------------------
(* The stop *)

\* A tracked position has a stop at least at `level`, or is flagged, or is one of the
\* named failures.
Backed(level) ==
    held > 0 /\ mem.tracked /\ ~mem.bare /\ ~unfinished => \E s \in stops : s >= level

\* Where the bracket is not down the exchange holds the stop the book wants, and while
\* a bank is about to swap it, the one on file.
StopInv ==
    /\ disk.tracked => mem.tracked
    /\ Effective(disk) <= Effective(mem)
    /\ pc \notin BracketDown \cup {"swapCancel"} => Backed(Effective(mem))
    /\ pc = "swapCancel" => Backed(Effective(disk))
    /\ pc \in {"swapCancel", "swapPlace"} => Effective(mem) <= mem.sl
    /\ pc = "repairPlace" => mem.bare

LEMMA StopNumbers ==
    ASSUME TypeOK
    PROVE /\ mem.sl \in Prices /\ mem.sl \in Int /\ \A s \in stops : s \in Int
          /\ Effective(mem) \in Prices /\ Effective(mem) \in Int /\ Effective(disk) \in Int
          /\ Effective(mem) <= Effective(mem) /\ mem \in Position /\ disk \in Position
<1>1. mem \in Position /\ disk \in Position /\ stops \subseteq Prices
  BY DEF TypeOK
<1>2. /\ Effective(mem) \in Prices /\ Effective(mem) \in Int /\ mem.sl \in Prices /\ mem.sl \in Int
      /\ Effective(disk) \in Int
  BY <1>1, EffectiveStop
<1> QED
  BY <1>1, <1>2, Settings

LEMMA InitStop == Init => StopInv
<1> SUFFICES ASSUME Init PROVE StopInv
  OBVIOUS
<1>1. PICK b \in AdoptedStops \cup {NoStop} : mem = Start(b)
  BY DEF Init
<1>2. mem \in Position
  BY <1>1, StartRecord, Settings
<1>3. Effective(mem) \in Int
  BY <1>2, EffectiveStop
<1>4. disk = mem /\ stops = {Effective(mem)} /\ pc = "idle"
  BY DEF Init
<1> QED
  BY <1>3, <1>4 DEF StopInv, Backed, BracketDown

\* A step that ends the bracket or keeps it, and changes of the record only its book,
\* its peak, its lock and its flags, outside a swap.
LEMMA StopKept ==
    ASSUME TypeOK, StopInv, Next,
           pc \notin BracketDown \cup {"swapCancel"}, pc' \notin BracketDown \cup {"swapCancel"},
           held' > 0 => held > 0 /\ stops \subseteq stops',
           mem'.tracked = mem.tracked, Effective(mem') = Effective(mem), mem'.bare = mem.bare,
           unfinished' = unfinished, disk' \in {disk, mem'}
    PROVE StopInv'
<1>1. Backed(Effective(mem)) /\ Effective(disk) <= Effective(mem) /\ (disk.tracked => mem.tracked)
  BY DEF StopInv
<1>2. Backed(Effective(mem))'
  BY <1>1 DEF Backed
<1>3. Effective(disk') <= Effective(mem')
  BY <1>1, StopNumbers
<1>4. disk'.tracked => mem'.tracked
  BY <1>1
<1>5. /\ pc' \notin {"swapCancel", "swapPlace", "repairPlace"}
  BY DEF BracketDown
<1> QED
  BY <1>2, <1>3, <1>4, <1>5 DEF StopInv

\* A step that leaves the position forgotten, flagged, in a named failure, or backed by
\* a stop just placed.
LEMMA StopSettled ==
    ASSUME TypeOK, StopInv, Next, pc' \notin BracketDown \cup {"swapCancel"},
           Same(mem', mem), disk' \in {disk, mem'},
           \/ held' = 0
           \/ mem'.bare
           \/ unfinished'
           \/ Effective(mem) \in stops'
           \/ mem.sl \in stops' /\ Effective(mem) <= mem.sl
    PROVE StopInv'
<1>1. Effective(disk) <= Effective(mem) /\ (disk.tracked => mem.tracked)
  BY DEF StopInv
<1>2. Effective(mem') = Effective(mem) /\ mem'.tracked = mem.tracked
  BY StopNumbers, EffectiveStop DEF Same
<1>3. Effective(disk') <= Effective(mem') /\ (disk'.tracked => mem'.tracked)
  BY <1>1, <1>2, StopNumbers
<1>4. Backed(Effective(mem))'
  <2>1. CASE held' = 0
    BY <2>1 DEF Backed
  <2>2. CASE mem'.bare \/ unfinished'
    BY <2>2 DEF Backed
  <2>3. CASE Effective(mem) \in stops'
    BY <1>2, <2>3, StopNumbers DEF Backed
  <2>4. CASE mem.sl \in stops' /\ Effective(mem) <= mem.sl
    BY <1>2, <2>4, StopNumbers DEF Backed
  <2> QED
    BY <2>1, <2>2, <2>3, <2>4
<1>5. pc' \notin {"swapCancel", "swapPlace", "repairPlace"}
  BY DEF BracketDown
<1> QED
  BY <1>3, <1>4, <1>5 DEF StopInv

\* A bank moves the stop of the book up, or leaves it.
LEMMA BankStop ==
    ASSUME NEW m \in Position, NEW r \in 1 .. 2, NEW f \in Filling(BankVol(m.contracts))
    PROVE /\ Effective(m) <= Effective(Banked(m, r, f))
          /\ ~Improves(m, r) => Effective(Banked(m, r, f)) = Effective(m)
          /\ Improves(m, r) => Effective(Banked(m, r, f)) <= Banked(m, r, f).sl
<1> DEFINE b == Banked(m, r, f)
<1>1. b.be = m.be /\ b.sl = IF Improves(m, r) THEN Breakeven ELSE m.sl
  BY BankedFields
<1>2. /\ m.sl \in Int /\ Breakeven \in Int /\ (m.be # NoStop => m.be \in Int)
      /\ Effective(m) = (IF m.be # NoStop THEN m.be ELSE m.sl)
      /\ Effective(b) = (IF m.be # NoStop THEN m.be ELSE b.sl)
  <2>1. m.sl \in Prices /\ m.be \in Prices \cup {NoStop}
    BY DEF Position
  <2> HIDE DEF b
  <2> QED
    BY <1>1, <2>1, Settings DEF Effective
<1> HIDE DEF b
<1>3. CASE Improves(m, r)
  <2>1. Breakeven > m.sl /\ (m.be # NoStop => Breakeven > m.be)
    BY <1>3 DEF Improves
  <2>2. b.sl = Breakeven
    BY <1>1, <1>3
  <2>3. Effective(m) <= Effective(b) /\ Effective(b) <= b.sl
    BY <1>2, <2>1, <2>2
  <2> QED
    BY <1>3, <2>3 DEF b
<1>4. CASE ~Improves(m, r)
  <2>1. b.sl = m.sl
    BY <1>1, <1>4
  <2>2. Effective(b) = Effective(m) /\ Effective(m) \in Int
    BY <1>2, <2>1
  <2> QED
    BY <1>4, <2>2 DEF b
<1> QED
  BY <1>3, <1>4

LEMMA BankTakenStop ==
    ASSUME TypeOK, StopInv, Next, NEW r \in 1 .. 2, BankTaken(r)
    PROVE StopInv'
<1>0. /\ mem \in Position /\ Effective(mem) \in Int /\ Effective(disk) \in Int
      /\ Effective(disk) <= Effective(mem) /\ \A s \in stops : s \in Int
      /\ mem.contracts \in 1 .. Size /\ held \in Int
  BY StopNumbers DEF TypeOK, StopInv, Position
<1>1. PICK f \in Filling(BankVol(mem.contracts)) : Fills(f) /\ mem' = Banked(mem, r, f)
  BY DEF BankTaken
<1>2. f \in 0 .. Size
  BY <1>0, <1>1, BankVolBounds, FillingBounds
<1>3. held' > 0 => held > 0 /\ UNCHANGED stops
  BY <1>1, <1>2, FillsEffect DEF Fills
<1>4. disk' = disk /\ unfinished' = unfinished /\ Backed(Effective(mem))
  BY DEF BankTaken, At, BankStep, StopInv, BracketDown
<1>5. mem'.tracked = mem.tracked /\ mem'.bare = mem.bare /\ mem' \in Position
  BY <1>0, <1>1, BankedFields
<1>6. /\ Effective(mem) <= Effective(mem') /\ Effective(mem') \in Int
      /\ Effective(disk') <= Effective(mem')
      /\ ~Improves(mem, r) => Effective(mem') = Effective(mem)
      /\ Improves(mem, r) => Effective(mem') <= mem'.sl
  BY <1>0, <1>1, <1>4, <1>5, BankStop, EffectiveStop
<1>7. disk'.tracked => mem'.tracked
  BY <1>4, <1>5 DEF StopInv
<1>8. CASE Improves(mem, r)
  <2>1. pc' = "swapCancel"
    BY <1>8 DEF BankTaken, Goto
  <2>2. Backed(Effective(disk))'
    <3>1. ASSUME held' > 0, mem'.tracked, ~mem'.bare, ~unfinished'
          PROVE \E s \in stops' : s >= Effective(disk')
      <4>1. PICK s \in stops : s >= Effective(mem)
        BY <1>3, <1>4, <1>5, <3>1 DEF Backed
      <4>2. s \in stops' /\ s >= Effective(disk')
        BY <1>0, <1>3, <1>4, <3>1, <4>1
      <4> QED
        BY <4>2
    <3> QED
      BY <3>1 DEF Backed
  <2> QED
    BY <1>6, <1>7, <1>8, <2>1, <2>2 DEF StopInv
<1>9. CASE ~Improves(mem, r)
  <2>1. pc' = "bankSave"
    BY <1>9 DEF BankTaken, Goto
  <2>2. Backed(Effective(mem))'
    BY <1>3, <1>4, <1>5, <1>6, <1>9 DEF Backed
  <2> QED
    BY <1>6, <1>7, <2>1, <2>2 DEF StopInv
<1> QED
  BY <1>8, <1>9

\* Whatever the process was doing when it died.
LEMMA CrashStop == ASSUME TypeOK, StopInv, Next, Crash PROVE StopInv'
<1>0. Effective(mem) \in Int /\ Effective(disk) \in Int /\ \A s \in stops : s \in Int
  BY StopNumbers
<1>1. mem' = disk /\ disk' = disk /\ pc' = "idle" /\ UNCHANGED <<held, stops>>
      /\ unfinished' = (~disk.bare /\ (unfinished \/ mem.bare \/ pc \in BracketDown))
  BY DEF Crash, Rest, exchange
<1>2. ASSUME held' > 0, mem'.tracked, ~mem'.bare, ~unfinished'
      PROVE \E s \in stops' : s >= Effective(mem')
  <2>1. held > 0 /\ mem.tracked /\ ~mem.bare /\ ~unfinished /\ pc \notin BracketDown
    BY <1>1, <1>2 DEF StopInv
  <2>2. CASE pc = "swapCancel"
    BY <1>1, <2>1, <2>2 DEF StopInv, Backed
  <2>3. CASE pc # "swapCancel"
    <3>1. PICK s \in stops : s >= Effective(mem)
      BY <2>1, <2>3 DEF StopInv, Backed
    <3>2. s >= Effective(disk)
      BY <1>0, <3>1 DEF StopInv
    <3> QED
      BY <1>1, <3>2
  <2> QED
    BY <2>2, <2>3
<1>3. Backed(Effective(mem))'
  BY <1>2 DEF Backed
<1>4. Effective(disk') <= Effective(mem')
  BY <1>0, <1>1
<1> QED
  BY <1>1, <1>3, <1>4 DEF StopInv

\* A step into a step with the bracket down, or inside one, that leaves the record.
LEMMA DownStop ==
    ASSUME TypeOK, StopInv, Next, pc' \in BracketDown, mem' = mem, disk' = disk,
           pc' = "swapPlace" => pc = "swapCancel",
           pc' = "repairPlace" => mem.bare
    PROVE StopInv'
<1>1. pc' # "swapCancel"
  BY DEF BracketDown
<1> QED
  BY <1>1 DEF StopInv

LEMMA ForgetStop == ASSUME Forget, pc' = "idle" PROVE StopInv'
<1>1. mem' = Untracked /\ disk' = Untracked
  BY DEF Forget
<1>2. Untracked.tracked = FALSE /\ Effective(Untracked) \in Int
  BY StartRecord, EffectiveStop
<1>3. Effective(disk') <= Effective(mem')
  BY <1>1, <1>2
<1> QED
  BY <1>1, <1>2, <1>3 DEF StopInv, Backed

LEMMA NextStop == ASSUME TypeOK, StopInv, Next PROVE StopInv'
<1>0. /\ mem \in Position /\ disk \in Position /\ Effective(mem) \in Prices /\ mem.sl \in Prices
      /\ stops \in SUBSET Prices /\ {} \in SUBSET Prices /\ target \in BOOLEAN /\ TRUE \in BOOLEAN
      /\ held \in Int /\ disk' \in {disk, mem'} /\ Same(mem, mem)
  BY StopNumbers, RecordStep DEF TypeOK, Same
<1>1. CASE PriceMoves
  <2>1. held' = 0 \/ UNCHANGED <<held, stops>>
    BY <1>1 DEF PriceMoves, Gone
  <2>2. UNCHANGED <<pc, mem, disk, unfinished>>
    BY <1>1 DEF PriceMoves, poll
  <2> QED
    BY <2>1, <2>2 DEF StopInv, Backed
<1>2. CASE Poll \/ PollLatched \/ (\E r \in 1 .. 2 : BankRaises(r)) \/ Lock
  <2>1. pc \notin BracketDown \cup {"swapCancel"}
    BY <1>2 DEF Poll, PollLatched, BankRaises, BankStep, Lock, LockPlace, Decide, Deciding, At,
                BracketDown
  <2>2. pc' \notin BracketDown \cup {"swapCancel"}
    BY <1>2 DEF Poll, PollLatched, BankRaises, Lock, LockPlace, Decide, StartClose, Goto, Rest,
                BracketDown
  <2>3. held' > 0 => held > 0 /\ stops \subseteq stops'
    <3>1. CASE UNCHANGED exchange
      BY <3>1 DEF exchange
    <3>2. CASE \E r \in 1 .. 2 : BankRaises(r)
      <4>1. CASE \E f \in Filling(BankVol(mem.contracts)) : Fills(f)
        <5>1. PICK f \in Filling(BankVol(mem.contracts)) : Fills(f)
          BY <4>1
        <5>2. mem.contracts \in 1 .. Size
          BY <1>0 DEF Position
        <5>3. f \in 0 .. Size
          BY <5>1, <5>2, BankVolBounds, FillingBounds
        <5> QED
          BY <5>1, <5>3, FillsEffect DEF Fills
      <4> QED
        BY <3>1, <3>2, <4>1 DEF BankRaises
    <3>3. CASE LockPlace
      <4>1. LockAt[mem.peak] \in Prices
        BY <1>0, Settings DEF Position
      <4>2. CASE Rests(LockAt[mem.peak], stops, target)
        <5>1. held' > 0 => stops' = stops \cup {LockAt[mem.peak]}
          BY <1>0, <4>1, <4>2, RestsEffect
        <5> QED
          BY <4>2, <5>1 DEF Rests
      <4> QED
        BY <3>1, <3>3, <4>2 DEF LockPlace
    <3> QED
      BY <1>2, <3>1, <3>2, <3>3 DEF Poll, PollLatched, Lock, Decide
  <2>4. mem'.tracked = mem.tracked /\ Effective(mem') = Effective(mem) /\ mem'.bare = mem.bare
    <3>1. CASE mem' = mem
      BY <3>1
    <3>2. CASE Poll
      BY <1>0, <3>2 DEF Poll, Position, Effective
    <3>3. CASE LockPlace
      <4>1. LockAt[mem.peak] \in Prices
        BY <1>0, Settings DEF Position
      <4>2. CASE mem' = [mem EXCEPT !.lock = LockAt[mem.peak]]
        <5>1. Same(mem', mem) /\ mem'.bare = mem.bare
          BY <1>0, <4>1, <4>2, LockOnly
        <5> QED
          BY <1>0, <5>1, EffectiveStop DEF Same
      <4> QED
        BY <3>1, <3>3, <4>2 DEF LockPlace
    <3> QED
      BY <1>2, <3>1, <3>2, <3>3 DEF PollLatched, BankRaises, Lock, Decide
  <2>5. unfinished' = unfinished
    BY <1>2 DEF Poll, PollLatched, BankRaises, Lock, LockPlace, Decide
  <2> QED
    BY <1>0, <2>1, <2>2, <2>3, <2>4, <2>5, StopKept
<1>3. CASE \E r \in 1 .. 2 : BankTaken(r)
  BY <1>3, BankTakenStop
<1>4. CASE SwapCancel
  <2>1. mem' = mem /\ disk' = disk /\ pc = "swapCancel"
    BY <1>4 DEF SwapCancel, At
  <2>2. CASE pc' = "swapPlace"
    BY <2>1, <2>2, DownStop DEF BracketDown
  <2>3. CASE pc' = "bankSave" /\ unfinished' = ~mem.bare
    <3>1. mem'.bare \/ unfinished'
      BY <2>1, <2>3
    <3>2. pc' \notin BracketDown \cup {"swapCancel"}
      BY <2>3 DEF BracketDown
    <3> QED
      BY <1>0, <2>1, <3>1, <3>2, StopSettled
  <2> QED
    BY <1>4, <2>2, <2>3 DEF SwapCancel, Goto
<1>5. CASE SwapPlace
  <2>1. mem' = mem /\ pc = "swapPlace" /\ pc' \notin BracketDown \cup {"swapCancel"}
    BY <1>5 DEF SwapPlace, At, Goto, BracketDown
  <2>2. Effective(mem) <= mem.sl
    BY <2>1 DEF StopInv
  <2>3. CASE Rests(mem.sl, {}, TRUE)
    <3>1. held' = 0 \/ mem.sl \in stops'
      <4>1. held' \in 0 .. Size /\ (held' > 0 => stops' = {} \cup {mem.sl})
        BY <1>0, <2>3, RestsEffect
      <4> QED
        BY <4>1
    <3> QED
      BY <1>0, <2>1, <2>2, <3>1, StopSettled
  <2>4. CASE unfinished' = ~mem.bare
    <3>1. mem'.bare \/ unfinished'
      BY <2>1, <2>4
    <3> QED
      BY <1>0, <2>1, <3>1, StopSettled
  <2> QED
    BY <1>5, <2>3, <2>4 DEF SwapPlace
<1>6. CASE BankSave
  <2>1. /\ mem' = mem /\ unfinished' = unfinished /\ pc = "bankSave" /\ pc' = "lock"
        /\ UNCHANGED <<held, stops>>
    BY <1>6 DEF BankSave, At, Goto, exchange
  <2> QED
    BY <1>0, <2>1, StopKept DEF BracketDown
<1>7. CASE CloseCancelled \/ OrderRaises \/ RepairCancel
  <2>1. mem' = mem /\ disk' = disk /\ pc' \in BracketDown /\ pc' # "swapPlace"
    BY <1>7 DEF CloseCancelled, OrderRaises, RepairCancel, Goto, BracketDown
  <2>2. pc' = "repairPlace" => mem.bare
    BY <1>7 DEF CloseCancelled, OrderRaises, RepairCancel, Goto
  <2> QED
    BY <2>1, <2>2, DownStop
<1>8. CASE CancelRaises
  <2>1. mem' = mem /\ pc = "closeCancel" /\ pc' \notin BracketDown \cup {"swapCancel"}
    BY <1>8 DEF CancelRaises, At, Rest, BracketDown
  <2>2. CASE unfinished' = ~mem.bare
    <3>1. mem'.bare \/ unfinished'
      BY <2>1, <2>2
    <3> QED
      BY <1>0, <2>1, <3>1, StopSettled
  <2>3. CASE UNCHANGED <<exchange, unfinished>>
    BY <1>0, <2>1, <2>3, StopKept DEF exchange, BracketDown
  <2> QED
    BY <1>8, <2>2, <2>3 DEF CancelRaises
<1>9. CASE Reconcile \/ \E f \in Filling(mem.contracts) : CloseTaken(f)
  BY <1>9, ForgetStop DEF Reconcile, CloseTaken, At, Rest, poll
<1>10. CASE \E f \in Filling(mem.contracts) : CloseUnread(f)
  <2>1. mem' = [mem EXCEPT !.latch = FALSE] /\ unfinished' = ~mem.bare /\ pc' = "idle"
    BY <1>10 DEF CloseUnread, Rest
  <2>2. Same(mem', mem) /\ mem'.bare = mem.bare
    BY <1>0, <2>1, LatchOnly
  <2>3. mem'.bare \/ unfinished'
    BY <2>1, <2>2
  <2> QED
    BY <1>0, <2>1, <2>2, <2>3, StopSettled DEF BracketDown
<1>11. CASE CloseRestored
  <2>1. mem' = Failed(mem) /\ pc' = "idle" /\ Rests(Effective(mem), {}, TRUE)
    BY <1>11 DEF CloseRestored, Rest
  <2>2. Same(mem', mem)
    BY <1>0, <2>1, LatchOnly
  <2>3. held' = 0 \/ Effective(mem) \in stops'
    <3>1. held' \in 0 .. Size /\ (held' > 0 => stops' = {} \cup {Effective(mem)})
      BY <1>0, <2>1, RestsEffect
    <3> QED
      BY <3>1
  <2> QED
    BY <1>0, <2>1, <2>2, <2>3, StopSettled DEF BracketDown
<1>12. CASE RestoreFails
  <2>1. /\ pc' = "idle"
        /\ mem' = Flag(mem, TRUE) \/ (held' = 0 /\ mem' = mem)
    BY <1>12 DEF RestoreFails, Rest
  <2>2. Same(mem', mem) /\ (held' = 0 \/ mem'.bare)
    BY <1>0, <2>1, FlagOnly
  <2> QED
    BY <1>0, <2>1, <2>2, StopSettled DEF BracketDown
<1>13. CASE RepairPlace
  <2>1. pc = "repairPlace" /\ pc' = "idle" /\ mem.bare /\ FALSE \in BOOLEAN
        /\ pc' \notin BracketDown \cup {"swapCancel"}
    BY <1>13 DEF RepairPlace, At, Rest, StopInv, BracketDown
  <2>2. Same(mem', mem)
    BY <1>0, <1>13, <2>1, FlagOnly DEF RepairPlace
  <2>3. CASE Rests(Effective(mem), stops, TRUE)
    <3>1. held' \in 0 .. Size /\ (held' > 0 => stops' = stops \cup {Effective(mem)})
      BY <1>0, <2>3, RestsEffect
    <3>2. held' = 0 \/ Effective(mem) \in stops'
      BY <3>1
    <3> QED
      BY <1>0, <2>1, <2>2, <3>2, StopSettled
  <2>4. CASE UNCHANGED <<exchange, unfinished>> /\ (mem' = mem \/ held = 0)
    <3>1. held' = 0 \/ mem'.bare
      BY <2>1, <2>4 DEF exchange
    <3> QED
      BY <1>0, <2>1, <2>2, <3>1, StopSettled
  <2> QED
    BY <1>13, <2>3, <2>4 DEF RepairPlace
<1>14. CASE Crash
  BY <1>14, CrashStop
<1> QED
  BY <1>1, <1>2, <1>3, <1>4, <1>5, <1>6, <1>7, <1>8, <1>9, <1>10, <1>11, <1>12, <1>13, <1>14
     DEF Next, Bank, Swap, Close, Repair

\* Between polls MEXC holds, for a tracked position, a stop at least as tight as the
\* one it should have, or a flag asks for one, over banks, lock stops, failed closes,
\* repairs and restarts: but for the seven failures named with StopBacked.
THEOREM StopAlwaysBacked == Spec => []StopBacked
<1>1. ASSUME TypeOK, StopInv, [Next]_vars PROVE StopInv'
  <2>1. CASE UNCHANGED vars
    BY <1>1, <2>1 DEF StopInv, Backed, vars, exchange, poll
  <2> QED
    BY <1>1, <2>1, NextStop
<1>2. StopInv => StopBacked
  BY DEF StopInv, Backed, StopBacked, At, BracketDown
<1> QED
  BY InitStop, RunnerTypeOK, <1>1, <1>2, PTL DEF Spec

=============================================================================
