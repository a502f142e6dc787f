------------------------------ MODULE PmtRunner ------------------------------
(* A stop-first PMT position while it is in profit (futuresbot/runtime.py,    *)
(* partial_bank.py): each poll raises the recorded peak, may bank a part of   *)
(* the contracts at 1R and 2R, moves the stop of the rest to breakeven, rests *)
(* a profit-lock stop at the exchange, and closes on the lock, stop or target.*)
(*                                                                            *)
(* Prices are gross profit levels of the position, so that a short is the     *)
(* mirror image of a long.  Every remote call of a poll is a step; the price, *)
(* the stops resting at MEXC and a crash act between any two.  An order that  *)
(* MEXC accepts may end filled, part filled or canceled, and no caller looks. *)
EXTENDS Integers

CONSTANTS
    Prices,          \* the gross profit levels the market can show
    Size,            \* contracts entered
    Share,           \* contracts -> contracts * bank fraction, rounded
    Rung,            \* the profit at which rung 1, and rung 2, is banked
    Trigger,         \* profit_lock_trigger_pct: the peak that arms the lock
    LockAt,          \* peak -> max(floor, peak less the pullback)
    Stop, Breakeven, Target,
    AdoptedStops,    \* the stops past entry that an adopted position may rest on
    Protect,         \* FUTURES_PMT_BANK_PROTECT_ENABLED
    Faults,          \* what may go wrong, see AllFaults
    NoStop           \* no lock stop was placed, or no breakeven stop adopted

AllFaults == {"orderRefused", "orderLost", "unfilled", "readLost", "cancelRefused",
              "cancelLost", "placeRefused", "placeLost", "crash"}

ASSUME RunnerAssumption ==
    /\ Prices \subseteq Int /\ {0, Stop, Breakeven} \subseteq Prices
    /\ Size \in Nat \ {0} /\ Share \in [1 .. Size -> Nat]
    /\ Rung \in [1 .. 2 -> Int] /\ Trigger \in Int /\ Target \in Int
    /\ LockAt \in [Prices -> Prices]
    /\ Stop < Breakeven /\ Protect \in BOOLEAN /\ Faults \subseteq AllFaults
    /\ AdoptedStops \subseteq Prices /\ NoStop \notin Prices

VARIABLES
    price,           \* the market
    held,            \* contracts MEXC holds
    stops,           \* levels of the stops resting for the position
    target,          \* a take-profit rests
    pc, cur,         \* the step of a poll, and the price that poll has read
    changed,         \* the poll has something to save
    mem,             \* the position in memory: open_positions entry and metadata
    disk,            \* ... and in the state file
    unfinished       \* a failure left the bracket down or loose, and no flag says so

exchange == <<price, held, stops, target>>
poll == <<pc, cur, changed>>
vars == <<exchange, poll, mem, disk, unfinished>>

Steps == {"idle", "bank1", "bank2", "swapCancel", "swapPlace", "bankSave", "lock",
          "decide", "closeCancel", "closeOrder", "closeRestore", "repairPlace"}

Position == [tracked   : BOOLEAN,
             contracts : 1 .. Size,
             banked    : [1 .. 2 -> Nat],           \* partial_bank_vol_1, _2; 0: not banked
             short     : Nat,                       \* (ghost) of these, not filled
             sl        : Prices,
             be        : Prices \cup {NoStop},      \* be_stop_price, with be_stop_adopted
             peak      : {p \in Prices : p >= 0},   \* the gross peak, from 0 up
             lock      : Prices \cup {NoStop},      \* the exchange lock stop it knows of
             latch     : BOOLEAN,                   \* close_failed_reason
             bare      : BOOLEAN]                   \* be_stop_bare

Start(b) == [tracked |-> TRUE, contracts |-> Size, banked |-> [r \in 1 .. 2 |-> 0],
             short |-> 0, sl |-> Stop, be |-> b, peak |-> 0, lock |-> NoStop,
             latch |-> FALSE, bare |-> FALSE]

\* _effective_stop_price: the stop the exchange should be holding.
Effective(m) == IF m.be # NoStop THEN m.be ELSE m.sl

\* A stop-first position just entered, or adopted by /reconcile with a stop past its
\* entry, and saved, its bracket resting.
Init ==
    /\ mem \in {Start(b) : b \in AdoptedStops \cup {NoStop}} /\ disk = mem
    /\ price \in {p \in Prices : Effective(mem) < p /\ p < Target}
    /\ held = Size /\ stops = {Effective(mem)} /\ target = TRUE
    /\ pc = "idle" /\ cur = 0 /\ changed = FALSE
    /\ unfinished = FALSE

May(fault) == fault \in Faults
At(step) == pc = step
Goto(step) == pc' = step /\ UNCHANGED <<cur, changed>>
Rest == pc' = "idle" /\ cur' = 0 /\ changed' = FALSE
Larger(a, b) == IF a >= b THEN a ELSE b
Smaller(a, b) == IF a <= b THEN a ELSE b

-----------------------------------------------------------------------------
(* MEXC, the clock and the process *)

Gone == held' = 0 /\ stops' = {} /\ target' = FALSE

Triggered(p) == held > 0 /\ ((\E s \in stops : p <= s) \/ (target /\ p >= Target))

\* The price jumps to any level; a stop or target it reaches closes the position.
PriceMoves ==
    /\ price' \in Prices \ {price}
    /\ IF Triggered(price') THEN Gone ELSE UNCHANGED <<held, stops, target>>
    /\ UNCHANGED <<poll, mem, disk, unfinished>>

\* An order for n contracts that MEXC accepts fills them all, or it ends canceled,
\* or part filled.  It is reduce-only and is refused when nothing is held.
Filling(n) == {n} \cup (IF May("unfilled") THEN 0 .. n - 1 ELSE {})
Fills(n) ==
    /\ held > 0
    /\ IF n >= held THEN Gone ELSE held' = held - n /\ UNCHANGED <<stops, target>>
    /\ UNCHANGED price

\* MEXC takes a stop at s beside those in `kept`; beyond the market it fires at once.
Rests(s, kept, withTarget) ==
    /\ held > 0
    /\ IF price <= s THEN Gone
       ELSE held' = held /\ stops' = kept \cup {s} /\ target' = withTarget
    /\ UNCHANGED price

\* The process dies and is started again; the time it is down is time without a poll.
\* A bracket it had taken down and not put back stays down, and a flag that nothing
\* has saved is gone.
BracketDown == {"swapPlace", "closeOrder", "closeRestore", "repairPlace"}
Crash ==
    /\ May("crash")
    /\ Rest /\ mem' = disk
    /\ unfinished' = (~disk.bare /\ (unfinished \/ mem.bare \/ pc \in BracketDown))
    /\ UNCHANGED <<exchange, disk>>

-----------------------------------------------------------------------------
(* _profit_lock_exit: the peak and the partial bank *)

BankVol(n) == Smaller(n - 1, Larger(1, Share[n]))

Due_onCrossing(m, r, p) ==
    /\ m.banked[r] = 0 /\ m.contracts >= 2 /\ m.peak < Rung[r] /\ p >= Rung[r]
    /\ r = 2 => Protect /\ m.banked[1] > 0

\* The rung a poll at price p may bank: one a poll, each once.
Due(m, r, p) ==
    /\ m.banked[r] = 0 /\ m.contracts >= 2 /\ p >= Rung[r]
    /\ r = 2 => Protect /\ m.banked[1] > 0

Poll_lastPrice ==
    /\ At("idle") /\ mem.tracked /\ ~mem.latch
    /\ cur' = price
    /\ mem' = [mem EXCEPT !.peak = price]
    /\ changed' = (price # mem.peak)
    /\ pc' = IF Due(mem, 1, price) THEN "bank1"
             ELSE IF Due(mem, 2, price) THEN "bank2" ELSE "lock"
    /\ UNCHANGED <<exchange, disk, unfinished>>

\* A poll reads the price and raises the peak.
Poll ==
    /\ At("idle") /\ mem.tracked /\ ~mem.latch
    /\ cur' = price
    /\ mem' = [mem EXCEPT !.peak = Larger(@, price)]
    /\ changed' = (price > mem.peak)
    /\ pc' = IF Due(mem, 1, price) THEN "bank1"
             ELSE IF Due(mem, 2, price) THEN "bank2" ELSE "lock"
    /\ UNCHANGED <<exchange, disk, unfinished>>

\* The first bank moves the stop to breakeven, unless a tighter one rests.
Improves(m, r) == /\ r = 1 /\ Protect /\ Breakeven > m.sl
                  /\ m.be # NoStop => Breakeven > m.be

\* What is recorded of a bank, whatever part of it was filled.
Banked(m, r, filled) ==
    [m EXCEPT !.contracts = Larger(1, @ - BankVol(@)),
              !.banked[r] = BankVol(m.contracts),
              !.short = @ + (BankVol(m.contracts) - filled),
              !.sl = IF Improves(m, r) THEN Breakeven ELSE @]

BankStep == <<"bank1", "bank2">>

BankTaken(r) ==
    /\ At(BankStep[r])
    /\ \E filled \in Filling(BankVol(mem.contracts)) :
          Fills(filled) /\ mem' = Banked(mem, r, filled)
    /\ Goto(IF Improves(mem, r) THEN "swapCancel" ELSE "bankSave")
    /\ UNCHANGED <<disk, unfinished>>

BankRaises_counted(r) ==
    /\ At(BankStep[r]) /\ Goto("lock")
    /\ \/ May("orderLost") /\ Fills(BankVol(mem.contracts))
       \/ (May("orderRefused") \/ held = 0) /\ UNCHANGED exchange
    /\ mem' = Banked(mem, r, BankVol(mem.contracts))
    /\ UNCHANGED <<disk, unfinished>>

\* An order that raises leaves no trace in the book, whether MEXC took it or not.
BankRaises(r) ==
    /\ At(BankStep[r]) /\ Goto("lock")
    /\ \/ May("orderLost") /\ \E filled \in Filling(BankVol(mem.contracts)) : Fills(filled)
       \/ (May("orderRefused") \/ held = 0) /\ UNCHANGED exchange
    /\ UNCHANGED <<mem, disk, unfinished>>

\* The bracket is replaced: all stops are cancelled, also one that locks profit.
SwapCancel ==
    /\ At("swapCancel")
    /\ \/ /\ stops' = {} /\ target' = FALSE
          /\ Goto("swapPlace") /\ UNCHANGED unfinished
       \/ /\ May("cancelLost") /\ stops' = {} /\ target' = FALSE
          /\ Goto("bankSave") /\ unfinished' = ~mem.bare
       \/ /\ May("cancelRefused") /\ UNCHANGED <<stops, target>>
          /\ Goto("bankSave") /\ unfinished' = ~mem.bare
    /\ UNCHANGED <<price, held, mem, disk>>

SwapPlace_savedStop ==
    /\ At("swapPlace")
    /\ \/ Rests(disk.sl, {}, TRUE) /\ unfinished' = FALSE
       \/ /\ May("placeRefused") \/ held = 0 \/ price <= mem.sl
          /\ unfinished' = ~mem.bare /\ UNCHANGED exchange
    /\ Goto("bankSave")
    /\ UNCHANGED <<mem, disk>>

\* Any failure is logged and forgotten: no flag asks for a repair.
SwapPlace ==
    /\ At("swapPlace")
    /\ \/ Rests(mem.sl, {}, TRUE) /\ unfinished' = FALSE
       \/ /\ May("placeRefused") \/ held = 0 \/ price <= mem.sl
          /\ unfinished' = ~mem.bare /\ UNCHANGED exchange
    /\ Goto("bankSave")
    /\ UNCHANGED <<mem, disk>>

BankSave ==
    /\ At("bankSave")
    /\ disk' = mem
    /\ Goto("lock")
    /\ UNCHANGED <<exchange, mem, unfinished>>

-----------------------------------------------------------------------------
(* _profit_lock_exit: the lock; _pmt_hard_exit; the close *)

Armed(m) == m.peak >= Trigger

\* _place_pmt_exchange_profit_lock_stop goes as far as the call.
LockImproves ==
    /\ Armed(mem)
    /\ LockAt[mem.peak] < cur
    /\ mem.lock # NoStop => LockAt[mem.peak] > mem.lock

\* The lock stop rests beside the bracket; the earlier ones are not cancelled.
LockPlace ==
    /\ At("lock") /\ LockImproves
    /\ \/ /\ Rests(LockAt[mem.peak], stops, target)
          /\ mem' = [mem EXCEPT !.lock = LockAt[mem.peak]]
       \/ /\ May("placeLost") /\ Rests(LockAt[mem.peak], stops, target)
          /\ UNCHANGED mem
       \/ /\ May("placeRefused") \/ held = 0 \/ price <= LockAt[mem.peak]
          /\ UNCHANGED <<exchange, mem>>
    /\ pc' = "decide" /\ changed' = TRUE /\ UNCHANGED cur
    /\ UNCHANGED <<disk, unfinished>>

LockHit == Armed(mem) /\ cur <= LockAt[mem.peak]
\* No lock stop is to be placed, or one was refused less than 30 s ago.
LockWaits == ~LockImproves \/ May("placeRefused") \/ May("placeLost")
Deciding == At("decide") \/ (At("lock") /\ LockWaits)
HardHit == cur <= Effective(mem) \/ cur >= Target
StartClose == pc' = "closeCancel" /\ cur' = 0 /\ changed' = FALSE

Decide_lockOnly ==
    /\ Deciding
    /\ disk' = IF changed /\ mem.lock # disk.lock /\ ~LockHit THEN mem ELSE disk
    /\ IF LockHit \/ HardHit THEN StartClose ELSE Rest
    /\ UNCHANGED <<exchange, mem, unfinished>>

\* Below the lock the poll closes, and saves nothing first; otherwise it saves
\* what changed and compares the price with the stop and the target.
Decide ==
    /\ Deciding
    /\ disk' = IF changed /\ ~LockHit THEN mem ELSE disk
    /\ IF LockHit \/ HardHit THEN StartClose ELSE Rest
    /\ UNCHANGED <<exchange, mem, unfinished>>

\* A close that failed is decided: it is retried when its backoff has ended.
PollLatched ==
    /\ At("idle") /\ mem.tracked /\ mem.latch
    /\ StartClose
    /\ UNCHANGED <<exchange, mem, disk, unfinished>>

-----------------------------------------------------------------------------
(* _close_position_for_exit, _restore_exchange_tpsl, _repair_bare_stop *)

BracketGone == stops' = {} /\ target' = FALSE /\ UNCHANGED <<price, held>>

CloseCancelled ==
    /\ At("closeCancel")
    /\ BracketGone /\ Goto("closeOrder")
    /\ UNCHANGED <<mem, disk, unfinished>>

\* The cancel raises, refused or with its answer lost: outside the try, so nothing
\* is put back or flagged.
CancelRaises ==
    /\ At("closeCancel") /\ Rest
    /\ \/ May("cancelLost") /\ BracketGone /\ unfinished' = ~mem.bare
       \/ (May("cancelRefused") \/ held = 0) /\ UNCHANGED <<exchange, unfinished>>
    /\ UNCHANGED <<mem, disk>>

Untracked == [Start(NoStop) EXCEPT !.tracked = FALSE]
Forget == mem' = Untracked /\ disk' = mem' /\ unfinished' = FALSE

\* The order covers what the book knows.  Accepted, it is taken for a full close:
\* the trade is recorded and the position cleared and saved.
CloseTaken(filled) ==
    /\ At("closeOrder")
    /\ Fills(filled) /\ Rest
    /\ Forget

\* The reading of its price fails first: only the latch is gone, in memory.
CloseUnread(filled) ==
    /\ At("closeOrder") /\ May("readLost")
    /\ Fills(filled) /\ Rest
    /\ mem' = [mem EXCEPT !.latch = FALSE]
    /\ unfinished' = ~mem.bare
    /\ UNCHANGED <<disk>>

\* Refused, or gone through and nobody knows.
OrderRaises ==
    /\ At("closeOrder") /\ Goto("closeRestore")
    /\ \/ May("orderLost") /\ \E filled \in Filling(mem.contracts) : Fills(filled)
       \/ (May("orderRefused") \/ held = 0) /\ UNCHANGED exchange
    /\ UNCHANGED <<mem, disk, unfinished>>

\* The bracket is put back at the stop the exchange should hold: the exit is latched.
Failed(m) == [m EXCEPT !.latch = TRUE]
CloseRestored ==
    /\ At("closeRestore") /\ Rest
    /\ Rests(Effective(mem), {}, TRUE)
    /\ mem' = Failed(mem) /\ disk' = mem'
    /\ unfinished' = FALSE

\* It is not, for all the code knows: flagged in memory, unless MEXC is seen empty.
Flag(m, b) == [m EXCEPT !.bare = b]
RestoreFails ==
    /\ At("closeRestore") /\ Rest
    /\ \/ May("placeLost") /\ Rests(Effective(mem), {}, TRUE)
       \/ /\ May("placeRefused") \/ held = 0 \/ price <= Effective(mem)
          /\ UNCHANGED exchange
    /\ mem' \in {Flag(mem, TRUE)} \cup (IF held' = 0 THEN {mem} ELSE {})
    /\ unfinished' = FALSE
    /\ UNCHANGED disk

\* The monitor tries every minute: what it cancels takes a lock stop along, and a
\* cancel that fails is passed over.
RepairCancel ==
    /\ At("idle") /\ mem.tracked /\ mem.bare
    /\ BracketGone \/ (May("cancelRefused") /\ UNCHANGED exchange)
    /\ Goto("repairPlace")
    /\ UNCHANGED <<mem, disk, unfinished>>

RepairPlace ==
    /\ At("repairPlace") /\ Rest
    /\ \/ /\ Rests(Effective(mem), stops, TRUE) /\ unfinished' = FALSE
          /\ mem' \in {Flag(mem, FALSE)} \cup (IF May("placeLost") THEN {mem} ELSE {})
       \/ /\ May("placeRefused") \/ held = 0 \/ price <= Effective(mem)
          /\ UNCHANGED <<exchange, unfinished>>
          /\ mem' \in {mem} \cup (IF held = 0 THEN {Flag(mem, FALSE)} ELSE {})
    /\ disk' = mem'

\* The reconcile finds the position gone and books what the book knows.
Reconcile ==
    /\ At("idle") /\ mem.tracked /\ held = 0
    /\ Forget
    /\ UNCHANGED <<exchange, poll>>

-----------------------------------------------------------------------------
Bank == \E r \in 1 .. 2 : BankTaken(r) \/ BankRaises(r)
Swap == SwapCancel \/ SwapPlace \/ BankSave
Lock == LockPlace \/ Decide
Close == \/ CloseCancelled \/ CancelRaises \/ OrderRaises \/ CloseRestored \/ RestoreFails
         \/ \E filled \in Filling(mem.contracts) : CloseTaken(filled) \/ CloseUnread(filled)
Repair == RepairCancel \/ RepairPlace

Next ==
    \/ PriceMoves \/ Crash
    \/ Poll \/ PollLatched \/ Bank \/ Swap \/ Lock \/ Close \/ Repair \/ Reconcile

\* The monitor polls for ever; a call made again and again is answered once, an order
\* filled once, and not every poll is interrupted by a crash.
Fairness ==
    /\ WF_vars(Bank \/ Lock \/ Close \/ RepairPlace)
    /\ SF_vars(Poll \/ PollLatched) /\ SF_vars(BankTaken(1))
    /\ SF_vars(SwapCancel) /\ SF_vars(SwapPlace) /\ SF_vars(BankSave)
    /\ SF_vars(CloseCancelled) /\ SF_vars(CloseTaken(mem.contracts))

Spec == Init /\ [][Next]_vars /\ Fairness

-----------------------------------------------------------------------------
(* Properties *)

\* State and metadata keep their types.
TypeOK ==
    /\ price \in Prices /\ held \in 0 .. Size /\ stops \subseteq Prices
    /\ target \in BOOLEAN /\ pc \in Steps /\ cur \in Prices
    /\ changed \in BOOLEAN /\ unfinished \in BOOLEAN
    /\ mem \in Position /\ disk \in Position

\* Over refused, unanswered and unfilled orders and restarts, the book and the file
\* count every contract entered once, as held or as banked, and count fewer as held
\* than MEXC holds only by what accepted banks left unfilled (runtime.py:1678, which
\* reads no fill): but for those a close covers the whole position.
BooksAddUp ==
    \A m \in {mem, disk} : m.tracked =>
        /\ m.contracts + m.banked[1] + m.banked[2] = Size
        /\ held <= m.contracts + m.short

\* Between polls a tracked position has a stop at MEXC at least as tight as the one
\* it should hold, or a flag asks for the repair.  Seven failures are left: a swap to
\* breakeven whose cancel or place failed, a cancel before a close that raised though
\* MEXC took it, an accepted close that could not be read, and a death between a
\* cancel and the order, before the bracket is back, or before the flag was saved.
StopBacked ==
    At("idle") /\ mem.tracked /\ held > 0 /\ ~mem.bare /\ ~unfinished
        => \E s \in stops : s >= Effective(mem)

\* From one poll to the next, and over a restart between them, the recorded peak
\* does not fall: a lock that is armed stays armed.  Where the lock closes at the very
\* peak that arms it (a floor above the trigger) the peak is not saved before the
\* close, which may fail.
PeakOutlivesRestarts ==
    [][At("idle") /\ mem.tracked /\ mem'.tracked /\ LockAt[mem.peak] < mem.peak
       => mem'.peak >= mem.peak]_vars

\* A tracked position that stays above 1R with contracts to bank is banked, and the
\* bank is on file, over any failures that do not go on for ever.
RungIsBanked ==
    (<>[](mem.tracked /\ held > 1 /\ price >= Rung[1])) => <>(disk.banked[1] > 0)

\* The owner is told after a bank that the lock is unchanged (runtime.py 1735).
LockUnchangedByBank ==
    At("idle") /\ mem.tracked /\ held > 0 /\ ~unfinished /\ ~mem.bare /\ ~mem.latch
    /\ mem.lock # NoStop => \E s \in stops : s >= mem.lock
=============================================================================
