---------------------------- MODULE PositionGuard ----------------------------
(* The life of one live position after entry (futuresbot/runtime.py): every  *)
(* way the runtime closes it, moves or repairs its resting stop, reconciles  *)
(* it with MEXC and books it, against an exchange that refuses, loses and    *)
(* delays calls, and a process that is killed and restarted anywhere.        *)
(*                                                                           *)
(* The runtime is one thread, so handlers never overlap; but every remote    *)
(* call and every write inside a handler is a step of its own, and the       *)
(* exchange, the clock and a crash run between any two of them.  Times are   *)
(* ages, capped where the code stops distinguishing them: one tick is 60 s.  *)
EXTENDS Integers

CONSTANTS
    Reasons,         \* software exits that may trigger (trail, time stop...)
    Handlers,        \* which optional handlers run: "force" "preempt" "move" "reconcile"
    Faults,          \* what may go wrong, see AllFaults
    Backoff,         \* CLOSE_RETRY_BACKOFF_SECONDS
    Retry,           \* the 60 s between repair, and between breakeven, attempts
    MaxMoves,        \* breakeven attempts per position
    Grace,           \* FUTURES_RECONCILE_MISS_GRACE_SECONDS
    Lag              \* how late MEXC may publish a closed row; >= Grace: any delay

AllHandlers == {"force", "preempt", "move", "reconcile"}
AllFaults == {"cancelRefused", "cancelLost", "placeRefused", "placeLost",
              "closeRefused", "closeLost", "closeUnfilled", "readFailed", "blankRead", "crash"}

ASSUME GuardAssumption ==
    /\ "none" \notin Reasons
    /\ Handlers \subseteq AllHandlers /\ Faults \subseteq AllFaults
    /\ Backoff \in Nat /\ Retry \in Nat /\ MaxMoves \in Nat
    /\ Grace \in Nat /\ Lag \in Nat

VARIABLES
    xOpen,           \* MEXC holds the position
    resting,         \* brackets resting for it: 0, 1, or 2 for "more than one"
    row,             \* its closed row in MEXC's history: none, owed, out
    absent,          \* ticks since MEXC stopped holding it, up to Grace
    inflight,        \* a close order nobody answered may still land
    up,              \* the process runs
    pc, job, why,    \* the step, the handler, and the exit reason being executed
    mem,             \* the position in memory: open_positions entry and metadata
    disk,            \* ... and in the state file
    excused,         \* a second bracket the code accepts and counts: see SingleBracket
    exposed,         \* the bracket went in a way no handler makes good: see ProtectedAtRest
    doubted,         \* the miss marker stands since a listing left a held position out
    unfilled         \* a close is booked, or was, whose order left the position open

exchange == <<xOpen, resting, row, absent, inflight>>
control == <<up, pc, job, why>>
ghosts == <<excused, exposed, doubted, unfilled>>
vars == <<exchange, control, mem, disk, ghosts>>

NoMiss == -1         \* no reconcile_miss_since marker

Position == [tracked : BOOLEAN,                     \* in open_positions
             recs    : Nat,                         \* its rows in trade_history
             latch   : Reasons \cup {"none"},       \* close_failed_reason
             failAge : 0 .. Backoff,                \* close_failed_ts; Backoff: over, or none
             missAge : {NoMiss} \cup 0 .. Grace,    \* reconcile_miss_since
             bare    : BOOLEAN,                     \* be_stop_bare
             bareAge : 0 .. Retry,                  \* be_stop_bare_last_try_ts
             be      : BOOLEAN,                     \* be_stop_price
             moves   : 0 .. MaxMoves,               \* be_stop_attempts
             moveAge : 0 .. Retry]                  \* be_stop_last_try_ts

Entered == [tracked |-> TRUE, recs |-> 0, latch |-> "none", failAge |-> Backoff,
            missAge |-> NoMiss, bare |-> FALSE, bareAge |-> Retry, be |-> FALSE,
            moves |-> 0, moveAge |-> Retry]

\* A position just entered: open, tracked, saved, its bracket resting.
Init ==
    /\ xOpen = TRUE /\ resting = 1 /\ row = "none" /\ absent = 0 /\ inflight = FALSE
    /\ up = TRUE /\ pc = "idle" /\ job = "none" /\ why = "none"
    /\ mem = Entered /\ disk = Entered
    /\ excused = FALSE /\ exposed = FALSE /\ doubted = FALSE /\ unfilled = FALSE

AtMost(n, cap) == IF n < cap THEN n ELSE cap
Goto(step, handler) == pc' = step /\ job' = handler
Back == Goto("idle", "none") /\ why' = "none"
Save(m) == mem' = m /\ disk' = m                    \* _save_state, an atomic replace
Idle == up /\ pc = "idle" /\ mem.tracked
May(fault) == fault \in Faults

-----------------------------------------------------------------------------
(* MEXC and the clock *)

Leaves == /\ xOpen' = FALSE /\ resting' = 0
          /\ row' = "owed" /\ absent' = 0
          /\ exposed' = FALSE /\ unfilled' = FALSE

\* Its own stop or target fills, it is liquidated, or the owner closes it.
ExchangeCloses ==
    /\ xOpen /\ Leaves
    /\ UNCHANGED <<inflight, control, mem, disk, excused, doubted>>

\* An unanswered close order lands late, or never; it is reduce-only.
InflightSettles ==
    /\ inflight /\ inflight' = FALSE
    /\ (xOpen /\ Leaves) \/ UNCHANGED <<xOpen, resting, row, absent, exposed, unfilled>>
    /\ UNCHANGED <<control, mem, disk, excused, doubted>>

PublishRow ==
    /\ row = "owed" /\ row' = "out"
    /\ UNCHANGED <<xOpen, resting, absent, inflight, control, mem, disk, ghosts>>

Older(p) == [p EXCEPT !.failAge = AtMost(@ + 1, Backoff),
                      !.missAge = IF @ = NoMiss THEN NoMiss ELSE AtMost(@ + 1, Grace),
                      !.bareAge = AtMost(@ + 1, Retry),
                      !.moveAge = AtMost(@ + 1, Retry)]

\* A minute passes, for the running process and for the stamps in the file.
Tick ==
    /\ row = "owed" => absent < Lag \/ Lag >= Grace
    /\ absent' = IF xOpen THEN 0 ELSE AtMost(absent + 1, Grace)
    /\ mem' = Older(mem) /\ disk' = Older(disk)
    /\ UNCHANGED <<xOpen, resting, row, inflight, control, ghosts>>

\* The steps at which the bracket rests, or the repair flag stands in for it.
KeepsStop == pc \in {"idle", "cancel", "moveCancel", "history"} \/ job \in {"forceKept", "repair"}

\* The process dies; until it is back only the file matters.  At any other step
\* the bracket may be down, and a repair flag may be in memory only.
Crash ==
    /\ May("crash") /\ up
    /\ up' = FALSE /\ Back
    /\ mem' = disk
    /\ exposed' = (xOpen /\ resting = 0 /\ (exposed \/ ~KeepsStop \/ (mem.bare /\ ~disk.bare)))
    /\ unfilled' = (unfilled /\ ~mem.tracked)
    /\ UNCHANGED <<exchange, disk, excused, doubted>>

Boot ==
    /\ ~up /\ up' = TRUE
    /\ mem' = disk
    /\ UNCHANGED <<exchange, pc, job, why, disk, ghosts>>

\* Any other part of the runtime that saves its own state (a new peak, a Telegram
\* batch, an entry) writes the whole file, this position as it is in memory.
SaveElsewhere ==
    /\ Idle /\ disk # mem
    /\ disk' = mem
    /\ UNCHANGED <<exchange, control, mem, ghosts>>

-----------------------------------------------------------------------------
(* Closing: _close_position_for_exit, _force_close_position, preemption *)

\* A retry leaves the restored stop alone until the backoff ends.
Deferred_never(p) == FALSE
Deferred_whenLatched(p) == p.latch # "none"
Deferred(p) == p.failAge < Backoff

\* _hourly_exit: a latched close goes first, with the reason it was latched with.
StartExit(r) ==
    /\ Idle /\ ~Deferred(mem)
    /\ mem.latch \in {"none", r}
    /\ Goto("cancel", "exit") /\ why' = r
    /\ UNCHANGED <<exchange, up, mem, disk, ghosts>>

\* /close and the liquidation buffer: no backoff, no latch.
StartForce ==
    /\ Idle /\ "force" \in Handlers
    /\ Goto("cancel", "force")
    /\ UNCHANGED <<exchange, up, why, mem, disk, ghosts>>

\* The slot is wanted; a latched position is never the victim.
StartPreempt ==
    /\ Idle /\ "preempt" \in Handlers
    /\ mem.latch = "none" /\ ~Deferred(mem)
    /\ Goto("cancel", "preempt")
    /\ UNCHANGED <<exchange, up, why, mem, disk, ghosts>>

Cancel ==
    /\ pc = "cancel"
    /\ resting' = 0
    /\ Goto("send", job)
    /\ UNCHANGED <<xOpen, row, absent, inflight, up, why, mem, disk, ghosts>>

\* cancel_all_tpsl raises, having cancelled (lost) or not.  An exit gives up; a
\* forced close goes on and, if it fails, leaves the stop it believes resting;
\* a failed preemption "re-arms" the stop.
CancelRaises(lost) ==
    /\ pc = "cancel"
    /\ May(IF lost THEN "cancelLost" ELSE "cancelRefused")
    /\ resting' = IF lost THEN 0 ELSE resting
    /\ \/ job = "exit"    /\ Back
       \/ job = "force"   /\ Goto("send", "forceKept") /\ UNCHANGED why
       \/ job = "preempt" /\ Goto("place", "rearm")    /\ UNCHANGED why
    /\ exposed' = (xOpen /\ (exposed \/ lost))
    /\ UNCHANGED <<xOpen, row, absent, inflight, up, mem, disk, excused, doubted, unfilled>>

\* The close order is accepted, or found by its id: the exit path unlatches, in
\* memory only, and goes on to book the trade.
TakenAsClosed ==
    /\ pc = "send" /\ xOpen
    /\ Goto("detail", job)
    /\ mem' = IF job \in {"exit", "preempt"}
              THEN [mem EXCEPT !.failAge = Backoff, !.latch = "none"] ELSE mem
    /\ UNCHANGED <<inflight, up, why, disk, excused, doubted>>

CloseFills == TakenAsClosed /\ Leaves

\* It ended canceled, or filled in part.  Nothing reads its state, the volume it
\* dealt or the position, which MEXC still holds, as a rule without its bracket.
CloseUnfilled ==
    /\ TakenAsClosed /\ May("closeUnfilled")
    /\ unfilled' = TRUE /\ exposed' = (exposed \/ resting = 0)
    /\ UNCHANGED <<xOpen, resting, row, absent>>

\* It is refused (always, once the position is gone) or gets no answer.
CloseFails(lost) ==
    /\ pc = "send"
    /\ IF lost THEN May("closeLost") ELSE May("closeRefused") \/ ~xOpen
    /\ inflight' = (inflight \/ lost)
    /\ IF job = "forceKept" THEN Back ELSE Goto("place", job) /\ UNCHANGED why
    /\ UNCHANGED <<xOpen, resting, row, absent, up, mem, disk, ghosts>>

\* get_order for the fill price: if it fails the trade is left to the reconcile,
\* and a preemption takes the failure for the close's and re-arms the stop.
ReadDetail ==
    /\ pc = "detail"
    /\ Goto("record", job)
    /\ UNCHANGED <<exchange, up, why, mem, disk, ghosts>>

DetailFails ==
    /\ pc = "detail" /\ May("readFailed")
    /\ IF job = "preempt" THEN Goto("place", "rearm") /\ UNCHANGED why ELSE Back
    /\ unfilled' = FALSE
    /\ UNCHANGED <<exchange, up, mem, disk, excused, exposed, doubted>>

\* _close_history_trade: the trade joins trade_history in memory, and Telegram is
\* called ...
Record_savedEarly ==
    /\ pc = "record"
    /\ Save([mem EXCEPT !.recs = @ + 1])
    /\ Goto("save", job)
    /\ UNCHANGED <<exchange, up, why, ghosts>>
Record ==
    /\ pc = "record"
    /\ mem' = [mem EXCEPT !.recs = @ + 1]
    /\ Goto("save", job)
    /\ UNCHANGED <<exchange, up, why, disk, ghosts>>

\* ... and the position is cleared and the state saved.
Cleared(p) == [Entered EXCEPT !.tracked = FALSE, !.recs = p.recs]
ClearAndSave_notSaved == mem' = Cleared(mem) /\ UNCHANGED disk
ClearAndSave == Save(Cleared(mem))
SaveClosed ==
    /\ pc = "save"
    /\ ClearAndSave
    /\ Back
    /\ UNCHANGED <<exchange, up, ghosts>>

-----------------------------------------------------------------------------
(* _restore_exchange_tpsl, and the handlers it returns to *)

\* _note_close_failed, once the stop of a failed exit is back: stamp, latch, save.
NoteCloseFailed(p) ==
    Save([p EXCEPT !.failAge = 0, !.latch = IF @ = "none" THEN why ELSE @])

\* What each handler does with the answer of the restore.  p is the position in
\* memory as the restore left it.  Only some of them save it.
AfterRestore(restored, p) ==
    CASE job = "exit" /\ restored -> NoteCloseFailed(p) /\ Back
      [] job = "preempt" -> mem' = p /\ UNCHANGED disk /\ Goto("place", "rearm") /\ UNCHANGED why
      [] job \in {"move", "repair"} -> Save(p) /\ Back
      [] OTHER -> mem' = p /\ UNCHANGED disk /\ Back

\* The exit path restores with the client's default retries: a place that landed
\* and whose reply was lost is sent again, and a second bracket rests.
Retried == job \in {"exit", "force", "preempt", "rearm"}

Place ==
    /\ pc = "place" /\ xOpen
    /\ \E sent \in {1} \cup (IF Retried /\ May("placeLost") THEN {2} ELSE {}) :
          /\ resting' = AtMost(resting + sent, 2)
          /\ excused' = (excused \/ sent = 2)
    /\ AfterRestore(TRUE, IF job = "repair" THEN [mem EXCEPT !.bare = FALSE] ELSE mem)
    /\ exposed' = FALSE
    /\ UNCHANGED <<xOpen, row, absent, inflight, up, doubted, unfilled>>

\* _exchange_position_open: closed only if MEXC positively says so.
LooksOpen(seen) ==
    IF seen THEN xOpen \/ May("readFailed") ELSE ~xOpen \/ May("blankRead")

\* The place raises: flagged bare unless MEXC reports the position closed.
Unrestored_unflagged(p, seen) ==
    IF ~seen /\ job = "repair" THEN [p EXCEPT !.bare = FALSE] ELSE p
Unrestored(p, seen) ==
    IF seen THEN [p EXCEPT !.bare = TRUE]
    ELSE IF job = "repair" THEN [p EXCEPT !.bare = FALSE] ELSE p

PlaceRaises(lost) ==
    /\ pc = "place"
    /\ IF lost THEN xOpen /\ May("placeLost") ELSE May("placeRefused") \/ ~xOpen
    /\ resting' = IF lost THEN AtMost(resting + 1, 2) ELSE resting
    /\ \E seen \in BOOLEAN :
          /\ LooksOpen(seen) /\ AfterRestore(FALSE, Unrestored(mem, seen))
          /\ exposed' = (xOpen /\ ~seen)
    /\ UNCHANGED <<xOpen, row, absent, inflight, up, excused, doubted, unfilled>>

\* cancel_first, in the move and repair paths: a failure is counted and passed over.
Recancel ==
    /\ pc = "recancel"
    /\ resting' = 0
    /\ Goto("place", job)
    /\ UNCHANGED <<xOpen, row, absent, inflight, up, why, mem, disk, ghosts>>

RecancelRaises(lost) ==
    /\ pc = "recancel"
    /\ May(IF lost THEN "cancelLost" ELSE "cancelRefused")
    /\ resting' = IF lost THEN 0 ELSE resting
    /\ excused' = TRUE
    /\ Goto("place", job)
    /\ UNCHANGED <<xOpen, row, absent, inflight, up, why, mem, disk, exposed, doubted, unfilled>>

-----------------------------------------------------------------------------
(* Moving the stop to breakeven, and repairing a bare position *)

\* _maybe_breakeven_stop: once, at most MaxMoves tries, one a minute, never on a
\* bare position; a latched close returns before it.
MovesLeft_oneMore(p) == p.moves <= MaxMoves
MovesLeft(p) == p.moves < MaxMoves
StartMove ==
    /\ Idle /\ "move" \in Handlers
    /\ mem.latch = "none" /\ ~mem.bare /\ ~mem.be
    /\ MovesLeft(mem) /\ mem.moveAge = Retry
    /\ mem' = [mem EXCEPT !.moves = @ + 1, !.moveAge = 0]
    /\ Goto("moveCancel", "move")
    /\ UNCHANGED <<exchange, up, why, disk, ghosts>>

MoveCancel ==
    /\ pc = "moveCancel"
    /\ resting' = 0
    /\ Goto("movePlace", job)
    /\ UNCHANGED <<xOpen, row, absent, inflight, up, why, mem, disk, ghosts>>

MovePlace ==
    /\ pc = "movePlace" /\ xOpen
    /\ resting' = AtMost(resting + 1, 2)
    /\ Save([mem EXCEPT !.be = TRUE])
    /\ Back /\ exposed' = FALSE
    /\ UNCHANGED <<xOpen, row, absent, inflight, up, excused, doubted, unfilled>>

\* Any failure puts the original bracket back, cancelling first: the failed place
\* may rest after all.
AfterMoveFailed_noCancel == "place"
AfterMoveFailed == "recancel"
MoveRaises(lost) ==
    /\ \/ /\ pc = "moveCancel"
          /\ May(IF lost THEN "cancelLost" ELSE "cancelRefused")
          /\ resting' = IF lost THEN 0 ELSE resting
       \/ /\ pc = "movePlace"
          /\ IF lost THEN xOpen /\ May("placeLost") ELSE May("placeRefused") \/ ~xOpen
          /\ resting' = IF lost THEN AtMost(resting + 1, 2) ELSE resting
    /\ Goto(AfterMoveFailed, job)
    /\ UNCHANGED <<xOpen, row, absent, inflight, up, why, mem, disk, ghosts>>

\* _repair_bare_stop: first thing of every poll, at most once a minute.
StartRepair_unmovedOnly ==
    /\ Idle /\ mem.bare /\ mem.bareAge = Retry /\ ~mem.be
    /\ mem' = [mem EXCEPT !.bareAge = 0]
    /\ Goto("recancel", "repair")
    /\ UNCHANGED <<exchange, up, why, disk, ghosts>>
StartRepair ==
    /\ Idle /\ mem.bare /\ mem.bareAge = Retry
    /\ mem' = [mem EXCEPT !.bareAge = 0]
    /\ Goto("recancel", "repair")
    /\ UNCHANGED <<exchange, up, why, disk, ghosts>>

-----------------------------------------------------------------------------
(* _reconcile_closed_position *)

\* _clear_reconcile_miss saves only if there was a marker.
ClearMiss == IF mem.missAge = NoMiss THEN UNCHANGED <<mem, disk, doubted>>
             ELSE Save([mem EXCEPT !.missAge = NoMiss]) /\ doubted' = FALSE

ReconcileSees ==
    /\ Idle /\ "reconcile" \in Handlers
    /\ xOpen
    /\ ClearMiss
    /\ UNCHANGED <<exchange, control, excused, exposed, unfilled>>

ReconcileMisses ==
    /\ Idle /\ "reconcile" \in Handlers
    /\ ~xOpen \/ May("blankRead")
    /\ Goto("history", "reconcile")
    /\ UNCHANGED <<exchange, up, why, mem, disk, ghosts>>

HistoryFails ==
    /\ pc = "history" /\ May("readFailed")
    /\ Back
    /\ UNCHANGED <<exchange, up, mem, disk, ghosts>>

RowFound ==
    /\ pc = "history" /\ row = "out"
    /\ ClearMiss
    /\ Goto("record", job)
    /\ UNCHANGED <<exchange, up, why, excused, exposed, unfilled>>

\* _reconcile_miss_expired: the first miss starts the clock, in the file too; the
\* position is dropped, unrecorded, once the grace has passed since then.
MissExpired_onPolls(p) == p.missAge # NoMiss
MissExpired(p) == p.missAge >= Grace
RowMissing ==
    /\ pc = "history" /\ row # "out"
    /\ \/ /\ mem.missAge = NoMiss
          /\ Save([mem EXCEPT !.missAge = 0]) /\ doubted' = xOpen
       \/ /\ mem.missAge # NoMiss
          /\ IF MissExpired(mem) THEN Save(Cleared(mem)) ELSE UNCHANGED <<mem, disk>>
          /\ UNCHANGED doubted
    /\ Back
    /\ UNCHANGED <<exchange, up, excused, exposed, unfilled>>

-----------------------------------------------------------------------------
External == ExchangeCloses \/ InflightSettles \/ PublishRow \/ Tick \/ Crash

Closing == \/ \E r \in Reasons : StartExit(r)
           \/ StartForce \/ StartPreempt
           \/ Cancel \/ CloseFills \/ CloseUnfilled
           \/ \E lost \in BOOLEAN : CancelRaises(lost) \/ CloseFails(lost)
           \/ ReadDetail \/ DetailFails \/ Record \/ SaveClosed

Stops == \/ Place \/ Recancel
         \/ \E lost \in BOOLEAN : PlaceRaises(lost) \/ RecancelRaises(lost) \/ MoveRaises(lost)
         \/ StartMove \/ MoveCancel \/ MovePlace \/ StartRepair

Reconcile == ReconcileSees \/ ReconcileMisses \/ HistoryFails \/ RowFound \/ RowMissing

Next == External \/ Boot \/ SaveElsewhere \/ Closing \/ Stops \/ Reconcile

Spec == Init /\ [][Next]_vars

\* A handler that has started always gets to its next step: every call has a
\* timeout and a bounded number of attempts.
InHandler == pc # "idle" /\ (Closing \/ Stops \/ Reconcile)

\* The supervisor restarts the process, time passes and MEXC publishes what it
\* owes (WF).  The 1 s monitor and the cycle come round to every position again
\* and again, MEXC does not refuse one kind of call, or leave every close order
\* unfilled, for ever, and the process is
\* not killed at the same step for ever (SF).
Fairness ==
    /\ WF_vars(Boot) /\ WF_vars(Tick) /\ WF_vars(PublishRow) /\ WF_vars(InHandler)
    /\ SF_vars(\E r \in Reasons : mem.latch = r /\ StartExit(r))
    /\ SF_vars(StartRepair) /\ SF_vars(ReconcileMisses)
    /\ SF_vars(Cancel \/ Recancel) /\ SF_vars(job = "exit" /\ CloseFills)
    /\ SF_vars(Place) /\ SF_vars(RowFound) /\ SF_vars(Record) /\ SF_vars(SaveClosed)

FairSpec == Spec /\ Fairness

-----------------------------------------------------------------------------
TypeOK ==
    /\ xOpen \in BOOLEAN /\ resting \in 0 .. 2 /\ row \in {"none", "owed", "out"}
    /\ absent \in 0 .. Grace /\ inflight \in BOOLEAN
    /\ up \in BOOLEAN
    /\ pc \in {"idle", "cancel", "send", "detail", "record", "save", "place", "recancel",
               "moveCancel", "movePlace", "history"}
    /\ job \in {"none", "exit", "force", "forceKept", "preempt", "rearm", "move", "repair",
                "reconcile"}
    /\ why \in Reasons \cup {"none"}
    /\ mem \in Position /\ disk \in Position
    /\ excused \in BOOLEAN /\ exposed \in BOOLEAN /\ doubted \in BOOLEAN
    /\ unfilled \in BOOLEAN

\* Between handlers, an open position has a bracket resting on MEXC, or carries
\* the flag that makes the monitor put one back, whatever is refused or lost and
\* wherever the process dies, but for four ways the code does not make good: a
\* cancel that landed unanswered, a restore that failed while a listing left the
\* position out, a close order that was accepted and did not fill, and a death with
\* the bracket down or the flag not saved.
ProtectedAtRest == (Idle /\ xOpen /\ ~exposed) => (resting > 0 \/ mem.bare)

\* Two brackets never rest for one position, except in the two cases the code
\* accepts: the cancel in front of a restore failed ("counted, not swallowed"),
\* or a retried place landed twice.
SingleBracket == resting <= 1 \/ excused

\* While a failed close waits out its backoff, only a forced close or the repair
\* of a bare flag may take the restored stop down: no exit retries, no preemption
\* and no breakeven move.
BackoffKeepsStop ==
    [][(resting' < resting /\ xOpen' /\ mem.latch # "none" /\ mem.failAge < Backoff)
            => job \in {"force", "repair"}]_vars

\* With MEXC publishing a closed row inside the grace, no close is dropped
\* unrecorded, whoever closed the position and whenever the process restarted,
\* but where the grace was started by a listing that left out a held position.  A
\* position booked by a close that did not fill counts as recorded.
NoCloseIsLost == mem.tracked \/ mem.recs = 1 \/ doubted

\* The state file follows TradeLedger: the position stays until MEXC has closed
\* it, and leaves once, as one recorded trade or as a drop after the grace; a
\* held position is dropped only under a doubt no listing has cleared, and recorded
\* only by the handler whose accepted close order did not fill.
Ledger == INSTANCE TradeLedger WITH
    open <- xOpen, gone <- absent,
    entry <- IF disk.tracked THEN "held"
             ELSE IF disk.recs = 1 THEN "recorded"
             ELSE IF disk.recs = 0 THEN "dropped" ELSE "recorded twice"
LedgerSpec == Ledger!Spec

\* A decided exit is delayed, never dropped, but with the position itself, or by an
\* accepted close order that does not fill: the code takes that for the exit.
DecidedExitHappens == (mem.latch # "none") ~> (~xOpen \/ doubted \/ unfilled)

\* A position MEXC has closed leaves the book: recorded or, after the grace, dropped.
ClosedIsBooked == ~xOpen ~> ~disk.tracked

\* An open position without a resting bracket gets one again, or is closed.
StopComesBack ==
    (xOpen /\ mem.tracked /\ resting = 0 /\ ~exposed)
      ~> (resting > 0 \/ ~xOpen \/ ~mem.tracked \/ exposed)
=============================================================================
