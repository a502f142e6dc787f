----------------------------- MODULE RandomTick -----------------------------
(* Random mode (futuresbot/random_mode.py, runtime.py 8760-9559): entries are *)
(* decided at fixed ticks, every 6 or 12 hours, in three buckets; from trial  *)
(* 26 on TREND is decided at every 15-minute close instead.  Each is selected *)
(* (remote reads), marked in the state file, and only then traded.  Which     *)
(* symbols rank first is left open; one order is a step that opens or does not.*)
(*                                                                            *)
(* The unit of time is 5 minutes, the longest sleep between two cycles, and   *)
(* `now` is the number of whole units: what happens "at" n happens after the  *)
(* boundary n and before n + 1.                                               *)
EXTENDS Integers, FiniteSets

CONSTANTS
    Symbols,
    TrendSlots, WildcardSlots, \* FUTURES_TREND_MAX_POSITIONS, FUTURES_WILDCARD_MAX_POSITIONS
    TickEvery,      \* FUTURES_RANDOM_TICK_HOURS
    EvalEvery,      \* TREND_EVAL_SECONDS
    Grace,          \* TICK_GRACE_SECONDS
    Defer,          \* TICK_DEFER_SECONDS
    Clock,          \* FUTURES_CONVEX_TIME_STOP_HOURS
    Horizon,        \* the model's clock ends here
    Sources,        \* the FUTURES_RANDOM_TREND_SOURCE settings looked at
    Faults          \* which of AllFaults may happen

AllFaults == {"crash", "pause", "selectFails", "saveFails", "closeStuck", "cancelRefused", "slowOrder"}
Buckets == {"TREND", "WC_LONG", "WC_SHORT"}
Sleeves == {"TREND", "WILDCARD"}
Times == 0 .. Horizon

ASSUME TickAssumption ==
    /\ TrendSlots \in Nat /\ WildcardSlots \in Nat
    /\ TickEvery \in Nat \ {0} /\ EvalEvery \in Nat \ {0}
    /\ Grace \in Nat /\ Defer \in Nat /\ Clock \in Nat \ {0} /\ Horizon \in Nat
    /\ Sources \subseteq {"tick", "natural", "off"} /\ Faults \subseteq AllFaults

VARIABLES
    now, lag,       \* the clock; whether it has moved since the last cycle began
    up, paused,     \* the process; /pause
    source,         \* cfg.trend_source, the same for as long as the deployment
    pc, bucket,     \* the step of the cycle, and the bucket whose turn it is
    ran,            \* last_tick and last_eval in memory; -1: none
    saved,          \* ... and in the state file
    book,           \* open positions: symbol, sleeve, random_tick_ts, opened_at
    past,           \* trade_history: closed positions with their exit_time
    seen,           \* the tick's own copy of the book: held_set and count
    decided,        \* how often a bucket was decided for a tick or close
    late,           \* ticks that were run although their deferral was over
    atTick,         \* the slots in use at the latest tick boundary
    heldUp          \* something else than waiting has held it up since

marks == <<ran, saved>>
positions == <<book, past>>
ghosts == <<decided, late, atTick, heldUp>>
vars == <<now, lag, up, paused, source, pc, bucket, marks, positions, seen, ghosts>>

May(fault) == fault \in Faults
SleeveOf(b) == IF b = "TREND" THEN "TREND" ELSE "WILDCARD"
Slots(k) == IF k = "TREND" THEN TrendSlots ELSE WildcardSlots
TrendEvent == source \in {"natural", "off"}
\* TREND is not the tick's to open when it is decided at the 15-minute closes.
Trading == pc = "bucket" /\ ~(bucket = "TREND" /\ TrendEvent)
Nothing == [held |-> {}, count |-> [k \in Sleeves |-> 0]]

Init ==
    /\ now = 0 /\ lag = 0 /\ up = TRUE /\ paused = FALSE /\ source \in Sources
    /\ pc = "idle" /\ bucket = "TREND"
    /\ ran = [tick |-> -1, eval |-> -1] /\ saved = ran
    /\ book = {} /\ past = {} /\ seen = Nothing
    /\ decided = [k \in Buckets \X Times |-> 0]
    /\ late = {} /\ atTick = Nothing.count /\ heldUp = FALSE

-----------------------------------------------------------------------------
(* random_mode.due_tick, and what the ticks read of the book *)

LastBoundary(every) == (now \div every) * every

\* Later than the last one processed, and no older than the grace.
Due(every, last) == LastBoundary(every) > last /\ now - LastBoundary(every) < Grace

\* Positions the backtest has closed by t, and live has not yet.
DuePositions(t) == {p \in book : p.ts + Clock <= t}
Waits_unbounded(t) == DuePositions(t) # {}
Waits(t) == DuePositions(t) # {} /\ now - t < Defer

OpenAt(r, t) == r.pos.in < t /\ t <= r.out

\* Open at t and closed since, unless its clock from its own tick had run out.
ClosedSince(t) ==
    {r \in past : /\ \A p \in book : p.sym # r.pos.sym
                  /\ OpenAt(r, t)
                  /\ r.pos.ts + Clock > t}
BookAt_openOnly(t) ==
    [held |-> {p.sym : p \in book},
     count |-> [k \in Sleeves |-> Cardinality({p \in book : p.sleeve = k})]]
BookAt(t) ==
    [held |-> {p.sym : p \in book} \cup {r.pos.sym : r \in ClosedSince(t)},
     count |-> [k \in Sleeves |->
                  Cardinality({p \in book : p.sleeve = k})
                  + Cardinality({r \in ClosedSince(t) : r.pos.sleeve = k})]]

-----------------------------------------------------------------------------
(* The clock, the supervisor and the owner *)

\* The slots in use at t, but for the positions the backtest closes then.
InUseAt(t) ==
    [k \in Sleeves |-> Cardinality({p \in book : p.sleeve = k /\ p.ts + Clock > t})]

\* Of the history only what the latest boundaries can still count is kept here.
\* A cycle begins at least once in every unit: the sleep between two is capped.
PassTime ==
    /\ now < Horizon
    /\ up => /\ lag = 0
             /\ \/ pc \in {"idle", "bucket"}
                \/ pc = "evalOpen" /\ May("slowOrder")
    /\ now' = now + 1 /\ lag' = 1
    /\ LET boundary == ((now + 1) \div TickEvery) * TickEvery = now + 1
       IN /\ atTick' = IF boundary THEN InUseAt(now + 1) ELSE atTick
          /\ heldUp' = IF boundary THEN ~up \/ paused ELSE heldUp \/ pc = "evalOpen"
    /\ past' = {r \in past : \E every \in {TickEvery, EvalEvery} :
                  OpenAt(r, ((now + 1) \div every) * every)}
    /\ UNCHANGED <<up, paused, source, pc, bucket, marks, book, seen, decided, late>>

\* What happens to a bucket that is being decided when the process dies: it may
\* have ordered, and the position is then MEXC's alone until it is adopted.
Die ==
    /\ up /\ May("crash")
    /\ up' = FALSE /\ pc' = "idle" /\ bucket' = "TREND" /\ seen' = Nothing /\ heldUp' = TRUE
    /\ ran' = saved
    /\ \/ UNCHANGED decided
       \/ pc = "evalOpen" /\ decided' = [decided EXCEPT ![<<"TREND", ran.eval>>] = @ + 1]
       \/ Trading /\ decided' = [decided EXCEPT ![<<bucket, ran.tick>>] = @ + 1]
    /\ UNCHANGED <<now, lag, paused, source, saved, positions, late, atTick>>

\* The file may hold the pause flag from before the last command.
Boot ==
    /\ ~up /\ up' = TRUE /\ lag' = 0
    /\ (paused' = paused) \/ (May("pause") /\ paused' \in BOOLEAN)
    /\ UNCHANGED <<now, source, pc, bucket, marks, positions, seen, ghosts>>

\* /pause and /resume are read before a cycle and while it sleeps.
TogglePause ==
    /\ up /\ pc = "idle" /\ May("pause")
    /\ paused' = ~paused /\ heldUp' = TRUE
    /\ UNCHANGED <<now, lag, up, source, pc, bucket, marks, positions, seen, decided, late, atTick>>

\* Any other save of the state file carries both marks.
SaveElsewhere ==
    /\ up /\ pc = "idle" /\ saved' = ran
    /\ UNCHANGED <<now, lag, up, paused, source, pc, bucket, ran, positions, seen, ghosts>>

-----------------------------------------------------------------------------
(* The exits, which come before the entries in a cycle *)

Closed(gone) ==
    /\ book' = book \ gone
    /\ past' = past \cup {[pos |-> p, out |-> now] : p \in gone}

\* A stop, the trail, /close: between two cycles.
Leaves(p) ==
    /\ up /\ pc = "idle" /\ p \in book /\ Closed({p})
    /\ UNCHANGED <<now, lag, up, paused, source, pc, bucket, marks, seen, ghosts>>

\* The 24-hour clock counts from the fill, which is later than the tick.
Expired == {p \in book : p.in + Clock <= now}
Overdue == {p \in book : p.in + Clock < now}

\* A close that was refused, and whose stop was restored, is latched: the poll in
\* its backoff returns False and the cycle goes on with the position open.  Its one
\* retry in a minute is the monitor's, between two cycles.
StartCycle(gone) ==
    /\ up /\ pc = "idle"
    /\ gone \subseteq Expired
    /\ Overdue \subseteq gone \/ May("closeStuck")
    /\ Closed(gone)
    /\ pc' = "eval" /\ lag' = 0
    /\ UNCHANGED <<now, up, paused, source, bucket, marks, seen, ghosts>>

\* A close whose cancel is refused, or whose stop cannot be restored, is not
\* latched: it raises out of the exit loop, and the cycle ends before its entries.
CycleRaises ==
    /\ up /\ pc = "idle" /\ May("cancelRefused") /\ Expired # {}
    /\ lag' = 0
    /\ heldUp' = TRUE
    /\ UNCHANGED <<now, up, paused, source, pc, bucket, marks, positions, seen, decided, late, atTick>>

-----------------------------------------------------------------------------
(* One order: _random_open *)

Decide(b, t) == decided' = [decided EXCEPT ![<<b, t>>] = @ + 1]

Position(s, b, t) == [sym |-> s, sleeve |-> SleeveOf(b), ts |-> t, in |-> now]

\* The first candidate no position holds, if its sleeve has a free slot; there is
\* no second attempt, whatever becomes of the order.
Opens(b, t, s, view) ==
    /\ s \notin view.held /\ view.count[SleeveOf(b)] < Slots(SleeveOf(b))
    /\ book' = book \cup {Position(s, b, t)}

-----------------------------------------------------------------------------
(* _maybe_random_trend_eval: the TREND evaluation of the latest 15-minute close *)

EvalDue == TrendEvent /\ Due(EvalEvery, ran.eval)
EvalWaits == ~paused /\ Waits(LastBoundary(EvalEvery))

EvalSkipped ==
    /\ pc = "eval" /\ (EvalDue => EvalWaits)
    /\ pc' = "tick"
    /\ UNCHANGED <<now, lag, up, paused, source, bucket, marks, positions, seen, ghosts>>

EvalSelectFails ==
    /\ pc = "eval" /\ EvalDue /\ ~EvalWaits /\ May("selectFails")
    /\ pc' = "tick"
    /\ UNCHANGED <<now, lag, up, paused, source, bucket, marks, positions, seen, ghosts>>

\* Selected, and marked before any order.  Paused, or with TREND off, the close is
\* logged and nothing opens.
EvalMark ==
    /\ pc = "eval" /\ EvalDue /\ ~EvalWaits
    /\ LET s == LastBoundary(EvalEvery)
       IN /\ ran' = [ran EXCEPT !.eval = s]
          /\ IF paused \/ source = "off"
             THEN pc' = "tick" /\ Decide("TREND", s)
             ELSE pc' = "evalOpen" /\ UNCHANGED decided
    /\ saved' = ran'
    /\ UNCHANGED <<now, lag, up, paused, source, bucket, positions, seen, late, atTick, heldUp>>

\* The save raises: marked in memory, the rest of the cycle is skipped.
EvalMarkRaises ==
    /\ pc = "eval" /\ EvalDue /\ ~EvalWaits /\ May("saveFails")
    /\ ran' = [ran EXCEPT !.eval = LastBoundary(EvalEvery)]
    /\ pc' = "idle" /\ heldUp' = TRUE
    /\ UNCHANGED <<now, lag, up, paused, source, bucket, saved, positions, seen, decided, late, atTick>>

EvalOpen ==
    /\ pc = "evalOpen"
    /\ \/ \E s \in Symbols : Opens("TREND", ran.eval, s, BookAt(ran.eval))
       \/ UNCHANGED book
    /\ Decide("TREND", ran.eval)
    /\ pc' = "tick"
    /\ UNCHANGED <<now, lag, up, paused, source, bucket, marks, past, seen, late, atTick, heldUp>>

-----------------------------------------------------------------------------
(* _maybe_random_tick *)

TickDue == Due(TickEvery, ran.tick)

\* For the positions the backtest closed at it, and for TREND to go first.
TickWaits_trendLast == Waits(LastBoundary(TickEvery))
TickWaits ==
    LET t == LastBoundary(TickEvery)
    IN Waits(t) \/ (TrendEvent /\ ran.eval < t /\ now - t < Defer)

TickSkipped ==
    /\ pc = "tick" /\ (TickDue => paused \/ TickWaits)
    /\ pc' = "idle"
    /\ UNCHANGED <<now, lag, up, paused, source, bucket, marks, positions, seen, ghosts>>

TickRuns == pc = "tick" /\ TickDue /\ ~paused /\ ~TickWaits

TickSelectFails ==
    /\ TickRuns /\ May("selectFails")
    /\ pc' = "idle" /\ heldUp' = TRUE
    /\ UNCHANGED <<now, lag, up, paused, source, bucket, marks, positions, seen, decided, late, atTick>>

TickMark_unsaved ==
    /\ TickRuns
    /\ LET t == LastBoundary(TickEvery)
       IN /\ ran' = [ran EXCEPT !.tick = t]
          /\ seen' = BookAt(t)
          /\ late' = IF now - t < Defer THEN late ELSE late \cup {t}
    /\ pc' = "bucket" /\ bucket' = "TREND"
    /\ UNCHANGED <<now, lag, up, paused, source, saved, positions, decided, atTick, heldUp>>
TickMark ==
    /\ TickRuns
    /\ LET t == LastBoundary(TickEvery)
       IN /\ ran' = [ran EXCEPT !.tick = t]
          /\ seen' = BookAt(t)
          /\ late' = IF now - t < Defer THEN late ELSE late \cup {t}
    /\ saved' = ran'
    /\ pc' = "bucket" /\ bucket' = "TREND"
    /\ UNCHANGED <<now, lag, up, paused, source, positions, decided, atTick, heldUp>>

TickMarkRaises ==
    /\ TickRuns /\ May("saveFails")
    /\ ran' = [ran EXCEPT !.tick = LastBoundary(TickEvery)]
    /\ pc' = "idle" /\ heldUp' = TRUE
    /\ UNCHANGED <<now, lag, up, paused, source, bucket, saved, positions, seen, decided, late, atTick>>

\* The buckets in their order; after the last the cycle is over.
NextBucket(view) ==
    /\ bucket' = CASE bucket = "TREND" -> "WC_LONG"
                   [] bucket = "WC_LONG" -> "WC_SHORT"
                   [] bucket = "WC_SHORT" -> "TREND"
    /\ pc' = IF bucket = "WC_SHORT" THEN "idle" ELSE "bucket"
    /\ seen' = IF bucket = "WC_SHORT" THEN Nothing ELSE view

BucketLeftToEval ==
    /\ pc = "bucket" /\ bucket = "TREND" /\ TrendEvent
    /\ NextBucket(seen)
    /\ UNCHANGED <<now, lag, up, paused, source, marks, positions, ghosts>>

\* Slots full, no candidate, or the order did not fill.
BucketOpensNothing ==
    /\ Trading
    /\ Decide(bucket, ran.tick) /\ NextBucket(seen)
    /\ UNCHANGED <<now, lag, up, paused, source, marks, positions, late, atTick, heldUp>>

Counted(b, s) ==
    [held |-> seen.held \cup {s},
     count |-> [seen.count EXCEPT ![SleeveOf(b)] = @ + 1]]

BucketOpens ==
    /\ Trading
    /\ \E s \in Symbols :
          /\ Opens(bucket, ran.tick, s, seen)
          /\ NextBucket(Counted(bucket, s))
    /\ Decide(bucket, ran.tick)
    /\ UNCHANGED <<now, lag, up, paused, source, marks, past, late, atTick, heldUp>>

-----------------------------------------------------------------------------
Environment == PassTime \/ Die \/ Boot \/ TogglePause \/ SaveElsewhere
Exits == (\E p \in book : Leaves(p)) \/ (\E gone \in SUBSET book : StartCycle(gone)) \/ CycleRaises
TrendEval == EvalSkipped \/ EvalSelectFails \/ EvalMark \/ EvalMarkRaises \/ EvalOpen
RandomTickStep ==
    \/ TickSkipped \/ TickSelectFails \/ TickMark \/ TickMarkRaises
    \/ BucketLeftToEval \/ BucketOpensNothing \/ BucketOpens

Next == Environment \/ Exits \/ TrendEval \/ RandomTickStep
Spec == Init /\ [][Next]_vars

-----------------------------------------------------------------------------
Positions == [sym : Symbols, sleeve : Sleeves, ts : Times, in : Times]
Marks == [tick : {-1} \cup Times, eval : {-1} \cup Times]
TypeOK ==
    /\ now \in Times /\ lag \in {0, 1}
    /\ up \in BOOLEAN /\ paused \in BOOLEAN /\ heldUp \in BOOLEAN
    /\ source \in Sources
    /\ pc \in {"idle", "eval", "evalOpen", "tick", "bucket"} /\ bucket \in Buckets
    /\ ran \in Marks /\ saved \in Marks
    /\ ran.tick <= now /\ ran.eval <= now /\ saved.tick <= now /\ saved.eval <= now
    /\ pc = "evalOpen" => ran.eval \in Times
    /\ pc = "bucket" => ran.tick \in Times
    /\ book \subseteq Positions /\ IsFiniteSet(book)
    /\ past \subseteq [pos : Positions, out : Times] /\ IsFiniteSet(past)
    /\ seen \in [held : SUBSET Symbols, count : [Sleeves -> Nat]]
    /\ decided \in [Buckets \X Times -> Nat]
    /\ late \subseteq Times /\ atTick \in [Sleeves -> Nat]

\* A bucket is decided at most once for a tick or a 15-minute close, over restarts at
\* any point of the selection, the mark and the orders: runtime.py 9470, "a marked
\* tick is never processed again", and 9396 for the closes.
DecidedOnce == \A k \in Buckets \X Times : decided[k] <= 1

\* The decisions follow TickSchedule: each bucket goes forward over its own boundaries,
\* once for each, and no boundary is decided after its grace (random_mode.due_tick: a
\* tick the process was down for is not made up).
Every == [b \in Buckets |-> IF b = "TREND" /\ TrendEvent THEN EvalEvery ELSE TickEvery]
Schedule == INSTANCE TickSchedule WITH every <- Every
ScheduleSpec == Schedule!Spec

\* TREND is decided before WILDCARD at the same tick (runtime.py 15259), over restarts
\* and failed saves, unless the tick had waited its whole deferral for it.
TrendFirst ==
    [][\A t \in Times :
          decided'[<<"TREND", t>>] # decided[<<"TREND", t>>]
             => \/ decided[<<"WC_LONG", t>>] = 0 /\ decided[<<"WC_SHORT", t>>] = 0
                \/ t \in late]_vars

\* A tick fills the slots that were free AT the tick (runtime.py 8914): what it opens,
\* with the positions that were then open and not due, fits the sleeve - also when
\* one of those has closed before the tick is run.
FillsTheTicksSlots ==
    LET t == LastBoundary(TickEvery)
    IN \A k \in Sleeves :
          atTick[k] + Cardinality({p \in book : p.sleeve = k /\ p.ts = t}) <= Slots(k)

Missed ==
    LET t == LastBoundary(TickEvery)
    IN up /\ now - t >= Grace /\ ran.tick # t

\* Waiting never costs a tick: once its grace is over it was processed, if nothing but
\* due positions and the TREND evaluation held it up (random_mode.py, TICK_DEFER_SECONDS).
WaitingLosesNoTick == ~heldUp => ~Missed
=============================================================================
