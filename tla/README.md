# Verification of futuresbot

TLA+ models, TLC runs and TLAPS proofs for the trading runtime in `futuresbot/`. The bot
trades perpetual futures on MEXC from one loop on one thread (two daemon threads only feed it prices and news). What is hard about it is not
the signals but what lies between a decision and its effect: orders whose answer is lost,
positions whose stop must be taken down before they can be closed, a state file that is
saved at some points and not at others, a supervisor that restarts the process at any
instruction, an exchange that closes positions by itself and publishes it late. Those parts
are modelled; the signals are not.

## The system

| component | state | operations | talks to |
|---|---|---|---|
| `FuturesRuntime.run` (`runtime.py` 15166-15317) | the loop's clock and flags | one cycle: Telegram commands, reconcile, refresh, exits, random mode, PMT entry, convex scans, publishers; then the one-second monitor until the next cycle | everything, by calls on one thread |
| order gateway (`marketdata.py`, `place_order` and its lookup) | one `externalOid` per call | send once, read the reply, look an unanswered order up, give up and alert | MEXC; called by every entry and close |
| position guard (`runtime.py` 2640-2800, 6348-7020, 7463-7760) | a position's metadata: `close_failed_*`, `be_stop_*`, `reconcile_miss_since` | exit, force close, breakeven move, stop repair, reconcile, booking | gateway, the state file, the feature store |
| exit rules of the convex sleeves (`runtime.py` 2200-2230, 2890-3060, 5340-5500, 6865-6968) | `convex_peak_r`, `manual_arm_*`, `fx90_armed_ts`, `be_stop_price` | early stop, retention trail, FX90 floor, breakeven, clock, `/arm` | decides; the guard closes |
| book of positions (`runtime.py` 6222-6278, 7760-8020, 8035-8463, 8499-8610, 10990-11330) | `open_positions`, `_preempt_log` | slots, scans, entries, preemption, refresh and `/reconcile` | gateway for entries, guard for evictions |
| state file (`_save_state`, `_load_state`, 5898-5992) | everything above that is persisted | atomic replace, read at start | every component |
| random mode (`random_mode.py`, `runtime.py` 8772-9559) | last tick and last trend eval | select, mark, save, execute per tick | book, gateway |
| Telegram commands (`telegram.py`, `runtime.py` 5502-5760) | update offset, pause flag | fetch, acknowledge, run, start-up sync | guard, rules, book |
| core-strategy entry (`runtime.py` 13071-13230, 13543-13856, 14119-14809, `maker_ladder.py`) | the working order's id, polls, the position it ends in | post, poll, cancel and repost a post-only order; look for a silent fill; market order with a balance guard; confirm; alert | gateway, book, the state file |
| PMT positions in profit (`runtime.py` 1565-2041, 13460-13528, `partial_bank.py`) | the peak, what was banked, the lock stop | bank at 1R and 2R, move the stop to breakeven, lock the peak here and at MEXC | gateway, the state file; the guard closes |
| fair-price websocket (`websocket.py`) | a price table behind a lock, a wanted set behind another | subscribe, receive, reconnect | the one-second monitor; a daemon thread, as is the news fetcher (`_news_worker`, 10685) |
| signals (`strategy.py`, `pmt_strategy.py`, `wildcard.py`, `trend.py`, `squeeze.py`, `sniper.py`...) | none | candles to signal | the scans |
| sizing and risk budgets (`nav_risk_sizing.py`, `risk_controls.py`...) | none, or a drawdown latch | balance and stop to contracts | the entries |
| overlays (events, news, prediction markets, funding, open interest, external veto) | caches | refuse or scale an entry; all fail open | the entries |
| shadow ledger, calibration, learning, replay, backtest | files of their own | offline or advisory | read what the runtime writes |

`PROJECT.json` lists each of them with its status, and each hazard with the line where it bites.

### Where it is hard, and what correct means

* **An order is sent once** (`marketdata.py`, module docstring and `place_order`). A POST may
  land though its reply is lost, or land after the lookup said "not found". Correct: never two
  orders for one call, a success only if the order is on the book, a refusal only if it is not
  and never will be, and an alert for every call given up in between.
* **Cancel-then-close is two calls** (`_close_position_for_exit`). Either may be refused, may be
  executed and not answered, or may be the last thing the process does. Correct: an open position
  at rest has its stop or the flag that brings it back, never two brackets, and the exit that was
  decided happens.
* **The exchange closes positions too**, and shows it in two listings that do not change
  together. Correct: each close is recorded once in the state file; a position leaves the
  book only when MEXC has closed it.
* **The price jumps any distance between two polls**, and five exit rules share one poll. Correct:
  profit that was once protected is not handed back, whatever the order of rules, of `/arm`
  and of peaks.
* **Slots, budget and book are read and used minutes apart**, and the book is only what the bot
  believes. Correct: an entry never overfills its sleeve; what MEXC holds and the book does not
  is either on its way in, or the owner was told; evictions stay in their budget.

## Modules

| module | models | abstract promise |
|---|---|---|
| `OrderGateway` | `MexcFuturesClient.place_order`, `_resolve_unanswered_order`, `_on_order_unresolved`, the exchange's book | `AtMostOnceOrder` |
| `PositionGuard` | one live position after entry, call by call | `TradeLedger` |
| `RetentionTrail` | when a convex position is closed by software | - |
| `ConvexBook` | which positions there are | - |
| `RandomTick` | when random mode decides entries, and on which book | `TickSchedule` |
| `TelegramUpdates` | which owner commands are run, in what order and how often | `CommandQueue` |
| `PmtEntry` | one live entry of the core strategy, call by call | - |
| `PmtRunner` | a PMT position from its entry to its close: bank, breakeven, lock | - |

`AtMostOnceOrder`, `TradeLedger`, `TickSchedule` and `CommandQueue` are the abstract specifications. Each `MC...` module
only fixes constants; each `...Proofs` module holds the theorems about the module it is named for.
`PROJECT.json` "map" gives, for every definition, the lines it stands for.

How they fit: `ConvexBook` takes one order call as a step with the outcomes that `OrderGateway`
shows it to have (taken, refused for good, unanswered and possibly landing later), and one close as
a step with the outcomes of `PositionGuard` (closed, failed and still open, closed and not known, accepted and not filled). `PositionGuard`
takes its exit reasons as given; `RetentionTrail` says when one arises. `RetentionTrail` takes each
close as a step that may fail and is asked again, and that ends what it is about, the bot's watch over the position, when it is accepted. In random mode `RandomTick` stands where the scans of
`ConvexBook` stand otherwise (`run` calls one or the other); its exits are the closes of the other two.
What `ConvexBook` takes as one entry step, with its order, its confirmation and its alert, `PmtEntry` takes call by call for the core strategy, whose position then is `PmtRunner`'s.
`PmtRunner` is to a PMT position what `RetentionTrail` is to a convex one, with the calls that it makes itself, those of its close included. A `/close`, `/arm` or `/reconcile`
that `TelegramUpdates` runs once is an action of `PositionGuard`, `RetentionTrail` and `ConvexBook`.

### OrderGateway

A call carries a fresh `externalOid`. `flying` counts requests on the wire, `book` and `landings` are the
exchange's side, `reply` the answer on its way back. The client goes idle, "post", "lookup". The
exchange takes or turns down a request, or answers with an uncertain server error
(`_MEXC_UNCERTAIN_CODES`); requests and replies are lost; an order is matched, partly
matched or cancelled. `OrderPostTries` is the number of POSTs a call makes: one.
`alertAge` is `_telegram_alert_timestamps` for the three verdicts, as an age.

### PositionGuard

The exchange: `xOpen`, `resting` (brackets: 0, 1, more), `row` (its closed row: none, owed, published),
`absent`, `inflight` (a close nobody answered). The process: `up`, `pc`, `job`, `why`. The
position's metadata twice, in memory (`mem`) and in the file (`disk`): a crash keeps `disk`.
Times are ages, capped where the code stops distinguishing them; one tick is 60 s. Every remote call
and every file write is a step; the exchange, the clock and the supervisor run in between. The
constant `Faults` says what may go wrong in a run; the runs of this module allow all ten, and differ in their handlers. One of them is a close order that MEXC accepts
and that ends canceled or part filled: the code looks at neither and books, clears and saves the position all the same (`CloseUnfilled`).
Every position has an exchange id: the one drop that needs none (6796-6812) is left out, because a convex entry is registered only with the id of its
row (11264-11277), and an entry of the core strategy, a refreshed and an adopted position take theirs from a listed row.
Four ghosts name what the code cannot make good. `excused`: a bracket that the code accepts as a second one.
`exposed`: the bracket went in a way that leaves no flag in the file (an owner's or a lost cancel, a death between the cancel and the close or
before the flag was saved); it ends when a bracket rests again or the position is gone. `doubted`: a listing left out a position
that MEXC held, or the history had no row of it, and no listing has shown it since; under it the reconcile may drop what is still open.
`unfilled`: a close is being booked, or was, whose order left the position open; it is the one other way in which a position that MEXC holds leaves the file.

### RetentionTrail

`r`, `peak` and `anchor` count steps of R; floors and costs count hundredths of a step, so that a
share of p per cent of a peak of n steps is exactly n * p and no rounding enters. `Poll` is one call of
`_hourly_exit`, with its order of rules and early returns; `PriceMoves` goes anywhere in the range;
`Arm` is `/arm` with its quote, its refusals and its stamps.

### ConvexBook

`held` and `flying` are the exchange; `book` is `open_positions` with the sleeve the code would
read off each entry; `file` its saved copy. A scan is `StartScan` (which counts), then per candidate `Enter`,
`Preempt` or `NothingToEvict`, `OrderTaken`/`OrderRefused`/`OrderRaises`, `Confirmed`/`Unlisted` and the
save. Closes that fill are `Closes`; `DropsHeld` is the close that was accepted and did not fill, and the reconcile that drops what listings
left out for a whole grace. An eviction is `Preempt` (charged, filled or not) or `EvictsUncharged` (filled, but the answer or the price read is lost: the call
raises, and the victim stays in the book for the reconcile). Ghost variables record the positions the scan found, what its orders opened, the
evictions MEXC carried out, and, of the symbols in doubt, those the owner was told of and those `missed`: lost sight of in one of the four ways that
`KnownOrTold` names. A symbol is in doubt while MEXC holds it untracked or an order for it may land; both are forgotten when that ends.

### RandomTick

`now` counts units of five minutes, the longest sleep between two cycles; `lag` makes a cycle begin in each. A cycle is
`StartCycle` (the exits), the trend evaluation (`Eval...`), the tick (`Tick...`) and the three
buckets (`Bucket...`); selection, mark and save are one step, each order is one. `ran` is the marks in memory, `saved`
the file's. `past` is the trade history, cut to what the latest boundaries can still count. The trend source is chosen once, as the
deployment does. Which candidate ranks first is open; an order opens a position or does not. A position
that leaves the book without a record (a dropped one) is not in `past` in the code either, and not modelled here.
The ghosts: `decided` counts decisions per bucket and boundary, `late` the ticks run after
their deferral, `atTick` the slots in use at a boundary, `heldUp` whether anything but waiting held the tick up
(a cycle ended by a close that raised; or downtime, a pause, a failed selection or save, a slow order). A save that fails marks the tick in memory only: it is not run again.

### TelegramUpdates

`sent`, `cmd` and `confirmed` are the queue at Telegram: the updates so far, what they say, and the last one it has forgotten, because it was asked
with an offset beyond it. `mem` and `disk` hold the bot's offset and its pause flag, in memory and in the file. A poll is `StartPoll`, then batches: `Fetch`, one step per update (`SkipStale`, `SkipOther`,
`RunToggle`, `RunSaving`), `EndBatch`, and at the end `Ack` and `Save`; more batches than the cap lead to the forced sync.
A start is `Boot` and the start-up sync. Each call to Telegram may be lost before or after it took effect. An update says pause, resume,
a command that saves the state, or something else. Ghosts record which commands ran, whether one ran twice, the owner's last word on pausing that was
run, and a start-up sync that could not read the queue.

### PmtEntry

`pos` is what MEXC holds of the symbol on the entry's side, `order` the order whose id the code knows, `loose` what orders it let go of can still deal,
`adrift` what orders without an answer can still become. `mem` and `file` are the contracts on the book. `mode` is what the two ladder flags make of `_attempt_maker_ladder`: not on; on, but passed by for the core
strategy, where only the look for a silent fill remains (the default of `main.py`); on. An entry is `StartEntry` (everything up to the first order; a refusal changes nothing), the ladder (`Quote`,
`Lookup`, `Decide`, `Cancel`, `Post` and their failures), `Orphan`, the market order (`TakerAccepted`, `TakerShrinks`, `TakerFails`), and `Confirm` or, after the last attempt, `Unconfirmed`.
MEXC deals and ends orders between any two of these. `told` says that the owner was sent an alert, `slip` that the code let go of an order or a position by a failed read, a failed cancel or a crash: the exceptions of the two properties. Both are
cleared when an entry starts from a clean symbol. A market order deals at once: what it does not take is gone.

### PmtRunner

Prices are profit levels, so that long and short are one model. `held`, `stops` and `target` are MEXC; `mem` and `disk` the position in
memory and in the file. A poll is `Poll` (which raises the peak), then, at a rung, `Bank`, and for the first rung the swap
(`SwapCancel`, `SwapPlace`) and `BankSave`; then `LockPlace` if a lock stop is to be placed and no refusal is less than 30 s old, and `Decide`, which saves or closes. `PollLatched` is the retry of a
close that failed, after its backoff. A close is three calls: `closeCancel` (which raises out of the poll if it fails, whatever MEXC did), `closeOrder`
(accepted and taken for a full close, accepted and not read, or raised) and, after a raise, `closeRestore` at the stop the exchange should hold; if that
fails too the position is flagged, and `Repair` is the monitor's work on the flag. The price, MEXC's stops and a crash act between any two calls; a crash and the start after it are one step, since
the price moves before and after it. Orders fill, end part filled or end canceled, and the book does not look.
`contracts` and `banked` are the book's; the ghost `short` counts what accepted banks left unfilled, and `unfinished` says that one of the seven failures named at `StopBacked` left the bracket
down or loose without a flag; it ends when a bracket is put back, the position is flagged or forgotten.
A position starts as an entry leaves it, or as `/reconcile` adopts it, with a breakeven stop past its entry (`be_stop_price`), which a bank then may not loosen (1707-1711) and a refused close puts back.

## Runs

| run | configuration | checks | shows |
|---|---|---|---|
| order_gateway | `MCOrderGateway.cfg` | `NotFilledHoldsNothing`, `AtMostOnceSpec`, `UnresolvedIsAlerted` | Two order calls in a row, every loss and delay of request, reply and lookup: the gateway is an at-most-once call, a call given up is alerted, and what is reported unfilled stays so. |
| guard_stops | `GuardStops.cfg` | `TypeOK`, `ProtectedAtRest`, `SingleBracket`, `BackoffKeepsStop`, `StopComesBack` | Exits, forced closes, breakeven moves and repairs against every fault, restarts between any two steps among them: between handlers an open position has a stop or the repair flag, never two brackets, a backoff keeps the restored stop, and a stop that is gone comes back, but where the bracket went in a way nothing makes good. |
| guard_ledger | `GuardLedger.cfg` | `NoCloseIsLost`, `LedgerSpec`, `DecidedExitHappens`, `ClosedIsBooked` | Exits, preemptions and the reconcile with a restart between any two steps and every fault, blank listings among them: each close is recorded once in the state file, no position leaves it before MEXC closed it but under a doubt no listing has cleared or by a close that was accepted and did not fill, a decided exit happens but for those, and a closed position leaves the book. |
| trail_safe | `TrailSafe.cfg` | `TypeOK`, `RetentionHolds`, `QuotedFloorFires`, `FloorNeverFalls`, `ClockCloses` | Over every price path, arm moment and giveback: built profit is never handed back unseen, the quoted floor fires, and no rule lowers the level at which the position closes, and the clock closes what is left. |
| book_slots | `BookSlots.cfg` | `KnownOrTold`, `RestartKeepsTheBook`, `EntryWithinSlots`, `OrphanRecovered` | With unanswered entry orders that land late, closes that are accepted and do not fill, listings that leave a position out and restarts anywhere: no entry overfills a sleeve beyond what the scan found, no restart forgets a position the refresh would not find, a lost position of a configured symbol is tracked again, and a position goes unseen only in one of four named ways. |
| random_tick | `TickOnce.cfg` | `ScheduleSpec`, `FillsTheTicksSlots`, `WaitingLosesNoTick`, `TrendFirst` | Under every trend source, with crashes, pauses, failed reads and saves, stuck closes and slow orders: decisions go forward over each bucket's boundaries, once for each and none after its grace, TREND goes first, a tick fills only the slots that were free at it, and waiting costs no tick. |
| telegram | `Telegram.cfg` | `CommandsSpec`, `PauseStands`, `PassedIsHandled`, `QueueDrains` | Three updates of any kind, sent and lost at any time, with restarts at every step of a poll and of the start-up sync: commands run in the order they were sent and none twice, a pause survives, no offset runs ahead of a command, and the queue is drained. |
| pmt_runner | `PmtRunner.cfg` | `TypeOK`, `BooksAddUp`, `StopBacked`, `PeakOutlivesRestarts`, `RungIsBanked` | A position of three contracts, a third of it banked at a rung, under the low-tier lock, entered or adopted on a breakeven stop, any price path, every fault and restart between any two calls: the book counts fewer contracts than MEXC holds only by what accepted banks left unfilled, an open position has a stop as tight as the one it should hold or a flag, but for seven named failures, the lock's peak outlives restarts, and what stays above 1R is banked. |
| pmt_entry | `PmtEntry.cfg` | `EntryAnswered`, `TakerAlone` | Entries of up to three contracts in all three modes of the ladder, with part fills, refused and unanswered orders, failed cancels and reads and restarts: an entry leaves its position on the book at MEXC's size, or an alert, or nothing, and no market order goes out on top of a fill, but for the failures the model names. |

Runs that end in a violation check a sentence of a comment or of the docs that the code
does not keep; the finding in `PROJECT.json` quotes it.

| run | property | what the code does |
|---|---|---|
| book_budget | `EvictionBudget` | _save_state writes preempt_log and _load_state (5898-5951) never reads it, so every restart starts with an empty log. docs/DECISION_RULE.md:4679 says "a redeploy reset it; a crash-loop granted unlimited evictions. Now persisted in the state file"; tests/test_trial6.py:1673 checks only that the source of _save_state names the key. (src/futuresbot/runtime.py:5967) |
| book_one_entry | `OneEntryPerScan` | _open_wildcard_position takes a position that one read does not list for an order that did not fill (11264-11278) and returns None, whereupon the scan tries its next candidate (8453-8460): MEXC then holds two positions of one scan, the first of them untracked. docs/DECISION_RULE.md:3047 gives the limit as "/ one per pass / at most one entry per scan / — / 450s / 900s / — /". (src/futuresbot/runtime.py:11276) |
| pmt_lock_lost | `LockUnchangedByBank` | The first bank replaces the bracket with cancel_all_tpsl (1718), which takes every stop of the position down, also a lock stop that _place_pmt_exchange_profit_lock_stop put there after an earlier try of the bank was refused; the place that follows (1719) puts back only breakeven and target, and the lock stop is not placed again until the peak has risen by a tick, because the metadata still names it (13497). runtime.py:1735 tells the owner "Runner continues — TP/lock unchanged", and the docstring at 1637 says "The resting position-level TPSL stop is intentionally NOT cancelled". (src/futuresbot/runtime.py:1718) |

### Bounds, and why they are enough

* `OrderGateway`: two calls, so that a late order of the first meets the second and the alert's
  cooldown is met both running and over; three lookups as in the code (`_ORDER_LOOKUP_ATTEMPTS`).
* `PositionGuard`: one position, because no handler of it reads another one. `Backoff` and `Retry` of
  one tick and a `Grace` of two are enough for "inside", "at" and "beyond" each limit; `Lag` is shorter than
  `Grace`, as the code assumes of MEXC (with a longer lag a drop may lose a record, which the
  ledger allows by name). One exit reason is enough: a latch is asked for, never compared; the theorems hold for any number.
  Both runs have every fault. They differ in their handlers (forced closes and breakeven moves; preemption and the reconcile), which
  multiply without meeting; the theorems hold for every set of handlers. In runs without liveness their two inductive invariants, `LedgerInv` and `ProtectInv`, were model-checked with all handlers too before they were proved.
* `RetentionTrail`: half an R is a step, from the stop at -1R to +4R, beyond the ratchet at 3R and the
  FX90 arm at 2R; three ticks tell inside the early window, after it and the clock's end.
  The live values of arm, ratchet, retention and FX90 are used as they are.
* `ConvexBook`: three symbols, two that compete for the WILDCARD slot and a configured one that TREND and PMT share; one slot a sleeve, except in
  `book_one_entry`, where two positions of one scan are the point; all four faults in one run; a budget of one eviction and a day of one tick, so that an eviction expires within a run.
* `RandomTick`: the code has a tick every 6 or 12 hours, an evaluation every 15 minutes, a grace of 15 minutes and
  a deferral of 10. The run keeps what matters of that: evaluations divide ticks, the deferral is shorter than the grace, the grace no
  longer than the distance of two evaluations, and a position's clock is a whole number of ticks. One slot per
  sleeve makes every wrong count show; the horizon lets positions of tick 0 be due at the next tick and seen beyond its grace.
* `TelegramUpdates`: three updates, batches of one and a cap of two batches: enough for a second batch, a full one, and a backlog that outlives the poll; what happens between two updates of one batch happens between two batches too.
* `PmtEntry`: three contracts, so that an order can be filled in part twice and the guard can cut it; three polls, so that an order is posted, replaced and replaced again; two attempts of the guard and of the confirmation; an entry starts with at most two contracts off the book.
* `PmtRunner`: three contracts of which a rung banks a third (`FUTURES_PMT_STOP_FIRST_PARTIAL_BANK_FRACTION`), so that both rungs can be banked, a bank repeated after an unanswered order, and a
  close part filled; a bank there is one contract, filled or not; part filled banks of more are left to the proofs, which hold for any size and share (`pmt_lock_lost` has four contracts and the default half). Half an R is a level, from beyond the stop
  to the target; an adopted position rests on breakeven; the lock is the low tier's (armed below 1R, 30 per cent given back), because there lock and bank meet.

### Fairness

* `OrderGateway`: none; its properties are safety, for a client and an exchange that may stop anywhere.
* `PositionGuard`: the supervisor restarts the process, the clock runs, MEXC publishes a closed row at some time,
  and a handler that began goes on (weak). Strong fairness of the calls the loop repeats: a cancel, a close or a placement that is
  tried again and again succeeds at some time (a cancel wherever in the code it is called), a latched exit is asked again on every poll, and the reconcile
  gets through between crashes. Without it the exchange may refuse for ever, and then no code can close anything.
* `RetentionTrail`: the monitor polls, time passes, an attempted close succeeds at some time.
* `ConvexBook`: a scan that began goes on; the refresh of a configured symbol, which runs on every cycle, gets through at some time.
* `TelegramUpdates`: the loop polls for ever and a step of a poll is followed by the next (weak); a fetch asked again and again is answered at some time (strong).
* `PmtRunner`: a poll that began goes on (weak). The monitor polls once a second for ever, a cancel, placement or order that is repeated is answered at some time, and filled, and
  not every poll is interrupted by a crash (strong, on `Poll`, `PollLatched`, the first bank, the steps of the swap, and the cancel and the order of the close).
* `PmtEntry`: none; its properties are safety, for executions that may stop anywhere.
* `RandomTick`: none; its properties are safety, and the clock of the model stops at `Horizon` (hence no deadlock check).

## Proofs

TLAPS proves the following for every value of the constants that the modules' assumptions allow. `tlapm`
checks every leaf; nothing is assumed beyond the named `ASSUME`s, which TLC evaluates in every run.

| theorem | module | says |
|---|---|---|
| `GatewayIsAtMostOnce` | `OrderGatewayProofs` | for every set of calls, number of lookups and alert cooldown, place_order is an at-most-once call: no second order, success only for an order on the book, a refusal only for one that never lands |
| `GatewayTypeOK` | `OrderGatewayProofs` | requests, replies, lookups and alert ages keep their ranges for any number of calls and lookups |
| `GivenUpIsAlerted` | `OrderGatewayProofs` | for every cooldown, a call that is given up has its verdict alerted, now or within the cooldown |
| `NotFilledMeansNothing` | `OrderGatewayProofs` | a call reported as ended without a fill holds nothing, then or later |
| `GuardTypeOK` | `PositionGuardProofs` | every attempt, age and count stays in its range for every backoff, grace, attempt limit, handler set and fault set |
| `CloseNeverLost` | `PositionGuardProofs` | with closed rows published inside the grace, no sequence of handlers, faults and restarts loses a close or records it twice, unless the grace was started by a listing that left out a held position |
| `FileImplementsLedger` | `PositionGuardProofs` | for every grace, publishing delay, handler set and fault set the state file implements TradeLedger: a position leaves it once, recorded after the exchange closed it or took a close that it did not fill, and unrecorded only after the whole grace or under a doubt no listing has cleared |
| `StopOrFlagAtRest` | `PositionGuardProofs` | for every backoff, grace, handler set and fault set, restarts included, a position at rest has its stop or the flag that restores it, unless its bracket went in one of four named ways |
| `BracketIsSingle` | `PositionGuardProofs` | without preemption two brackets rest only in the cases the code accepts, for every set of faults |
| `BackoffSparesTheStop` | `PositionGuardProofs` | no retry takes a restored stop down during a backoff unless the close is forced, for every handler set and set of faults |
| `TrailTypeOK` | `RetentionTrailProofs` | peak, anchor, price and marks stay in their ranges for every arm, ratchet, cost and giveback |
| `ProfitIsNeverGivenBack` | `RetentionTrailProofs` | for every sleeve whose costs fit under its arm, no polled price at or below entry after a peak at the arm, or an /arm, leaves the position undecided |
| `QuoteIsKept` | `RetentionTrailProofs` | the floor quoted by /arm stays live and is never undercut, for every retention, ratchet, cost and giveback |
| `FloorsNeverFall` | `RetentionTrailProofs` | over all rules together the closing level of a position never falls, for every retention, ratchet, cost and threshold |
| `BookTypeOK` | `ConvexBookProofs` | held, book, file, log ages and scan state keep their ranges, for every set of slots, symbols and faults |
| `EntryKeepsSlots` | `ConvexBookProofs` | for every number of slots and symbols, an entry leaves its sleeve within its slots or no fuller than the scan found it |
| `PositionsKnown` | `ConvexBookProofs` | with any faults every exchange position is tracked, told of, being confirmed, or was lost sight of in one of four named ways |
| `RestartKeeps` | `ConvexBookProofs` | between scans the file lacks only what the refresh adopts again |
| `TickTypeOK` | `RandomTickProofs` | marks, positions and counts keep their ranges, for every cadence, grace, deferral and clock |
| `TicksDecidedOnce` | `RandomTickProofs` | no bucket is decided twice for a tick or a close, whatever crashes, pauses and failed saves |
| `DecisionsFollowSchedule` | `RandomTickProofs` | for every cadence, grace, deferral and set of faults the decisions implement TickSchedule: forward over each bucket's own boundaries, once for each, none after its grace |
| `TrendGoesFirst` | `RandomTickProofs` | TREND is decided before WILDCARD at every tick that did not wait its whole deferral |
| `WaitingIsFree` | `RandomTickProofs` | waiting for due positions or for TREND costs no tick, for every cadence and every grace longer than the deferral |
| `TicksFillTheirSlots` | `RandomTickProofs` | a tick never fills more slots than were free at it, for evaluations that divide the ticks and a grace no longer than their period |
| `UpdatesTypeOK` | `TelegramUpdatesProofs` | queue, offsets and poll keep their ranges, for any number of updates, batch size and batches |
| `CommandsRunOnce` | `TelegramUpdatesProofs` | no command runs twice over any restarts, as long as every start-up sync could read the queue |
| `CommandsInOrder` | `TelegramUpdatesProofs` | for any number of updates, batch size and cap and every set of faults the run commands implement CommandQueue: in the order they were sent, each at most once, until a start-up sync cannot read the queue |
| `PauseOutlivesRestarts` | `TelegramUpdatesProofs` | the pause flag is the owner's last word over any restarts outside a poll |
| `PassedUpdatesAreHandled` | `TelegramUpdatesProofs` | no offset, in memory or at Telegram, passes a command that was to be run before it has run, for any batch size and cap |
| `RunnerTypeOK` | `PmtRunnerProofs` | price, stops, metadata and file keep their ranges for every size, share, lock rule and set of faults |
| `BooksAlwaysAddUp` | `PmtRunnerProofs` | whatever is refused, unanswered, unfilled or interrupted, memory and file count every contract once, and fewer than MEXC holds only by what accepted banks left unfilled |
| `PeakNeverForgotten` | `PmtRunnerProofs` | for every price path, every fault and every restart between polls a recorded peak above its lock does not fall, whatever the lock rule is |
| `StopAlwaysBacked` | `PmtRunnerProofs` | for every lock rule, set of adopted stops and set of faults, an open position at rest has a stop at least as tight as the one it should hold or the flag that restores it, but for seven named failures |
| `EntryTypeOK` | `PmtEntryProofs` | orders, counts and polls keep their ranges and no order deals more than it asked for, for every volume, poll and attempt limit, mode and set of faults |
| `EntriesAnswered` | `PmtEntryProofs` | an entry ends on the book, in an alert or with nothing, but for the failures named, for every volume, mode and number of polls and attempts |
| `TakerGoesAlone` | `PmtEntryProofs` | with the same exceptions no market order is sent while MEXC holds a position or another order can deal |

How they go:

* `GatewayIsAtMostOnce` is a refinement. `OneOrderInv` says, of each call, which combinations of request, book entry,
  reply, client step and outcome can be: a request on the wire means nothing has landed, the client reports "placed" only with
  an order on the book, and a refusal only with neither order nor request. Every step then is a step of
  `AtMostOnceOrder` or a stutter.
* `GatewayTypeOK`, `GivenUpIsAlerted` and `NotFilledMeansNothing` use `CountInv`: a lookup starts at nought and goes on only below its limit.
* `CloseNeverLost` and `FileImplementsLedger` rest on `LedgerInv`, which adds to the goal what each step of a
  close knows: after the close has filled, and until it is saved, MEXC no longer holds the position; a record in memory
  that is not in the file belongs to a close that is not yet saved; a miss marker is as old in the file as in memory, and on a position MEXC holds it
  means a doubt; a drop waits for the grace. Both hold with every fault. A listing that leaves out a held position is allowed for in what they state: `TradeLedger` has a
  step for the doubt it leaves and one that clears it, and drops early only in between. `CloseNeverLost` needs `Lag < Grace`: the code's grace supposes
  that a row is published within it. The refinement does not, since the ledger lets a drop come before the row.
* `StopOrFlagAtRest`, `BracketIsSingle` and `BackoffSparesTheStop` rest on `ProtectInv`, `BracketInv` and `StopInv`. `StopInv` says which
  work each step belongs to, and that a close that cancels was let through by the backoff; `BracketInv` that no bracket rests when one is placed;
  `ProtectInv` that outside the steps that swap or lift the stop a bare position is flagged or `exposed`, and that a file without the flag is one that a restart
  may not load as protected. The first and the last assume nothing of faults and handlers; the
  second assumes no preemption among the handlers: with it the model does reach two brackets (see below).
* `ProfitIsNeverGivenBack` and `QuoteIsKept` rest on `TrailInv`: the type, `ManualInv` (an arm's anchor is positive and no higher than the
  peak) and `PolledAbove` (a price the monitor has seen and not closed at is above the floor in force). The lemmas under
  them are about the floor: it is monotone in the peak and in the share, and never above the peak while the trail is live.
* `FloorsNeverFall` uses `TrailInv` again and goes part by part: in every step the stop with its breakeven move, FX90 and the trail each keep or raise their level, so that the highest of them does.
* In `ConvexBookProofs` each claim has an invariant of its own: `SavedInv` (outside a save the file lacks only
  what the refresh adopts again), `KnownInv` (what is in doubt has been told or named, an order in flight included), `SlotInv` (what the scan counted bounds
  the sleeve until the entry). None excludes a fault. The budget and the one entry per scan are not theorems: two violation runs show what breaks them.
* `TicksDecidedOnce` rests on `OnceInv`: nothing has been decided that the file does not have marked. `DecidedOnce` alone is not inductive, because
  a crash replaces what memory knew by the file. `TrendGoesFirst` adds `FirstInv`: a WILDCARD decision for a tick has the mark of that
  close's evaluation behind it, in the file, or the tick is a late one.
* `DecisionsFollowSchedule` is a refinement: of the decisions `TickSchedule` sees only the counts, under a clock and a period per bucket. It uses `OnceInv` (nothing at or after the boundary
  whose turn it is has been decided) and `TurnInv`: that boundary is a multiple of its period, and it is within its grace, or a unit beyond if the clock has moved in this cycle, which `lag` says.
* `WaitingIsFree` rests on `WaitInv`: a tick that is due and still waits was held up no longer than its deferral, or by a cycle that raised. It needs 0 < Defer < Grace.
* `TicksFillTheirSlots` rests on `FillInv`. It says that the book never holds two positions of one symbol; that a symbol which was on the book at a boundary and has left it
  since is not taken by anything else before that boundary's tick is run; and that nothing leaves the book while an order is under way. With
  these the positions a tick adds are at most the slots free at it. It needs a grace no longer than the period of the evaluations and evaluations that divide the ticks
  (`Grace <= EvalEvery`, `TickEvery % EvalEvery = 0`), which is what the settings of random_mode.py (81, 93-102) are: 15 minutes each, and ticks of 6 or 12 hours.
* In `TelegramUpdatesProofs` `CommandsRunOnce` rests on `OnceInv` (what has run is behind the offset, in memory or at Telegram, once the start-up sync has read the queue), and so does the refinement `CommandsInOrder`: what is taken up lies beyond both offsets, so beyond all that has run;
  `PauseOutlivesRestarts` on `PauseInv` and `FileInv`, and `PassedUpdatesAreHandled` on `HandledInv`: a batch has no gaps, so that an offset behind it passes nothing unseen.
* `EntriesAnswered` and `TakerGoesAlone` rest on one invariant: the types; that the code has no order of its own between entries, before a post, at the look for a fill and before the market order; and that
  without an excuse nothing was let go, what is held between entries is on the book, and nothing is held when a market order is about to be sent.
* In `PmtRunnerProofs` `BookInv` adds to the goal that a rung about to be banked has not been, and that what MEXC holds beyond the book is what banks left unfilled (`short`); an order that is taken and not heard of only lowers what MEXC holds. `PeakInv` says that the file's peak is memory's, or the poll has raised it and will save it,
  or the position closes at a lock no lower than its peak, where nothing is saved first and which the property leaves out by name; nothing is assumed of the lock rule. `StopInv` follows the bracket through the swap, the close, the restore and the repair: where it is not down, a stop rests at `Effective` or beyond.

The type invariants of `OrderGateway`, `ConvexBook`, `RandomTick`, `TelegramUpdates` and `PmtEntry` are proved and not repeated in a run.

Only model-checked: the liveness properties (`DecidedExitHappens`, `ClosedIsBooked`, `StopComesBack`, `ClockCloses`,
`OrphanRecovered`, `QueueDrains`, `RungIsBanked`), because fairness is out of the prover's reach. Every other property of a passing run is a theorem.

Further behaviour the models show without a run of their own: a
read that fails (6786, 6816) leaves the miss marker of the reconcile standing, so that one blank listing, failed reads and another blank drop a position MEXC still holds, against the comment at 6742;
a close whose cancel is refused (7611) or whose stop cannot be restored (7632) raises out of the exit loop, is not latched for the backoff, and can cost random mode its tick, against random_mode.py:96;
two sleeves may enter one symbol in a cycle when a read does not list the first position; the start-up sync of Telegram drops pending commands (5751), where the comment at 5700 keeps them,
and with a saved offset above Telegram's numbering and an empty queue at the start the bot stays deaf (5731); a quote or an order read that raises leaves the maker ladder with its order resting (13228), and a failed look for a silent fill counts as none (14611), so that the market order may go out on top, against the comment at 14600;
a post-only order that fills between a poll and its cancel is posted again at full size, and the position is larger than the sizing asked for; an accepted close that ends canceled or part filled clears and saves the position all the same (7645-7647), so that a decided exit is dropped with the position open, against the comment at 6870 ("delayed, never dropped"), and an accepted bank that does not fill is booked in full;
an eviction whose answer or price read is lost (7641) frees a slot that nothing charges; the low tier's lock floor is the larger of a share of R and a multiple of the fee (1585), and with a tight stop and high leverage lies above the level that arms it, so that the lock closes as it arms and the peak is not saved before that close (`PeakOutlivesRestarts` leaves it out by name); a cancel before a PMT close that raises (7611) is neither restored nor flagged, and if MEXC took it the position is bare;
a PMT bank that MEXC took and did not answer is banked once more; a swap to breakeven whose
place is refused leaves the runner bare and unflagged (1725); a restart between the cancel and the close leaves a position bare until the next exit or repair; the flag of a bare stop can
be lost with the memory that held it (the cases of `exposed`); a convex entry that one listing leaves out counts as unfilled (11264), and the scan enters the next candidate, against docs/DECISION_RULE.md:3047; the
early stop closes ahead of the trail's floor; a preemption whose close is refused restores the stop twice (7632, 7965), against the comment at 2738;
`/arm` judges its floor against the retention rule and not against an armed FX90 floor, against the comment at 5400; `/reconcile` adopts a TREND position as WILDCARD; a preemption's entry can
land in a sleeve that has filled meanwhile.

## Not modelled

Signals, sizing and overlays are arithmetic on floating-point series; their answers are left free where a model needs
them. Replay, backtest, calibration and the tools run offline. Squeeze and sniper scans have the shape of the
wildcard scan and are off by default. Of the PMT exits, the micro, mid-profit and breakeven locks and the momentum rules
of `exits.py` need settings other than the live ones. Messages to the owner count as delivered when sent. Multi-account operation
is a design document; the code has one account.

## Plan

1. Fair-price table: the websocket thread and the monitor. Property: a price used for an exit is no older than its limit, for the symbol that is asked.
2. Shadow ledger: append, resolve and rewrite against a restart.
3. The second restore of a refused preemption (7965): a run of its own for the two brackets it can leave.
