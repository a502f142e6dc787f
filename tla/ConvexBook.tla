----------------------------- MODULE ConvexBook -----------------------------
(* The book of open positions (futuresbot/runtime.py): how the WILDCARD and   *)
(* TREND scans and the PMT entry fill their slots, how a preemption frees     *)
(* one, what MEXC holds that the book does not, and how such a position is    *)
(* adopted again.  Closing one position, call by call, is PositionGuard; one  *)
(* order call is OrderGateway: here each is a step with its outcomes.         *)
(*                                                                            *)
(* The scan loop is one thread, but each remote call in it is a step: the     *)
(* exchange moves, an unanswered order lands, and the process is restarted    *)
(* between any two.                                                           *)
EXTENDS Integers, FiniteSets

CONSTANTS
    Symbols,
    Configured,      \* config.symbols: the PMT symbols, adopted without asking
    TrendSymbols,    \* FUTURES_TREND_SYMBOLS and the rotating one
    WildcardSymbols, \* the scanned universe, majors taken out
    Slots,           \* FUTURES_WILDCARD_MAX_POSITIONS, ..TREND.., max_concurrent_positions
    MaxCandidates,   \* FUTURES_WILDCARD_MAX_CANDIDATES
    Cap,             \* FUTURES_WILDCARD_PREEMPT_MAX_PER_DAY
    Day,             \* 24 h, in ticks
    Faults           \* which of AllFaults may happen

Sleeves == {"WILDCARD", "TREND", "PMT"}
AllFaults == {"unanswered", "blankRead", "closeUnfilled", "crash"}

ASSUME BookAssumption ==
    /\ IsFiniteSet(Symbols)
    /\ Configured \subseteq Symbols /\ TrendSymbols \subseteq Symbols
    /\ WildcardSymbols \subseteq Symbols
    /\ Slots \in [Sleeves -> Nat]
    /\ MaxCandidates \in Nat /\ Cap \in Nat /\ Day \in Nat \ {0}
    /\ Faults \subseteq AllFaults

VARIABLES
    held,            \* the symbols MEXC holds a position in
    flying,          \* entry orders nobody answered, which may still land
    book,            \* open_positions in memory: the sleeve _sleeve_kind reads, or "none"
    file,            \* ... and in the state file
    pc, sleeve,      \* the step of the scan or entry that runs, and its sleeve
    todo,            \* its candidates still to be tried
    cand,            \* the candidate being entered, or "none"
    needSlot,        \* preempt_needed
    preemptLog,      \* _preempt_log: the age of each charged eviction; Day: none, or expired
    evictions,       \* the same for every victim MEXC closed, charged or not
    before,          \* positions its sleeve had when the running scan began
    opened,          \* where the running scan's orders filled
    told,            \* symbols in doubt the owner was told to look at on MEXC
    missed           \* symbols in doubt the code lost sight of: see KnownOrTold

exchange == <<held, flying>>
scan == <<pc, sleeve, todo, cand, needSlot>>
ghosts == <<evictions, before, opened, told, missed>>
vars == <<exchange, book, file, scan, preemptLog, ghosts>>

Charges == 0 .. Cap      \* one more than the budget allows

Init ==
    /\ held = {} /\ flying = {}
    /\ book = [s \in Symbols |-> "none"] /\ file = [s \in Symbols |-> "none"]
    /\ pc = "idle" /\ sleeve = "none" /\ todo = {} /\ cand = "none" /\ needSlot = FALSE
    /\ preemptLog = [i \in Charges |-> Day] /\ evictions = [i \in Charges |-> Day]
    /\ before = 0 /\ opened = {} /\ told = {} /\ missed = {}

May(fault) == fault \in Faults
Tracked(s) == book[s] # "none"
OpenCount(b, k) == Cardinality({s \in Symbols : b[s] = k})
Recent(ages) == {i \in Charges : ages[i] < Day}
Charged(ages) ==
    IF Recent(ages) = Charges THEN ages
    ELSE [ages EXCEPT ![CHOOSE i \in Charges \ Recent(ages) : TRUE] = 0]

\* What the owner was told and what was lost sight of count while the symbol is in
\* doubt: MEXC holds it and the book does not, or an order for it may still land.
InDoubt == flying \cup {s \in held : ~Tracked(s)}
Noted(tellings, losses) == /\ told' = tellings \cap InDoubt'
                           /\ missed' = (losses \ told') \cap InDoubt'

Universe(k) == CASE k = "WILDCARD" -> WildcardSymbols
                 [] k = "TREND" -> TrendSymbols
                 [] k = "PMT" -> Configured

-----------------------------------------------------------------------------
(* MEXC, the clock and the supervisor *)

\* A stop, a target, a liquidation, or the owner on MEXC.
ExchangeCloses(s) ==
    /\ s \in held /\ held' = held \ {s}
    /\ UNCHANGED <<flying, book, file, scan, preemptLog, evictions, before, opened>>
    /\ Noted(told, missed)

LateOrderSettles(s) ==
    /\ s \in flying /\ flying' = flying \ {s}
    /\ held' \in {held, held \cup {s}}
    /\ UNCHANGED <<book, file, scan, preemptLog, evictions, before, opened>>
    /\ Noted(told, missed)

Older(ages) == [i \in Charges |-> IF ages[i] < Day THEN ages[i] + 1 ELSE Day]
Tick ==
    /\ preemptLog' = Older(preemptLog) /\ evictions' = Older(evictions)
    /\ UNCHANGED <<exchange, book, file, scan, before, opened, told, missed>>

\* A scan or an entry that ends, and whatever ends it.
EndScan == /\ pc' = "idle" /\ sleeve' = "none" /\ todo' = {} /\ cand' = "none"
           /\ needSlot' = FALSE /\ before' = 0 /\ opened' = {}

\* The process dies and boots: the state file is all that is left.  _load_state
\* reads the positions from it, and not the eviction log that _save_state wrote.  An
\* order on its way may land; of an entry not saved, or a refresh, nothing is left.
Restart ==
    /\ May("crash")
    /\ book' = file
    /\ preemptLog' = [i \in Charges |-> Day]
    /\ EndScan
    /\ flying' \in {flying} \cup
         (IF pc = "order" /\ May("unanswered") THEN {flying \cup {cand}} ELSE {})
    /\ UNCHANGED <<held, file, evictions>>
    /\ Noted(told, missed \cup {s \in Symbols : Tracked(s) /\ file[s] = "none"}
                          \cup (IF pc \in {"order", "confirm"} THEN {cand} ELSE {}))

-----------------------------------------------------------------------------
(* The scans: _maybe_scan_wildcard, _maybe_scan_trend, _fetch_signal/_enter_trade *)

\* A full sleeve ends the scan, unless it is WILDCARD's and a slot can be freed.
SlotsFull_offByOne(k) == OpenCount(book, k) > Slots[k]
SlotsFull(k) == OpenCount(book, k) >= Slots[k]

\* Candidates are ranked; any choice and order of them may be the ranking.  The
\* PMT entry tries one signal.
StartScan(k, picks) ==
    /\ pc = "idle"
    /\ picks # {} /\ \A s \in picks : ~Tracked(s)
    /\ Cardinality(picks) <= IF k = "PMT" THEN 1 ELSE MaxCandidates
    /\ SlotsFull(k) => k = "WILDCARD"
    /\ pc' = "rank" /\ sleeve' = k /\ todo' = picks
    /\ needSlot' = SlotsFull(k)
    /\ before' = OpenCount(book, k) /\ opened' = {}
    /\ UNCHANGED <<exchange, book, file, cand, preemptLog, evictions, told, missed>>

\* The veto, the envelope, the sizing or the contract lookup refuses it.
Refused(s) ==
    /\ pc = "rank" /\ s \in todo
    /\ todo' = todo \ {s}
    /\ UNCHANGED <<exchange, book, file, pc, sleeve, cand, needSlot, preemptLog, ghosts>>

ScanRunsOut ==
    /\ pc = "rank" /\ todo = {}
    /\ EndScan
    /\ UNCHANGED <<exchange, book, file, preemptLog, evictions, told, missed>>

Enter(s) ==
    /\ pc = "rank" /\ s \in todo /\ ~needSlot
    /\ pc' = "order" /\ cand' = s /\ todo' = todo \ {s}
    /\ UNCHANGED <<exchange, book, file, sleeve, needSlot, preemptLog, ghosts>>

\* _preemption_candidate: a WILDCARD position other than the incoming symbol, that
\* has not worked, within the budget.  Its age and R may rule any position out.
BudgetLeft == Cardinality(Recent(preemptLog)) < Cap
Evictable(v, s) == book[v] = "WILDCARD" /\ v # s

NothingToEvict ==
    /\ pc = "rank" /\ todo # {} /\ needSlot
    /\ EndScan
    /\ UNCHANGED <<exchange, book, file, preemptLog, evictions, told, missed>>

Forget(s) == /\ book' = [book EXCEPT ![s] = "none"]
             /\ file' = [book EXCEPT ![s] = "none"]

\* The close order of the victim is accepted: it is cleared, saved and charged, in
\* memory, though the order may not have filled.  The candidate is entered with the
\* balance read again; if that read fails, the scan ends with the slot free.
Preempt(v, s) ==
    /\ pc = "rank" /\ s \in todo /\ needSlot
    /\ BudgetLeft /\ Evictable(v, s) /\ v \in held
    /\ Forget(v) /\ preemptLog' = Charged(preemptLog)
    /\ \/ held' = held \ {v} /\ evictions' = Charged(evictions)
       \/ May("closeUnfilled") /\ UNCHANGED <<held, evictions>>
    /\ \/ /\ pc' = "order" /\ cand' = s /\ todo' = todo \ {s} /\ needSlot' = FALSE
          /\ UNCHANGED <<sleeve, before, opened>>
       \/ EndScan
    /\ UNCHANGED flying
    /\ Noted(told, missed \cup {v})

\* It filled, and nobody answered it or the reading of its price: the call raises,
\* the victim stays in the book for the reconcile and nothing is charged.
EvictsUncharged(v, s) ==
    /\ pc = "rank" /\ s \in todo /\ needSlot /\ May("unanswered")
    /\ BudgetLeft /\ Evictable(v, s) /\ v \in held
    /\ held' = held \ {v} /\ evictions' = Charged(evictions)
    /\ EndScan
    /\ UNCHANGED <<flying, book, file, preemptLog>>
    /\ Noted(told, missed)

-----------------------------------------------------------------------------
(* One entry: _open_wildcard_position, _enter_trade *)

\* The order is taken and fills, or is taken and does not fill.
OrderTaken ==
    /\ pc = "order" /\ pc' = "confirm"
    /\ \/ /\ held' = held \cup {cand} /\ opened' = opened \cup {cand}
       \/ UNCHANGED <<held, opened>>
    /\ UNCHANGED <<flying, book, file, sleeve, todo, cand, needSlot, preemptLog, evictions,
                   before>>
    /\ Noted(told, missed)

\* The balance guard gives up: the next candidate.
OrderRefused ==
    /\ pc = "order" /\ pc' = "rank" /\ cand' = "none"
    /\ UNCHANGED <<exchange, book, file, sleeve, todo, needSlot, preemptLog, ghosts>>

\* Any other refusal raises through the scan; an order nobody answered raises after
\* the owner was told (OrderGateway).
TellOwner_never(s) == Noted(told, missed)
TellOwner(s) == Noted(told \cup {s}, missed)
OrderRaises ==
    /\ pc = "order"
    /\ EndScan
    /\ UNCHANGED <<held, book, file, preemptLog, evictions>>
    /\ \/ UNCHANGED <<flying, told, missed>>
       \/ /\ May("unanswered") /\ flying' = flying \cup {cand}
          /\ TellOwner(cand)

\* MEXC lists the position: it is registered under its sleeve.
Confirmed ==
    /\ pc = "confirm" /\ cand \in held
    /\ book' = [book EXCEPT ![cand] = sleeve]
    /\ pc' = "save"
    /\ UNCHANGED <<exchange, file, sleeve, todo, cand, needSlot, preemptLog, evictions,
                   before, opened>>
    /\ Noted(told, missed)

\* It does not list it, having none or not yet.  The PMT entry cancels, looks again
\* and tells the owner whatever it finds; the convex one takes it for unfilled and
\* goes on to the next candidate.
Unlisted ==
    /\ pc = "confirm"
    /\ cand \notin held \/ May("blankRead")
    /\ UNCHANGED <<exchange, book, preemptLog, evictions>>
    /\ \/ /\ sleeve = "PMT"
          /\ EndScan /\ TellOwner(cand) /\ file' = book
       \/ /\ sleeve # "PMT"
          /\ pc' = "rank" /\ cand' = "none"
          /\ Noted(told, missed \cup {cand})
          /\ UNCHANGED <<file, sleeve, todo, needSlot, before, opened>>

\* The scan returns with its first entry.
SaveEntry_later == UNCHANGED file
SaveEntry == file' = book
SaveEntered ==
    /\ pc = "save"
    /\ SaveEntry
    /\ EndScan
    /\ UNCHANGED <<exchange, book, preemptLog, evictions, told, missed>>

-----------------------------------------------------------------------------
(* Between the scans *)

\* An exit or a forced close that fills, or the reconcile of a close: saved with the
\* position gone.
Closes(s) ==
    /\ pc = "idle" /\ Tracked(s)
    /\ held' = held \ {s} /\ Forget(s)
    /\ UNCHANGED <<flying, scan, preemptLog, evictions, before, opened>>
    /\ Noted(told, missed)

\* The close order was accepted and did not fill, or listings left the position out
\* for the whole grace: cleared and saved all the same.
DropsHeld(s) ==
    /\ pc = "idle" /\ Tracked(s) /\ s \in held
    /\ May("closeUnfilled") \/ May("blankRead")
    /\ Forget(s)
    /\ UNCHANGED <<exchange, scan, preemptLog, evictions, before, opened>>
    /\ Noted(told, missed \cup {s})

SaveElsewhere ==
    /\ pc = "idle" /\ file # book
    /\ file' = book
    /\ UNCHANGED <<exchange, book, scan, preemptLog, ghosts>>

\* _refresh_live_positions, every cycle: a configured symbol MEXC holds and the book
\* does not; no marker, so it reads as PMT, and nothing is saved.
Recovers_untold(s) == s \in (Configured \cap held) \ told /\ ~Tracked(s)
Recovers(s) == s \in (Configured \cap held) /\ ~Tracked(s)
RefreshLive(s) ==
    /\ pc = "idle" /\ Recovers(s)
    /\ book' = [book EXCEPT ![s] = "PMT"]
    /\ UNCHANGED <<exchange, file, scan, preemptLog, evictions, before, opened>>
    /\ Noted(told, missed)

\* /reconcile, when the owner sends it: every position MEXC holds.
Adopted(s) == IF s \in Configured THEN "PMT" ELSE "WILDCARD"
ReconcileOrphans ==
    /\ pc = "idle" /\ \E s \in held : ~Tracked(s)
    /\ book' = [s \in Symbols |-> IF s \in held /\ ~Tracked(s) THEN Adopted(s) ELSE book[s]]
    /\ file' = book'
    /\ UNCHANGED <<exchange, scan, preemptLog, evictions, before, opened>>
    /\ Noted(told, missed)

-----------------------------------------------------------------------------
Scanning ==
    \/ \E s \in Symbols : Refused(s) \/ Enter(s)
    \/ \E v, s \in Symbols : Preempt(v, s) \/ EvictsUncharged(v, s)
    \/ ScanRunsOut \/ NothingToEvict
    \/ OrderTaken \/ OrderRefused \/ OrderRaises \/ Confirmed \/ Unlisted \/ SaveEntered

Between == \/ \E s \in Symbols : Closes(s) \/ DropsHeld(s) \/ RefreshLive(s)
           \/ \E k \in Sleeves : \E picks \in SUBSET Universe(k) : StartScan(k, picks)
           \/ SaveElsewhere \/ ReconcileOrphans

External == \/ \E s \in Symbols : ExchangeCloses(s) \/ LateOrderSettles(s)
            \/ Tick \/ Restart

Next == Scanning \/ Between \/ External

Spec == Init /\ [][Next]_vars

\* The loop finishes the scan it is in (every remote call has a timeout), and every
\* cycle begins with the refresh, which sooner or later reads what MEXC holds.
FairSpec == Spec /\ WF_vars(Scanning) /\ \A s \in Configured : SF_vars(RefreshLive(s))

-----------------------------------------------------------------------------
(* Properties *)

\* Every variable stays in its range.
TypeOK ==
    /\ held \subseteq Symbols /\ flying \subseteq Symbols
    /\ book \in [Symbols -> Sleeves \cup {"none"}]
    /\ file \in [Symbols -> Sleeves \cup {"none"}]
    /\ pc \in {"idle", "rank", "order", "confirm", "save"} /\ todo \subseteq Symbols
    /\ sleeve \in Sleeves \cup {"none"} /\ (pc # "idle" => sleeve \in Sleeves)
    /\ cand \in Symbols \cup {"none"} /\ (pc \in {"order", "confirm", "save"} => cand \in Symbols)
    /\ needSlot \in BOOLEAN
    /\ preemptLog \in [Charges -> 0 .. Day] /\ evictions \in [Charges -> 0 .. Day]
    /\ before \in Nat /\ opened \subseteq Symbols /\ told \subseteq Symbols
    /\ missed \subseteq Symbols

\* An entry leaves its sleeve within its slots, or, when adopted positions had
\* already filled it past them, no fuller than the scan found it: the slot checks
\* of the scans (runtime.py:8065, 8492, 8372) and the eviction that frees one.
EntryWithinSlots ==
    [][pc = "confirm" /\ pc' = "save"
       => OpenCount(book', sleeve) <= Slots[sleeve] \/ OpenCount(book', sleeve) <= before]_vars

\* Between scans the state file holds the book, or lacks only what the refresh
\* will find again: a restart forgets no position (_save_state after each change).
RestartKeepsTheBook ==
    pc = "idle" => \A s \in Symbols : \/ file[s] = book[s]
                                     \/ (file[s] = "none" /\ s \in Configured)

\* No position stands on MEXC that the bot neither tracks nor has told its owner
\* of, save the entry it is confirming: refused, raised and unanswered orders, and
\* closes nobody answered, all end in one of these.  Four ways out of sight are left:
\* a listing that leaves out what a convex entry has just opened, a close that was
\* accepted and did not fill, listings that leave out a position for the whole grace,
\* and a death before an entry or a refreshed position is saved.
KnownOrTold ==
    \A s \in held : Tracked(s) \/ s \in told \cup missed \/ (pc = "confirm" /\ s = cand)

\* No 24 hours see more evictions than the budget (runtime.py:7903).
EvictionBudget == Cardinality(Recent(evictions)) <= Cap

\* A scan opens at most one position (docs/DECISION_RULE.md:3047).
OneEntryPerScan == Cardinality(opened) <= 1

\* A position of a configured symbol that the book has lost is tracked again, or is
\* gone from MEXC, whatever restarts, scans and unanswered orders come between.
OrphanRecovered ==
    \A s \in Configured : s \in held /\ ~Tracked(s) ~> s \notin held \/ Tracked(s)
=============================================================================
