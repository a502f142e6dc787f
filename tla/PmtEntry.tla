------------------------------ MODULE PmtEntry ------------------------------
(* One live entry of the core strategy (runtime.py, _enter_trade): the ladder *)
(* of post-only orders, the look for a silent fill, the market order with its *)
(* balance guard, the confirmation, and the alerts for an entry that cannot   *)
(* be confirmed.  Every remote call is a step; MEXC matches, ends and loses   *)
(* orders in between, and the process may die.  ConvexBook sees all of it as  *)
(* one entry.                                                                 *)
EXTENDS Integers

CONSTANTS
    Modes,           \* which settings of AllModes are looked at
    MinVol, MaxVol,  \* minVol of the contract; the largest order sizing asks for
    MaxPolls,        \* MAKER_LADDER_MAX_POLLS
    GuardAttempts,   \* FUTURES_BALANCE_GUARD_MAX_ATTEMPTS
    ConfirmAttempts, \* FUTURES_ENTRY_CONFIRM_ATTEMPTS
    MaxLeft,         \* bound of the model: contracts off the book when an entry starts, at most
    Faults           \* which of AllFaults may happen

\* USE_MAKER_LADDER=0; =1, where the core strategy only looks for a silent fill;
\* =1 with FUTURES_PMT_USE_MAKER_LADDER=1 or another strategy, where it posts.
AllModes == {"off", "check", "ladder"}
AllFaults == {"unanswered", "cancelFails", "readFails", "crash"}
Volumes == MinVol .. MaxVol

ASSUME EntryAssumption ==
    /\ Modes \subseteq AllModes /\ Faults \subseteq AllFaults
    /\ MinVol \in Nat \ {0} /\ MaxVol \in Nat /\ MinVol <= MaxVol /\ MaxLeft \in Nat
    /\ MaxPolls \in Nat /\ GuardAttempts \in Nat \ {0} /\ ConfirmAttempts \in Nat \ {0}

VARIABLES
    pos,             \* contracts MEXC holds of the symbol, on the entry's side
    order,           \* the order whose id the code knows: its kind, what is left and dealt
    loose,           \* contracts that orders the code has let go can still deal
    adrift,          \* contracts of orders MEXC never answered for, not there yet
    mem, file,       \* contracts on the book, in memory and in the state file
    mode, up, pc,
    want,            \* contracts
    polls, tries,    \* polls of the ladder; attempts of the guard or the confirmation
    told,            \* the owner was told to look at the symbol
    slip             \* an order or a position was let go of by one of the ways named below

exchange == <<pos, order, loose, adrift>>
counters == <<want, polls, tries>>
vars == <<exchange, mem, file, mode, up, pc, counters, told, slip>>

NoOrder == [kind |-> "none", left |-> 0, dealt |-> 0]
Sent(kind, vol) == [kind |-> kind, left |-> vol, dealt |-> 0]
Working == order.kind # "none"
Live == order.left > 0
May(fault) == fault \in Faults

\* The entry is over: what it counted is gone with it.
Ends == pc' = "idle" /\ want' = MinVol /\ polls' = 0 /\ tries' = 0

\* The order is the code's no more: what is left of it may still deal.
LetGo == order' = NoOrder /\ loose' = loose + order.left

Init ==
    /\ pos = 0 /\ order = NoOrder /\ loose = 0 /\ adrift = 0
    /\ mem = 0 /\ file = 0
    /\ mode \in Modes /\ up = TRUE /\ pc = "idle"
    /\ want = MinVol /\ polls = 0 /\ tries = 0
    /\ told = FALSE /\ slip = FALSE

-----------------------------------------------------------------------------
(* MEXC and the supervisor *)

\* A post-only order deals in parts; what a market order does not deal at once ends.
Deals(n) ==
    /\ pos' = pos + n
    /\ order' = [order EXCEPT !.left = IF order.kind = "taker" THEN 0 ELSE @ - n, !.dealt = @ + n]
    /\ UNCHANGED <<loose, adrift, mem, file, mode, up, pc, counters, told, slip>>

\* A post-only order that would cross, or a market order nobody takes.
OrderEnds ==
    /\ Live /\ order' = [order EXCEPT !.left = 0]
    /\ UNCHANGED <<pos, loose, adrift, mem, file, mode, up, pc, counters, told, slip>>

LooseDeals(n) ==
    /\ loose' = loose - n
    /\ pos' \in {pos, pos + n}
    /\ UNCHANGED <<order, adrift, mem, file, mode, up, pc, counters, told, slip>>

\* An order without an answer arrives, or never does.
AdriftSettles(n) ==
    /\ adrift' = adrift - n
    /\ pos' \in {pos, pos + n}
    /\ UNCHANGED <<order, loose, mem, file, mode, up, pc, counters, told, slip>>

\* Its own stop or target, a liquidation, the owner.
ExchangeCloses ==
    /\ pos > 0 /\ pos' = 0
    /\ UNCHANGED <<order, loose, adrift, mem, file, mode, up, pc, counters, told, slip>>

\* What is under way is let go; the file is what the next process knows.
Die ==
    /\ up /\ May("crash")
    /\ up' = FALSE /\ Ends
    /\ LetGo /\ mem' = file
    /\ slip' = (slip \/ Live \/ pos > file)
    /\ UNCHANGED <<pos, adrift, file, mode, told>>

Boot ==
    /\ ~up /\ up' = TRUE
    /\ UNCHANGED <<exchange, mem, file, mode, pc, counters, told, slip>>

-----------------------------------------------------------------------------
(* The cycle before the entry: _reconcile_closed_position, _refresh_live_positions *)

Idle == up /\ pc = "idle"
Quiet == UNCHANGED <<mode, up, pc, counters, told, slip>>

BookClosed ==
    /\ Idle /\ mem > 0 /\ pos = 0
    /\ mem' = 0 /\ file' = 0
    /\ UNCHANGED exchange /\ Quiet

\* Adopted, and in the file only with the next save.
Refresh ==
    /\ Idle /\ mem = 0 /\ pos > 0
    /\ mem' = pos
    /\ UNCHANGED <<exchange, file>> /\ Quiet

SaveElsewhere ==
    /\ Idle /\ file' = mem
    /\ UNCHANGED <<exchange, mem>> /\ Quiet

-----------------------------------------------------------------------------
(* _enter_trade, up to its first order *)

Clean == pos = 0 /\ loose = 0 /\ adrift = 0

\* A symbol on the book is refused.  The cooldowns, the score, funding, the margin
\* caps and the setup of the leverage may refuse a signal or raise before an order
\* is sent: then nothing changes.  Sizing asks for some volume from minVol up.
StartEntry ==
    /\ Idle /\ mem = 0 /\ pos + loose + adrift <= MaxLeft
    /\ want' \in Volumes /\ UNCHANGED <<polls, tries>>
    /\ pc' = CASE mode = "off" -> "taker" [] mode = "check" -> "orphan" [] mode = "ladder" -> "quote"
    /\ told' = (told /\ ~Clean) /\ slip' = (slip /\ ~Clean)
    /\ UNCHANGED <<exchange, mem, file, mode, up>>

-----------------------------------------------------------------------------
(* _attempt_maker_ladder *)

Book == <<mem, file, mode, up>>
Goes(next) == pc' = next /\ UNCHANGED Book
Step(next) == Goes(next) /\ UNCHANGED counters
GivesUp == Ends /\ file' = mem /\ UNCHANGED <<mem, mode, up>>

\* Quotes that make no sense; the polls are used up; else the working order is read.
Quote ==
    /\ pc = "quote"
    /\ \/ polls = MaxPolls /\ Step("cancel")
       \/ polls < MaxPolls /\ Step(IF Working THEN "lookup" ELSE "decide")
       \/ ~Working /\ polls = 0 /\ Step("orphan")
    /\ UNCHANGED <<exchange, told, slip>>

\* A read that raises leaves by the outer handler, which cancels nothing.
QuoteRaises ==
    /\ pc \in {"quote", "lookup"} /\ May("readFails")
    /\ LetGo /\ slip' = (slip \/ Live)
    /\ Step("orphan")
    /\ UNCHANGED <<pos, adrift, told>>

Lookup ==
    /\ pc = "lookup"
    /\ Step(IF order.dealt >= want THEN "confirm" ELSE "decide")
    /\ UNCHANGED <<exchange, told, slip>>

\* decide_next_action answers by the clock: post again, cross, or give the signal up;
\* the last two both cancel.
Decide ==
    /\ pc = "decide"
    /\ Step(IF Working THEN "repost" ELSE "post") \/ Step("cancel")
    /\ UNCHANGED <<exchange, told, slip>>

\* Whatever the cancel answers, its error is dropped and the order forgotten.
Cancelled == order' = NoOrder /\ UNCHANGED <<loose, slip>>
CancelLost == May("cancelFails") /\ Live /\ LetGo /\ slip' = TRUE
Cancel ==
    /\ pc \in {"repost", "cancel"}
    /\ Cancelled \/ CancelLost
    /\ Step(IF pc = "repost" THEN "post" ELSE "orphan")
    /\ UNCHANGED <<pos, adrift, told>>

\* The answer to a post that was taken names the order.
Post ==
    /\ pc = "post"
    /\ order' = Sent("maker", want)
    /\ polls' = polls + 1 /\ Goes("quote")
    /\ UNCHANGED <<pos, loose, adrift, want, tries, told, slip>>

\* Refused; or raised without an answer, and then the order gateway has told the owner.
NoAnswer == May("unanswered") /\ adrift' = adrift + want /\ told' = TRUE
NotPlaced == UNCHANGED <<adrift, told>> \/ NoAnswer
PostFails ==
    /\ pc = "post"
    /\ NotPlaced /\ Step("orphan")
    /\ UNCHANGED <<pos, order, loose, slip>>

-----------------------------------------------------------------------------
(* _enter_trade: the look for a silent fill, and the market order with its balance guard *)

\* _allow_taker_fallback_after_maker: a signal below its scores ends here.
Fallback == Step("taker") \/ GivesUp

Orphan_skipped ==
    /\ pc = "orphan"
    /\ Fallback
    /\ UNCHANGED <<exchange, told, slip>>
Orphan ==
    /\ pc = "orphan"
    /\ IF pos > 0 THEN Step("confirm") ELSE Fallback
    /\ UNCHANGED <<exchange, told, slip>>

\* A failed read counts as an empty answer.
OrphanReadFails ==
    /\ pc = "orphan" /\ May("readFails")
    /\ Fallback
    /\ slip' = (slip \/ pos > 0)
    /\ UNCHANGED <<exchange, told>>

TakerAccepted ==
    /\ pc = "taker"
    /\ order' = Sent("taker", want)
    /\ tries' = 0 /\ Goes("confirm")
    /\ UNCHANGED <<pos, loose, adrift, want, polls, told, slip>>

\* Balance insufficient: fewer contracts, if MEXC names a cost that allows minVol and
\* an attempt is left.
TakerShrinks ==
    /\ pc = "taker" /\ tries < GuardAttempts - 1
    /\ want' \in MinVol .. (want - 1)
    /\ tries' = tries + 1 /\ Goes("taker")
    /\ UNCHANGED <<exchange, polls, told, slip>>

\* The guard gives up; or the call raises, out of _enter_trade, and nothing is saved.
Raises == Ends /\ UNCHANGED Book
TakerFails ==
    /\ pc = "taker"
    /\ \/ GivesUp /\ UNCHANGED <<adrift, told>>
       \/ Raises /\ NotPlaced
    /\ UNCHANGED <<pos, order, loose, slip>>

-----------------------------------------------------------------------------
(* _confirm_live_entry and _handle_unconfirmed_live_entry *)

\* The first row with a volume is the entry: its volume goes on the book.
Confirm ==
    /\ pc = "confirm" /\ pos > 0
    /\ Ends /\ mem' = pos /\ file' = pos
    /\ LetGo /\ slip' = (slip \/ Live)
    /\ UNCHANGED <<pos, adrift, mode, up, told>>

ConfirmMisses ==
    /\ pc = "confirm" /\ (pos = 0 \/ May("readFails"))
    /\ tries' = tries + 1
    /\ Goes(IF tries' < ConfirmAttempts THEN "confirm" ELSE "unconfirmed")
    /\ UNCHANGED <<exchange, want, polls, told, slip>>

\* One more cancel, one more look at the position and at the order.
LastCancel ==
    /\ pc = "unconfirmed"
    /\ order' = NoOrder
    /\ loose' = loose \/ (May("cancelFails") /\ loose' = loose + order.left)
    /\ Ends /\ file' = mem
    /\ UNCHANGED <<pos, adrift, mem, mode, up, slip>>
Unconfirmed_silent == LastCancel /\ told' = (told \/ pos > 0 \/ order.dealt > 0)
\* Each of the three findings is an alert, and none puts a position on the book.
Unconfirmed == LastCancel /\ told' = TRUE

-----------------------------------------------------------------------------
Exchange ==
    \/ \E n \in 1 .. order.left : Deals(n)
    \/ \E n \in 1 .. loose : LooseDeals(n)
    \/ \E n \in 1 .. adrift : AdriftSettles(n)
    \/ OrderEnds \/ ExchangeCloses \/ Die
Cycle == Boot \/ BookClosed \/ Refresh \/ SaveElsewhere \/ StartEntry
Ladder == Quote \/ QuoteRaises \/ Lookup \/ Decide \/ Cancel \/ Post \/ PostFails
Entering ==
    \/ Orphan \/ OrphanReadFails \/ TakerAccepted \/ TakerShrinks \/ TakerFails
    \/ Confirm \/ ConfirmMisses \/ Unconfirmed

Next == Exchange \/ Cycle \/ Ladder \/ Entering
Spec == Init /\ [][Next]_vars

-----------------------------------------------------------------------------
TypeOK ==
    /\ pos \in Nat /\ loose \in Nat /\ adrift \in Nat
    /\ order \in [kind : {"none", "maker", "taker"}, left : 0 .. MaxVol, dealt : 0 .. MaxVol]
    /\ mem \in Nat /\ file \in Nat
    /\ mode \in Modes /\ up \in BOOLEAN
    /\ pc \in {"idle", "quote", "lookup", "decide", "repost", "cancel", "post", "orphan", "taker",
               "confirm", "unconfirmed"}
    /\ want \in Volumes /\ polls \in 0 .. MaxPolls
    /\ tries \in Nat /\ told \in BOOLEAN /\ slip \in BOOLEAN

\* An entry ends with the position on the book at the size MEXC holds, with an alert to
\* the owner, or with nothing held and no order that can still deal - unless a failed
\* read, a failed cancel or a restart made it let go of one.
EntryAnswered ==
    Idle /\ ~told /\ ~slip => pos <= mem /\ loose = 0 /\ adrift = 0

\* A market order is sent only while MEXC holds nothing of the symbol and no other order
\* can deal, with the same exceptions: "adopt it instead of stacking a duplicate taker
\* fill on top" (runtime.py 14602).
TakerAlone ==
    [][pc = "taker" /\ pc' = "confirm" /\ ~told /\ ~slip => Clean]_vars
=============================================================================
