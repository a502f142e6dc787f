--------------------------- MODULE PmtEntryProofs ---------------------------
(* Machine-checked proofs about PmtEntry, for every volume, number of polls and *)
(* attempts, mode of the ladder and set of faults.                              *)
EXTENDS PmtEntry, TLAPS

-----------------------------------------------------------------------------
(* The inductive invariant *)

Orders == [kind : {"none", "maker", "taker"}, left : 0 .. MaxVol, dealt : 0 .. MaxVol]

\* TypeOK in four parts, the second with what it takes for an order to deal no more than
\* it asked for, the last with the poll that a post needs.
Contracts == pos \in Nat /\ loose \in Nat /\ adrift \in Nat /\ mem \in Nat /\ file \in Nat
OrderFits == order \in Orders /\ order.left + order.dealt <= MaxVol
Flags == up \in BOOLEAN /\ told \in BOOLEAN /\ slip \in BOOLEAN
Control ==
    /\ mode \in Modes
    /\ pc \in {"idle", "quote", "lookup", "decide", "repost", "cancel", "post", "orphan", "taker",
               "confirm", "unconfirmed"}
    /\ want \in Volumes /\ polls \in 0 .. MaxPolls /\ tries \in Nat
    /\ pc \in {"lookup", "decide", "repost", "post"} => polls < MaxPolls
TypeInv == Contracts /\ OrderFits /\ Flags /\ Control

\* Between entries, before a post, at the look for a fill and before the market order the
\* code has no order of its own.
NoneWorking ==
    /\ order.kind = "none" => order = NoOrder
    /\ pc \in {"idle", "post", "orphan", "taker"} => order = NoOrder

\* Without an excuse nothing was let go, what is held between entries is on the book, and
\* a market order is about to be sent only for a symbol of which nothing is held.
Answered ==
    ~told /\ ~slip =>
        /\ loose = 0 /\ adrift = 0
        /\ pc = "idle" => pos <= mem
        /\ pc = "taker" => pos = 0

LEMMA Settings ==
    /\ MinVol \in Nat /\ MaxVol \in Nat /\ 1 <= MinVol /\ MinVol <= MaxVol
    /\ MaxPolls \in Nat /\ GuardAttempts \in Nat /\ ConfirmAttempts \in Nat
    /\ Modes \subseteq AllModes
BY EntryAssumption DEF EntryAssumption

LEMMA PartsAreType == TypeInv => TypeOK
BY DEF TypeInv, Contracts, OrderFits, Orders, Flags, Control, TypeOK

\* The numbers of an order.
LEMMA OrderNumbers ==
    ASSUME TypeInv
    PROVE /\ order.kind \in {"none", "maker", "taker"}
          /\ order.left \in Nat /\ order.dealt \in Nat /\ order.left + order.dealt <= MaxVol
          /\ want \in Nat /\ 1 <= want /\ want <= MaxVol
BY Settings DEF TypeInv, OrderFits, Orders, Control, Volumes

LEMMA NoOrderFits ==
    NoOrder \in Orders /\ NoOrder.left + NoOrder.dealt <= MaxVol
BY Settings DEF NoOrder, Orders

LEMMA SentFits ==
    ASSUME TypeInv, NEW k \in {"maker", "taker"}
    PROVE Sent(k, want) \in Orders /\ Sent(k, want).left + Sent(k, want).dealt <= MaxVol
          /\ Sent(k, want).kind # "none"
BY Settings, OrderNumbers DEF Sent, Orders

LEMMA EntryInit == Init => TypeInv /\ NoneWorking /\ Answered
<1> SUFFICES ASSUME Init PROVE TypeInv /\ NoneWorking /\ Answered
  OBVIOUS
<1>1. Contracts /\ OrderFits /\ Flags
  BY NoOrderFits DEF Init, Contracts, OrderFits, Flags
<1>2. Control
  BY Settings DEF Init, Control, Volumes
<1> QED
  BY <1>1, <1>2 DEF Init, TypeInv, NoneWorking, Answered

-----------------------------------------------------------------------------
(* Types *)

LEMMA ContractsStep ==
    ASSUME TypeInv, Next
    PROVE Contracts'
<1>1. CASE Exchange
  <2>1. CASE \E n \in 1 .. order.left : Deals(n)
    BY <2>1, OrderNumbers DEF Deals, TypeInv, Contracts
  <2>2. CASE \E n \in 1 .. loose : LooseDeals(n)
    BY <2>2, OrderNumbers DEF LooseDeals, TypeInv, Contracts
  <2>3. CASE \E n \in 1 .. adrift : AdriftSettles(n)
    BY <2>3, OrderNumbers DEF AdriftSettles, TypeInv, Contracts
  <2>4. CASE OrderEnds
    BY <2>4, OrderNumbers DEF OrderEnds, TypeInv, Contracts
  <2>5. CASE ExchangeCloses
    BY <2>5, OrderNumbers DEF ExchangeCloses, TypeInv, Contracts
  <2>6. CASE Die
    BY <2>6, OrderNumbers DEF Die, Ends, LetGo, TypeInv, Contracts
  <2> QED
    BY <1>1, <2>1, <2>2, <2>3, <2>4, <2>5, <2>6 DEF Exchange
<1>2. CASE Cycle
  BY <1>2, OrderNumbers DEF Cycle, Boot, BookClosed, Refresh, SaveElsewhere, StartEntry,
     exchange, Idle, Quiet, TypeInv, Contracts
<1>3. CASE Ladder
  BY <1>3, OrderNumbers DEF Ladder, Quote, QuoteRaises, Lookup, Decide, Cancel, Post,
     PostFails, LetGo, Step, Goes, Book, exchange, NotPlaced, NoAnswer, Cancelled,
     CancelLost, TypeInv, Contracts
<1>4. CASE Entering
  BY <1>4, OrderNumbers DEF Entering, Orphan, OrphanReadFails, TakerAccepted, TakerShrinks,
     TakerFails, Confirm, ConfirmMisses, Unconfirmed, Ends, LetGo, Step, Goes, Book,
     exchange, GivesUp, Raises, Fallback, NotPlaced, NoAnswer, LastCancel, TypeInv,
     Contracts
<1> QED
  BY <1>1, <1>2, <1>3, <1>4 DEF Next

LEMMA FlagsStep ==
    ASSUME TypeInv, Next
    PROVE Flags'
<1>1. CASE Exchange
  BY <1>1 DEF Exchange, Deals, LooseDeals, AdriftSettles, OrderEnds, ExchangeCloses, Die,
     Ends, TypeInv, Flags
<1>2. CASE Cycle
  BY <1>2 DEF Cycle, Boot, BookClosed, Refresh, SaveElsewhere, StartEntry, Idle, Quiet,
     TypeInv, Flags
<1>3. CASE Ladder
  BY <1>3 DEF Ladder, Quote, QuoteRaises, Lookup, Decide, Cancel, Post, PostFails, Step,
     Goes, Book, NotPlaced, NoAnswer, Cancelled, CancelLost, TypeInv, Flags
<1>4. CASE Entering
  BY <1>4 DEF Entering, Orphan, OrphanReadFails, TakerAccepted, TakerShrinks, TakerFails,
     Confirm, ConfirmMisses, Unconfirmed, Ends, Step, Goes, Book, GivesUp, Raises, Fallback,
     NotPlaced, NoAnswer, LastCancel, TypeInv, Flags
<1> QED
  BY <1>1, <1>2, <1>3, <1>4 DEF Next

LEMMA ControlStep ==
    ASSUME TypeInv, Next
    PROVE Control'
<1>1. CASE Exchange
  <2>1. CASE \E n \in 1 .. order.left : Deals(n)
    BY <2>1, Settings DEF Deals, counters, Volumes, TypeInv, Control
  <2>2. CASE \E n \in 1 .. loose : LooseDeals(n)
    BY <2>2, Settings DEF LooseDeals, counters, Volumes, TypeInv, Control
  <2>3. CASE \E n \in 1 .. adrift : AdriftSettles(n)
    BY <2>3, Settings DEF AdriftSettles, counters, Volumes, TypeInv, Control
  <2>4. CASE OrderEnds
    BY <2>4, Settings DEF OrderEnds, counters, Volumes, TypeInv, Control
  <2>5. CASE ExchangeCloses
    BY <2>5, Settings DEF ExchangeCloses, counters, Volumes, TypeInv, Control
  <2>6. CASE Die
    BY <2>6, Settings DEF Die, Ends, Volumes, TypeInv, Control
  <2> QED
    BY <1>1, <2>1, <2>2, <2>3, <2>4, <2>5, <2>6 DEF Exchange
<1>2. CASE Cycle
  BY <1>2, Settings DEF Cycle, Boot, BookClosed, Refresh, SaveElsewhere, StartEntry,
     counters, Idle, Quiet, Volumes, AllModes, TypeInv, Control
<1>3. CASE Ladder
  BY <1>3, Settings DEF Ladder, Quote, QuoteRaises, Lookup, Decide, Cancel, Post, PostFails,
     Step, Goes, Book, counters, NotPlaced, NoAnswer, Cancelled, CancelLost, Volumes,
     TypeInv, Control
<1>4. CASE Entering
  BY <1>4, Settings DEF Entering, Orphan, OrphanReadFails, TakerAccepted, TakerShrinks,
     TakerFails, Confirm, ConfirmMisses, Unconfirmed, Ends, Step, Goes, Book, counters,
     GivesUp, Raises, Fallback, NotPlaced, NoAnswer, LastCancel, Volumes, TypeInv, Control
<1> QED
  BY <1>1, <1>2, <1>3, <1>4 DEF Next

LEMMA OrderStep ==
    ASSUME TypeInv, Next
    PROVE OrderFits'
<1>1. CASE Exchange
  <2>1. CASE \E n \in 1 .. order.left : Deals(n)
    <3>1. PICK n \in 1 .. order.left : Deals(n)
      BY <2>1
    <3> DEFINE rest == IF order.kind = "taker" THEN 0 ELSE order.left - n
    <3>2. rest \in Nat /\ n \in Nat /\ rest + (order.dealt + n) <= MaxVol
      BY OrderNumbers, Settings
    <3>3. order' = [order EXCEPT !.left = rest, !.dealt = order.dealt + n]
      BY <3>1 DEF Deals
    <3>4. order \in Orders
      BY DEF TypeInv, OrderFits
    <3> HIDE DEF rest
    <3>5. rest \in 0 .. MaxVol /\ order.dealt + n \in 0 .. MaxVol
      BY <3>2, OrderNumbers, Settings
    <3>6. order' \in Orders /\ order'.left = rest /\ order'.dealt = order.dealt + n
      BY <3>3, <3>4, <3>5 DEF Orders
    <3> QED
      BY <3>2, <3>6 DEF OrderFits
  <2>2. CASE \E n \in 1 .. loose : LooseDeals(n)
    BY <2>2, NoOrderFits, SentFits DEF LooseDeals, TypeInv, OrderFits
  <2>3. CASE \E n \in 1 .. adrift : AdriftSettles(n)
    BY <2>3, NoOrderFits, SentFits DEF AdriftSettles, TypeInv, OrderFits
  <2>4. CASE OrderEnds
    <3>1. order \in Orders /\ 0 \in 0 .. MaxVol
      BY Settings DEF TypeInv, OrderFits
    <3>2. order' = [order EXCEPT !.left = 0]
      BY <2>4 DEF OrderEnds
    <3>3. order' \in Orders /\ order'.left = 0 /\ order'.dealt = order.dealt
      BY <3>1, <3>2 DEF Orders
    <3>4. 0 + order.dealt <= MaxVol
      BY OrderNumbers, Settings
    <3> QED
      BY <3>3, <3>4 DEF OrderFits
  <2>5. CASE ExchangeCloses
    BY <2>5, NoOrderFits, SentFits DEF ExchangeCloses, TypeInv, OrderFits
  <2>6. CASE Die
    BY <2>6, NoOrderFits, SentFits DEF Die, LetGo, TypeInv, OrderFits
  <2> QED
    BY <1>1, <2>1, <2>2, <2>3, <2>4, <2>5, <2>6 DEF Exchange
<1>2. CASE Cycle
  BY <1>2, NoOrderFits, SentFits DEF Cycle, Boot, BookClosed, Refresh, SaveElsewhere,
     StartEntry, exchange, TypeInv, OrderFits
<1>3. CASE Ladder
  BY <1>3, NoOrderFits, SentFits DEF Ladder, Quote, QuoteRaises, Lookup, Decide, Cancel,
     Post, PostFails, LetGo, exchange, Cancelled, CancelLost, TypeInv, OrderFits
<1>4. CASE Entering
  BY <1>4, NoOrderFits, SentFits DEF Entering, Orphan, OrphanReadFails, TakerAccepted,
     TakerShrinks, TakerFails, Confirm, ConfirmMisses, Unconfirmed, LetGo, exchange,
     LastCancel, TypeInv, OrderFits
<1> QED
  BY <1>1, <1>2, <1>3, <1>4 DEF Next

LEMMA NoneWorkingStep ==
    ASSUME TypeInv, NoneWorking, Next
    PROVE NoneWorking'
<1>1. CASE Exchange
  <2>1. CASE \E n \in 1 .. order.left : Deals(n)
    BY <2>1, OrderNumbers, SentFits DEF Deals, NoOrder, NoneWorking
  <2>2. CASE \E n \in 1 .. loose : LooseDeals(n)
    BY <2>2, OrderNumbers, SentFits DEF LooseDeals, NoOrder, NoneWorking
  <2>3. CASE \E n \in 1 .. adrift : AdriftSettles(n)
    BY <2>3, OrderNumbers, SentFits DEF AdriftSettles, NoOrder, NoneWorking
  <2>4. CASE OrderEnds
    BY <2>4, OrderNumbers, SentFits DEF OrderEnds, Live, NoOrder, NoneWorking
  <2>5. CASE ExchangeCloses
    BY <2>5, OrderNumbers, SentFits DEF ExchangeCloses, NoOrder, NoneWorking
  <2>6. CASE Die
    BY <2>6, OrderNumbers, SentFits DEF Die, Ends, LetGo, Live, NoOrder, NoneWorking
  <2> QED
    BY <1>1, <2>1, <2>2, <2>3, <2>4, <2>5, <2>6 DEF Exchange
<1>2. CASE Cycle
  BY <1>2, OrderNumbers, SentFits DEF Cycle, Boot, BookClosed, Refresh, SaveElsewhere,
     StartEntry, exchange, Idle, Quiet, NoOrder, NoneWorking
<1>3. CASE Ladder
  BY <1>3, OrderNumbers, SentFits DEF Ladder, Quote, QuoteRaises, Lookup, Decide, Cancel,
     Post, PostFails, LetGo, Step, Goes, Book, exchange, NotPlaced, NoAnswer, Cancelled,
     CancelLost, Live, Working, NoOrder, NoneWorking
<1>4. CASE Entering
  BY <1>4, OrderNumbers, SentFits DEF Entering, Orphan, OrphanReadFails, TakerAccepted,
     TakerShrinks, TakerFails, Confirm, ConfirmMisses, Unconfirmed, Ends, LetGo, Step, Goes,
     Book, exchange, GivesUp, Raises, Fallback, NotPlaced, NoAnswer, LastCancel, Live,
     NoOrder, NoneWorking
<1> QED
  BY <1>1, <1>2, <1>3, <1>4 DEF Next

LEMMA AnsweredStep ==
    ASSUME TypeInv, NoneWorking, Answered, Next
    PROVE Answered'
<1>1. CASE Exchange
  <2>1. CASE \E n \in 1 .. order.left : Deals(n)
    BY <2>1, OrderNumbers DEF Deals, NoOrder, TypeInv, Contracts, Flags, NoneWorking,
       Answered
  <2>2. CASE \E n \in 1 .. loose : LooseDeals(n)
    BY <2>2, OrderNumbers DEF LooseDeals, TypeInv, Contracts, Flags, NoneWorking, Answered
  <2>3. CASE \E n \in 1 .. adrift : AdriftSettles(n)
    BY <2>3, OrderNumbers DEF AdriftSettles, TypeInv, Contracts, Flags, NoneWorking,
       Answered
  <2>4. CASE OrderEnds
    BY <2>4, OrderNumbers DEF OrderEnds, Live, TypeInv, Contracts, Flags, NoneWorking,
       Answered
  <2>5. CASE ExchangeCloses
    BY <2>5, OrderNumbers DEF ExchangeCloses, TypeInv, Contracts, Flags, NoneWorking,
       Answered
  <2>6. CASE Die
    <3> SUFFICES ASSUME ~told', ~slip'
                 PROVE  /\ loose' = 0 /\ adrift' = 0
                        /\ pc' = "idle" => pos' <= mem'
                        /\ pc' = "taker" => pos' = 0
      BY DEF Answered
    <3>1. ~told /\ ~slip /\ ~(Live \/ pos > file)
      BY <2>6 DEF Die
    <3>2. loose = 0 /\ adrift = 0
      BY <3>1 DEF Answered
    <3> QED
      BY <2>6, <3>1, <3>2, OrderNumbers DEF Die, Ends, LetGo, TypeInv, Contracts, Live
  <2> QED
    BY <1>1, <2>1, <2>2, <2>3, <2>4, <2>5, <2>6 DEF Exchange
<1>2. CASE Cycle
  BY <1>2, OrderNumbers DEF Cycle, Boot, BookClosed, Refresh, SaveElsewhere, StartEntry,
     exchange, Idle, Quiet, Clean, TypeInv, Contracts, Flags, NoneWorking, Answered
<1>3. CASE Ladder
  <2>1. CASE Quote
    BY <2>1, OrderNumbers DEF Quote, Step, Goes, Book, exchange, TypeInv, Contracts, Flags,
       NoneWorking, Answered
  <2>2. CASE QuoteRaises
    <3> SUFFICES ASSUME ~told', ~slip'
                 PROVE  /\ loose' = 0 /\ adrift' = 0
                        /\ pc' = "idle" => pos' <= mem'
                        /\ pc' = "taker" => pos' = 0
      BY DEF Answered
    <3>1. ~told /\ ~slip /\ ~(Live)
      BY <2>2 DEF QuoteRaises
    <3>2. loose = 0 /\ adrift = 0
      BY <3>1 DEF Answered
    <3> QED
      BY <2>2, <3>1, <3>2, OrderNumbers DEF QuoteRaises, LetGo, Step, Goes, Book, TypeInv,
         Contracts, Live
  <2>3. CASE Lookup
    BY <2>3, OrderNumbers DEF Lookup, Step, Goes, Book, exchange, TypeInv, Contracts, Flags,
       NoneWorking, Answered
  <2>4. CASE Decide
    BY <2>4, OrderNumbers DEF Decide, Step, Goes, Book, exchange, TypeInv, Contracts, Flags,
       NoneWorking, Answered
  <2>5. CASE Cancel
    BY <2>5, OrderNumbers DEF Cancel, LetGo, Step, Goes, Book, Cancelled, CancelLost, Live,
       NoOrder, TypeInv, Contracts, Flags, NoneWorking, Answered
  <2>6. CASE Post
    BY <2>6, OrderNumbers DEF Post, Goes, Book, TypeInv, Contracts, Flags, NoneWorking,
       Answered
  <2>7. CASE PostFails
    BY <2>7, OrderNumbers DEF PostFails, Step, Goes, Book, NotPlaced, NoAnswer, TypeInv,
       Contracts, Flags, NoneWorking, Answered
  <2> QED
    BY <1>3, <2>1, <2>2, <2>3, <2>4, <2>5, <2>6, <2>7 DEF Ladder
<1>4. CASE Entering
  <2>1. CASE Orphan
    BY <2>1, OrderNumbers DEF Orphan, Ends, Step, Goes, Book, exchange, GivesUp, Fallback,
       TypeInv, Contracts, Flags, NoneWorking, Answered
  <2>2. CASE OrphanReadFails
    <3> SUFFICES ASSUME ~told', ~slip'
                 PROVE  /\ loose' = 0 /\ adrift' = 0
                        /\ pc' = "idle" => pos' <= mem'
                        /\ pc' = "taker" => pos' = 0
      BY DEF Answered
    <3>1. ~told /\ ~slip /\ ~(pos > 0)
      BY <2>2 DEF OrphanReadFails
    <3>2. loose = 0 /\ adrift = 0
      BY <3>1 DEF Answered
    <3> QED
      BY <2>2, <3>1, <3>2, OrderNumbers DEF OrphanReadFails, Fallback, GivesUp, Ends, Step,
         Goes, Book, exchange, TypeInv, Contracts, Live
  <2>3. CASE TakerAccepted
    BY <2>3, OrderNumbers DEF TakerAccepted, Goes, Book, TypeInv, Contracts, Flags,
       NoneWorking, Answered
  <2>4. CASE TakerShrinks
    BY <2>4, OrderNumbers DEF TakerShrinks, Goes, Book, exchange, TypeInv, Contracts, Flags,
       NoneWorking, Answered
  <2>5. CASE TakerFails
    BY <2>5, OrderNumbers DEF TakerFails, Ends, Book, GivesUp, Raises, NotPlaced, NoAnswer,
       TypeInv, Contracts, Flags, NoneWorking, Answered
  <2>6. CASE Confirm
    <3> SUFFICES ASSUME ~told', ~slip'
                 PROVE  /\ loose' = 0 /\ adrift' = 0
                        /\ pc' = "idle" => pos' <= mem'
                        /\ pc' = "taker" => pos' = 0
      BY DEF Answered
    <3>1. ~told /\ ~slip /\ ~(Live)
      BY <2>6 DEF Confirm
    <3>2. loose = 0 /\ adrift = 0
      BY <3>1 DEF Answered
    <3> QED
      BY <2>6, <3>1, <3>2, OrderNumbers DEF Confirm, Ends, LetGo, TypeInv, Contracts, Live
  <2>7. CASE ConfirmMisses
    BY <2>7, OrderNumbers DEF ConfirmMisses, Goes, Book, exchange, TypeInv, Contracts,
       Flags, NoneWorking, Answered
  <2>8. CASE Unconfirmed
    BY <2>8, OrderNumbers DEF Unconfirmed, Ends, LastCancel, NoOrder, TypeInv, Contracts,
       Flags, NoneWorking, Answered
  <2> QED
    BY <1>4, <2>1, <2>2, <2>3, <2>4, <2>5, <2>6, <2>7, <2>8 DEF Entering
<1> QED
  BY <1>1, <1>2, <1>3, <1>4 DEF Next

-----------------------------------------------------------------------------
(* The theorems *)

LEMMA EntryNext ==
    ASSUME TypeInv, NoneWorking, Answered, [Next]_vars
    PROVE (TypeInv /\ NoneWorking /\ Answered)'
<1>1. CASE Next
  <2>1. TypeInv'
    BY <1>1, ContractsStep, OrderStep, FlagsStep, ControlStep DEF TypeInv
  <2>2. NoneWorking'
    BY <1>1, NoneWorkingStep
  <2>3. Answered'
    BY <1>1, AnsweredStep
  <2> QED
    BY <2>1, <2>2, <2>3
<1>2. CASE UNCHANGED vars
  <2>1. TypeInv'
    BY <1>2 DEF vars, exchange, counters, TypeInv, Contracts, OrderFits, Flags, Control
  <2>2. NoneWorking'
    BY <1>2 DEF vars, exchange, counters, NoneWorking
  <2>3. Answered'
    BY <1>2 DEF vars, exchange, counters, Answered
  <2> QED
    BY <2>1, <2>2, <2>3
<1> QED
  BY <1>1, <1>2

LEMMA EntryInvariant == Spec => [](TypeInv /\ NoneWorking /\ Answered)
<1>1. TypeInv /\ NoneWorking /\ Answered /\ [Next]_vars => (TypeInv /\ NoneWorking /\ Answered)'
  BY EntryNext
<1> QED
  BY EntryInit, <1>1, PTL DEF Spec

\* Orders, counts and polls keep their ranges; no order deals more than it asked for.
THEOREM EntryTypeOK == Spec => []TypeOK
<1>1. TypeInv => TypeOK
  BY PartsAreType
<1> QED
  BY EntryInvariant, <1>1, PTL

\* However orders fill and end between the calls of an entry, what it leaves behind is on
\* the book, told, or nothing, except for the three ways the code has of letting go.
THEOREM EntriesAnswered == Spec => []EntryAnswered
<1>1. TypeInv /\ NoneWorking /\ Answered => EntryAnswered
  BY DEF Answered, EntryAnswered, Idle
<1> QED
  BY EntryInvariant, <1>1, PTL

\* With the same exceptions no market order goes out on top of a fill of the ladder.
THEOREM TakerGoesAlone == Spec => TakerAlone
<1>1. TypeInv /\ NoneWorking /\ Answered /\ [Next]_vars
        => [pc = "taker" /\ pc' = "confirm" /\ ~told /\ ~slip => Clean]_vars
  BY DEF Answered, Clean
<1> QED
  BY EntryInvariant, <1>1, PTL DEF Spec, TakerAlone
=============================================================================
