-------------------------- MODULE OrderGatewayProofs --------------------------
(* The single-send rule, for any number of calls, lookups and any cooldown:  *)
(* OrderGateway implements AtMostOnceOrder.                                  *)
EXTENDS OrderGateway, TLAPS

(* An order is on the wire or on the book, never both and never twice; an    *)
(* answer on its way back agrees with the book; and only the current call is *)
(* unfinished.  Stated on the values f(lying), b(ook), l(andings), r(eply)   *)
(* and o(utcome) of one call.                                                *)
OneOrder(f, b, l, r, o, current) ==
    /\ f \in {0, 1} /\ l \in {0, 1}
    /\ f + l <= 1
    /\ b = "none" <=> l = 0
    /\ r = "accepted" => l = 1
    /\ r = "refused" => f = 0 /\ l = 0
    /\ o = "unsent" => f = 0 /\ l = 0 /\ r = "none"
    /\ o = "placed" => l = 1
    /\ o = "refused" => f = 0 /\ l = 0
    /\ o = "pending" <=> current

Current(c) == pc # "idle" /\ c = call

Types ==
    /\ flying \in [Calls -> Nat]
    /\ book \in [Calls -> BookStates]
    /\ landings \in [Calls -> Nat]
    /\ reply \in [Calls -> {"none", "accepted", "refused", "uncertain"}]
    /\ pc \in {"idle", "post", "lookup"}
    /\ call \in Calls
    /\ outcome \in [Calls -> {"unsent", "pending", "placed", "refused", "unknown"}]
    /\ sends \in Nat
    /\ pc = "post" => sends = 1

OneOrderInv ==
    /\ Types
    /\ \A c \in Calls :
          OneOrder(flying[c], book[c], landings[c], reply[c], outcome[c], Current(c))

LEMMA OneOrderInit == Init => OneOrderInv
  BY DEF Init, OneOrderInv, OneOrder, Current, Types, BookStates

(* A step that touches one call c keeps the invariant of every other call.   *)
LEMMA OneCallStep ==
    ASSUME OneOrderInv, NEW c \in Calls, Types',
           \A d \in Calls \ {c} :
              /\ flying'[d] = flying[d] /\ book'[d] = book[d] /\ landings'[d] = landings[d]
              /\ reply'[d] = reply[d] /\ outcome'[d] = outcome[d]
              /\ Current(d)' = Current(d),
           OneOrder(flying'[c], book'[c], landings'[c], reply'[c], outcome'[c], Current(c)')
    PROVE  OneOrderInv'
<1> SUFFICES ASSUME NEW d \in Calls
             PROVE  OneOrder(flying'[d], book'[d], landings'[d], reply'[d], outcome'[d],
                             Current(d)')
  BY DEF OneOrderInv
<1>1. CASE d = c
  BY <1>1
<1>2. CASE d # c
  BY <1>2 DEF OneOrderInv
<1> QED BY <1>1, <1>2

LEMMA OneOrderStep == OneOrderInv /\ [Next]_vars => OneOrderInv'
<1> SUFFICES ASSUME OneOrderInv, [Next]_vars
             PROVE  OneOrderInv'
  OBVIOUS
<1>0. Types
  BY DEF OneOrderInv
<1>a. \A c \in Calls :
         OneOrder(flying[c], book[c], landings[c], reply[c], outcome[c], Current(c))
  BY DEF OneOrderInv
<1>1. ASSUME NEW c \in Calls, Take(c) PROVE OneOrderInv'
  <2>1. flying[c] = 1 /\ landings[c] = 0
    BY <1>0, <1>a, <1>1 DEF Take, Types, OneOrder
  <2>2. PICK r \in {"accepted", "uncertain"} : reply' = [reply EXCEPT ![c] = r]
    BY <1>1 DEF Take
  <2>3. /\ flying' = [flying EXCEPT ![c] = 0] /\ landings' = [landings EXCEPT ![c] = 1]
        /\ book' = [book EXCEPT ![c] = "working"] /\ UNCHANGED client
    BY <1>1, <2>1 DEF Take
  <2>4. Types'
    BY <1>0, <2>2, <2>3 DEF Types, BookStates, client
  <2> QED
    BY <1>0, <1>a, <2>1, <2>2, <2>3, <2>4, OneCallStep DEF Types, OneOrder, Current, client
<1>2. ASSUME NEW c \in Calls, TurnDown(c) PROVE OneOrderInv'
  <2>1. flying[c] = 1 /\ landings[c] = 0
    BY <1>0, <1>a, <1>2 DEF TurnDown, Types, OneOrder
  <2>2. PICK r \in {"refused", "uncertain"} : reply' = [reply EXCEPT ![c] = r]
    BY <1>2 DEF TurnDown
  <2>3. /\ flying' = [flying EXCEPT ![c] = 0] /\ UNCHANGED <<landings, book, client>>
    BY <1>2, <2>1 DEF TurnDown
  <2>4. Types'
    BY <1>0, <2>2, <2>3 DEF Types, client
  <2> QED
    BY <1>0, <1>a, <2>1, <2>2, <2>3, <2>4, OneCallStep DEF Types, OneOrder, Current, client
<1>3. ASSUME NEW c \in Calls, LoseReply(c) PROVE OneOrderInv'
  <2>1. reply' = [reply EXCEPT ![c] = "none"] /\ UNCHANGED <<flying, book, landings, client>>
    BY <1>3 DEF LoseReply
  <2>2. Types'
    BY <1>0, <2>1 DEF Types, client
  <2>3. OneOrder(flying'[c], book'[c], landings'[c], reply'[c], outcome'[c], Current(c)')
    BY <1>0, <1>a, <2>1 DEF Types, OneOrder, Current, client
  <2> QED
    BY <1>0, <2>1, <2>2, <2>3, OneCallStep DEF Types, Current, client
<1>4. ASSUME NEW c \in Calls, LoseRequest(c) PROVE OneOrderInv'
  <2>1. flying[c] = 1 /\ landings[c] = 0
    BY <1>0, <1>a, <1>4 DEF LoseRequest, Types, OneOrder
  <2>2. flying' = [flying EXCEPT ![c] = 0] /\ UNCHANGED <<landings, book, reply, client>>
    BY <1>4, <2>1 DEF LoseRequest
  <2>3. Types'
    BY <1>0, <2>2 DEF Types, client
  <2> QED
    BY <1>0, <1>a, <2>1, <2>2, <2>3, OneCallStep DEF Types, OneOrder, Current, client
<1>5. ASSUME NEW c \in Calls, Match(c) PROVE OneOrderInv'
  <2>1. PICK s \in {"filled", "partial", "ended"} : book' = [book EXCEPT ![c] = s]
    BY <1>5 DEF Match
  <2>2. book[c] = "working" /\ UNCHANGED <<flying, landings, reply, client>>
    BY <1>5 DEF Match
  <2>3. Types'
    BY <1>0, <2>1, <2>2 DEF Types, BookStates, client
  <2> QED
    BY <1>0, <1>a, <2>1, <2>2, <2>3, OneCallStep DEF Types, OneOrder, Current, client
<1>6. ASSUME NEW c \in Calls, PlaceOrder(c) PROVE OneOrderInv'
  <2>1. flying[c] = 0 /\ landings[c] = 0 /\ reply[c] = "none" /\ pc = "idle"
    BY <1>a, <1>6 DEF PlaceOrder, OneOrder
  <2>2. /\ flying' = [flying EXCEPT ![c] = 1] /\ outcome' = [outcome EXCEPT ![c] = "pending"]
        /\ pc' = "post" /\ call' = c /\ sends' = 1 /\ UNCHANGED <<book, landings, reply>>
    BY <1>6, <2>1 DEF PlaceOrder
  <2>3. Types'
    BY <1>0, <2>2 DEF Types
  <2> QED
    BY <1>0, <1>a, <2>1, <2>2, <2>3, OneCallStep DEF Types, OneOrder, Current
<1>7. CASE ReadReply
  <2>1. pc = "post" /\ call \in Calls
    BY <1>0, <1>7 DEF ReadReply, Types
  <2>2. Types'
    BY <1>0, <1>7 DEF ReadReply, Finish, Types
  <2>3. /\ reply' = [reply EXCEPT ![call] = "none"]
        /\ UNCHANGED <<flying, book, landings, call>>
    BY <1>7 DEF ReadReply
  <2>4. ASSUME NEW o \in {"placed", "refused"}, Finish(o),
               o = "placed" => reply[call] = "accepted",
               o = "refused" => reply[call] = "refused"
        PROVE OneOrderInv'
    <3>1. OneOrder(flying'[call], book'[call], landings'[call], reply'[call], outcome'[call],
                   Current(call)')
      BY <1>0, <1>a, <2>1, <2>3, <2>4 DEF Finish, Types, OneOrder, Current
    <3> QED
      BY <1>0, <2>1, <2>2, <2>3, <2>4, <3>1, OneCallStep DEF Finish, Types, Current
  <2>5. CASE pc' = "lookup" /\ UNCHANGED outcome
    <3>1. OneOrder(flying'[call], book'[call], landings'[call], reply'[call], outcome'[call],
                   Current(call)')
      BY <1>0, <1>a, <2>1, <2>3, <2>5 DEF Types, OneOrder, Current
    <3> QED
      BY <1>0, <2>1, <2>2, <2>3, <2>5, <3>1, OneCallStep DEF Types, Current
  <2> QED BY <1>7, <2>4, <2>5 DEF ReadReply
<1>8. CASE PostTimesOut
  <2>1. pc = "post" /\ pc' = "lookup" /\ call \in Calls
        /\ UNCHANGED <<flying, book, landings, reply, call, outcome, sends>>
    BY <1>0, <1>8 DEF PostTimesOut, OrderPostTries, Types
  <2> QED
    BY <1>0, <1>a, <2>1 DEF OneOrderInv, Types, Current
<1>9. CASE Lookup
  <2>1. /\ pc = "lookup" /\ call \in Calls
        /\ UNCHANGED <<flying, book, landings, reply, call, sends>>
    BY <1>0, <1>9 DEF Lookup, Types, exchange
  <2>2. CASE UNCHANGED <<pc, outcome>>
    BY <1>0, <1>a, <2>1, <2>2 DEF OneOrderInv, Types, Current
  <2>3. ASSUME NEW o \in {"unknown", "placed"}, Finish(o), o = "placed" => book[call] # "none"
        PROVE OneOrderInv'
    <3>1. Types'
      BY <1>0, <2>1, <2>3 DEF Finish, Types
    <3> QED
      BY <1>0, <1>a, <2>1, <2>3, <3>1, OneCallStep DEF Finish, Types, OneOrder, Current
  <2> QED BY <1>9, <2>2, <2>3 DEF Lookup, Returned, Unresolved
<1>10. CASE Tick \/ UNCHANGED vars
  BY <1>0, <1>a, <1>10 DEF Tick, OneOrderInv, Types, Current, vars, exchange, client
<1> QED
  BY <1>1, <1>2, <1>3, <1>4, <1>5, <1>6, <1>7, <1>8, <1>9, <1>10 DEF Next

(* Every step of the gateway is a step of the at-most-once call or leaves    *)
(* what its caller can see unchanged.                                        *)
LEMMA GatewayStepSimulates ==
    OneOrderInv /\ [Next]_vars => [AtMostOnce!Next]_(AtMostOnce!vars)
<1> SUFFICES ASSUME OneOrderInv, [Next]_vars
             PROVE  [AtMostOnce!Next]_(AtMostOnce!vars)
  OBVIOUS
<1> USE DEF AtMostOnce!vars
<1>0. Types
  BY DEF OneOrderInv
<1>a. \A c \in Calls :
         OneOrder(flying[c], book[c], landings[c], reply[c], outcome[c], Current(c))
  BY DEF OneOrderInv
<1>1. ASSUME NEW c \in Calls, Take(c) PROVE AtMostOnce!Land(c)
  <2>1. flying[c] = 1 /\ landings[c] = 0 /\ outcome[c] \in {"pending", "unknown"}
    BY <1>0, <1>a, <1>1 DEF Take, Types, OneOrder
  <2> QED BY <1>1, <2>1 DEF Take, client, AtMostOnce!Land
<1>2. ASSUME NEW c \in Calls, TurnDown(c) \/ LoseReply(c) \/ LoseRequest(c) \/ Match(c)
      PROVE UNCHANGED AtMostOnce!vars
  BY <1>2 DEF TurnDown, LoseReply, LoseRequest, Match, client
<1>3. ASSUME NEW c \in Calls, PlaceOrder(c) PROVE AtMostOnce!Send(c)
  BY <1>3 DEF PlaceOrder, AtMostOnce!Send
<1>4. CASE ReadReply
  <2>1. pc = "post" /\ call \in Calls /\ landings' = landings
    BY <1>0, <1>4 DEF ReadReply, Types
  <2>2. outcome[call] = "pending"
    BY <1>a, <2>1 DEF OneOrder, Current
  <2>3. CASE reply[call] = "accepted" /\ Finish("placed")
    <3>1. landings[call] = 1
      BY <1>a, <2>1, <2>3 DEF OneOrder
    <3> QED BY <2>1, <2>2, <2>3, <3>1 DEF Finish, AtMostOnce!Next, AtMostOnce!Confirm
  <2>4. CASE reply[call] = "refused" /\ Finish("refused")
    <3>1. landings[call] = 0
      BY <1>a, <2>1, <2>4 DEF OneOrder
    <3> QED BY <2>1, <2>2, <2>4, <3>1 DEF Finish, AtMostOnce!Next, AtMostOnce!Refuse
  <2>5. CASE UNCHANGED outcome
    BY <2>1, <2>5
  <2> QED BY <1>4, <2>3, <2>4, <2>5 DEF ReadReply
<1>5. CASE PostTimesOut
  BY <1>5 DEF PostTimesOut
<1>6. CASE Lookup
  <2>1. pc = "lookup" /\ call \in Calls /\ landings' = landings
    BY <1>0, <1>6 DEF Lookup, Types, exchange
  <2>2. outcome[call] = "pending"
    BY <1>a, <2>1 DEF OneOrder, Current
  <2>3. CASE UNCHANGED outcome
    BY <2>1, <2>3
  <2>4. CASE Finish("unknown")
    BY <2>1, <2>2, <2>4 DEF Finish, AtMostOnce!Next, AtMostOnce!GiveUp
  <2>5. CASE book[call] # "none" /\ Finish("placed")
    <3>1. landings[call] = 1
      BY <1>a, <2>1, <2>5 DEF OneOrder
    <3> QED BY <2>1, <2>2, <2>5, <3>1 DEF Finish, AtMostOnce!Next, AtMostOnce!Confirm
  <2> QED BY <1>6, <2>3, <2>4, <2>5 DEF Lookup, Returned, Unresolved
<1>7. CASE Tick
  BY <1>7 DEF Tick, exchange, client
<1>8. CASE UNCHANGED vars
  BY <1>8 DEF vars, exchange, client
<1> QED
  BY <1>1, <1>2, <1>3, <1>4, <1>5, <1>6, <1>7, <1>8 DEF Next, AtMostOnce!Next

(* place_order is an at-most-once call whatever is lost or late: no second   *)
(* order under one externalOid, success only for an order on the book, and a *)
(* refusal only for one that never gets there.                               *)
THEOREM GatewayIsAtMostOnce == Spec => AtMostOnceSpec
<1>1. Init => AtMostOnce!Init
  BY DEF Init, AtMostOnce!Init
<1> QED
  BY <1>1, OneOrderInit, OneOrderStep, GatewayStepSimulates, PTL
     DEF Spec, AtMostOnceSpec, AtMostOnce!Spec

-----------------------------------------------------------------------------
(* Types, the counts of a lookup, and what is told to the owner *)

(* A lookup begins at 0 and ends at LookupAttempts at the latest.            *)
CountInv ==
    /\ OneOrderInv
    /\ lookups \in 0 .. LookupAttempts
    /\ pc = "post" => lookups = 0
    /\ pc = "lookup" => lookups < LookupAttempts
    /\ answered \in BOOLEAN
    /\ verdict \in [Calls -> Verdicts \cup {"none"}]
    /\ alertAge \in [Verdicts -> 0 .. Cooldown]

LEMMA StampType ==
    ASSUME alertAge \in [Verdicts -> 0 .. Cooldown], NEW v \in Verdicts, OnOrderUnresolved(v)
    PROVE  /\ alertAge' \in [Verdicts -> 0 .. Cooldown]
           /\ alertAge'[v] < Cooldown
<1>1. 0 \in 0 .. Cooldown /\ 0 < Cooldown
  BY GatewayAssumption DEF GatewayAssumption
<1>2. (IF alertAge[v] < Cooldown THEN alertAge[v] ELSE 0) \in 0 .. Cooldown
  BY <1>1
<1>3. alertAge' = [alertAge EXCEPT ![v] = IF alertAge[v] < Cooldown THEN alertAge[v] ELSE 0]
  BY DEF OnOrderUnresolved
<1> QED
  BY <1>1, <1>2, <1>3

LEMMA CountStep == CountInv /\ [Next]_vars => CountInv'
<1> SUFFICES ASSUME CountInv, [Next]_vars PROVE CountInv'
  OBVIOUS
<1> USE GatewayAssumption DEF GatewayAssumption
<1>0. OneOrderInv'
  BY OneOrderStep DEF CountInv
<1>1. ASSUME NEW c \in Calls, Take(c) \/ TurnDown(c) \/ LoseReply(c) \/ LoseRequest(c) \/ Match(c)
      PROVE CountInv'
  BY <1>0, <1>1 DEF CountInv, Take, TurnDown, LoseReply, LoseRequest, Match, client
<1>2. ASSUME NEW c \in Calls, PlaceOrder(c) PROVE CountInv'
  <2>1. answered' \in BOOLEAN
    BY <1>2 DEF PlaceOrder
  <2>2. /\ pc' = "post" /\ lookups' = 0 /\ lookups' \in 0 .. LookupAttempts
        /\ UNCHANGED <<verdict, alertAge>>
    BY <1>2 DEF PlaceOrder
  <2> QED
    BY <1>0, <2>1, <2>2 DEF CountInv
<1>3. CASE ReadReply
  BY <1>0, <1>3 DEF CountInv, ReadReply, Finish
<1>4. CASE PostTimesOut
  <2>1. pc = "post" /\ pc' \in {"post", "lookup"} /\ UNCHANGED <<lookups, answered, verdict, alertAge>>
    BY <1>4 DEF PostTimesOut
  <2> QED
    BY <1>0, <2>1 DEF CountInv
<1>5. CASE Lookup
  <2>1. pc = "lookup" /\ call \in Calls
    BY <1>5 DEF Lookup, CountInv, OneOrderInv, Types
  <2>2. lookups' = lookups + 1 /\ lookups' \in 0 .. LookupAttempts
    BY <1>5, <2>1 DEF Lookup, CountInv
  <2>3. answered' \in BOOLEAN
    BY <1>5 DEF Lookup, CountInv
  <2>4. ASSUME NEW v \in Verdicts, Unresolved(v) PROVE CountInv'
    <3>1. alertAge' \in [Verdicts -> 0 .. Cooldown]
      BY <2>4, StampType DEF Unresolved, CountInv
    <3>2. pc' = "idle" /\ verdict' = [verdict EXCEPT ![call] = v]
      BY <2>4 DEF Unresolved, Finish
    <3> QED
      BY <1>0, <2>1, <2>2, <2>3, <3>1, <3>2 DEF CountInv
  <2>5. CASE Returned
    BY <1>0, <2>1, <2>2, <2>3, <2>5 DEF Returned, Finish, CountInv
  <2>6. CASE ~LastLookup(lookups') /\ UNCHANGED <<pc, outcome, verdict, alertAge>>
    BY <1>0, <2>1, <2>2, <2>3, <2>6 DEF LastLookup, CountInv
  <2> QED
    BY <1>5, <2>4, <2>5, <2>6 DEF Lookup, Verdicts
<1>6. CASE Tick
  <2>1. ASSUME NEW v \in Verdicts
        PROVE (IF alertAge[v] < Cooldown THEN alertAge[v] + 1 ELSE Cooldown) \in 0 .. Cooldown
    BY DEF CountInv
  <2>2. alertAge' \in [Verdicts -> 0 .. Cooldown]
    BY <1>6, <2>1 DEF Tick
  <2> QED
    BY <1>0, <1>6, <2>2 DEF CountInv, Tick, exchange, client
<1>7. CASE UNCHANGED vars
  BY <1>0, <1>7 DEF CountInv, vars, exchange, client
<1> QED
  BY <1>1, <1>2, <1>3, <1>4, <1>5, <1>6, <1>7 DEF Next

LEMMA CountInit == Init => CountInv
<1>1. Cooldown \in 0 .. Cooldown /\ 0 \in 0 .. LookupAttempts
  BY GatewayAssumption DEF GatewayAssumption
<1> QED
  BY <1>1, OneOrderInit DEF Init, CountInv, Verdicts

(* Every variable of the gateway stays in its range, for any number of calls *)
(* and lookups and any cooldown.                                             *)
THEOREM GatewayTypeOK == Spec => []TypeOK
<1>1. CountInv => TypeOK
  BY DEF CountInv, OneOrderInv, Types, TypeOK
<1> QED
  BY <1>1, CountInit, CountStep, PTL DEF Spec

(* A call that gives up has its verdict alerted within the cooldown: the     *)
(* alert of _on_order_unresolved goes out, or an equal one just did.         *)
THEOREM GivenUpIsAlerted == Spec => UnresolvedIsAlerted
<1>1. ASSUME CountInv, [Next]_vars, NEW c \in Calls,
             outcome[c] = "pending", outcome'[c] = "unknown"
      PROVE alertAge'[verdict'[c]] < Cooldown
  <2>1. Types /\ call \in Calls
    BY <1>1 DEF CountInv, OneOrderInv, Types
  <2>2. ASSUME NEW d \in Calls,
               Take(d) \/ TurnDown(d) \/ LoseReply(d) \/ LoseRequest(d) \/ Match(d) \/ PlaceOrder(d)
        PROVE FALSE
    BY <1>1, <2>1, <2>2 DEF Take, TurnDown, LoseReply, LoseRequest, Match, PlaceOrder, client, Types
  <2>3. ~ReadReply /\ ~PostTimesOut /\ ~Tick /\ ~UNCHANGED vars
    BY <1>1, <2>1 DEF ReadReply, Finish, PostTimesOut, Tick, vars, client, Types
  <2>4. Lookup
    BY <1>1, <2>2, <2>3 DEF Next
  <2>5. ~Returned /\ ~UNCHANGED outcome
    BY <1>1, <2>1 DEF Returned, Finish, Types
  <2>6. PICK v \in Verdicts : Unresolved(v)
    BY <2>4, <2>5 DEF Lookup, Verdicts
  <2>7. c = call /\ verdict'[c] = v
    BY <1>1, <2>1, <2>6 DEF Unresolved, Finish, Types, CountInv
  <2> QED
    BY <1>1, <2>6, <2>7, StampType DEF Unresolved, CountInv
<1>2. CountInv /\ [Next]_vars =>
        [\A c \in Calls : (outcome[c] = "pending" /\ outcome'[c] = "unknown")
             => alertAge'[verdict'[c]] < Cooldown]_vars
  BY <1>1
<1> QED
  BY <1>2, CountInit, CountStep, PTL DEF Spec, UnresolvedIsAlerted

(* A call reported as ended without a fill has nothing behind it, then or    *)
(* later: no request of it is on the wire and its order cannot match.        *)
THEOREM NotFilledMeansNothing == Spec => []NotFilledHoldsNothing
<1> DEFINE Ended == CountInv /\ NotFilledHoldsNothing
<1>1. Init => Ended
  BY CountInit DEF Init, NotFilledHoldsNothing
<1>2. Ended /\ [Next]_vars => Ended'
  <2> SUFFICES ASSUME Ended, [Next]_vars, NEW d \in Calls, verdict'[d] = "not_filled"
               PROVE book'[d] = "ended" /\ flying'[d] = 0
    BY CountStep DEF NotFilledHoldsNothing
  <2>0. /\ Types /\ call \in Calls
        /\ OneOrder(flying[d], book[d], landings[d], reply[d], outcome[d], Current(d))
        /\ verdict[d] = "not_filled" => book[d] = "ended" /\ flying[d] = 0
        /\ verdict \in [Calls -> Verdicts \cup {"none"}]
    BY DEF CountInv, OneOrderInv, NotFilledHoldsNothing, Types
  <2>1. ASSUME NEW c \in Calls,
               Take(c) \/ TurnDown(c) \/ LoseReply(c) \/ LoseRequest(c) \/ Match(c)
        PROVE book'[d] = "ended" /\ flying'[d] = 0
    <3>1. verdict' = verdict
      BY <2>1 DEF Take, TurnDown, LoseReply, LoseRequest, Match, client
    <3> QED
      BY <2>0, <2>1, <3>1 DEF Take, TurnDown, LoseReply, LoseRequest, Match, Types
  <2>2. ASSUME NEW c \in Calls, PlaceOrder(c) PROVE book'[d] = "ended" /\ flying'[d] = 0
    BY <2>0, <2>2 DEF PlaceOrder, Types, OneOrder
  <2>3. CASE ReadReply \/ PostTimesOut \/ Tick \/ UNCHANGED vars
    <3>1. UNCHANGED <<verdict, book, flying>>
      BY <2>0, <2>3 DEF ReadReply, PostTimesOut, OrderPostTries, Types, Tick, vars, exchange, client
    <3> QED
      BY <2>0, <3>1
  <2>4. CASE Lookup
    <3>1. UNCHANGED <<book, flying>>
      BY <2>4 DEF Lookup, exchange
    <3>2. CASE verdict'[d] = verdict[d]
      BY <2>0, <3>1, <3>2
    <3>3. CASE verdict'[d] # verdict[d]
      <4>1. \/ book[call] # "none" /\ EndedUnfilled(call) /\ Unresolved("not_filled")
            \/ \E v \in {"not_found", "lookup_failed"} : Unresolved(v)
        BY <2>4, <3>3 DEF Lookup, Returned
      <4>2. EndedUnfilled(call) /\ d = call
        BY <2>0, <3>3, <4>1 DEF Unresolved
      <4> QED
        BY <2>0, <3>1, <4>2 DEF EndedUnfilled, OneOrder, Types
    <3> QED
      BY <3>2, <3>3
  <2> QED
    BY <2>1, <2>2, <2>3, <2>4 DEF Next
<1> QED
  BY <1>1, <1>2, PTL DEF Spec
=============================================================================
