---------------------------- MODULE OrderGateway ----------------------------
(* MexcFuturesClient.place_order and the lookup that settles a POST nobody   *)
(* answered (futuresbot/marketdata.py), with the exchange's matching engine  *)
(* and the runtime's "order unanswered" alert (futuresbot/runtime.py).       *)
(* The client is synchronous: one call at a time.  The request, the reply    *)
(* and the lookup are separate steps, so an order can land between any two.  *)
EXTENDS Integers, FiniteSets

CONSTANTS
    Calls,               \* order/create attempts, one fresh externalOid each
    LookupAttempts,      \* _ORDER_LOOKUP_ATTEMPTS
    Cooldown             \* TELEGRAM_ALERT_COOLDOWN_SECONDS, in clock ticks

ASSUME GatewayAssumption ==
    /\ LookupAttempts \in Nat \ {0}
    /\ Cooldown \in Nat \ {0}

VARIABLES
    flying,              \* requests on the wire, per externalOid
    book,                \* what the exchange holds under it
    landings,            \* how many orders it created from it
    reply,               \* the answer on its way back to the client
    pc, call,            \* where the client is, and in which call
    sends, lookups,      \* POSTs sent and lookups made for this call
    answered,            \* some lookup of this call got an answer
    outcome,             \* what the caller of place_order saw
    verdict,             \* why an unresolved call is unresolved
    alertAge             \* ticks since the alert for a verdict; Cooldown: long ago, or never

exchange == <<flying, book, landings, reply>>
client == <<pc, call, sends, lookups, answered, outcome, verdict>>
vars == <<exchange, client, alertAge>>

Verdicts == {"not_filled", "not_found", "lookup_failed"}
\* "ended": canceled or invalid with nothing filled; "partial": ended after a part fill
BookStates == {"none", "working", "filled", "partial", "ended"}

Init ==
    /\ flying = [c \in Calls |-> 0]
    /\ book = [c \in Calls |-> "none"]
    /\ landings = [c \in Calls |-> 0]
    /\ reply = [c \in Calls |-> "none"]
    /\ pc = "idle" /\ call \in Calls
    /\ sends = 0 /\ lookups = 0 /\ answered = FALSE
    /\ outcome = [c \in Calls |-> "unsent"]
    /\ verdict = [c \in Calls |-> "none"]
    /\ alertAge = [v \in Verdicts |-> Cooldown]

-----------------------------------------------------------------------------
(* The exchange and the network: external, as the client's handling of them  *)
(* assumes.                                                                  *)

\* A request reaches the matching engine: taken, refused for good (balance,
\* parameters, rate limit...), or answered with one of the uncertain server
\* error codes, which does not say whether the order was taken.
Take(c) ==
    /\ flying[c] > 0
    /\ flying' = [flying EXCEPT ![c] = @ - 1]
    /\ landings' = [landings EXCEPT ![c] = @ + 1]
    /\ book' = [book EXCEPT ![c] = "working"]
    /\ \E r \in {"accepted", "uncertain"} : reply' = [reply EXCEPT ![c] = r]
    /\ UNCHANGED <<client, alertAge>>

TurnDown(c) ==
    /\ flying[c] > 0
    /\ flying' = [flying EXCEPT ![c] = @ - 1]
    /\ \E r \in {"refused", "uncertain"} : reply' = [reply EXCEPT ![c] = r]
    /\ UNCHANGED <<landings, book, client, alertAge>>

LoseReply(c) ==
    /\ reply[c] # "none"
    /\ reply' = [reply EXCEPT ![c] = "none"]
    /\ UNCHANGED <<flying, landings, book, client, alertAge>>

LoseRequest(c) ==
    /\ flying[c] > 0
    /\ flying' = [flying EXCEPT ![c] = @ - 1]
    /\ UNCHANGED <<landings, book, reply, client, alertAge>>

\* A taken order fills, or is canceled/invalidated, before or after a part fill.
Match(c) ==
    /\ book[c] = "working"
    /\ \E s \in {"filled", "partial", "ended"} : book' = [book EXCEPT ![c] = s]
    /\ UNCHANGED <<flying, landings, reply, client, alertAge>>

Tick ==
    /\ alertAge' = [v \in Verdicts |-> IF alertAge[v] < Cooldown THEN alertAge[v] + 1 ELSE Cooldown]
    /\ UNCHANGED <<exchange, client>>

-----------------------------------------------------------------------------
(* The client *)

\* Each attempt, a balance-guard resize included, is a fresh externalOid.
PlaceOrder(c) ==
    /\ pc = "idle" /\ outcome[c] = "unsent"
    /\ pc' = "post" /\ call' = c
    /\ sends' = 1 /\ lookups' = 0 /\ answered' = FALSE
    /\ flying' = [flying EXCEPT ![c] = @ + 1]
    /\ outcome' = [outcome EXCEPT ![c] = "pending"]
    /\ UNCHANGED <<book, landings, reply, verdict, alertAge>>

Finish(o) ==
    /\ pc' = "idle"
    /\ outcome' = [outcome EXCEPT ![call] = o]

ReadReply ==
    /\ pc = "post"
    /\ \/ /\ reply[call] = "accepted" /\ Finish("placed")
       \/ /\ reply[call] = "refused" /\ Finish("refused")
       \/ /\ reply[call] = "uncertain" /\ pc' = "lookup" /\ UNCHANGED outcome
    /\ reply' = [reply EXCEPT ![call] = "none"]
    /\ UNCHANGED <<flying, book, landings, call, sends, lookups, answered, verdict,
                   alertAge>>

\* No answer.  private_post would send again while tries are left; for
\* order/create there is one try, and the call goes to the lookup.
OrderPostTries_asAnyPost == 3
OrderPostTries == 1                 \* "never re-POST an order"
PostTimesOut ==
    /\ pc = "post"
    /\ IF sends < OrderPostTries
       THEN /\ sends' = sends + 1
            /\ flying' = [flying EXCEPT ![call] = @ + 1]
            /\ UNCHANGED pc
       ELSE /\ pc' = "lookup"
            /\ UNCHANGED <<sends, flying>>
    /\ UNCHANGED <<book, landings, reply, call, lookups, answered, outcome, verdict,
                   alertAge>>

\* _notify_once: stamped and sent unless the same key was alerted within Cooldown.
OnOrderUnresolved_lookupFailedOnly(v) ==
    alertAge' = IF v = "lookup_failed" THEN [alertAge EXCEPT ![v] = 0] ELSE alertAge
OnOrderUnresolved(v) ==
    alertAge' = [alertAge EXCEPT ![v] = IF @ < Cooldown THEN @ ELSE 0]

Unresolved(v) ==
    /\ Finish("unknown")
    /\ verdict' = [verdict EXCEPT ![call] = v]
    /\ OnOrderUnresolved(v)

Returned == Finish("placed") /\ UNCHANGED <<verdict, alertAge>>

\* A canceled order that filled in part did open (or close) something.
EndedUnfilled_anyFill(c) == book[c] \in {"ended", "partial"}
EndedUnfilled(c) == book[c] = "ended"

\* A lookup that fails uses up an attempt like one that is answered.
LastLookup(n) == n >= LookupAttempts

\* One GET by externalOid: the order, "none", or no usable answer.  Finding the
\* order ends the loop at once; otherwise the last attempt decides.
Lookup ==
    /\ pc = "lookup"
    /\ \/ /\ book[call] # "none"
          /\ answered' = TRUE
          /\ lookups' = lookups + 1
          /\ IF EndedUnfilled(call) THEN Unresolved("not_filled") ELSE Returned
       \/ \E heard \in BOOLEAN :
          /\ heard => book[call] = "none"
          /\ answered' = (answered \/ heard)
          /\ lookups' = lookups + 1
          /\ IF LastLookup(lookups')
             THEN Unresolved(IF answered' THEN "not_found" ELSE "lookup_failed")
             ELSE UNCHANGED <<pc, outcome, verdict, alertAge>>
    /\ UNCHANGED <<exchange, call, sends>>

Next ==
    \/ \E c \in Calls : \/ Take(c) \/ TurnDown(c) \/ LoseReply(c) \/ LoseRequest(c)
                        \/ Match(c) \/ PlaceOrder(c)
    \/ ReadReply \/ PostTimesOut \/ Lookup \/ Tick

Spec == Init /\ [][Next]_vars

-----------------------------------------------------------------------------
TypeOK ==
    /\ flying \in [Calls -> Nat]
    /\ book \in [Calls -> BookStates]
    /\ landings \in [Calls -> Nat]
    /\ reply \in [Calls -> {"none", "accepted", "refused", "uncertain"}]
    /\ pc \in {"idle", "post", "lookup"}
    /\ call \in Calls
    /\ sends \in Nat /\ lookups \in 0 .. LookupAttempts
    /\ answered \in BOOLEAN
    /\ outcome \in [Calls -> {"unsent", "pending", "placed", "refused", "unknown"}]
    /\ verdict \in [Calls -> Verdicts \cup {"none"}]
    /\ alertAge \in [Verdicts -> 0 .. Cooldown]

\* The single-send rule of marketdata.py: seen from its caller, place_order is
\* an at-most-once call (no second order, success only if the order is on the
\* book, a refusal only if it is not and never will be).
AtMostOnce == INSTANCE AtMostOnceOrder
AtMostOnceSpec == AtMostOnce!Spec

\* An order that lands although its call gave up is not tracked by the bot, so
\* the owner is told: whenever a call is given up, an alert for that verdict has
\* just gone out or is still inside its cooldown.
UnresolvedIsAlerted ==
    [][\A c \in Calls : (outcome[c] = "pending" /\ outcome'[c] = "unknown")
            => alertAge'[verdict'[c]] < Cooldown]_vars

\* "MEXC holds it as canceled/invalid with nothing filled": a call reported that
\* way has no fill behind it, then or later.
NotFilledHoldsNothing ==
    \A c \in Calls : verdict[c] = "not_filled" => book[c] = "ended" /\ flying[c] = 0
=============================================================================
