-------------------------- MODULE AtMostOnceOrder --------------------------
(* What the rest of the bot may assume of one order/create call, whatever    *)
(* the network does to it: the order reaches the book at most once; a call   *)
(* that returns is one whose order is on the book; a call the exchange       *)
(* refused never lands; and a call that raises without an answer may still   *)
(* land later, which is why nothing is ever re-sent.                         *)
EXTENDS Naturals

CONSTANT Calls            \* one element per order/create attempt: its externalOid

VARIABLES
    landings,             \* how many orders the book holds under each externalOid
    outcome               \* what the caller was told

vars == <<landings, outcome>>

Outcomes == {"unsent", "pending", "placed", "refused", "unknown"}

Init == /\ landings = [c \in Calls |-> 0]
        /\ outcome = [c \in Calls |-> "unsent"]

Send(c) == /\ outcome[c] = "unsent"
           /\ outcome' = [outcome EXCEPT ![c] = "pending"]
           /\ UNCHANGED landings

\* The order may reach the book while the caller waits or after it gave up.
Land(c) == /\ outcome[c] \in {"pending", "unknown"}
           /\ landings[c] = 0
           /\ landings' = [landings EXCEPT ![c] = 1]
           /\ UNCHANGED outcome

Confirm(c) == /\ outcome[c] = "pending"
              /\ landings[c] = 1
              /\ outcome' = [outcome EXCEPT ![c] = "placed"]
              /\ UNCHANGED landings

Refuse(c) == /\ outcome[c] = "pending"
             /\ landings[c] = 0
             /\ outcome' = [outcome EXCEPT ![c] = "refused"]
             /\ UNCHANGED landings

GiveUp(c) == /\ outcome[c] = "pending"
             /\ outcome' = [outcome EXCEPT ![c] = "unknown"]
             /\ UNCHANGED landings

Next == \E c \in Calls :
            \/ Send(c) \/ Land(c) \/ Confirm(c) \/ Refuse(c) \/ GiveUp(c)

Spec == Init /\ [][Next]_vars
=============================================================================
