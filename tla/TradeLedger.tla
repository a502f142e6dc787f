----------------------------- MODULE TradeLedger -----------------------------
(* What the state file promises about one live position, whatever happens to *)
(* the process: the position stays in it until MEXC has closed it, and then  *)
(* leaves it exactly once, as a recorded trade or - only after the exchange  *)
(* has had Grace ticks to publish the close - as an unrecorded drop.  Only   *)
(* where a listing has left the position out while MEXC held it, and none    *)
(* has shown it since, may it be dropped sooner; and only by the handler     *)
(* whose accepted close order did not fill may it be recorded sooner.        *)
EXTENDS Naturals

CONSTANT Grace

VARIABLES
    open,            \* MEXC still holds the position
    gone,            \* ticks since it stopped holding it, counted up to Grace
    entry,           \* the position's entry in the state file
    doubted,         \* a listing left it out while MEXC held it
    unfilled         \* a close is booked, or was, whose order left the position open

vars == <<open, gone, entry, doubted, unfilled>>

Init == open = TRUE /\ gone = 0 /\ entry = "held" /\ doubted = FALSE /\ unfilled = FALSE

CloseOnExchange == /\ open
                   /\ open' = FALSE /\ unfilled' = FALSE
                   /\ UNCHANGED <<gone, entry, doubted>>

Pass == /\ ~open /\ gone < Grace
        /\ gone' = gone + 1
        /\ UNCHANGED <<open, entry, doubted, unfilled>>

LeftOut == /\ open /\ entry = "held" /\ ~doubted
           /\ doubted' = TRUE
           /\ UNCHANGED <<open, gone, entry, unfilled>>

\* The next listing that shows it, or the row of its close.
Cleared == /\ doubted /\ entry = "held"
           /\ doubted' = FALSE
           /\ UNCHANGED <<open, gone, entry, unfilled>>

\* A handler takes the accepted order for the close ...
TakenAsClosed == /\ open /\ entry = "held" /\ ~unfilled
                 /\ unfilled' = TRUE
                 /\ UNCHANGED <<open, gone, entry, doubted>>

\* ... or fails, or dies, before it has booked it.
NotBooked == /\ unfilled /\ entry = "held"
             /\ unfilled' = FALSE
             /\ UNCHANGED <<open, gone, entry, doubted>>

Record == /\ ~open \/ unfilled
          /\ entry = "held"
          /\ entry' = "recorded"
          /\ UNCHANGED <<open, gone, doubted, unfilled>>

Drop == /\ entry = "held"
        /\ doubted \/ gone = Grace
        /\ entry' = "dropped"
        /\ UNCHANGED <<open, gone, doubted, unfilled>>

Next == CloseOnExchange \/ Pass \/ LeftOut \/ Cleared \/ TakenAsClosed \/ NotBooked
        \/ Record \/ Drop

Spec == Init /\ [][Next]_vars
=============================================================================
