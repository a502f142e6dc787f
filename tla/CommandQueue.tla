---------------------------- MODULE CommandQueue ----------------------------
(* What the owner is promised of the commands he sends: they are run in the  *)
(* order of their numbers and each at most once, though any of them may be   *)
(* dropped - until a start-up sync could not read what was pending.          *)
EXTENDS Integers

CONSTANT MaxUpdates

VARIABLES
    sent,            \* how many there are
    ran, twice,      \* those that were run, and whether one was run again
    blind            \* a start found the queue unreadable

vars == <<sent, ran, twice, blind>>

Init == sent = 0 /\ ran = {} /\ twice = FALSE /\ blind = FALSE

Send == /\ sent < MaxUpdates /\ sent' = sent + 1
        /\ UNCHANGED <<ran, twice, blind>>

Run(u) == /\ blind \/ \A v \in ran : v < u
          /\ ran' = ran \cup {u} /\ twice' = (twice \/ u \in ran)
          /\ UNCHANGED <<sent, blind>>

LoseSight == /\ sent > 0 /\ blind' = TRUE
             /\ UNCHANGED <<sent, ran, twice>>

\* Another token: another queue.
Renumber == sent' = 0 /\ ran' = {} /\ twice' = FALSE /\ blind' = FALSE

Next == Send \/ (\E u \in 1 .. sent : Run(u)) \/ LoseSight \/ Renumber

Spec == Init /\ [][Next]_vars
=============================================================================
