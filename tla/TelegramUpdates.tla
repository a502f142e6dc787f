-------------------------- MODULE TelegramUpdates --------------------------
(* The owner's commands (runtime.py 5502-5757, telegram.py get_updates): the   *)
(* update queue that Telegram keeps until an offset confirms it, the poll that *)
(* runs commands one by one and saves once at its end, the start-up sync that  *)
(* drops what is still pending, and restarts at any step of either.            *)
(*                                                                            *)
(* Updates are numbered 1, 2, ... by Telegram, which keeps those above         *)
(* `confirmed`; asking for updates from n on confirms all below n.             *)
EXTENDS Integers, FiniteSets

CONSTANTS
    MaxUpdates,     \* the model's bound on what is sent between two changes of token
    Limit,          \* TELEGRAM_COMMAND_UPDATE_LIMIT
    MaxBatches,     \* TELEGRAM_COMMAND_MAX_BATCHES
    ResumeOnBoot,   \* FUTURES_RESUME_ON_BOOT
    Faults          \* which of AllFaults may happen

AllFaults == {"crash", "readFails", "saveFails", "newIds"}
\* "saving": /close, /arm, /reconcile, which save the state themselves when they
\* do something; "other": no command, or not the owner's chat.
Kinds == {"pause", "resume", "saving", "other"}
Ids == 1 .. MaxUpdates

ASSUME UpdatesAssumption ==
    /\ MaxUpdates \in Nat /\ Limit \in Nat \ {0} /\ MaxBatches \in Nat \ {0}
    /\ ResumeOnBoot \in BOOLEAN /\ Faults \subseteq AllFaults

VARIABLES
    sent, cmd,      \* Telegram: the updates so far, and what each of them says
    confirmed,      \* ... and the last of them it has forgotten
    up, pc,         \* the process, and the step of the poll or of the start-up sync
    mem, disk,      \* _last_telegram_update and _paused, in memory and in the state file
    old,            \* the last update older than the start minus the grace
    batch, full,    \* fetched and not handled yet; whether as many as asked for
    round, skipped, \* batch_index, from 1; whether the batch, or the poll, had stale ones
    latest,         \* the last pending update, as a sync has read it
    ran, twice,     \* the updates whose command was run; one was run again
    asked, torn,    \* the last of /pause and /resume run; a death before its save
    blind           \* a start-up sync read nothing although something was pending

queue == <<sent, cmd, confirmed>>
poll == <<batch, full, round, skipped>>
ghosts == <<ran, twice, asked, torn, blind>>
vars == <<queue, up, pc, mem, disk, old, poll, latest, ghosts>>

May(fault) == fault \in Faults
Pending == {u \in Ids : confirmed < u /\ u <= sent}
Larger(m, n) == IF m < n THEN n ELSE m
Smaller(m, n) == IF m < n THEN m ELSE n
NoStale == [batch |-> FALSE, poll |-> FALSE]
Polling == {"fetch", "updates", "force", "forceAck", "ack", "save"}
Starting == {"sync", "syncAck", "syncSave"}
\* Once the start-up sync is over, what comes is to be run.
Listening == up /\ pc \in Polling \cup {"idle"}

Init ==
    /\ sent = 0 /\ cmd = [u \in Ids |-> "other"] /\ confirmed = 0
    /\ up = FALSE /\ pc = "idle"
    /\ mem = [last |-> 0, paused |-> FALSE] /\ disk = mem
    /\ old = 0 /\ batch = {} /\ full = FALSE /\ round = 1 /\ skipped = NoStale /\ latest = 0
    /\ ran = {} /\ twice = FALSE /\ asked = "none" /\ torn = FALSE /\ blind = FALSE

-----------------------------------------------------------------------------
(* The owner and Telegram *)

Send ==
    /\ sent < MaxUpdates /\ sent' = sent + 1
    /\ \E kind \in Kinds : cmd' = [cmd EXCEPT ![sent + 1] = kind]
    /\ UNCHANGED <<confirmed, up, pc, mem, disk, old, poll, latest, ghosts>>

\* Another bot token, or a week of silence: Telegram numbers from anywhere.
NewIds ==
    /\ ~up /\ May("newIds")
    /\ sent' = 0 /\ confirmed' = 0 /\ cmd' = [u \in Ids |-> "other"] /\ old' = 0
    /\ ran' = {} /\ twice' = FALSE /\ blind' = FALSE
    /\ UNCHANGED <<up, pc, mem, disk, poll, latest, asked, torn>>

\* getUpdates with an offset of n + 1 makes Telegram forget the updates up to n.
Forgets(n) == confirmed' = Larger(confirmed, Smaller(n, sent))
\* The request or its reply is lost, and get_updates returns nothing.
Unread(n) == May("readFails") /\ (Forgets(n) \/ confirmed' = confirmed)

-----------------------------------------------------------------------------
(* The start, and the end *)

Die ==
    /\ up /\ May("crash")
    /\ up' = FALSE /\ pc' = "idle" /\ mem' = disk
    /\ batch' = {} /\ full' = FALSE /\ round' = 1 /\ skipped' = NoStale /\ latest' = 0
    /\ torn' = (torn \/ pc \in Polling)
    /\ UNCHANGED <<queue, disk, old, ran, twice, asked, blind>>

Loaded_unpaused == [disk EXCEPT !.paused = FALSE]
Loaded == [disk EXCEPT !.paused = @ /\ ~ResumeOnBoot]

\* Of the updates of before, those within the grace are not old.
Boot ==
    /\ ~up /\ up' = TRUE /\ pc' = "sync"
    /\ old' \in old .. sent
    /\ mem' = Loaded /\ asked' = IF ResumeOnBoot THEN "none" ELSE asked
    /\ UNCHANGED <<queue, disk, poll, latest, ran, twice, torn, blind>>

\* offset=-1 returns the last update; those before it are forgotten.
SyncFindsNothing ==
    /\ up /\ pc = "sync" /\ pc' = "idle"
    /\ \/ Pending = {} /\ UNCHANGED <<confirmed, blind>>
       \/ Pending # {} /\ Unread(sent - 1) /\ blind' = TRUE
    /\ UNCHANGED <<sent, cmd, up, mem, disk, old, poll, latest, ran, twice, asked, torn>>

\* A saved offset beyond the last update is not believed.
SyncReads ==
    /\ up /\ pc = "sync" /\ Pending # {} /\ pc' = "syncAck"
    /\ latest' = sent /\ Forgets(sent - 1)
    /\ \/ sent < mem.last /\ mem' = [mem EXCEPT !.last = sent - 1] /\ disk' = mem'
       \/ sent >= mem.last /\ UNCHANGED <<mem, disk>>
    /\ UNCHANGED <<sent, cmd, up, old, poll, ghosts>>

SyncAck ==
    /\ up /\ pc = "syncAck" /\ pc' = "syncSave"
    /\ LET n == Larger(latest, mem.last) IN Forgets(n) \/ Unread(n)
    /\ UNCHANGED <<sent, cmd, up, mem, disk, old, poll, latest, ghosts>>

SyncedTo_butLast == latest - 1
SyncedTo == latest

\* What was sent before the program listened is dropped.  A save that raises
\* here ends the process: a Die before this step.
SyncSave ==
    /\ up /\ pc = "syncSave" /\ pc' = "idle" /\ latest' = 0
    /\ \/ latest <= mem.last /\ UNCHANGED <<mem, disk>>
       \/ latest > mem.last /\ mem' = [mem EXCEPT !.last = SyncedTo] /\ disk' = mem'
    /\ UNCHANGED <<queue, up, old, poll, ghosts>>

-----------------------------------------------------------------------------
(* One poll: _handle_telegram_commands *)

StartPoll ==
    /\ up /\ pc = "idle" /\ pc' = "fetch"
    /\ round' = 1 /\ skipped' = NoStale
    /\ UNCHANGED <<queue, up, mem, disk, old, batch, full, latest, ghosts>>

\* The first Limit updates that are left, oldest first.
Batch(c) ==
    LET left == {u \in Ids : c < u /\ u <= sent}
    IN {u \in left : Cardinality({v \in left : v < u}) < Limit}

FetchReads ==
    /\ up /\ pc = "fetch"
    /\ Forgets(mem.last)
    /\ batch' = Batch(confirmed') /\ batch' # {} /\ pc' = "updates"
    /\ full' = (Cardinality(batch') = Limit) /\ skipped' = [skipped EXCEPT !.batch = FALSE]
    /\ UNCHANGED <<sent, cmd, up, mem, disk, old, round, latest, ghosts>>

\* Nothing there, or nothing read: the poll is over.
FetchFindsNothing ==
    /\ up /\ pc = "fetch"
    /\ \/ Forgets(mem.last) /\ Batch(confirmed') = {}
       \/ Unread(mem.last)
    /\ pc' = IF round = 1 THEN "idle" ELSE "ack"
    /\ UNCHANGED <<sent, cmd, up, mem, disk, old, poll, latest, ghosts>>

\* The oldest of the batch.  The code passes over one that is not above the
\* offset; none is, since the batch was asked for from the offset on, and a batch
\* that held one would not come to its end here.
TakesUp(u) ==
    /\ up /\ pc = "updates" /\ u \in batch /\ \A v \in batch : u <= v
    /\ batch' = batch \ {u}
\* The offset moves past an update before its command is run.
Past(u) == [mem EXCEPT !.last = u]

SkipStale_first(u) ==
    /\ TakesUp(u) /\ u > mem.last /\ u <= old
    /\ skipped' = [batch |-> TRUE, poll |-> TRUE]
    /\ UNCHANGED <<queue, up, pc, mem, disk, old, full, round, latest, ghosts>>
SkipStale(u) ==
    /\ TakesUp(u) /\ u > mem.last /\ u <= old
    /\ mem' = Past(u) /\ skipped' = [batch |-> TRUE, poll |-> TRUE]
    /\ UNCHANGED <<queue, up, pc, disk, old, full, round, latest, ghosts>>

SkipOther(u) ==
    /\ TakesUp(u) /\ u > mem.last /\ u > old /\ cmd[u] = "other"
    /\ mem' = Past(u)
    /\ UNCHANGED <<queue, up, pc, disk, old, full, round, skipped, latest, ghosts>>

Runs(u, kind) ==
    /\ TakesUp(u) /\ u > mem.last /\ u > old /\ cmd[u] = kind
    /\ ran' = ran \cup {u} /\ twice' = (twice \/ u \in ran)
    /\ UNCHANGED <<queue, up, pc, old, full, round, skipped, latest, blind>>

RunToggle(u) ==
    /\ \E kind \in {"pause", "resume"} :
          /\ Runs(u, kind) /\ asked' = kind
          /\ mem' = [Past(u) EXCEPT !.paused = (kind = "pause")]
    /\ torn' = FALSE /\ UNCHANGED disk

\* /close, /arm, /reconcile: done and saved, with the offset; or refused, or
\* raising, which the poll catches.
RunSaving(u) ==
    /\ Runs(u, "saving")
    /\ mem' = Past(u) /\ (disk' = mem' \/ disk' = disk)
    /\ UNCHANGED <<asked, torn>>

\* A full batch, or one with old updates, is followed by another.
MoreToFetch == full \/ skipped.batch

EndBatch_anyBacklog ==
    /\ up /\ pc = "updates" /\ batch = {}
    /\ \/ ~MoreToFetch /\ pc' = "ack" /\ UNCHANGED round
       \/ MoreToFetch /\ round < MaxBatches /\ pc' = "fetch" /\ round' = round + 1
       \/ MoreToFetch /\ round = MaxBatches /\ pc' = "force" /\ UNCHANGED round
    /\ UNCHANGED <<queue, up, mem, disk, old, batch, full, skipped, latest, ghosts>>
EndBatch ==
    /\ up /\ pc = "updates" /\ batch = {}
    /\ \/ ~MoreToFetch /\ pc' = "ack" /\ UNCHANGED round
       \/ MoreToFetch /\ round < MaxBatches /\ pc' = "fetch" /\ round' = round + 1
       \/ /\ MoreToFetch /\ round = MaxBatches /\ UNCHANGED round
          /\ pc' = IF skipped.poll THEN "force" ELSE "ack"
    /\ UNCHANGED <<queue, up, mem, disk, old, batch, full, skipped, latest, ghosts>>

\* _force_sync_telegram_backlog: a backlog with old updates is dropped whole.
ForceReads ==
    /\ up /\ pc = "force"
    /\ \/ Pending = {} /\ pc' = "ack" /\ UNCHANGED <<confirmed, latest>>
       \/ Pending # {} /\ pc' = "ack" /\ Unread(sent - 1) /\ UNCHANGED latest
       \/ Pending # {} /\ pc' = "forceAck" /\ Forgets(sent - 1) /\ latest' = sent
    /\ UNCHANGED <<sent, cmd, up, mem, disk, old, poll, ghosts>>

ForceAck ==
    /\ up /\ pc = "forceAck" /\ pc' = "ack" /\ latest' = 0
    /\ Forgets(latest) \/ Unread(latest)
    /\ mem' = [mem EXCEPT !.last = Larger(@, latest)]
    /\ UNCHANGED <<sent, cmd, up, disk, old, poll, ghosts>>

Ack ==
    /\ up /\ pc = "ack" /\ pc' = "save"
    /\ Forgets(mem.last) \/ Unread(mem.last)
    /\ UNCHANGED <<sent, cmd, up, mem, disk, old, poll, latest, ghosts>>

\* A save that raises ends the cycle; the loop goes on with what memory holds.
Save ==
    /\ up /\ pc = "save" /\ pc' = "idle"
    /\ \/ disk' = mem /\ torn' = torn
       \/ May("saveFails") /\ disk' = disk /\ torn' = TRUE
    /\ UNCHANGED <<queue, up, mem, old, poll, latest, ran, twice, asked, blind>>

\* Any other save of the cycle carries the offset and the flag.
SaveElsewhere ==
    /\ up /\ pc = "idle" /\ disk' = mem
    /\ UNCHANGED <<queue, up, pc, mem, old, poll, latest, ghosts>>

-----------------------------------------------------------------------------
Environment == Send \/ NewIds \/ Die \/ Boot
Sync == SyncFindsNothing \/ SyncReads \/ SyncAck \/ SyncSave
Fetch == FetchReads \/ FetchFindsNothing
HandleUpdate == \E u \in Ids : SkipStale(u) \/ SkipOther(u) \/ RunToggle(u) \/ RunSaving(u)
Poll == StartPoll \/ Fetch \/ HandleUpdate \/ EndBatch \/ ForceReads \/ ForceAck \/ Ack \/ Save

Next == Environment \/ Sync \/ Poll \/ SaveElsewhere

\* The loop polls, and a getUpdates asked again and again is answered at some time.
Fairness == WF_vars(Poll) /\ SF_vars(FetchReads)

Spec == Init /\ [][Next]_vars /\ Fairness

-----------------------------------------------------------------------------
Marks == [last : Nat, paused : BOOLEAN]

TypeOK ==
    /\ sent \in 0 .. MaxUpdates /\ confirmed \in 0 .. sent /\ cmd \in [Ids -> Kinds]
    /\ up \in BOOLEAN /\ pc \in {"idle"} \cup Polling \cup Starting
    /\ mem \in Marks /\ disk \in Marks
    /\ old \in 0 .. sent /\ latest \in 0 .. sent
    /\ batch \subseteq 1 .. sent /\ full \in BOOLEAN /\ round \in 1 .. MaxBatches
    /\ skipped \in [batch : BOOLEAN, poll : BOOLEAN]
    /\ ran \subseteq 1 .. sent /\ twice \in BOOLEAN
    /\ asked \in {"none", "pause", "resume"} /\ torn \in BOOLEAN /\ blind \in BOOLEAN

\* No command is run twice, wherever a restart falls between its run, the
\* acknowledgement and the save, unless a start-up sync could not read the queue.
RunsOnce == twice => blind

\* The commands follow CommandQueue: they are run in the order they were sent, each at
\* most once, wherever a restart falls between run, acknowledgement and save.
Commands == INSTANCE CommandQueue
CommandsSpec == Commands!Spec

\* The entries are paused exactly if the owner's last word was /pause, across
\* restarts, unless the process died within a poll or its save failed.
PauseStands == up /\ ~torn => (mem.paused <=> asked = "pause")

\* While the bot listens, an update is passed by the offset, in memory or at
\* Telegram, only in the step that runs it or finds that it is not to be run; the
\* drop of an old backlog is the one exception.
PassedIsHandled ==
    [][\A u \in Pending :
         Listening /\ u > mem.last /\ ~(pc \in {"force", "forceAck"} /\ skipped.poll)
           => \/ ~up' \/ u \in ran' \/ cmd[u] = "other" \/ u <= old
              \/ u > mem'.last /\ u > confirmed']_vars

\* As long as it lives, the bot comes to the end of the queue.
QueueDrains == Listening ~> ((\A u \in Pending : u <= mem.last) \/ ~up)
=============================================================================
