----------------------- MODULE TelegramUpdatesProofs -----------------------
(* Machine-checked proofs about TelegramUpdates, for any number of updates, any *)
(* batch size and any number of batches.                                       *)
EXTENDS TelegramUpdates, FiniteSetTheorems, TLAPS

\* What is being read is only there while the process lives.
IdleInv == ~up => batch = {} /\ latest = 0
TypeInv == TypeOK /\ IdleInv

\* What has been run is behind the offset, in memory or at Telegram, once the
\* start-up sync has read the queue; a batch holds nothing Telegram has forgotten.
OnceInv ==
    /\ RunsOnce
    /\ Listening /\ ~blind => \A u \in ran : u <= mem.last \/ u <= confirmed
    /\ up /\ pc \in {"syncAck", "syncSave"} => \A u \in ran : u <= latest
    /\ up /\ pc = "updates" => \A u \in batch : u > confirmed

-----------------------------------------------------------------------------
(* Types *)

LEMMA InitTypeInv == Init => TypeInv
<1> SUFFICES ASSUME Init PROVE TypeInv
  OBVIOUS
<1>1. MaxUpdates \in Nat /\ 1 \in 1 .. MaxBatches
  BY UpdatesAssumption DEF UpdatesAssumption
<1>2. cmd \in [Ids -> Kinds] /\ mem \in Marks /\ disk \in Marks
  BY DEF Init, Kinds, Marks
<1>3. skipped \in [batch : BOOLEAN, poll : BOOLEAN]
  BY DEF Init, NoStale
<1>4. /\ up \in BOOLEAN /\ full \in BOOLEAN /\ twice \in BOOLEAN /\ torn \in BOOLEAN
      /\ blind \in BOOLEAN /\ asked \in {"none", "pause", "resume"}
  BY DEF Init
<1>5. /\ sent \in 0 .. MaxUpdates /\ confirmed \in 0 .. sent /\ old \in 0 .. sent
      /\ latest \in 0 .. sent /\ round \in 1 .. MaxBatches
      /\ batch \subseteq 1 .. sent /\ ran \subseteq 1 .. sent
  BY <1>1 DEF Init
<1> QED
  BY <1>2, <1>3, <1>4, <1>5 DEF Init, TypeInv, TypeOK, IdleInv

LEMMA ForgetsType ==
    ASSUME TypeOK, NEW n \in Int, Forgets(n)
    PROVE confirmed' \in confirmed .. sent
BY DEF TypeOK, Forgets, Larger, Smaller

LEMMA UnreadType ==
    ASSUME TypeOK, NEW n \in Int, Unread(n)
    PROVE confirmed' \in confirmed .. sent
BY ForgetsType DEF TypeOK, Unread

LEMMA LoadedType == ASSUME TypeOK PROVE Loaded \in Marks
<1>1. (disk.paused /\ ~ResumeOnBoot) \in BOOLEAN
  OBVIOUS
<1> QED
  BY <1>1 DEF TypeOK, Marks, Loaded

LEMMA PastType == ASSUME TypeOK, NEW u \in Nat PROVE Past(u) \in Marks
BY DEF TypeOK, Marks, Past

LEMMA PastLast ==
    ASSUME TypeOK, NEW u \in Nat
    PROVE Past(u).last = u /\ \A b : [Past(u) EXCEPT !.paused = b].last = u
BY DEF TypeOK, Marks, Past

LEMMA EnvironmentType == ASSUME TypeInv, Environment PROVE TypeInv'
<1>1. CASE Send
  <2>1. cmd' \in [Ids -> Kinds]
    BY <1>1 DEF Send, TypeInv, TypeOK
  <2>2. sent \in Nat /\ sent' = sent + 1 /\ sent' \in 0 .. MaxUpdates
    BY <1>1, UpdatesAssumption DEF Send, TypeInv, TypeOK, UpdatesAssumption
  <2>3. UNCHANGED <<confirmed, up, pc, mem, disk, old, batch, full, round, skipped, latest,
                    ran, twice, asked, torn, blind>>
    BY <1>1 DEF Send, poll, ghosts
  <2> QED
    BY <2>1, <2>2, <2>3 DEF TypeInv, TypeOK, IdleInv
<1>2. CASE NewIds
  <2>1. cmd' \in [Ids -> Kinds]
    BY <1>2 DEF NewIds, Kinds
  <2>2. batch' = {} /\ latest' = 0 /\ MaxUpdates \in Nat
    BY <1>2, UpdatesAssumption DEF NewIds, TypeInv, IdleInv, poll, UpdatesAssumption
  <2>3. /\ sent' \in 0 .. MaxUpdates /\ confirmed' \in 0 .. sent' /\ old' \in 0 .. sent'
        /\ latest' \in 0 .. sent' /\ batch' \subseteq 1 .. sent' /\ ran' \subseteq 1 .. sent'
    BY <1>2, <2>2 DEF NewIds
  <2>4. /\ twice' \in BOOLEAN /\ blind' \in BOOLEAN
        /\ UNCHANGED <<up, pc, mem, disk, full, round, skipped, asked, torn>>
    BY <1>2 DEF NewIds, poll
  <2> QED
    BY <2>1, <2>2, <2>3, <2>4 DEF TypeInv, TypeOK, IdleInv
<1>3. CASE Die
  <2>1. 1 \in 1 .. MaxBatches /\ skipped' \in [batch : BOOLEAN, poll : BOOLEAN]
    BY <1>3, UpdatesAssumption DEF Die, NoStale, UpdatesAssumption
  <2>2. /\ up' \in BOOLEAN /\ full' \in BOOLEAN /\ torn' \in BOOLEAN /\ pc' = "idle"
        /\ UNCHANGED <<sent, cmd, confirmed, disk, old, ran, twice, asked, blind>>
    BY <1>3 DEF Die, queue, TypeInv, TypeOK
  <2>3. mem' \in Marks /\ batch' = {} /\ latest' = 0 /\ round' = 1 /\ latest' \in 0 .. sent
    BY <1>3 DEF Die, TypeInv, TypeOK
  <2> QED
    BY <2>1, <2>2, <2>3 DEF TypeInv, TypeOK, IdleInv
<1>4. CASE Boot
  BY <1>4, LoadedType DEF Boot, TypeInv, TypeOK, IdleInv, queue, poll, Polling, Starting
<1> QED
  BY <1>1, <1>2, <1>3, <1>4 DEF Environment

LEMMA SyncType == ASSUME TypeInv, Sync PROVE TypeInv'
<1>1. CASE SyncFindsNothing
  <2>1. confirmed' \in 0 .. sent
    BY <1>1, UnreadType DEF SyncFindsNothing, TypeInv, TypeOK
  <2> QED
    BY <1>1, <2>1 DEF SyncFindsNothing, TypeInv, TypeOK, IdleInv, poll, Marks, Polling, Starting
<1>2. CASE SyncReads
  <2>1. confirmed' \in 0 .. sent
    BY <1>2, ForgetsType DEF SyncReads, TypeInv, TypeOK
  <2>2. sent - 1 \in Nat
    BY <1>2 DEF SyncReads, TypeInv, TypeOK, Pending, Ids
  <2>3. mem' \in Marks /\ disk' \in Marks
    BY <1>2, <2>2 DEF SyncReads, TypeInv, TypeOK, Marks
  <2> QED
    BY <1>2, <2>1, <2>3 DEF SyncReads, TypeInv, TypeOK, IdleInv, poll, ghosts, Polling, Starting
<1>3. CASE SyncAck
  <2>1. Larger(latest, mem.last) \in Int
    BY DEF TypeInv, TypeOK, Marks, Larger
  <2>2. confirmed' \in 0 .. sent
    BY <1>3, <2>1, ForgetsType, UnreadType DEF SyncAck, TypeInv, TypeOK
  <2> QED
    BY <1>3, <2>2 DEF SyncAck, TypeInv, TypeOK, IdleInv, poll, ghosts, Polling, Starting
<1>4. CASE SyncSave
  BY <1>4 DEF SyncSave, SyncedTo, TypeInv, TypeOK, IdleInv, queue, poll, ghosts, Marks, Polling, Starting
<1> QED
  BY <1>1, <1>2, <1>3, <1>4 DEF Sync

LEMMA FetchType == ASSUME TypeInv, Fetch PROVE TypeInv'
<1>1. mem.last \in Int
  BY DEF TypeInv, TypeOK, Marks
<1>2. confirmed' \in 0 .. sent
  BY <1>1, ForgetsType, UnreadType DEF TypeInv, TypeOK, Fetch, FetchReads, FetchFindsNothing
<1>3. CASE FetchReads
  <2>1. batch' \subseteq 1 .. sent
    BY <1>2, <1>3 DEF FetchReads, Batch, Ids
  <2>2. full' \in BOOLEAN /\ skipped' \in [batch : BOOLEAN, poll : BOOLEAN]
    BY <1>3 DEF FetchReads, TypeInv, TypeOK
  <2> QED
    BY <1>2, <1>3, <2>1, <2>2 DEF FetchReads, TypeInv, TypeOK, IdleInv, ghosts, Polling, Starting
<1>4. CASE FetchFindsNothing
  BY <1>2, <1>4 DEF FetchFindsNothing, TypeInv, TypeOK, IdleInv, poll, ghosts, Polling, Starting
<1> QED
  BY <1>3, <1>4 DEF Fetch

LEMMA UpdateType == ASSUME TypeInv, HandleUpdate PROVE TypeInv'
<1> PICK u \in Ids : SkipStale(u) \/ SkipOther(u) \/ RunToggle(u) \/ RunSaving(u)
  BY DEF HandleUpdate
<1>1. TakesUp(u)
  BY DEF SkipStale, SkipOther, RunToggle, RunSaving, Runs
<1>2. u \in 1 .. sent /\ u \in Nat /\ batch' \subseteq 1 .. sent
  BY <1>1 DEF TakesUp, TypeInv, TypeOK
<1>3. Past(u) \in Marks
  BY <1>2, PastType DEF TypeInv
<1>5. CASE SkipStale(u)
  BY <1>1, <1>2, <1>3, <1>5 DEF SkipStale, TakesUp, TypeInv, TypeOK, IdleInv, queue, ghosts, Polling
<1>6. CASE SkipOther(u)
  BY <1>1, <1>2, <1>3, <1>6 DEF SkipOther, TakesUp, TypeInv, TypeOK, IdleInv, queue, ghosts, Polling
<1>7. CASE RunToggle(u)
  <2>1. mem' \in Marks
    BY <1>3, <1>7 DEF RunToggle, Marks
  <2>2. ran' \subseteq 1 .. sent /\ twice' \in BOOLEAN
    BY <1>2, <1>7 DEF RunToggle, Runs, TypeInv, TypeOK
  <2> QED
    BY <1>1, <1>2, <1>7, <2>1, <2>2
       DEF RunToggle, Runs, TakesUp, TypeInv, TypeOK, IdleInv, queue, Polling
<1>8. CASE RunSaving(u)
  <2>1. ran' \subseteq 1 .. sent /\ twice' \in BOOLEAN
    BY <1>2, <1>8 DEF RunSaving, Runs, TypeInv, TypeOK
  <2> QED
    BY <1>1, <1>2, <1>3, <1>8, <2>1
       DEF RunSaving, Runs, TakesUp, TypeInv, TypeOK, IdleInv, queue, Polling
<1> QED
  BY <1>5, <1>6, <1>7, <1>8

LEMMA RestType ==
    ASSUME TypeInv, StartPoll \/ EndBatch \/ ForceReads \/ ForceAck \/ Ack \/ Save \/ SaveElsewhere
    PROVE TypeInv'
<1>1. mem.last \in Int /\ latest \in Int /\ sent - 1 \in Int /\ 1 \in 1 .. MaxBatches
  BY UpdatesAssumption DEF TypeInv, TypeOK, Marks, UpdatesAssumption
<1>2. CASE StartPoll
  BY <1>1, <1>2 DEF StartPoll, TypeInv, TypeOK, IdleInv, queue, ghosts, Polling, NoStale
<1>3. CASE EndBatch
  <2>1. round' \in 1 .. MaxBatches
    BY <1>3, UpdatesAssumption DEF EndBatch, TypeInv, TypeOK, UpdatesAssumption
  <2>2. pc' \in Polling
    BY <1>3 DEF EndBatch, Polling
  <2> QED
    BY <1>3, <2>1, <2>2 DEF EndBatch, TypeInv, TypeOK, IdleInv, queue, ghosts
<1>4. CASE ForceReads
  <2>1. confirmed' \in 0 .. sent /\ latest' \in 0 .. sent
    BY <1>1, <1>4, ForgetsType, UnreadType DEF ForceReads, TypeInv, TypeOK
  <2> QED
    BY <1>4, <2>1 DEF ForceReads, TypeInv, TypeOK, IdleInv, poll, ghosts, Polling
<1>5. CASE ForceAck
  <2>1. confirmed' \in 0 .. sent
    BY <1>1, <1>5, ForgetsType, UnreadType DEF ForceAck, TypeInv, TypeOK
  <2>2. mem' \in Marks
    BY <1>5 DEF ForceAck, TypeInv, TypeOK, Marks, Larger
  <2> QED
    BY <1>5, <2>1, <2>2 DEF ForceAck, TypeInv, TypeOK, IdleInv, poll, ghosts, Polling
<1>6. CASE Ack
  <2>1. confirmed' \in 0 .. sent
    BY <1>1, <1>6, ForgetsType, UnreadType DEF Ack, TypeInv, TypeOK
  <2> QED
    BY <1>6, <2>1 DEF Ack, TypeInv, TypeOK, IdleInv, poll, ghosts, Polling
<1>7. CASE Save
  BY <1>7 DEF Save, TypeInv, TypeOK, IdleInv, queue, poll, Polling
<1>8. CASE SaveElsewhere
  BY <1>8 DEF SaveElsewhere, TypeInv, TypeOK, IdleInv, queue, poll, ghosts
<1> QED
  BY <1>2, <1>3, <1>4, <1>5, <1>6, <1>7, <1>8

LEMMA NextType == TypeInv /\ [Next]_vars => TypeInv'
<1> SUFFICES ASSUME TypeInv, [Next]_vars PROVE TypeInv'
  OBVIOUS
<1>1. CASE UNCHANGED vars
  BY <1>1 DEF TypeInv, TypeOK, IdleInv, vars, queue, poll, ghosts
<1> QED
  BY <1>1, EnvironmentType, SyncType, FetchType, UpdateType, RestType DEF Next, Poll

\* Every state keeps the queue, the offsets and the poll within their ranges.
THEOREM UpdatesTypeOK == Spec => []TypeOK
<1>1. TypeInv => TypeOK
  BY DEF TypeInv
<1> QED
  BY <1>1, InitTypeInv, NextType, PTL DEF Spec

-----------------------------------------------------------------------------
(* No command runs twice *)

LEMMA InitOnce == Init => OnceInv
BY DEF Init, OnceInv, RunsOnce, Listening

LEMMA ForgetsMore ==
    ASSUME TypeOK, NEW n \in Int, Forgets(n) \/ Unread(n)
    PROVE \A u \in Nat : u <= confirmed => u <= confirmed'
BY ForgetsType, UnreadType DEF TypeOK

LEMMA EnvironmentOnce == ASSUME TypeInv, OnceInv, Environment PROVE OnceInv'
<1>1. CASE Send
  BY <1>1 DEF Send, OnceInv, RunsOnce, Listening, poll, ghosts
<1>2. CASE NewIds
  BY <1>2 DEF NewIds, OnceInv, RunsOnce, Listening
<1>3. CASE Die
  BY <1>3 DEF Die, OnceInv, RunsOnce, Listening
<1>4. CASE Boot
  BY <1>4 DEF Boot, OnceInv, RunsOnce, Listening, Polling
<1> QED
  BY <1>1, <1>2, <1>3, <1>4 DEF Environment

LEMMA SyncOnce == ASSUME TypeInv, OnceInv, Sync PROVE OnceInv'
<1>0. ran \subseteq 1 .. sent /\ sent \in Nat /\ confirmed \in 0 .. sent /\ mem.last \in Nat
  BY DEF TypeInv, TypeOK, Marks
<1>1. CASE SyncFindsNothing
  <2>1. ASSUME Pending = {}, NEW u \in ran PROVE u <= confirmed
    BY <1>0, <2>1 DEF Pending, Ids, TypeInv, TypeOK
  <2> QED
    BY <1>1, <2>1 DEF SyncFindsNothing, OnceInv, RunsOnce, Listening
<1>2. CASE SyncReads
  BY <1>0, <1>2 DEF SyncReads, OnceInv, RunsOnce, Listening, Polling, ghosts
<1>3. CASE SyncAck
  BY <1>3 DEF SyncAck, OnceInv, RunsOnce, Listening, Polling, ghosts
<1>4. CASE SyncSave
  <2>1. ASSUME NEW u \in ran PROVE u <= mem'.last
    <3>1. u <= latest /\ u \in Nat /\ latest \in Nat
      BY <1>0, <1>4 DEF SyncSave, OnceInv, TypeInv, TypeOK
    <3>2. latest <= mem'.last /\ mem'.last \in Nat
      BY <1>0, <1>4, <3>1 DEF SyncSave, SyncedTo, TypeInv, TypeOK, Marks
    <3> QED
      BY <3>1, <3>2
  <2> QED
    BY <1>4, <2>1 DEF SyncSave, OnceInv, RunsOnce, Listening, ghosts
<1> QED
  BY <1>1, <1>2, <1>3, <1>4 DEF Sync

LEMMA FetchOnce == ASSUME TypeInv, OnceInv, Fetch PROVE OnceInv'
<1>1. \A u \in Nat : u <= confirmed => u <= confirmed'
  BY ForgetsMore DEF Fetch, FetchReads, FetchFindsNothing, TypeInv, TypeOK, Marks
<1>2. ran \subseteq Nat
  BY DEF TypeInv, TypeOK
<1>3. CASE FetchReads
  <2>1. \A u \in batch' : u > confirmed'
    BY <1>3 DEF FetchReads, Batch
  <2> QED
    BY <1>1, <1>2, <1>3, <2>1 DEF FetchReads, OnceInv, RunsOnce, Listening, Polling, ghosts
<1>4. CASE FetchFindsNothing
  BY <1>1, <1>2, <1>4 DEF FetchFindsNothing, OnceInv, RunsOnce, Listening, Polling, ghosts
<1> QED
  BY <1>3, <1>4 DEF Fetch

LEMMA UpdateOnce == ASSUME TypeInv, OnceInv, HandleUpdate PROVE OnceInv'
<1> PICK u \in Ids : SkipStale(u) \/ SkipOther(u) \/ RunToggle(u) \/ RunSaving(u)
  BY DEF HandleUpdate
<1>1. TakesUp(u)
  BY DEF SkipStale, SkipOther, RunToggle, RunSaving, Runs
<1>2. ran \subseteq Nat /\ mem.last \in Nat /\ u \in Nat /\ confirmed \in Nat
  BY <1>1 DEF TakesUp, TypeInv, TypeOK, Marks
<1>3. up /\ pc = "updates" /\ Listening /\ u > confirmed /\ batch' \subseteq batch
  BY <1>1 DEF TakesUp, OnceInv, Listening, Polling
<1>4. up' = up /\ pc' = pc /\ confirmed' = confirmed /\ blind' = blind
  BY DEF SkipStale, SkipOther, RunToggle, RunSaving, Runs, queue, ghosts
<1>5. mem'.last \in Nat /\ mem.last <= mem'.last
  <2>1. Past(u).last = u /\ \A b : [Past(u) EXCEPT !.paused = b].last = u
    BY <1>2, PastLast DEF TypeInv
  <2>2. mem' = mem \/ (u > mem.last /\ mem'.last = u)
    BY <2>1 DEF SkipStale, SkipOther, RunToggle, RunSaving, Runs
  <2> QED
    BY <1>2, <2>2
<1>6. CASE SkipStale(u) \/ SkipOther(u)
  <2>1. ran' = ran /\ twice' = twice
    BY <1>6 DEF SkipStale, SkipOther, ghosts
  <2> QED
    BY <1>2, <1>3, <1>4, <1>5, <2>1 DEF OnceInv, RunsOnce, Listening
<1>7. CASE RunToggle(u) \/ RunSaving(u)
  <2>1. u > mem.last /\ ran' = ran \cup {u} /\ twice' = (twice \/ u \in ran)
    BY <1>7 DEF RunToggle, RunSaving, Runs
  <2>2. u <= mem'.last
    <3>1. Past(u).last = u /\ \A b : [Past(u) EXCEPT !.paused = b].last = u
      BY <1>2, PastLast DEF TypeInv
    <3>2. mem'.last = u
      BY <1>7, <3>1 DEF RunToggle, RunSaving
    <3> QED
      BY <1>2, <3>2
  <2>3. ~blind => u \notin ran
    BY <1>2, <1>3, <2>1 DEF OnceInv
  <2> QED
    <3>1. twice' => blind'
      BY <1>4, <2>1, <2>3 DEF OnceInv, RunsOnce
    <3>2. ~blind' => \A v \in ran' : v <= mem'.last \/ v <= confirmed'
      BY <1>2, <1>3, <1>4, <1>5, <2>1, <2>2 DEF OnceInv
    <3>3. \A v \in batch' : v > confirmed'
      BY <1>3, <1>4 DEF OnceInv
    <3> QED
      BY <1>3, <1>4, <3>1, <3>2, <3>3 DEF OnceInv, RunsOnce
<1> QED
  BY <1>6, <1>7

LEMMA RestOnce ==
    ASSUME TypeInv, OnceInv,
           StartPoll \/ EndBatch \/ ForceReads \/ ForceAck \/ Ack \/ Save \/ SaveElsewhere
    PROVE OnceInv'
<1>1. ran \subseteq Nat /\ mem.last \in Nat /\ latest \in Nat /\ sent - 1 \in Int
  BY DEF TypeInv, TypeOK, Marks
<1>2. ran' = ran /\ twice' = twice /\ blind' = blind /\ up' = up /\ Listening
  BY DEF StartPoll, EndBatch, ForceReads, ForceAck, Ack, Save, SaveElsewhere, ghosts, Listening, Polling
<1>3. pc' \notin {"syncAck", "syncSave", "updates"}
  BY DEF StartPoll, EndBatch, ForceReads, ForceAck, Ack, Save, SaveElsewhere
<1>4. \A u \in Nat : u <= confirmed => u <= confirmed'
  <2>1. CASE StartPoll \/ EndBatch \/ Save \/ SaveElsewhere
    BY <2>1 DEF StartPoll, EndBatch, Save, SaveElsewhere, queue
  <2>2. CASE ForceReads
    BY <1>1, <2>2, ForgetsMore DEF ForceReads, TypeInv
  <2>3. CASE ForceAck \/ Ack
    BY <1>1, <2>3, ForgetsMore DEF ForceAck, Ack, TypeInv
  <2> QED
    BY <2>1, <2>2, <2>3
<1>5. mem'.last \in Nat /\ mem.last <= mem'.last
  <2>1. CASE ForceAck
    BY <1>1, <2>1 DEF ForceAck, Larger, TypeInv, TypeOK, Marks
  <2> QED
    BY <1>1, <2>1 DEF StartPoll, EndBatch, ForceReads, Ack, Save, SaveElsewhere
<1> QED
  BY <1>1, <1>2, <1>3, <1>4, <1>5 DEF OnceInv, RunsOnce, Listening

LEMMA NextOnce == TypeInv /\ OnceInv /\ [Next]_vars => OnceInv'
<1> SUFFICES ASSUME TypeInv, OnceInv, [Next]_vars PROVE OnceInv'
  OBVIOUS
<1>1. CASE UNCHANGED vars
  BY <1>1 DEF OnceInv, RunsOnce, Listening, vars, queue, poll, ghosts
<1> QED
  BY <1>1, EnvironmentOnce, SyncOnce, FetchOnce, UpdateOnce, RestOnce DEF Next, Poll

\* No command runs twice, wherever the process is restarted, as long as every
\* start-up sync could read the queue.
THEOREM CommandsRunOnce == Spec => []RunsOnce
<1>1. OnceInv => RunsOnce
  BY DEF OnceInv
<1> QED
  BY <1>1, InitTypeInv, NextType, InitOnce, NextOnce, PTL DEF Spec

-----------------------------------------------------------------------------
(* The commands follow CommandQueue.  OnceInv gives the order as well: what   *)
(* is taken up lies beyond both offsets, and what has run behind one of them. *)

LEMMA CommandsRefined ==
    TypeInv /\ OnceInv /\ [Next]_vars => [Commands!Next]_Commands!vars
<1> SUFFICES ASSUME TypeInv, OnceInv, [Next]_vars PROVE [Commands!Next]_Commands!vars
  OBVIOUS
<1>1. ASSUME UNCHANGED <<sent, ran, twice, blind>> PROVE [Commands!Next]_Commands!vars
  BY <1>1 DEF Commands!vars
<1>2. CASE Environment
  <2>1. CASE Send
    BY <2>1 DEF Send, ghosts, Commands!Next, Commands!Send
  <2>2. CASE NewIds
    BY <2>2 DEF NewIds, Commands!Next, Commands!Renumber
  <2>3. CASE Die \/ Boot
    BY <1>1, <2>3 DEF Die, Boot, queue
  <2> QED
    BY <1>2, <2>1, <2>2, <2>3 DEF Environment
<1>3. CASE SyncFindsNothing
  <2>1. UNCHANGED <<sent, ran, twice>>
    BY <1>3 DEF SyncFindsNothing
  <2>2. CASE UNCHANGED blind
    BY <1>1, <2>1, <2>2
  <2>3. CASE Pending # {} /\ blind' = TRUE
    <3>1. sent > 0
      BY <2>3, UpdatesAssumption DEF UpdatesAssumption, Pending, Ids, TypeInv, TypeOK
    <3> QED
      BY <2>1, <2>3, <3>1 DEF Commands!Next, Commands!LoseSight
  <2> QED
    BY <1>3, <2>2, <2>3 DEF SyncFindsNothing
<1>4. CASE SyncReads \/ SyncAck \/ SyncSave \/ Fetch
  BY <1>1, <1>4 DEF SyncReads, SyncAck, SyncSave, Fetch, FetchReads, FetchFindsNothing, queue, ghosts
<1>5. ASSUME NEW u \in Ids, SkipStale(u) \/ SkipOther(u) PROVE [Commands!Next]_Commands!vars
  BY <1>1, <1>5 DEF SkipStale, SkipOther, queue, ghosts
<1>6. ASSUME NEW u \in Ids, RunToggle(u) \/ RunSaving(u) PROVE [Commands!Next]_Commands!vars
  <2>1. /\ TakesUp(u) /\ u > mem.last /\ UNCHANGED <<sent, blind>>
        /\ ran' = ran \cup {u} /\ twice' = (twice \/ u \in ran)
    BY <1>6 DEF RunToggle, RunSaving, Runs, queue
  <2>2. u \in 1 .. sent /\ u > confirmed /\ Listening
    BY <2>1 DEF TakesUp, TypeInv, TypeOK, OnceInv, Listening, Polling
  <2>3. ran \subseteq Int /\ mem.last \in Int /\ confirmed \in Int /\ u \in Int
    BY <2>2 DEF TypeInv, TypeOK, Marks
  <2>4. blind \/ \A v \in ran : v < u
    BY <2>1, <2>2, <2>3 DEF OnceInv
  <2> QED
    BY <2>1, <2>2, <2>4 DEF Commands!Next, Commands!Run
<1>7. CASE StartPoll \/ EndBatch \/ ForceReads \/ ForceAck \/ Ack \/ Save \/ SaveElsewhere
  BY <1>1, <1>7 DEF StartPoll, EndBatch, ForceReads, ForceAck, Ack, Save, SaveElsewhere, queue, ghosts
<1>8. CASE UNCHANGED vars
  BY <1>1, <1>8 DEF vars, queue, ghosts
<1> QED
  BY <1>2, <1>3, <1>4, <1>5, <1>6, <1>7, <1>8 DEF Next, Sync, Poll, HandleUpdate

\* The owner's commands are run in the order he sent them and each at most once, over
\* any restarts, lost requests and failed saves, until a start-up sync cannot read the
\* queue (runtime.py 5526, 5745): for any number of updates, batch size and cap.
THEOREM CommandsInOrder == Spec => CommandsSpec
<1>1. Init => Commands!Init
  BY DEF Init, Commands!Init
<1>2. TypeInv /\ OnceInv /\ [Next]_vars => [Commands!Next]_Commands!vars
  BY CommandsRefined
<1> QED
  BY <1>1, <1>2, InitTypeInv, NextType, InitOnce, NextOnce, PTL DEF Spec, CommandsSpec, Commands!Spec

-----------------------------------------------------------------------------
(* The pause *)

\* Outside the part of a poll that runs commands, the file agrees with memory.
Settled == ~up \/ pc \notin Polling \/ (pc = "fetch" /\ round = 1)
FileInv == ~torn /\ ~ResumeOnBoot /\ Settled => (disk.paused <=> asked = "pause")
PauseInv == PauseStands /\ FileInv

LEMMA InitPause == Init => PauseInv
BY DEF Init, PauseInv, PauseStands, FileInv

LEMMA PastPaused ==
    ASSUME TypeOK, NEW u, NEW b
    PROVE Past(u).paused = mem.paused /\ [Past(u) EXCEPT !.paused = b].paused = b
BY DEF TypeOK, Marks, Past

LEMMA NextPause == TypeInv /\ PauseInv /\ [Next]_vars => PauseInv'
<1> SUFFICES ASSUME TypeInv, PauseInv, [Next]_vars PROVE PauseInv'
  OBVIOUS
<1> USE DEF PauseInv, PauseStands, FileInv, Settled
<1>1. CASE UNCHANGED vars
  BY <1>1 DEF vars, queue, poll, ghosts
<1>2. CASE Send \/ NewIds
  BY <1>2 DEF Send, NewIds, poll, ghosts
<1>3. CASE Die
  BY <1>3 DEF Die
<1>4. CASE Boot
  <2>1. Loaded.paused = (disk.paused /\ ~ResumeOnBoot)
    BY DEF TypeInv, TypeOK, Marks, Loaded
  <2> QED
    BY <1>4, <2>1 DEF Boot, Polling
<1>5. CASE Sync
  <2>1. mem'.paused = mem.paused /\ (disk' = disk \/ disk'.paused = mem'.paused)
    BY <1>5 DEF Sync, SyncFindsNothing, SyncReads, SyncAck, SyncSave, TypeInv, TypeOK, Marks
  <2>2. up /\ pc \notin Polling /\ up' /\ asked' = asked /\ torn' = torn
    BY <1>5 DEF Sync, SyncFindsNothing, SyncReads, SyncAck, SyncSave, Polling, ghosts
  <2> QED
    BY <2>1, <2>2
<1>6. CASE StartPoll \/ Fetch \/ EndBatch \/ ForceReads \/ ForceAck \/ Ack
  <2>1. mem'.paused = mem.paused /\ disk' = disk
    BY <1>6 DEF StartPoll, Fetch, FetchReads, FetchFindsNothing, EndBatch, ForceReads, ForceAck, Ack,
                TypeInv, TypeOK, Marks
  <2>2. up' = up /\ asked' = asked /\ torn' = torn
    BY <1>6 DEF StartPoll, Fetch, FetchReads, FetchFindsNothing, EndBatch, ForceReads, ForceAck, Ack, ghosts
  <2>3. Settled' => Settled
    BY <1>6 DEF StartPoll, Fetch, FetchReads, FetchFindsNothing, EndBatch, ForceReads, ForceAck, Ack,
                Polling, poll, TypeInv, TypeOK
  <2> QED
    BY <2>1, <2>2, <2>3
<1>7. CASE HandleUpdate
  <2> PICK u \in Ids : SkipStale(u) \/ SkipOther(u) \/ RunToggle(u) \/ RunSaving(u)
    BY <1>7 DEF HandleUpdate
  <2>1. up /\ up' /\ pc' = "updates" /\ ~Settled'
    BY DEF SkipStale, SkipOther, RunToggle, RunSaving, Runs, TakesUp, Polling
  <2>2. Past(u).paused = mem.paused
        /\ \A b : [Past(u) EXCEPT !.paused = b].paused = b
    BY PastPaused DEF TypeInv
  <2>3. CASE SkipStale(u) \/ SkipOther(u) \/ RunSaving(u)
    <3>1. mem'.paused = mem.paused /\ asked' = asked /\ torn' = torn
      BY <2>2, <2>3 DEF SkipStale, SkipOther, RunSaving, ghosts
    <3> QED
      BY <2>1, <3>1
  <2>4. CASE RunToggle(u)
    <3>1. mem'.paused <=> asked' = "pause"
      BY <2>2, <2>4 DEF RunToggle
    <3> QED
      BY <2>1, <3>1
  <2> QED
    BY <2>3, <2>4
<1>8. CASE Save \/ SaveElsewhere
  BY <1>8 DEF Save, SaveElsewhere, ghosts
<1> QED
  BY <1>1, <1>2, <1>3, <1>4, <1>5, <1>6, <1>7, <1>8 DEF Next, Environment, Poll

\* A pause outlives every restart unless the process died within a poll or a
\* poll's save failed.
THEOREM PauseOutlivesRestarts == Spec => []PauseStands
<1>1. PauseInv => PauseStands
  BY DEF PauseInv
<1> QED
  BY <1>1, InitTypeInv, NextType, InitPause, NextPause, PTL DEF Spec

-----------------------------------------------------------------------------
(* What the offset passes has been handled *)

\* A batch has no gaps: what it leaves out is newer than what it holds.
HandledInv ==
    /\ up /\ pc \in {"force", "forceAck"} => skipped.poll
    /\ up /\ pc = "updates" =>
         \A v \in batch, w \in Pending : w > mem.last /\ w <= v => w \in batch

LEMMA BatchHasNoGaps ==
    ASSUME NEW c \in Nat, sent \in Nat, NEW v \in Batch(c), NEW w \in Ids, c < w, w <= v
    PROVE w \in Batch(c)
<1> DEFINE left == {x \in Ids : c < x /\ x <= sent}
<1> DEFINE below(x) == {y \in left : y < x}
<1>1. MaxUpdates \in Nat /\ Limit \in Nat
  BY UpdatesAssumption DEF UpdatesAssumption
<1>2. IsFiniteSet(left) /\ IsFiniteSet(below(v))
  <2>1. IsFiniteSet(Ids)
    BY <1>1, FS_Interval DEF Ids
  <2>2. left \subseteq Ids /\ below(v) \subseteq Ids
    OBVIOUS
  <2> QED
    BY <2>1, <2>2, FS_Subset
<1>3. v \in left /\ Cardinality(below(v)) < Limit
  BY DEF Batch
<1>4. w \in left /\ below(w) \subseteq below(v)
  BY <1>1, <1>3 DEF Ids
<1>5. /\ Cardinality(below(w)) <= Cardinality(below(v))
      /\ Cardinality(below(w)) \in Nat /\ Cardinality(below(v)) \in Nat
  BY <1>2, <1>4, FS_Subset, FS_CardinalityType
<1>6. Cardinality(below(w)) < Limit
  BY <1>1, <1>3, <1>5
<1> QED
  BY <1>4, <1>6 DEF Batch

LEMMA InitHandled == Init => HandledInv
BY DEF Init, HandledInv

LEMMA UpdateHandled == ASSUME TypeInv, HandledInv, HandleUpdate PROVE HandledInv'
<1> PICK u \in Ids : SkipStale(u) \/ SkipOther(u) \/ RunToggle(u) \/ RunSaving(u)
  BY DEF HandleUpdate
<1>1. TakesUp(u)
  BY DEF SkipStale, SkipOther, RunToggle, RunSaving, Runs
<1>2. up' /\ pc' = "updates" /\ sent' = sent /\ confirmed' = confirmed /\ Pending' = Pending
  BY DEF SkipStale, SkipOther, RunToggle, RunSaving, Runs, TakesUp, queue, Pending
<1>3. mem'.last \in Nat /\ mem.last \in Nat /\ mem.last <= mem'.last /\ u <= mem'.last
  <2>1. Past(u).last = u /\ \A b : [Past(u) EXCEPT !.paused = b].last = u
    BY PastLast DEF TypeInv, Ids
  <2>2. (mem' = mem /\ u <= mem.last) \/ (u > mem.last /\ mem'.last = u)
    BY <2>1 DEF SkipStale, SkipOther, RunToggle, RunSaving, Runs
  <2> QED
    BY <2>2 DEF TypeInv, TypeOK, Marks, Ids
<1>4. ASSUME NEW v \in batch', NEW w \in Pending', w > mem'.last, w <= v PROVE w \in batch'
  <2>1. v \in batch /\ w \in Pending /\ w \in Nat /\ w > mem.last /\ w # u
    BY <1>1, <1>2, <1>3, <1>4 DEF TakesUp, Pending, Ids
  <2>2. w \in batch
    BY <1>1, <1>4, <2>1 DEF HandledInv, TakesUp
  <2> QED
    BY <1>1, <2>1, <2>2 DEF TakesUp
<1> QED
  BY <1>2, <1>4 DEF HandledInv

LEMMA NextHandled == TypeInv /\ HandledInv /\ [Next]_vars => HandledInv'
<1> SUFFICES ASSUME TypeInv, HandledInv, [Next]_vars PROVE HandledInv'
  OBVIOUS
<1>1. CASE UNCHANGED vars
  BY <1>1 DEF vars, queue, poll, ghosts, HandledInv, Pending
<1>2. CASE Send
  <2>1. UNCHANGED <<confirmed, up, pc, mem, batch, skipped>> /\ sent' = sent + 1
    BY <1>2 DEF Send, poll
  <2>2. ASSUME up, pc = "updates", NEW v \in batch, NEW w \in Pending', w > mem.last, w <= v
        PROVE w \in batch
    <3>1. v <= sent /\ v \in Nat /\ sent \in Nat
      BY <2>2 DEF TypeInv, TypeOK
    <3>2. w \in Pending
      BY <2>1, <2>2, <3>1 DEF Pending, Ids
    <3> QED
      BY <2>2, <3>2 DEF HandledInv
  <2> QED
    BY <2>1, <2>2 DEF HandledInv
<1>3. CASE NewIds \/ Die \/ Boot \/ Sync \/ StartPoll \/ Ack \/ Save \/ SaveElsewhere \/ FetchFindsNothing
  BY <1>3 DEF NewIds, Die, Boot, Sync, SyncFindsNothing, SyncReads, SyncAck, SyncSave, StartPoll, Ack,
              Save, SaveElsewhere, FetchFindsNothing, HandledInv
<1>4. CASE EndBatch \/ ForceReads \/ ForceAck
  BY <1>4 DEF EndBatch, ForceReads, ForceAck, poll, HandledInv
<1>5. CASE FetchReads
  <2>1. confirmed' \in Nat /\ sent' = sent /\ sent \in Nat /\ up' /\ pc' = "updates"
    BY <1>5, ForgetsType DEF FetchReads, TypeInv, TypeOK, Marks
  <2>2. ASSUME NEW v \in batch', NEW w \in Pending', w <= v PROVE w \in batch'
    <3>1. w \in Ids /\ confirmed' < w /\ batch' = Batch(confirmed')
      BY <1>5, <2>1 DEF FetchReads, Pending
    <3> QED
      BY <2>1, <2>2, <3>1, BatchHasNoGaps
  <2> QED
    BY <2>1, <2>2 DEF HandledInv
<1>6. CASE HandleUpdate
  BY <1>6, UpdateHandled
<1> QED
  BY <1>1, <1>2, <1>3, <1>4, <1>5, <1>6 DEF Next, Environment, Poll, Fetch

\* The instance of PassedIsHandled for one step.
Passed ==
    \A u \in Pending :
      Listening /\ u > mem.last /\ ~(pc \in {"force", "forceAck"} /\ skipped.poll)
        => \/ ~up' \/ u \in ran' \/ cmd[u] = "other" \/ u <= old
           \/ u > mem'.last /\ u > confirmed'

LEMMA UpdatePassed == ASSUME TypeInv, HandledInv, HandleUpdate PROVE Passed
<1> SUFFICES ASSUME NEW w \in Pending, w > mem.last, w \notin ran', cmd[w] # "other", ~(w <= old)
             PROVE w > mem'.last /\ w > confirmed'
  BY DEF Passed
<1> PICK u \in Ids : SkipStale(u) \/ SkipOther(u) \/ RunToggle(u) \/ RunSaving(u)
  BY DEF HandleUpdate
<1>1. TakesUp(u) /\ confirmed' = confirmed
  BY DEF SkipStale, SkipOther, RunToggle, RunSaving, Runs, queue
<1>2. w \in Nat /\ u \in Nat /\ w > confirmed /\ confirmed \in Nat /\ mem.last \in Nat
  BY DEF Pending, Ids, TypeInv, TypeOK, Marks
<1>3. Past(u).last = u /\ \A b : [Past(u) EXCEPT !.paused = b].last = u
  BY <1>2, PastLast DEF TypeInv
<1>4. mem'.last = u
  BY <1>3 DEF SkipStale, SkipOther, RunToggle, RunSaving, Runs
<1>5. w # u
  BY DEF SkipStale, SkipOther, RunToggle, RunSaving, Runs
<1>6. w <= u => w \in batch
  BY <1>1 DEF HandledInv, TakesUp
<1>7. w > u
  BY <1>1, <1>2, <1>5, <1>6 DEF TakesUp
<1> QED
  BY <1>1, <1>2, <1>4, <1>7

LEMMA NextPassed == TypeInv /\ HandledInv /\ [Next]_vars => Passed
<1> SUFFICES ASSUME TypeInv, HandledInv, [Next]_vars,
                    NEW u \in Pending, Listening, u > mem.last, up',
                    ~(pc \in {"force", "forceAck"} /\ skipped.poll),
                    u \notin ran', cmd[u] # "other", ~(u <= old)
             PROVE u > mem'.last /\ u > confirmed'
  BY DEF Passed
<1>1. u \in Nat /\ confirmed \in Nat /\ mem.last \in Nat /\ sent \in Nat /\ u > confirmed
  BY DEF Pending, Ids, TypeInv, TypeOK, Marks
<1>2. ASSUME mem' = mem, confirmed' = confirmed PROVE u > mem'.last /\ u > confirmed'
  BY <1>1, <1>2
<1>3. CASE UNCHANGED vars
  BY <1>2, <1>3 DEF vars, queue
<1>4. CASE Environment \/ Sync
  <2>1. Send
    BY <1>4 DEF Environment, Sync, NewIds, Die, Boot, SyncFindsNothing, SyncReads, SyncAck, SyncSave,
                Listening, Polling
  <2> QED
    BY <1>2, <2>1 DEF Send
<1>5. CASE HandleUpdate
  BY <1>5, UpdatePassed DEF Passed
<1>6. CASE Fetch \/ Ack
  <2>1. Forgets(mem.last) \/ confirmed' = confirmed
    BY <1>6 DEF Fetch, FetchReads, FetchFindsNothing, Ack, Unread
  <2>2. mem' = mem
    BY <1>6 DEF Fetch, FetchReads, FetchFindsNothing, Ack
  <2> QED
    BY <1>1, <2>1, <2>2 DEF Forgets, Larger, Smaller
<1>7. CASE StartPoll \/ EndBatch \/ Save \/ SaveElsewhere
  BY <1>2, <1>7 DEF StartPoll, EndBatch, Save, SaveElsewhere, queue
<1>8. CASE ForceReads \/ ForceAck
  BY <1>8 DEF ForceReads, ForceAck, HandledInv
<1> QED
  BY <1>3, <1>4, <1>5, <1>6, <1>7, <1>8 DEF Next, Poll

\* While the bot listens, no offset runs ahead of a command that is to be run.
THEOREM PassedUpdatesAreHandled == Spec => PassedIsHandled
<1>1. TypeInv /\ HandledInv /\ [Next]_vars => [Passed]_vars
  BY NextPassed
<1>2. Spec => [][Passed]_vars
  BY <1>1, InitTypeInv, NextType, InitHandled, NextHandled, PTL DEF Spec
<1> QED
  BY <1>2 DEF PassedIsHandled, Passed
=============================================================================
