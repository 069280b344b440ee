------------------------------ MODULE JobStore -----------------------------
(***************************************************************************)
(* The job records, their file and the stream of events to a browser:      *)
(* SessionStore (backend/core/session_store.py), written to by the         *)
(* handlers on the asyncio loop and by the event callbacks of the runs on  *)
(* threads of their own, and EventBroadcaster (backend/core/               *)
(* event_stream.py), which all of them publish to.                         *)
(*                                                                         *)
(* Every operation changes the records under the lock, takes a snapshot    *)
(* under the lock, and writes the snapshot to jobs.json outside it.  The   *)
(* server may die at any time and then loads what the file holds.          *)
(***************************************************************************)
EXTENDS Integers, Sequences, FiniteSets

CONSTANTS
  Jobs,         \* job ids
  Runners,      \* threads that run event callbacks
  Absent,       \* no record
  Torn,         \* a file that is no JSON document
  MaxEvents,    \* bound on the events of a runner
  MaxChanges,   \* bound on what the loop changes or announces
  QueueCap,     \* maxsize of a subscriber's queue
  JobOf,        \* the job a runner runs
  Faults        \* what may go wrong: "crash", "io_error"

ASSUME JobsAssumption == JobOf \in [Runners -> Jobs]
ASSUME ThreadsAssumption == "loop" \notin Runners
ASSUME RunnersAssumption == IsFiniteSet(Runners)
ASSUME BoundsAssumption == MaxEvents \in Nat /\ MaxChanges \in Nat /\ QueueCap \in Nat \ {0}

Threads == Runners \cup {"loop"}

\* The n-th event of a runner; what the loop announces, which is in no record.
Events == Runners \X (1..MaxEvents)
Status == <<"loop", 0>>
Messages == Events \cup {Status}

Live == "live"     \* QUEUED, RUNNING, PAUSED and RATE_LIMITED
Ended == "ended"   \* COMPLETED and FAILED

VARIABLES
  jobs,      \* _jobs: the records, each its status and its events
  fresh,     \* ids not used yet
  file,      \* jobs.json
  pc,        \* where each thread is in its operation
  snap,      \* the data a thread is about to write
  mixed,     \* writers whose writing overlaps another's
  runs,      \* the runners whose run is in progress
  emitted,   \* the number of events a runner has emitted
  changes,   \* the number of changes and announcements of the loop
  up,        \* the server runs
  client,    \* whether the browser listens
  queue,     \* its subscriber queue
  received,  \* what has reached it
  clean      \* no other operation overlapped the last one, which could write

storeVars == <<jobs, fresh>>
fileVars == <<file, snap, mixed>>
clientVars == <<client, queue, received>>
boundVars == <<emitted, changes>>
vars == <<storeVars, fileVars, pc, runs, boundVars, up, clientVars, clean>>

Record == [status : {Live, Ended}, events : SUBSET Events]
Store == [Jobs -> Record \cup {Absent}]
NewJob == [status |-> Live, events |-> {}]
NoData == [j \in Jobs |-> Absent]

ASSUME AbsentAssumption == Absent \notin Record
ASSUME TornAssumption == Torn \notin Store

\* The jobs of the runs, as they were created.
Init ==
  /\ jobs = [j \in Jobs |-> IF j \in {JobOf[r] : r \in Runners} THEN NewJob ELSE Absent]
  /\ fresh = {j \in Jobs : jobs[j] = Absent}
  /\ file = jobs
  /\ pc = [t \in Threads |-> "idle"]
  /\ snap = [t \in Threads |-> NoData]
  /\ mixed = {}
  /\ runs = Runners
  /\ emitted = [r \in Runners |-> 0] /\ changes = 0
  /\ up = TRUE
  /\ client = FALSE /\ queue = <<>> /\ received = {}
  /\ clean = TRUE

-----------------------------------------------------------------------------

At(step) == {t \in Threads : pc[t] = step}

\* Threads between the change of the records and the end of persist.
Persisting == At("snapshot") \cup At("open") \cup At("write")

\* A thread has changed the records to s and goes on to persist them.
Changed(t, s) ==
  /\ jobs' = s
  /\ pc' = [pc EXCEPT ![t] = "snapshot"]
  /\ clean' = (Persisting = {})

\* create_job, update_job and delete_job, called by a handler or a worker.
LoopTurn == up /\ pc["loop"] = "idle" /\ changes < MaxChanges

CreateJob(j) ==
  /\ LoopTurn /\ j \in fresh
  /\ Changed("loop", [jobs EXCEPT ![j] = NewJob])
  /\ fresh' = fresh \ {j}
  /\ changes' = changes + 1
  /\ UNCHANGED <<fileVars, runs, emitted, up, clientVars>>

UpdateJob(j) ==
  /\ LoopTurn /\ jobs[j] # Absent
  /\ \E s \in {Live, Ended} : Changed("loop", [jobs EXCEPT ![j].status = s])
  /\ changes' = changes + 1
  /\ UNCHANGED <<fresh, fileVars, runs, emitted, up, clientVars>>

DeleteJob(j) ==
  /\ LoopTurn /\ jobs[j] # Absent
  /\ Changed("loop", [jobs EXCEPT ![j] = Absent])
  /\ changes' = changes + 1
  /\ UNCHANGED <<fresh, fileVars, runs, emitted, up, clientVars>>

\* A worker announces something without changing a record: a job that waits for
\* its prerequisites.
Broadcast ==
  /\ LoopTurn
  /\ pc' = [pc EXCEPT !["loop"] = "publish"]
  /\ changes' = changes + 1
  /\ UNCHANGED <<storeVars, fileVars, runs, emitted, up, clientVars, clean>>

\* MUTANT: the record of a job that has ended takes no more events.
TakesEventsWhileLive(j) == jobs[j] # Absent /\ jobs[j].status = Live

\* append_event finds a record.
TakesEvents(j) == jobs[j] # Absent

\* The event callback begins: append_event.
AppendEvent(r) ==
  /\ up /\ r \in runs /\ pc[r] = "idle" /\ emitted[r] < MaxEvents
  /\ emitted' = [emitted EXCEPT ![r] = @ + 1]
  /\ LET j == JobOf[r] IN
       IF TakesEvents(j)
         THEN Changed(r, [jobs EXCEPT ![j].events = @ \cup {<<r, emitted[r] + 1>>}])
         ELSE pc' = [pc EXCEPT ![r] = "publish"] /\ UNCHANGED <<jobs, clean>>
  /\ UNCHANGED <<fresh, fileVars, runs, changes, up, clientVars>>

-----------------------------------------------------------------------------
(* persist.                                                                *)

\* MUTANT: only the jobs in progress are saved.
DataOfLive == [j \in Jobs |-> IF jobs[j] # Absent /\ jobs[j].status = Ended THEN Absent ELSE jobs[j]]

Data == jobs

\* The directory cannot be made: persist raises, and its caller goes no further.
NoDirectory(t) ==
  /\ "io_error" \in Faults /\ pc[t] = "snapshot"
  /\ pc' = [pc EXCEPT ![t] = "idle"]
  /\ clean' = FALSE
  /\ UNCHANGED <<storeVars, fileVars, runs, boundVars, up, clientVars>>

TakeSnapshot(t) ==
  /\ pc[t] = "snapshot"
  /\ snap' = [snap EXCEPT ![t] = Data]
  /\ pc' = [pc EXCEPT ![t] = "open"]
  /\ UNCHANGED <<storeVars, file, mixed, runs, boundVars, up, clientVars, clean>>

\* write_text opens the file, which empties it.
OpenFile(t) ==
  /\ pc[t] = "open"
  /\ pc' = [pc EXCEPT ![t] = "write"]
  /\ file' = Torn
  /\ mixed' = IF At("write") = {} THEN mixed ELSE mixed \cup At("write") \cup {t}
  /\ UNCHANGED <<storeVars, snap, runs, boundVars, up, clientVars, clean>>

\* What follows persist: a callback publishes its event, most handlers and workers
\* announce the change they made.
AfterPersist(t) ==
  /\ snap' = [snap EXCEPT ![t] = NoData]
  /\ \E step \in {"publish"} \cup (IF t \in Runners THEN {} ELSE {"idle"}) :
       pc' = [pc EXCEPT ![t] = step]

\* The data is written and the file closed; of writers whose writing overlaps each
\* writes from the start of the file, over what the others have written.
WriteFile(t) ==
  /\ pc[t] = "write"
  /\ file' \in IF t \in mixed THEN {snap[t], Torn} ELSE {snap[t]}
  /\ mixed' = mixed \ {t}
  /\ AfterPersist(t)
  /\ UNCHANGED <<storeVars, runs, boundVars, up, clientVars, clean>>

\* An OSError, in opening the file or after it, is swallowed.
IOError(t) ==
  /\ "io_error" \in Faults /\ pc[t] \in {"open", "write"}
  /\ file' \in IF t \in mixed THEN {file, Torn} ELSE {file}
  /\ AfterPersist(t)
  /\ mixed' = mixed \ {t}
  /\ clean' = FALSE
  /\ UNCHANGED <<storeVars, runs, boundVars, up, clientVars>>

-----------------------------------------------------------------------------
(* The stream of events.                                                   *)

\* subscribe
Subscribe ==
  /\ up /\ ~client /\ pc["loop"] = "idle"
  /\ client' = TRUE
  /\ UNCHANGED <<storeVars, fileVars, pc, runs, boundVars, up, queue, received, clean>>

\* MUTANT: the queue stays in the list.
UnsubscribeLeft ==
  /\ up /\ client /\ pc["loop"] = "idle"
  /\ client' = FALSE /\ received' = {}
  /\ UNCHANGED <<storeVars, fileVars, pc, runs, boundVars, up, queue, clean>>

\* The browser goes: its queue is removed from the list, and what a thread still
\* puts into it nobody reads.
Unsubscribe ==
  /\ up /\ client /\ pc["loop"] = "idle"
  /\ client' = FALSE /\ queue' = <<>> /\ received' = {}
  /\ pc' = [t \in Threads |-> IF pc[t] = "put" THEN "idle" ELSE pc[t]]
  /\ UNCHANGED <<storeVars, fileVars, runs, boundVars, up, clean>>

\* MUTANT: room for one more.
HasRoomInclusive == Len(queue) \leq QueueCap

\* put_nowait looks whether the queue is full, and drops the event if so ...
HasRoom == Len(queue) < QueueCap

Publish(t) ==
  /\ pc[t] = "publish"
  /\ pc' = [pc EXCEPT ![t] = IF client /\ HasRoom THEN "put" ELSE "idle"]
  /\ UNCHANGED <<storeVars, fileVars, runs, boundVars, up, clientVars, clean>>

Message(t) == IF t \in Runners THEN <<t, emitted[t]>> ELSE Status

\* ... and then puts it into the queue, from whatever thread.
PutEvent(t) ==
  /\ pc[t] = "put"
  /\ queue' = Append(queue, Message(t))
  /\ pc' = [pc EXCEPT ![t] = "idle"]
  /\ UNCHANGED <<storeVars, fileVars, runs, boundVars, up, client, received, clean>>

\* The loop sends the next event.
SendEvent ==
  /\ up /\ pc["loop"] = "idle" /\ queue # <<>>
  /\ received' = received \cup {Head(queue)}
  /\ queue' = Tail(queue)
  /\ UNCHANGED <<storeVars, fileVars, pc, runs, boundVars, up, client, clean>>

-----------------------------------------------------------------------------
(* The server dies and starts again.                                       *)

\* MUTANT: what was in progress is taken for what it was.
AsItWas(s) == s

\* load: jobs in progress have failed.
Interrupted(s) ==
  [j \in Jobs |-> IF s[j] = Absent THEN Absent ELSE [s[j] EXCEPT !.status = Ended]]

\* A torn file is taken for an empty one, unless it cannot even be decoded:
\* then load raises and the server does not start.
Restart ==
  /\ "crash" \in Faults /\ up
  /\ IF file = Torn
       THEN up' \in BOOLEAN /\ jobs' = [j \in Jobs |-> Absent]
       ELSE up' = TRUE /\ jobs' = Interrupted(file)
  /\ pc' = [t \in Threads |-> "idle"]
  /\ snap' = [t \in Threads |-> NoData]
  /\ mixed' = {}
  /\ runs' = {}
  /\ client' = FALSE /\ queue' = <<>> /\ received' = {}
  /\ clean' = FALSE
  /\ UNCHANGED <<fresh, file, boundVars>>

-----------------------------------------------------------------------------

Next ==
  \/ \E j \in Jobs : CreateJob(j) \/ UpdateJob(j) \/ DeleteJob(j)
  \/ Broadcast
  \/ \E r \in Runners : AppendEvent(r)
  \/ \E t \in Threads :
       \/ NoDirectory(t) \/ TakeSnapshot(t) \/ OpenFile(t) \/ WriteFile(t) \/ IOError(t)
       \/ Publish(t) \/ PutEvent(t)
  \/ Subscribe \/ Unsubscribe \/ SendEvent \/ Restart

Spec == Init /\ [][Next]_vars

-----------------------------------------------------------------------------

TypeOK ==
  /\ jobs \in Store /\ fresh \subseteq Jobs
  /\ file \in Store \cup {Torn}
  /\ pc \in [Threads -> {"idle", "snapshot", "open", "write", "publish", "put"}]
  /\ snap \in [Threads -> Store] /\ mixed \subseteq At("write")
  /\ runs \subseteq Runners
  /\ emitted \in [Runners -> 0..MaxEvents] /\ changes \in 0..MaxChanges
  /\ up \in BOOLEAN /\ client \in BOOLEAN /\ clean \in BOOLEAN
  /\ queue \in Seq(Messages) /\ received \subseteq Messages
  /\ client \/ (queue = <<>> /\ At("put") = {})

SeqElements(s) == {s[i] : i \in DOMAIN s}

\* The look at the queue and the put are two steps, and the loop and any number of
\* runs publish at once: a subscriber's queue exceeds its limit by no more than the
\* threads that are between the two, and never by as much as there are threads.
QueueIsBounded == Len(queue) + Cardinality(At("put")) < QueueCap + Cardinality(Threads)

\* What a browser is shown is in the record of the job, unless it was deleted: the
\* callback appends before it publishes, and no other writer of the records undoes
\* an append.
StreamedIsStored ==
  \A e \in (SeqElements(queue) \cup received) \cap Events :
    jobs[JobOf[e[1]]] # Absent => e \in jobs[JobOf[e[1]]].events

\* Once nobody is writing, the file holds the records, if the last operation was
\* not overlapped by another and could write: no operation leaves anything unsaved.
LoneOperationIsSaved == clean /\ Persisting = {} => file = jobs

\* A server that dies after such an operation comes back with every record and
\* every event, and with no job in progress that nobody works on.
RestartKeepsRecords ==
  [][Restart /\ clean /\ Persisting = {} =>
       /\ up'
       /\ \A j \in Jobs : jobs[j] = Absent <=> jobs'[j] = Absent
       /\ \A j \in Jobs : jobs[j] # Absent =>
            jobs'[j].events = jobs[j].events /\ jobs'[j].status = Ended]_vars

\* What a comment says of the store: "append_event and persist must be atomic"
\* (session_store.py:107-109).  When nobody is writing, the file holds the records.
QuietFileIsCurrent == up /\ Persisting = {} => file = jobs
=============================================================================
