-------------------------- MODULE JobStoreProofs ---------------------------
(***************************************************************************)
(* Proofs about JobStore for any jobs, runners and limits.                 *)
(*                                                                         *)
(* SavedInv is about the file: as long as no other operation has           *)
(* overlapped the last one, one thread at most is persisting, and what it  *)
(* writes is what the records are.  ShownInv is about the stream: an event *)
(* that a thread is yet to publish is in the record already.  BoundInv     *)
(* counts the threads that have found room in the queue.                   *)
(***************************************************************************)
EXTENDS JobStore, FiniteSetTheorems, TLAPS

Change == \E j \in Jobs : CreateJob(j) \/ UpdateJob(j) \/ DeleteJob(j)

PersistStep(t) ==
  NoDirectory(t) \/ TakeSnapshot(t) \/ OpenFile(t) \/ WriteFile(t) \/ IOError(t)

StreamStep ==
  Broadcast \/ Subscribe \/ Unsubscribe \/ SendEvent \/ \E t \in Threads : Publish(t) \/ PutEvent(t)

LEMMA ChangeByLoop ==
  ASSUME TypeOK, Change
  PROVE  /\ pc["loop"] = "idle" /\ changes < MaxChanges /\ changes' = changes + 1
         /\ \E s \in Store : Changed("loop", s)
         /\ fresh' \subseteq fresh
         /\ UNCHANGED <<fileVars, runs, emitted, up, clientVars>>
<1>1. PICK j \in Jobs : CreateJob(j) \/ UpdateJob(j) \/ DeleteJob(j)
  BY DEF Change
<1>2. [jobs EXCEPT ![j] = NewJob] \in Store /\ [jobs EXCEPT ![j] = Absent] \in Store
  BY DEF TypeOK, Store, Record, NewJob
<1>3. ASSUME NEW s \in {Live, Ended}, jobs[j] # Absent
      PROVE  [jobs EXCEPT ![j].status = s] \in Store
  BY <1>3 DEF TypeOK, Store, Record
<1>. QED  BY <1>1, <1>2, <1>3 DEF CreateJob, UpdateJob, DeleteJob, LoopTurn

LEMMA AppendTyped ==
  ASSUME TypeOK, NEW r \in Runners, AppendEvent(r)
  PROVE  /\ <<r, emitted[r] + 1>> \in Events /\ emitted[r] + 1 \in 0..MaxEvents
         /\ TakesEvents(JobOf[r]) =>
              [jobs EXCEPT ![JobOf[r]].events = @ \cup {<<r, emitted[r] + 1>>}] \in Store
<1>1. emitted[r] + 1 \in 1..MaxEvents
  BY BoundsAssumption DEF TypeOK, AppendEvent
<1>2. JobOf[r] \in Jobs
  BY JobsAssumption
<1>3. <<r, emitted[r] + 1>> \in Events
  BY <1>1 DEF Events
<1>4. emitted[r] + 1 \in 0..MaxEvents
  BY <1>1
<1>5. ASSUME TakesEvents(JobOf[r])
      PROVE  [jobs EXCEPT ![JobOf[r]].events = @ \cup {<<r, emitted[r] + 1>>}] \in Store
  <2>1. jobs[JobOf[r]] \in Record
    BY <1>2, <1>5 DEF TypeOK, Store, TakesEvents
  <2>2. [jobs[JobOf[r]] EXCEPT !.events = @ \cup {<<r, emitted[r] + 1>>}] \in Record
    BY <1>3, <2>1 DEF Record
  <2>. QED  BY <2>2, <1>2 DEF TypeOK, Store
<1>. QED  BY <1>3, <1>4, <1>5

LEMMA InterruptedTyped == ASSUME NEW s \in Store PROVE Interrupted(s) \in Store
BY DEF Store, Record, Interrupted

\* A callback's message is an event once one was emitted, the loop's never is.
LEMMA MessageTyped ==
  ASSUME NEW t \in Threads, t \in Runners => <<t, emitted[t]>> \in Events
  PROVE  Message(t) \in Messages /\ (Message(t) \in Events => t \in Runners)
<1>1. Status \notin Events
  BY ThreadsAssumption DEF Status, Events
<1>. QED  BY <1>1 DEF Message, Messages

-----------------------------------------------------------------------------

LEMMA InitTyped == Init => TypeOK
<1>1. SUFFICES ASSUME Init PROVE TypeOK
  OBVIOUS
<1>2. jobs \in Store /\ NoData \in Store
  BY <1>1 DEF Init, Store, Record, NewJob, NoData
<1>3. emitted \in [Runners -> 0..MaxEvents] /\ changes \in 0..MaxChanges
  BY <1>1, BoundsAssumption DEF Init
<1>4. queue \in Seq(Messages)
  BY <1>1 DEF Init
<1>5. snap \in [Threads -> Store] /\ At("put") = {}
  BY <1>1, <1>2 DEF Init, At
<1>. QED  BY <1>1, <1>2, <1>3, <1>4, <1>5 DEF Init, TypeOK, At

\* A thread that does not go to put leaves the others that do.
LEMMA SamePuts ==
  ASSUME TypeOK, NEW t \in Threads, NEW step, step # "put", pc' = [pc EXCEPT ![t] = step],
         UNCHANGED <<client, queue>>
  PROVE  (client \/ (queue = <<>> /\ At("put") = {}))'
BY DEF TypeOK, At

LEMMA ChangeTyped == ASSUME TypeOK, Change PROVE TypeOK'
<1>1. PICK s \in Store : Changed("loop", s)
  BY ChangeByLoop
<1>2. changes' \in 0..MaxChanges
  BY ChangeByLoop, BoundsAssumption DEF TypeOK
<1>3. "loop" \in Threads
  BY DEF Threads
<1>4. (client \/ (queue = <<>> /\ At("put") = {}))'
  BY <1>1, <1>3, SamePuts, ChangeByLoop DEF Changed, clientVars
<1>. QED  BY <1>1, <1>2, <1>3, <1>4, ChangeByLoop DEF TypeOK, Changed, At, fileVars, clientVars

LEMMA AppendEventTyped == ASSUME TypeOK, NEW r \in Runners, AppendEvent(r) PROVE TypeOK'
<1>1. r \in Threads
  BY DEF Threads
<1>2. jobs' \in Store /\ clean' \in BOOLEAN
  BY AppendTyped DEF TypeOK, AppendEvent, Changed
<1>3. emitted' \in [Runners -> 0..MaxEvents]
  BY AppendTyped DEF TypeOK, AppendEvent
<1>4. \E p \in {"snapshot", "publish"} : pc[r] = "idle" /\ pc' = [pc EXCEPT ![r] = p]
  BY DEF AppendEvent, Changed
<1>5. (client \/ (queue = <<>> /\ At("put") = {}))'
  BY <1>1, <1>4, SamePuts DEF AppendEvent, clientVars
<1>. QED  BY <1>1, <1>2, <1>3, <1>4, <1>5 DEF TypeOK, AppendEvent, At, fileVars, clientVars

\* What the steps of persist have in common.
LEMMA PersistFrame ==
  ASSUME TypeOK, NEW t \in Threads, PersistStep(t)
  PROVE  /\ \E step \in {"idle", "open", "write", "publish"} : pc' = [pc EXCEPT ![t] = step]
         /\ pc[t] \in {"snapshot", "open", "write"}
         /\ snap' \in [Threads -> Store]
         /\ UNCHANGED <<jobs, fresh, runs, emitted, changes, up, client, queue, received>>
<1>1. NoData \in Store
  BY DEF NoData, Store
<1>. QED  BY <1>1 DEF PersistStep, NoDirectory, TakeSnapshot, OpenFile, WriteFile, IOError, AfterPersist, Data,
             TypeOK, storeVars, fileVars, boundVars, clientVars

LEMMA PersistTyped == ASSUME TypeOK, NEW t \in Threads, PersistStep(t) PROVE TypeOK'
<1>1. PICK step \in {"idle", "open", "write", "publish"} : pc' = [pc EXCEPT ![t] = step]
  BY PersistFrame
<1>2. (client \/ (queue = <<>> /\ At("put") = {}))'
  BY <1>1, SamePuts, PersistFrame
<1>3. mixed' \subseteq At("write")' /\ clean' \in BOOLEAN /\ file' \in Store \cup {Torn}
  <2>1. CASE NoDirectory(t) \/ TakeSnapshot(t)
    BY <2>1 DEF NoDirectory, TakeSnapshot, TypeOK, At, fileVars
  <2>2. CASE OpenFile(t)
    BY <2>2 DEF OpenFile, TypeOK, At
  <2>3. CASE WriteFile(t)
    BY <2>3, <1>1 DEF WriteFile, TypeOK, At
  <2>4. CASE IOError(t)
    BY <2>4, <1>1 DEF IOError, TypeOK, At
  <2>. QED  BY <2>1, <2>2, <2>3, <2>4 DEF PersistStep
<1>. QED  BY <1>1, <1>2, <1>3, PersistFrame DEF TypeOK

LEMMA StreamTyped ==
  ASSUME TypeOK, StreamStep,
         \A t \in Threads : PutEvent(t) => Message(t) \in Messages
  PROVE  TypeOK'
<1>. USE DEF TypeOK, At, storeVars, fileVars, boundVars
<1>1. CASE Broadcast
  <2>1. "loop" \in Threads
    BY DEF Threads
  <2>2. changes' \in 0..MaxChanges
    BY <1>1, BoundsAssumption DEF Broadcast, LoopTurn
  <2>3. (client \/ (queue = <<>> /\ At("put") = {}))'
    BY <1>1, <2>1, SamePuts DEF Broadcast, clientVars
  <2>4. mixed' \subseteq At("write")' /\ pc' \in [Threads -> {"idle", "snapshot", "open", "write", "publish", "put"}]
    BY <1>1, <2>1 DEF Broadcast, LoopTurn
  <2>. QED  BY <1>1, <2>2, <2>3, <2>4 DEF Broadcast, clientVars
<1>2. CASE Subscribe
  BY <1>2 DEF Subscribe
<1>3. CASE Unsubscribe
  <2>1. mixed' \subseteq At("write")'
    BY <1>3 DEF Unsubscribe
  <2>2. queue' = <<>> /\ queue' \in Seq(Messages) /\ At("put")' = {}
    BY <1>3 DEF Unsubscribe
  <2>. QED  BY <1>3, <2>1, <2>2 DEF Unsubscribe
<1>4. CASE SendEvent
  BY <1>4 DEF SendEvent
<1>5. ASSUME NEW t \in Threads, Publish(t) PROVE TypeOK'
  BY <1>5 DEF Publish, clientVars
<1>6. ASSUME NEW t \in Threads, PutEvent(t) PROVE TypeOK'
  <2>1. client /\ queue' \in Seq(Messages)
    <3>1. client /\ queue \in Seq(Messages) /\ Message(t) \in Messages
      BY <1>6 DEF PutEvent
    <3>2. queue' = Append(queue, Message(t))
      BY <1>6 DEF PutEvent
    <3>. HIDE DEF TypeOK
    <3>. QED  BY <3>1, <3>2
  <2>. QED  BY <1>6, <2>1 DEF PutEvent
<1>. QED  BY <1>1, <1>2, <1>3, <1>4, <1>5, <1>6 DEF StreamStep

LEMMA RestartTyped == ASSUME TypeOK, Restart PROVE TypeOK'
<1>1. jobs' \in Store
  BY InterruptedTyped DEF Restart, TypeOK, Store
<1>2. queue' = <<>> /\ queue' \in Seq(Messages) /\ At("put")' = {}
  BY DEF Restart, At
<1>3. snap' \in [Threads -> Store]
  BY DEF Restart, NoData, Store
<1>. QED  BY <1>1, <1>2, <1>3 DEF TypeOK, Restart, At, boundVars, Threads

-----------------------------------------------------------------------------
(* The stream.                                                             *)

\* A runner's thread that is in its callback has an event ...
HasEvent == \A r \in Runners : pc[r] # "idle" => emitted[r] \in 1..MaxEvents

\* ... which, like all that was streamed, is in the record.
Recorded(e) ==
  e \in Events => (jobs[JobOf[e[1]]] # Absent => e \in jobs[JobOf[e[1]]].events)

ShownInv ==
  /\ HasEvent
  /\ \A r \in Runners : pc[r] # "idle" => Recorded(<<r, emitted[r]>>)
  /\ \A r \in Runners : JobOf[r] \notin fresh
  /\ \A i \in DOMAIN queue : Recorded(queue[i])
  /\ \A e \in received : Recorded(e)

Inv == TypeOK /\ ShownInv

\* No operation but a restart takes events from a record that stays.
EventsStay ==
  \A j \in Jobs \ fresh :
    jobs'[j] # Absent => jobs[j] # Absent /\ jobs[j].events \subseteq jobs'[j].events

LEMMA StaysRecorded ==
  ASSUME Inv, EventsStay, NEW e, Recorded(e)
  PROVE  Recorded(e)'
<1>1. e \in Events => JobOf[e[1]] \in Jobs \ fresh
  BY JobsAssumption DEF Inv, ShownInv, Events
<1>. QED  BY <1>1 DEF EventsStay, Recorded

\* What a step must do to the rest for ShownInv to survive it.
LEMMA ShownStep ==
  ASSUME Inv, EventsStay, fresh' \subseteq fresh,
         UNCHANGED <<queue, received>>,
         \A r \in Runners : pc'[r] # "idle" =>
           /\ emitted'[r] \in 1..MaxEvents
           /\ \/ pc[r] # "idle" /\ emitted'[r] = emitted[r]
              \/ Recorded(<<r, emitted[r]>>)'
  PROVE  ShownInv'
<1>1. ASSUME NEW r \in Runners, pc'[r] # "idle" PROVE Recorded(<<r, emitted[r]>>)'
  <2>1. CASE pc[r] # "idle" /\ emitted'[r] = emitted[r]
    <3>1. Recorded(<<r, emitted[r]>>) /\ <<r, emitted[r]>> \in Events
      BY <2>1 DEF Inv, ShownInv, HasEvent, Events
    <3>2. JobOf[r] \in Jobs \ fresh
      BY JobsAssumption DEF Inv, ShownInv
    <3>3. jobs'[JobOf[r]] # Absent => <<r, emitted[r]>> \in jobs'[JobOf[r]].events
      BY <3>1, <3>2 DEF EventsStay, Recorded
    <3>. QED  BY <2>1, <3>3 DEF Recorded
  <2>. QED  BY <1>1, <2>1
<1>2. ASSUME NEW i \in DOMAIN queue PROVE Recorded(queue[i])'
  <2>1. Recorded(queue[i])
    BY DEF Inv, ShownInv
  <2>2. \A e : Recorded(e) => (e \in Events =>
          (jobs'[JobOf[e[1]]] # Absent => e \in jobs'[JobOf[e[1]]].events))
    BY StaysRecorded DEF Recorded
  <2>. QED  BY <2>1, <2>2 DEF Recorded
<1>3. ASSUME NEW e \in received PROVE Recorded(e)'
  BY StaysRecorded DEF Inv, ShownInv
<1>. QED  BY <1>1, <1>2, <1>3 DEF Inv, ShownInv, HasEvent

LEMMA ChangeShown == ASSUME Inv, Change PROVE ShownInv'
<1>1. PICK j \in Jobs : CreateJob(j) \/ UpdateJob(j) \/ DeleteJob(j)
  BY DEF Change
<1>2. EventsStay
  <2>1. CASE CreateJob(j)
    BY <2>1 DEF EventsStay, CreateJob, Changed, Inv, TypeOK, Store
  <2>2. CASE UpdateJob(j)
    <3>1. jobs[j] \in Record /\ jobs[j] # Absent
      BY <2>2 DEF UpdateJob, Inv, TypeOK, Store
    <3>2. jobs'[j].events = jobs[j].events
      BY <2>2, <3>1 DEF UpdateJob, Changed, Inv, TypeOK, Store, Record
    <3>3. \A i \in Jobs \ {j} : jobs'[i] = jobs[i]
      BY <2>2 DEF UpdateJob, Changed, Inv, TypeOK, Store
    <3>. QED  BY <3>1, <3>2, <3>3 DEF EventsStay
  <2>3. CASE DeleteJob(j)
    BY <2>3 DEF EventsStay, DeleteJob, Changed, Inv, TypeOK, Store
  <2>. QED  BY <1>1, <2>1, <2>2, <2>3
<1>3. fresh' \subseteq fresh /\ UNCHANGED <<queue, received, emitted>>
  BY ChangeByLoop DEF Inv, clientVars
<1>4. \A r \in Runners : pc'[r] = pc[r]
  BY <1>1, ThreadsAssumption
  DEF CreateJob, UpdateJob, DeleteJob, Changed, Inv, TypeOK, Threads
<1>. QED  BY <1>2, <1>3, <1>4, ShownStep DEF Inv, ShownInv, HasEvent

LEMMA AppendShown == ASSUME Inv, NEW r \in Runners, AppendEvent(r) PROVE ShownInv'
<1>0. JobOf[r] \in Jobs /\ r \in Threads
  BY JobsAssumption DEF Threads
<1>1. JobOf[r] \in Jobs /\ r \in Threads /\ emitted[r] + 1 \in 1..MaxEvents
  BY <1>0, AppendTyped DEF Inv, Events
<1>2. EventsStay
  BY <1>1 DEF EventsStay, AppendEvent, Changed, TakesEvents, Inv, TypeOK, Store, Record
<1>3. emitted'[r] = emitted[r] + 1 /\ \A q \in Runners \ {r} : emitted'[q] = emitted[q] /\ pc'[q] = pc[q]
  BY DEF AppendEvent, Changed, Inv, TypeOK, Threads
<1>4. jobs'[JobOf[r]] # Absent => <<r, emitted[r] + 1>> \in jobs'[JobOf[r]].events
  BY <1>1 DEF AppendEvent, Changed, TakesEvents, Inv, TypeOK, Store, Record
<1>5. Recorded(<<r, emitted[r]>>)'
  BY <1>3, <1>4 DEF Recorded
<1>6. fresh' = fresh /\ UNCHANGED <<queue, received>>
  BY DEF AppendEvent, clientVars
<1>7. ASSUME NEW q \in Runners, pc'[q] # "idle"
      PROVE  /\ emitted'[q] \in 1..MaxEvents
             /\ \/ pc[q] # "idle" /\ emitted'[q] = emitted[q]
                \/ Recorded(<<q, emitted[q]>>)'
  BY <1>1, <1>3, <1>5, <1>7 DEF Inv, ShownInv, HasEvent
<1>. QED  BY <1>2, <1>6, <1>7, ShownStep

LEMMA PersistShown == ASSUME Inv, NEW t \in Threads, PersistStep(t) PROVE ShownInv'
<1>1. UNCHANGED <<jobs, fresh, queue, received, emitted>>
  BY PersistFrame DEF Inv
<1>2. \A r \in Runners : pc[r] = "idle" => pc'[r] = "idle"
  BY PersistFrame DEF Inv, TypeOK, Threads
<1>3. EventsStay
  BY <1>1 DEF EventsStay
<1>. QED  BY <1>1, <1>2, <1>3, ShownStep DEF Inv, ShownInv, HasEvent

\* What the callbacks are about to put is an event; of the loop nothing is asked.
LEMMA PutIsRecorded ==
  ASSUME Inv, NEW t \in Threads, pc[t] = "put"
  PROVE  Message(t) \in Messages /\ Recorded(Message(t))
<1>1. CASE t \in Runners
  <2>1. emitted[t] \in 1..MaxEvents /\ Recorded(<<t, emitted[t]>>)
    BY <1>1 DEF Inv, ShownInv, HasEvent
  <2>2. <<t, emitted[t]>> \in Events
    BY <1>1, <2>1 DEF Events
  <2>3. Message(t) = <<t, emitted[t]>>
    BY <1>1 DEF Message
  <2>. QED  BY <2>1, <2>2, <2>3 DEF Messages
<1>2. CASE t \notin Runners
  <2>1. Message(t) \in Messages /\ Message(t) \notin Events
    BY <1>2, MessageTyped
  <2>. QED  BY <2>1 DEF Recorded
<1>. QED  BY <1>1, <1>2

LEMMA StreamShown == ASSUME Inv, StreamStep PROVE ShownInv'
<1>. USE DEF storeVars, fileVars, boundVars
<1>1. CASE Broadcast
  <2>1. \A r \in Runners : pc'[r] = pc[r]
    BY <1>1, ThreadsAssumption DEF Broadcast, Inv, TypeOK, Threads
  <2>. QED  BY <1>1, <2>1 DEF Broadcast, Inv, ShownInv, HasEvent, Recorded, clientVars
<1>2. CASE Subscribe
  BY <1>2 DEF Subscribe, Inv, ShownInv, HasEvent, Recorded
<1>3. CASE Unsubscribe
  <2>1. \A r \in Runners : pc[r] = "idle" => pc'[r] = "idle"
    BY <1>3 DEF Unsubscribe, Threads
  <2>. QED  BY <1>3, <2>1 DEF Unsubscribe, Inv, ShownInv, HasEvent, Recorded
<1>4. CASE SendEvent
  <2>1. Len(queue) \in Nat \ {0} /\ Head(queue) = queue[1]
    BY <1>4 DEF SendEvent, Inv, TypeOK
  <2>2. \A i \in DOMAIN queue' : i + 1 \in DOMAIN queue /\ queue'[i] = queue[i + 1]
    BY <1>4, <2>1 DEF SendEvent, Inv, TypeOK
  <2>3. \A e \in received' : e \in received \/ e = queue[1]
    BY <1>4, <2>1 DEF SendEvent
  <2>4. 1 \in DOMAIN queue
    BY <2>1 DEF Inv, TypeOK
  <2>5. UNCHANGED <<jobs, fresh, pc, emitted>>
    BY <1>4 DEF SendEvent
  <2>. QED  BY <2>2, <2>3, <2>4, <2>5 DEF Inv, ShownInv, HasEvent, Recorded
<1>5. ASSUME NEW t \in Threads, Publish(t) PROVE ShownInv'
  <2>1. \A q \in Runners : pc[q] = "idle" => pc'[q] = "idle"
    BY <1>5 DEF Publish, Inv, TypeOK, Threads
  <2>. QED  BY <1>5, <2>1 DEF Publish, Inv, ShownInv, HasEvent, Recorded, clientVars
<1>6. ASSUME NEW t \in Threads, PutEvent(t) PROVE ShownInv'
  <2>1. \A q \in Runners : pc[q] = "idle" => pc'[q] = "idle"
    BY <1>6 DEF PutEvent, Inv, TypeOK, Threads
  <2>2. \A i \in DOMAIN queue' :
          \/ i \in DOMAIN queue /\ queue'[i] = queue[i]
          \/ queue'[i] = Message(t)
    BY <1>6 DEF PutEvent, Inv, TypeOK
  <2>3. Recorded(Message(t))
    BY <1>6, PutIsRecorded DEF PutEvent
  <2>4. UNCHANGED <<jobs, fresh, emitted, received>>
    BY <1>6 DEF PutEvent
  <2>5. \A i \in DOMAIN queue' : Recorded(queue'[i])
    BY <2>2, <2>3 DEF Inv, ShownInv
  <2>. QED  BY <2>1, <2>4, <2>5 DEF Inv, ShownInv, HasEvent, Recorded
<1>. QED  BY <1>1, <1>2, <1>3, <1>4, <1>5, <1>6 DEF StreamStep

LEMMA RestartShown == ASSUME Inv, Restart PROVE ShownInv'
BY DEF Restart, Inv, ShownInv, HasEvent, Threads

LEMMA InitInv == Init => Inv
<1>1. ASSUME Init, NEW r \in Runners PROVE JobOf[r] \notin fresh
  <2>1. JobOf[r] \in Jobs /\ jobs[JobOf[r]] = NewJob
    BY <1>1, JobsAssumption DEF Init
  <2>2. NewJob # Absent
    BY AbsentAssumption DEF NewJob, Record
  <2>. QED  BY <1>1, <2>1, <2>2 DEF Init
<1>2. ASSUME Init PROVE ShownInv
  <2>1. \A r \in Runners : pc[r] = "idle"
    BY <1>2 DEF Init, Threads
  <2>2. queue = <<>> /\ received = {}
    BY <1>2 DEF Init
  <2>. QED  BY <1>1, <1>2, <2>1, <2>2 DEF ShownInv, HasEvent
<1>. QED  BY <1>2, InitTyped DEF Inv

LEMMA StutterInv == ASSUME Inv, UNCHANGED vars PROVE Inv'
BY DEF Inv, TypeOK, At, ShownInv, HasEvent, Recorded, vars, storeVars, fileVars, boundVars,
       clientVars

\* The steps, in the groups that the lemmas speak of.
LEMMA StepCases ==
  ASSUME Next
  PROVE  \/ Change
         \/ \E r \in Runners : AppendEvent(r)
         \/ \E t \in Threads : PersistStep(t)
         \/ StreamStep
         \/ Restart
BY DEF Next, Change, PersistStep, StreamStep

LEMMA StepInv == ASSUME Inv, Next PROVE Inv'
<1>1. CASE Change
  BY <1>1, ChangeTyped, ChangeShown DEF Inv
<1>2. ASSUME NEW r \in Runners, AppendEvent(r) PROVE Inv'
  BY <1>2, AppendEventTyped, AppendShown DEF Inv
<1>3. ASSUME NEW t \in Threads, PersistStep(t) PROVE Inv'
  BY <1>3, PersistTyped, PersistShown DEF Inv
<1>4. CASE StreamStep
  <2>1. \A t \in Threads : PutEvent(t) => Message(t) \in Messages
    BY PutIsRecorded DEF PutEvent
  <2>. QED  BY <1>4, <2>1, StreamTyped, StreamShown DEF Inv
<1>5. CASE Restart
  BY <1>5, RestartTyped, RestartShown DEF Inv
<1>. QED  BY <1>1, <1>2, <1>3, <1>4, <1>5, StepCases

LEMMA InvHolds == Spec => []Inv
<1>1. Inv /\ [Next]_vars => Inv'
  BY StepInv, StutterInv
<1>. QED  BY InitInv, <1>1, PTL DEF Spec

\* The variables have their types; of the writers, only one that writes is mixed.
THEOREM StoreTypeCorrect == Spec => []TypeOK
<1>1. Inv => TypeOK
  BY DEF Inv
<1>. QED  BY <1>1, InvHolds, PTL

\* What the browser is shown is in the record (engine_bridge.py appends to the record
\* before it publishes; nothing undoes an append).
THEOREM StreamedEventsStored == Spec => []StreamedIsStored
<1>1. Inv => StreamedIsStored
  BY DEF Inv, ShownInv, Recorded, StreamedIsStored, SeqElements
<1>. QED  BY <1>1, InvHolds, PTL

-----------------------------------------------------------------------------
(* The file.                                                               *)

SavedInv ==
  clean =>
    /\ \A t, u \in Persisting : t = u
    /\ mixed = {}
    /\ Persisting = {} => file = jobs
    /\ \A t \in At("open") \cup At("write") : snap[t] = jobs

LEMMA ChangedSaved ==
  ASSUME TypeOK, NEW t \in Threads, NEW s, Changed(t, s), UNCHANGED mixed
  PROVE  SavedInv'
<1>1. SUFFICES ASSUME clean' PROVE SavedInv'
  BY DEF SavedInv
<1>2. Persisting = {}
  BY <1>1 DEF Changed
<1>3. \A u \in Threads \ {t} : pc'[u] = pc[u] /\ pc'[u] \notin {"snapshot", "open", "write"}
  BY <1>2 DEF Changed, Persisting, At, TypeOK
<1>4. pc'[t] = "snapshot"
  BY DEF Changed, TypeOK
<1>5. mixed' = {}
  BY <1>2 DEF TypeOK, Persisting
<1>6. Persisting' = {t} /\ At("open")' = {} /\ At("write")' = {}
  BY <1>3, <1>4 DEF Persisting, At
<1>. QED  BY <1>5, <1>6 DEF SavedInv

\* A step that has nothing to do with the file.
LEMMA ElsewhereSaved ==
  ASSUME SavedInv, UNCHANGED <<jobs, file, snap, mixed, clean>>,
         \A t \in Threads :
           pc'[t] = pc[t] \/ {pc[t], pc'[t]} \cap {"snapshot", "open", "write"} = {}
  PROVE  SavedInv'
<1>1. At("open")' = At("open") /\ At("write")' = At("write") /\ Persisting' = Persisting
  BY DEF At, Persisting
<1>. QED  BY <1>1 DEF SavedInv

LEMMA PersistSaved ==
  ASSUME TypeOK, SavedInv, NEW t \in Threads, PersistStep(t)
  PROVE  SavedInv'
<1>1. SUFFICES ASSUME clean' PROVE SavedInv'
  BY DEF SavedInv
<1>2. clean /\ mixed = {}
  BY <1>1 DEF SavedInv, PersistStep, NoDirectory, TakeSnapshot, OpenFile, WriteFile, IOError
<1>3. t \in Persisting /\ \A u \in Threads \ {t} : pc[u] \notin {"snapshot", "open", "write"}
  BY <1>2, PersistFrame DEF SavedInv, Persisting, At
<1>4. \A u \in Threads \ {t} : pc'[u] = pc[u]
  BY PersistFrame DEF TypeOK
<1>5. CASE TakeSnapshot(t)
  <2>1. pc'[t] = "open" /\ snap'[t] = jobs' /\ mixed' = {}
    BY <1>2, <1>5 DEF TakeSnapshot, TypeOK, Data, storeVars
  <2>2. Persisting' = {t} /\ At("open")' = {t} /\ At("write")' = {}
    BY <1>3, <1>4, <2>1 DEF Persisting, At
  <2>. QED  BY <2>1, <2>2 DEF SavedInv
<1>6. CASE OpenFile(t)
  <2>1. pc'[t] = "write" /\ snap'[t] = jobs' /\ At("write") = {}
    BY <1>2, <1>3, <1>6 DEF OpenFile, TypeOK, SavedInv, At, storeVars
  <2>2. Persisting' = {t} /\ At("open")' = {} /\ At("write")' = {t}
    BY <1>3, <1>4, <2>1 DEF Persisting, At
  <2>3. mixed' = {}
    BY <1>2, <1>6, <2>1 DEF OpenFile
  <2>. QED  BY <2>1, <2>2, <2>3 DEF SavedInv
<1>7. CASE WriteFile(t)
  <2>1. snap[t] = jobs
    BY <1>2, <1>7 DEF WriteFile, SavedInv, At
  <2>2. file' = jobs' /\ mixed' = {}
    BY <1>2, <1>7, <2>1 DEF WriteFile, storeVars
  <2>3. pc'[t] \in {"idle", "publish"}
    BY <1>7 DEF WriteFile, AfterPersist, TypeOK
  <2>4. Persisting' = {} /\ At("open")' = {} /\ At("write")' = {}
    BY <1>3, <1>4, <2>3 DEF Persisting, At
  <2>. QED  BY <2>2, <2>4 DEF SavedInv
<1>8. CASE NoDirectory(t) \/ IOError(t)
  BY <1>1, <1>8 DEF NoDirectory, IOError
<1>. QED  BY <1>5, <1>6, <1>7, <1>8 DEF PersistStep

LEMMA InitSaved == Init => SavedInv
BY DEF Init, SavedInv, Persisting, At

LEMMA StepSaved == ASSUME TypeOK, SavedInv, Next PROVE SavedInv'
<1>1. CASE Change
  <2>1. "loop" \in Threads
    BY DEF Threads
  <2>. QED  BY <1>1, <2>1, ChangeByLoop, ChangedSaved DEF fileVars
<1>2. ASSUME NEW r \in Runners, AppendEvent(r) PROVE SavedInv'
  <2>1. r \in Threads
    BY DEF Threads
  <2>2. CASE TakesEvents(JobOf[r])
    BY <1>2, <2>1, <2>2, ChangedSaved DEF AppendEvent, fileVars
  <2>3. CASE ~TakesEvents(JobOf[r])
    BY <1>2, <2>1, <2>3, ElsewhereSaved DEF AppendEvent, fileVars, TypeOK
  <2>. QED  BY <2>2, <2>3
<1>3. ASSUME NEW t \in Threads, PersistStep(t) PROVE SavedInv'
  BY <1>3, PersistSaved
<1>4. CASE Broadcast \/ Subscribe \/ Unsubscribe \/ SendEvent
  BY <1>4, ElsewhereSaved
  DEF Broadcast, LoopTurn, Subscribe, Unsubscribe, SendEvent, storeVars, fileVars, TypeOK
<1>5. ASSUME NEW t \in Threads, Publish(t) \/ PutEvent(t) PROVE SavedInv'
  BY <1>5, ElsewhereSaved DEF Publish, PutEvent, storeVars, fileVars, TypeOK
<1>6. CASE Restart
  BY <1>6 DEF Restart, SavedInv
<1>. QED  BY <1>1, <1>2, <1>3, <1>4, <1>5, <1>6, StepCases DEF StreamStep

LEMMA SavedHolds == Spec => []SavedInv
<1>1. TypeOK /\ SavedInv /\ [Next]_vars => SavedInv'
  <2>1. ASSUME SavedInv, UNCHANGED vars PROVE SavedInv'
    BY <2>1, ElsewhereSaved DEF vars, storeVars, fileVars
  <2>. QED  BY <2>1, StepSaved
<1>. QED  BY InitSaved, StoreTypeCorrect, <1>1, PTL DEF Spec

\* No operation that ran alone leaves anything unsaved (session_store.py:164-181 and
\* 234-257: every change of the records is followed by persist).
THEOREM LoneOperationsSaved == Spec => []LoneOperationIsSaved
<1>1. SavedInv => LoneOperationIsSaved
  BY DEF SavedInv, LoneOperationIsSaved
<1>. QED  BY <1>1, SavedHolds, PTL

\* After such an operation a restart brings back every record and every event
\* (session_store.py:259-281).
THEOREM RestartKeeps == Spec => RestartKeepsRecords
<1>1. ASSUME TypeOK, SavedInv, Restart, clean, Persisting = {}
      PROVE  /\ up'
             /\ \A j \in Jobs : jobs[j] = Absent <=> jobs'[j] = Absent
             /\ \A j \in Jobs : jobs[j] # Absent =>
                  jobs'[j].events = jobs[j].events /\ jobs'[j].status = Ended
  <2>1. file = jobs /\ file # Torn
    BY <1>1, TornAssumption DEF SavedInv, TypeOK
  <2>2. up' /\ jobs' = Interrupted(jobs)
    BY <1>1, <2>1 DEF Restart
  <2>3. ASSUME NEW j \in Jobs, jobs[j] # Absent
        PROVE  jobs'[j] \in Record /\ jobs'[j].events = jobs[j].events /\ jobs'[j].status = Ended
    <3>1. jobs[j] \in Record
      BY <1>1, <2>3 DEF TypeOK, Store
    <3>2. jobs'[j] = [jobs[j] EXCEPT !.status = Ended]
      BY <2>2, <2>3 DEF Interrupted
    <3>. QED  BY <3>1, <3>2 DEF Record
  <2>4. \A j \in Jobs : jobs[j] = Absent => jobs'[j] = Absent
    BY <2>2 DEF Interrupted
  <2>. QED  BY <2>2, <2>3, <2>4, AbsentAssumption
<1>2. TypeOK /\ SavedInv /\ [Next]_vars =>
        [Restart /\ clean /\ Persisting = {} =>
           /\ up'
           /\ \A j \in Jobs : jobs[j] = Absent <=> jobs'[j] = Absent
           /\ \A j \in Jobs : jobs[j] # Absent =>
                jobs'[j].events = jobs[j].events /\ jobs'[j].status = Ended]_vars
  BY <1>1
<1>. QED  BY <1>2, StoreTypeCorrect, SavedHolds, PTL DEF Spec, RestartKeepsRecords

-----------------------------------------------------------------------------
(* The subscriber's queue.                                                 *)

LEMMA ThreadsFinite == IsFiniteSet(Threads) /\ Cardinality(Threads) \in Nat \ {0}
<1>1. Threads = Runners \cup {"loop"} /\ IsFiniteSet(Threads)
  BY RunnersAssumption, FS_AddElement DEF Threads
<1>2. Cardinality(Threads) # 0
  BY <1>1, FS_EmptySet
<1>. QED  BY <1>1, <1>2, FS_CardinalityType

LEMMA PutsCounted ==
  ASSUME TypeOK
  PROVE  /\ At("put") \subseteq Threads /\ IsFiniteSet(At("put"))
         /\ Cardinality(At("put")) \in Nat /\ Cardinality(Threads) \in Nat \ {0}
         /\ Cardinality(At("put")) \leq Cardinality(Threads)
<1>1. At("put") \subseteq Threads
  BY DEF At
<1>. QED  BY <1>1, ThreadsFinite, FS_Subset, FS_CardinalityType

\* A step that adds neither to the queue nor to the threads that are about to put.
LEMMA ElsewhereBounded ==
  ASSUME TypeOK, QueueIsBounded, At("put")' \subseteq At("put"),
         Len(queue') \in Nat, Len(queue') \leq Len(queue)
  PROVE  QueueIsBounded'
<1>1. Cardinality(At("put")') \in Nat /\ Cardinality(At("put")') \leq Cardinality(At("put"))
  BY PutsCounted, FS_Subset, FS_CardinalityType
<1>2. Len(queue) \in Nat
  BY DEF TypeOK
<1>. QED  BY <1>1, <1>2, PutsCounted, BoundsAssumption DEF QueueIsBounded

LEMMA PublishBounded ==
  ASSUME TypeOK, TypeOK', QueueIsBounded, NEW t \in Threads, Publish(t)
  PROVE  QueueIsBounded'
<1>1. queue' = queue /\ Len(queue) \in Nat
  BY DEF Publish, TypeOK, clientVars
<1>2. CASE client /\ HasRoom
  <2>1. /\ Cardinality(At("put")') \in Nat /\ Cardinality(Threads) \in Nat
        /\ Cardinality(At("put")') \leq Cardinality(Threads)
    <3>1. At("put")' \subseteq Threads
      BY DEF At
    <3>. QED  BY <3>1, ThreadsFinite, FS_Subset, FS_CardinalityType
  <2>2. Len(queue') < QueueCap
    BY <1>1, <1>2 DEF HasRoom
  <2>. QED  BY <1>1, <2>1, <2>2, BoundsAssumption DEF QueueIsBounded
<1>3. CASE ~(client /\ HasRoom)
  <2>1. At("put")' \subseteq At("put")
    BY <1>3 DEF Publish, At, TypeOK
  <2>. QED  BY <1>1, <2>1, ElsewhereBounded
<1>. QED  BY <1>2, <1>3

LEMMA PutBounded ==
  ASSUME TypeOK, QueueIsBounded, NEW t \in Threads, PutEvent(t),
         Message(t) \in Messages
  PROVE  QueueIsBounded'
<1>1. At("put")' = At("put") \ {t} /\ t \in At("put")
  BY DEF PutEvent, At, TypeOK
<1>2. Cardinality(At("put")') = Cardinality(At("put")) - 1
  BY <1>1, PutsCounted, FS_RemoveElement
<1>3. Len(queue') = Len(queue) + 1 /\ Len(queue) \in Nat
  BY DEF PutEvent, TypeOK
<1>. QED  BY <1>2, <1>3, PutsCounted, BoundsAssumption DEF QueueIsBounded

LEMMA InitBounded == Init => QueueIsBounded
<1>1. SUFFICES ASSUME Init PROVE QueueIsBounded
  OBVIOUS
<1>2. At("put") = {} /\ Len(queue) = 0
  BY <1>1 DEF Init, At
<1>3. Cardinality({}) = 0
  BY FS_EmptySet
<1>. QED  BY <1>1, <1>2, <1>3, InitTyped, PutsCounted, BoundsAssumption DEF QueueIsBounded

LEMMA StepBounded == ASSUME Inv, TypeOK', QueueIsBounded, Next PROVE QueueIsBounded'
<1>. USE DEF Inv
<1>0. Len(queue) \in Nat
  BY DEF TypeOK
<1>1. CASE Change
  <2>1. At("put")' \subseteq At("put") /\ queue' = queue
    BY <1>1, ChangeByLoop DEF Changed, At, TypeOK, clientVars
  <2>. QED  BY <1>0, <2>1, ElsewhereBounded
<1>2. ASSUME NEW r \in Runners, AppendEvent(r) PROVE QueueIsBounded'
  <2>1. \E p \in {"snapshot", "publish"} : pc' = [pc EXCEPT ![r] = p]
    BY <1>2 DEF AppendEvent, Changed
  <2>2. At("put")' \subseteq At("put") /\ queue' = queue
    BY <1>2, <2>1 DEF AppendEvent, At, TypeOK, clientVars
  <2>. QED  BY <1>0, <2>2, ElsewhereBounded
<1>3. ASSUME NEW t \in Threads, PersistStep(t) PROVE QueueIsBounded'
  <2>1. At("put")' \subseteq At("put") /\ queue' = queue
    BY <1>3, PersistFrame DEF At, TypeOK
  <2>. QED  BY <1>0, <2>1, ElsewhereBounded
<1>4. CASE Broadcast \/ Subscribe \/ Unsubscribe \/ SendEvent
  <2>1. At("put")' \subseteq At("put") /\ Len(queue') \in Nat /\ Len(queue') \leq Len(queue)
    BY <1>4 DEF Broadcast, Subscribe, Unsubscribe, SendEvent, At, TypeOK, clientVars
  <2>. QED  BY <2>1, ElsewhereBounded
<1>5. ASSUME NEW t \in Threads, Publish(t) PROVE QueueIsBounded'
  BY <1>5, PublishBounded
<1>6. ASSUME NEW t \in Threads, PutEvent(t) PROVE QueueIsBounded'
  BY <1>6, PutIsRecorded, PutBounded DEF PutEvent
<1>7. CASE Restart
  <2>1. At("put")' = {} /\ Len(queue') = 0
    BY <1>7 DEF Restart, At
  <2>. QED  BY <1>0, <2>1, ElsewhereBounded
<1>. QED  BY <1>1, <1>2, <1>3, <1>4, <1>5, <1>6, <1>7, StepCases DEF StreamStep

\* A subscriber's queue exceeds its limit by less than the number of threads that
\* publish, the loop among them (event_stream.py:50-67: the look and the put are two
\* steps).
THEOREM QueueBounded == Spec => []QueueIsBounded
<1>1. Inv /\ TypeOK' /\ QueueIsBounded /\ [Next]_vars => QueueIsBounded'
  <2>1. ASSUME Inv, QueueIsBounded, UNCHANGED vars PROVE QueueIsBounded'
    BY <2>1 DEF QueueIsBounded, vars, clientVars, At
  <2>. QED  BY <2>1, StepBounded
<1>. QED  BY InitBounded, InvHolds, StoreTypeCorrect, <1>1, PTL DEF Spec
=============================================================================
