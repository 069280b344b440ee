-------------------------- MODULE JobBridgeProofs --------------------------
(***************************************************************************)
(* Theorems about JobBridge, for any jobs, workers, domains and queue      *)
(* bound: what holds whatever clients do, and what holds for jobs that     *)
(* nobody starts a second time.                                            *)
(***************************************************************************)
EXTENDS JobBridge, TLAPS, SequenceTheorems

-----------------------------------------------------------------------------
(* The queue.                                                              *)

\* enqueue adds its job to the queue and nothing else.
LEMMA AppendQueued ==
  ASSUME queue \in Seq(Jobs), NEW j \in Jobs, queue' = Append(queue, j)
  PROVE  /\ queue' \in Seq(Jobs)
         /\ \A k : Queued(k)' <=> Queued(k) \/ k = j
<1>1. queue' \in Seq(Jobs) /\ Len(queue') = Len(queue) + 1
  OBVIOUS
<1>2. \A i \in 1..Len(queue) : queue'[i] = queue[i]
  OBVIOUS
<1>3. queue'[Len(queue) + 1] = j
  OBVIOUS
<1>4. DOMAIN queue = 1..Len(queue) /\ DOMAIN queue' = 1..(Len(queue) + 1) /\ Len(queue) \in Nat
  BY <1>1
<1>. QED
  BY <1>1, <1>2, <1>3, <1>4 DEF Queued

\* get() takes the head off the queue and nothing else.
LEMMA TailQueued ==
  ASSUME queue \in Seq(Jobs), queue # <<>>, queue' = Tail(queue)
  PROVE  /\ queue' \in Seq(Jobs) /\ Head(queue) \in Jobs
         /\ Queued(Head(queue))
         /\ \A k : Queued(k)' => Queued(k)
         /\ \A k : Queued(k) => Queued(k)' \/ k = Head(queue)
<1>1. /\ queue' \in Seq(Jobs) /\ Len(queue') = Len(queue) - 1
      /\ Len(queue) \in Nat /\ Len(queue) >= 1
      /\ \A i \in 1..(Len(queue) - 1) : queue'[i] = queue[i + 1]
      /\ Head(queue) = queue[1] /\ Head(queue) \in Jobs
  BY HeadTailProperties, EmptySeq
<1>2. DOMAIN queue = 1..Len(queue) /\ DOMAIN queue' = 1..(Len(queue) - 1)
  BY <1>1
<1>3. Queued(Head(queue))
  BY <1>1, <1>2 DEF Queued
<1>4. ASSUME NEW k, Queued(k)'
      PROVE  Queued(k)
  <2>1. PICK i \in 1..(Len(queue) - 1) : queue'[i] = k
    BY <1>4, <1>2 DEF Queued
  <2>2. i + 1 \in DOMAIN queue /\ queue[i + 1] = k
    BY <1>1, <1>2, <2>1
  <2>. QED
    BY <2>2 DEF Queued
<1>5. ASSUME NEW k, Queued(k), k # Head(queue)
      PROVE  Queued(k)'
  <2>1. PICK i \in 1..Len(queue) : queue[i] = k
    BY <1>5, <1>2 DEF Queued
  <2>2. i # 1
    BY <1>1, <1>5, <2>1
  <2>3. i - 1 \in DOMAIN queue' /\ queue'[i - 1] = k
    BY <1>1, <1>2, <2>1, <2>2
  <2>. QED
    BY <2>3 DEF Queued
<1>. QED
  BY <1>1, <1>3, <1>4, <1>5

-----------------------------------------------------------------------------
(* Type correctness.                                                       *)

\* What is common to every way in which a worker returns to the queue.
LEMMA LeaveType ==
  ASSUME TypeOK, NEW w \in Workers, NEW j \in Jobs,
         NEW ev \in [Jobs -> {"none", "clear", "set"}], Leave(w, j, ev)
  PROVE  /\ event' \in [Jobs -> {"none", "clear", "set"}]
         /\ active' \subseteq Jobs
         /\ pc' \in [Workers -> {"idle", "waiting"} \cup ThreadPhases \cup EndPhases]
         /\ cur' \in [Workers -> Jobs \cup {NoJob}]
         /\ \A v \in Workers : cur'[v] = NoJob <=> pc'[v] = "idle"
  BY DEF TypeOK, Leave

LEMMA UpdateType ==
  ASSUME TypeOK, NEW j, NEW s \in Statuses, NEW e \in Errors, UpdateJob(j, s, e)
  PROVE  status' \in [Jobs -> Statuses] /\ error' \in [Jobs -> Errors]
  BY DEF TypeOK, UpdateJob

\* Whether or not a stop file can be written or removed, it is that of a job.
LEMMA FilesType ==
  ASSUME TypeOK, NEW j \in Jobs, WriteStopFile(j) \/ UnlinkStopFile(j)
  PROVE  /\ stopFiles' \subseteq Jobs
         /\ \A k \in Jobs \ {j} : k \in stopFiles' => k \in stopFiles
         /\ UnlinkStopFile(j) /\ j \notin stopFiles => j \notin stopFiles'
  BY DEF WriteStopFile, UnlinkStopFile, FileFails, TypeOK

LEMMA RunJobType ==
  ASSUME TypeOK, NEW w \in Workers, NEW j \in Jobs,
         RunJob(w, j, event), queue' \in Seq(Jobs),
         UNCHANGED <<deps, domains, autoStarted>>
  PROVE  TypeOK'
<1>. event \in [Jobs -> {"none", "clear", "set"}]
  BY DEF TypeOK
<1>1. CASE SkipsRun(j) /\ Leave(w, j, event)
           /\ UNCHANGED <<status, error, reg, stopFiles, stopEv>>
  BY <1>1, LeaveType DEF TypeOK
<1>2. CASE /\ UpdateJob(j, "running", "none")
           /\ reg' = [reg EXCEPT ![j] = w]
           /\ UnlinkStopFile(j)
           /\ stopEv' = [stopEv EXCEPT ![w] = FALSE]
           /\ pc' = [pc EXCEPT ![w] = "launch"]
           /\ cur' = [cur EXCEPT ![w] = j]
           /\ event' = event
           /\ UNCHANGED active
  <2>1. status' \in [Jobs -> Statuses] /\ error' \in [Jobs -> Errors]
    BY <1>2, UpdateType DEF Statuses, Live, Errors
  <2>. QED
    BY <1>2, <2>1, FilesType, JobsAssumption DEF TypeOK, ThreadPhases
<1>3. CASE /\ UpdateJob(j, "failed", "other")
           /\ reg' = [reg EXCEPT ![j] = Stale]
           /\ UnlinkStopFile(j)
           /\ Leave(w, j, event)
           /\ UNCHANGED stopEv
  <2>1. status' \in [Jobs -> Statuses] /\ error' \in [Jobs -> Errors]
    BY <1>3, UpdateType DEF Statuses, Terminal, Errors
  <2>. QED
    BY <1>3, <2>1, LeaveType, FilesType DEF TypeOK
<1>. QED
  BY <1>1, <1>2, <1>3 DEF RunJob

LEMMA EnqueueType ==
  ASSUME TypeOK, NEW j \in Jobs, Enqueue(j)
  PROVE  /\ queue' \in Seq(Jobs)
         /\ event' \in [Jobs -> {"none", "clear", "set"}]
<1>1. queue' \in Seq(Jobs)
  BY AppendQueued DEF TypeOK, Enqueue
<1>2. event' \in [Jobs -> {"none", "clear", "set"}]
  BY DEF TypeOK, Enqueue, Ensured
<1>. QED
  BY <1>1, <1>2

LEMMA NewRecordType ==
  ASSUME TypeOK, NEW j \in Jobs, NEW dom \in DomainSets \cup {{}}, NEW auto \in BOOLEAN,
         NewRecord(j, dom, auto),
         deps' \in [Jobs -> SUBSET Jobs], queue' \in Seq(Jobs),
         event' \in [Jobs -> {"none", "clear", "set"}], active' \subseteq Jobs
  PROVE  TypeOK'
  BY DEF TypeOK, NewRecord, workerVars, Statuses

LEMMA AddJobType ==
  ASSUME TypeOK, NEW j \in Jobs, NEW dep \in SUBSET Jobs, NEW dom \in DomainSets,
         NEW auto \in BOOLEAN, AddJob(j, dep, dom, auto)
  PROVE  TypeOK'
<1>1. NewRecord(j, dom, auto)
  BY DEF AddJob
<1>2. CASE SmartEnqueue(j, dep, dom)
  <2>1. HardConflicts(dom) \subseteq Jobs
    BY DEF TypeOK, HardConflicts
  <2>2. deps' \in [Jobs -> SUBSET Jobs] /\ active' \subseteq Jobs
    BY <1>2, <2>1 DEF TypeOK, SmartEnqueue
  <2>3. queue' \in Seq(Jobs) /\ event' \in [Jobs -> {"none", "clear", "set"}]
    BY <1>2, EnqueueType DEF SmartEnqueue
  <2>. QED
    BY <1>1, <2>2, <2>3, NewRecordType
<1>3. CASE deps' = [deps EXCEPT ![j] = dep] /\ UNCHANGED <<queue, event, active>>
  <2>1. /\ deps' \in [Jobs -> SUBSET Jobs] /\ queue' \in Seq(Jobs)
        /\ event' \in [Jobs -> {"none", "clear", "set"}] /\ active' \subseteq Jobs
    BY <1>3 DEF TypeOK
  <2>. QED
    BY <1>1, <2>1, NewRecordType
<1>. QED
  BY <1>2, <1>3 DEF AddJob

\* The thread steps change at most the place of their worker and one status.
LEMMA ThreadType ==
  ASSUME TypeOK, NEW w \in Workers, ThreadStep(w)
  PROVE  TypeOK'
<1>1. pc[w] \in ThreadPhases /\ cur[w] \in Jobs
  BY DEF ThreadStep, ThreadLaunch, ThreadTop, ThreadAgentStart, ThreadUnlimit,
         ThreadCall, ThreadLimit, ThreadWait, TypeOK, ThreadPhases
<1>2. ASSUME NEW phase \in ThreadPhases \cup EndPhases, Goto(w, phase), OnlyThread
      PROVE  TypeOK'
  BY <1>1, <1>2 DEF TypeOK, Goto, OnlyThread, storeVars, bridgeVars,
     ThreadPhases, EndPhases
<1>3. ASSUME NEW s \in Statuses, NEW phase \in ThreadPhases,
             UpdateStatus(cur[w], s), Goto(w, phase),
             UNCHANGED <<deps, domains, autoStarted, bridgeVars, cur, stopEv>>
      PROVE  TypeOK'
  <2>1. error[cur[w]] \in Errors
    BY <1>1 DEF TypeOK
  <2>2. status' \in [Jobs -> Statuses] /\ error' \in [Jobs -> Errors]
    BY <1>3, <2>1, UpdateType DEF UpdateStatus
  <2>. QED
    BY <1>1, <1>3, <2>2 DEF TypeOK, Goto, bridgeVars, ThreadPhases
<1>4. CASE ThreadLaunch(w)
  BY <1>2, <1>4 DEF ThreadLaunch, ThreadPhases, EndPhases
<1>5. CASE ThreadTop(w)
  BY <1>2, <1>5 DEF ThreadTop, ThreadPhases, EndPhases
<1>6. CASE ThreadAgentStart(w)
  BY <1>2, <1>6 DEF ThreadAgentStart, ThreadPhases, EndPhases
<1>7. CASE ThreadUnlimit(w)
  BY <1>3, <1>7 DEF ThreadUnlimit, ThreadPhases, Statuses, Live
<1>8. CASE ThreadCall(w)
  BY <1>2, <1>8 DEF ThreadCall, ThreadPhases, EndPhases
<1>9. CASE ThreadLimit(w)
  BY <1>3, <1>9 DEF ThreadLimit, ThreadPhases, Statuses, Live
<1>10. CASE ThreadWait(w)
  BY <1>2, <1>10 DEF ThreadWait, ThreadPhases, EndPhases
<1>. QED
  BY <1>4, <1>5, <1>6, <1>7, <1>8, <1>9, <1>10 DEF ThreadStep

LEMMA WorkerType ==
  ASSUME TypeOK, NEW w \in Workers, WorkerStep(w)
  PROVE  TypeOK'
<1>1. CASE WorkerTake(w)
  <2>1. /\ queue' \in Seq(Jobs) /\ Head(queue) \in Jobs
        /\ UNCHANGED <<deps, domains, autoStarted>>
    BY <1>1, TailQueued DEF TypeOK, WorkerTake
  <2>2. CASE RunJob(w, Head(queue), event)
    BY <2>1, <2>2, RunJobType
  <2>3. CASE /\ event' = Subscribed(Head(queue))
             /\ pc' = [pc EXCEPT ![w] = "waiting"]
             /\ cur' = [cur EXCEPT ![w] = Head(queue)]
             /\ UNCHANGED <<status, error, active, reg, stopFiles, stopEv>>
    <3>1. event' \in [Jobs -> {"none", "clear", "set"}]
      BY <2>3 DEF TypeOK, Subscribed, Ensured
    <3>. QED
      BY <2>1, <2>3, <3>1, JobsAssumption DEF TypeOK
  <2>. QED
    BY <1>1, <2>2, <2>3 DEF WorkerTake
<1>2. ASSUME pc[w] = "waiting", FailUnrun(w)
      PROVE  TypeOK'
  <2>1. cur[w] \in Jobs /\ event \in [Jobs -> {"none", "clear", "set"}]
    BY <1>2 DEF TypeOK
  <2>2. status' \in [Jobs -> Statuses] /\ error' \in [Jobs -> Errors]
    BY <1>2, UpdateType DEF FailUnrun, Statuses, Terminal, Errors
  <2>3. Leave(w, cur[w], event)
    BY <1>2 DEF FailUnrun
  <2>. QED
    BY <1>2, <2>1, <2>2, <2>3, LeaveType DEF FailUnrun, TypeOK
<1>3. CASE DepsFailed(w)
  BY <1>2, <1>3 DEF DepsFailed
<1>4. CASE DepTimeout(w)
  BY <1>2, <1>4 DEF DepTimeout
<1>5. CASE DepsSatisfied(w)
  <2>1. cur[w] \in Jobs /\ queue' \in Seq(Jobs)
    BY <1>5 DEF TypeOK, DepsSatisfied
  <2>. QED
    BY <1>5, <2>1, RunJobType DEF DepsSatisfied
<1>6. CASE RunEnd(w)
  <2>1. cur[w] \in Jobs /\ event \in [Jobs -> {"none", "clear", "set"}]
    BY <1>6 DEF TypeOK, RunEnd, EndPhases
  <2>2. status' \in [Jobs -> Statuses] /\ error' \in [Jobs -> Errors]
    BY <1>6, <2>1, UpdateType DEF RunEnd, TypeOK, Statuses, Terminal, Errors
  <2>3. Leave(w, cur[w], event) /\ stopFiles' \subseteq Jobs
    BY <1>6, <2>1, FilesType DEF RunEnd
  <2>. QED
    BY <1>6, <2>1, <2>2, <2>3, LeaveType DEF RunEnd, TypeOK
<1>. QED
  BY <1>1, <1>3, <1>4, <1>5, <1>6 DEF WorkerStep

LEMMA ClientType ==
  ASSUME TypeOK, ClientStep
  PROVE  TypeOK'
<1>1. ASSUME NEW j \in Jobs, NEW dep \in SUBSET Jobs, NEW dom \in DomainSets,
             NEW auto \in BOOLEAN, CreateJob(j, dep, dom, auto)
      PROVE  TypeOK'
  BY <1>1, AddJobType DEF CreateJob
<1>2. ASSUME NEW src \in Jobs, NEW j \in Jobs, NEW dom \in DomainSets,
             NEW auto \in BOOLEAN, CloneJob(src, j, dom, auto)
      PROVE  TypeOK'
  BY <1>2, AddJobType DEF CloneJob
<1>3. ASSUME NEW src \in Jobs, NEW j \in Jobs, NEW dom \in DomainSets,
             RetryJob(src, j, dom)
      PROVE  TypeOK'
  BY <1>3, AddJobType DEF RetryJob
<1>4. ASSUME NEW src \in Jobs, NEW j \in Jobs, RestartJob(src, j)
      PROVE  TypeOK'
  <2>1. queue' \in Seq(Jobs) /\ event' \in [Jobs -> {"none", "clear", "set"}]
    BY <1>4, EnqueueType DEF RestartJob
  <2>2. /\ deps' \in [Jobs -> SUBSET Jobs] /\ active' \subseteq Jobs
        /\ domains[src] \in DomainSets \cup {{}}
    BY <1>4 DEF RestartJob, TypeOK
  <2>. QED
    BY <1>4, <2>1, <2>2, NewRecordType DEF RestartJob
<1>5. ASSUME NEW j \in Jobs, StartJob(j)
      PROVE  TypeOK'
  <2>1. queue' \in Seq(Jobs) /\ event' \in [Jobs -> {"none", "clear", "set"}]
    BY <1>5, EnqueueType DEF StartJob
  <2>2. status' \in [Jobs -> Statuses] /\ error' \in [Jobs -> Errors]
    BY <1>5, UpdateType DEF StartJob, UpdateStatus, TypeOK, Statuses
  <2>. QED
    BY <1>5, <2>1, <2>2 DEF StartJob, TypeOK, workerVars
<1>6. ASSUME NEW j \in Jobs, SignalStop(j)
      PROVE  stopEv' \in [Workers -> BOOLEAN] /\ stopFiles' \subseteq Jobs
  BY <1>6, FilesType DEF SignalStop, TypeOK
<1>7. ASSUME NEW j \in Jobs, StopJob(j)
      PROVE  TypeOK'
  <2>1. status' \in [Jobs -> Statuses] /\ error' \in [Jobs -> Errors]
    BY <1>7, UpdateType DEF StopJob, Statuses, Terminal, Errors
  <2>. QED
    BY <1>6, <1>7, <2>1 DEF StopJob, TypeOK
<1>8. ASSUME NEW j \in Jobs, PauseJob(j)
      PROVE  TypeOK'
  <2>1. status' \in [Jobs -> Statuses] /\ error' \in [Jobs -> Errors]
    BY <1>8, UpdateType DEF PauseJob, UpdateStatus, TypeOK, Statuses, Live
  <2>. QED
    BY <1>6, <1>8, <2>1 DEF PauseJob, TypeOK
<1>9. ASSUME NEW j \in Jobs, ResumeJob(j)
      PROVE  TypeOK'
  <2>1. status' \in [Jobs -> Statuses] /\ error' \in [Jobs -> Errors]
    BY <1>9, UpdateType DEF ResumeJob, UpdateStatus, TypeOK, Statuses, Live
  <2>. QED
    BY <1>9, <2>1 DEF ResumeJob, TypeOK, bridgeVars, workerVars
<1>10. ASSUME NEW j \in Jobs, DeleteJob(j)
       PROVE  TypeOK'
  BY <1>10 DEF DeleteJob, TypeOK, bridgeVars, workerVars, Statuses
<1>. QED
  BY <1>1, <1>2, <1>3, <1>4, <1>5, <1>7, <1>8, <1>9, <1>10 DEF ClientStep

LEMMA RestartType ==
  ASSUME TypeOK, ServerRestart
  PROVE  TypeOK'
  BY EmptySeq DEF TypeOK, ServerRestart, Statuses, Terminal, Errors

LEMMA StutterType ==
  ASSUME TypeOK, UNCHANGED vars
  PROVE  TypeOK'
  BY DEF TypeOK, vars, storeVars, bridgeVars, workerVars

\* Every variable keeps its type, and a worker is idle exactly when it holds no
\* job, for any number of jobs and workers and any client.
THEOREM TypeCorrect == Spec => []TypeOK
<1>1. Init => TypeOK
  BY EmptySeq DEF Init, TypeOK, Statuses, Errors
<1>2. TypeOK /\ [Next]_vars => TypeOK'
  BY WorkerType, ThreadType, ClientType, RestartType, StutterType DEF Next
<1>. QED
  BY <1>1, <1>2, PTL DEF Spec

-----------------------------------------------------------------------------
(* No job is stranded.  With TypeOK the property is inductive as it stands. *)

\* Whoever else holds a job goes on holding it when worker w changes its own.
LEMMA OthersHold ==
  ASSUME TypeOK, NEW w \in Workers, NEW x, cur' = [cur EXCEPT ![w] = x],
         NEW k, Held(k), k # cur[w]
  PROVE  Held(k)'
  BY DEF Held, TypeOK

\* A worker that drops its job, ended or gone, leaves no other job alone.
LEMMA LeaveStrands ==
  ASSUME TypeOK, NoJobStranded, NEW w \in Workers, cur[w] \in Jobs,
         NEW ev, Leave(w, cur[w], ev),
         queue' = queue, autoStarted' = autoStarted,
         \A k \in Jobs \ {cur[w]} : status'[k] = status[k],
         status'[cur[w]] \notin Live \cup {"queued"}
  PROVE  NoJobStranded'
<1>. DEFINE j == cur[w]
<1>1. cur' = [cur EXCEPT ![w] = NoJob] /\ pc' = [pc EXCEPT ![w] = "idle"]
      /\ active' = active \ {j}
  BY DEF Leave
<1>2. \A k : Queued(k)' <=> Queued(k)
  BY DEF Queued
<1>3. \A k : k # j /\ Scheduled(k) => Scheduled(k)'
  BY <1>1, <1>2, OthersHold DEF Scheduled
<1>4. LiveJobHasRun'
  <2>. SUFFICES ASSUME NEW k \in Jobs, status'[k] \in Live
                PROVE  \E v \in Workers : cur'[v] = k /\ Executing(v)'
    BY DEF LiveJobHasRun
  <2>1. k # j /\ status[k] \in Live
    OBVIOUS
  <2>2. PICK v \in Workers : cur[v] = k /\ Executing(v)
    BY <2>1 DEF NoJobStranded, LiveJobHasRun
  <2>3. v # w
    BY <2>1, <2>2
  <2>. QED
    BY <1>1, <2>2, <2>3 DEF Executing, TypeOK
<1>5. QueuedJobIsScheduled'
  <2>. SUFFICES ASSUME NEW k \in Jobs, status'[k] = "queued", autoStarted'[k]
                PROVE  Scheduled(k)'
    BY DEF QueuedJobIsScheduled
  <2>1. k # j
    OBVIOUS
  <2>. QED
    BY <1>3, <2>1 DEF NoJobStranded, QueuedJobIsScheduled
<1>6. ActiveJobIsScheduled'
  BY <1>1, <1>3 DEF NoJobStranded, ActiveJobIsScheduled, TypeOK
<1>. QED
  BY <1>4, <1>5, <1>6 DEF NoJobStranded

\* run_job, with the job taken from the queue or held since its gate.
LEMMA RunJobStrands ==
  ASSUME TypeOK, NoJobStranded, NEW w \in Workers, NEW j \in Jobs, NEW ev,
         cur[w] \in {j, NoJob},
         RunJob(w, j, ev), autoStarted' = autoStarted,
         \A k : Queued(k) => Queued(k)' \/ k = j
  PROVE  NoJobStranded'
<1>1. \A k : k \in Jobs /\ k # j /\ Scheduled(k) => Scheduled(k)'
  <2>1. \E x : cur' = [cur EXCEPT ![w] = x]
    BY DEF RunJob, Leave
  <2>. QED
    BY <2>1, OthersHold, JobsAssumption DEF Scheduled
<1>2. ASSUME NEW k \in Jobs, k # j, status[k] \in Live
      PROVE  \E v \in Workers : cur'[v] = k /\ Executing(v)'
  <2>1. PICK v \in Workers : cur[v] = k /\ Executing(v)
    BY <1>2 DEF NoJobStranded, LiveJobHasRun
  <2>2. v # w
    BY <1>2, <2>1, JobsAssumption
  <2>3. cur'[v] = cur[v] /\ pc'[v] = pc[v]
    BY <2>2 DEF RunJob, Leave, TypeOK
  <2>. QED
    BY <2>1, <2>3 DEF Executing
<1>3. CASE SkipsRun(j) /\ Leave(w, j, ev) /\ UNCHANGED status
  <2>1. status[j] \notin Live /\ status[j] # "queued"
    BY <1>3 DEF SkipsRun, Live, Terminal
  <2>2. LiveJobHasRun'
    BY <1>2, <1>3, <2>1 DEF LiveJobHasRun
  <2>3. QueuedJobIsScheduled'
    BY <1>1, <1>3, <2>1 DEF NoJobStranded, QueuedJobIsScheduled
  <2>4. ActiveJobIsScheduled'
    BY <1>1, <1>3 DEF NoJobStranded, ActiveJobIsScheduled, Leave, TypeOK
  <2>. QED
    BY <2>2, <2>3, <2>4 DEF NoJobStranded
<1>4. CASE /\ ~SkipsRun(j)
           /\ UpdateJob(j, "running", "none")
           /\ pc' = [pc EXCEPT ![w] = "launch"]
           /\ cur' = [cur EXCEPT ![w] = j]
           /\ UNCHANGED active
  <2>1. /\ \A k \in Jobs \ {j} : status'[k] = status[k]
        /\ status'[j] # "queued"
    BY <1>4 DEF UpdateJob, Exists, SkipsRun, TypeOK
  <2>2. cur'[w] = j /\ Executing(w)'
    BY <1>4 DEF TypeOK, Executing, ThreadPhases
  <2>3. Scheduled(j)'
    BY <2>2 DEF Scheduled, Held
  <2>4. LiveJobHasRun'
    BY <1>2, <2>1, <2>2 DEF LiveJobHasRun, TypeOK
  <2>5. QueuedJobIsScheduled'
    BY <1>1, <2>1, <2>3 DEF NoJobStranded, QueuedJobIsScheduled, TypeOK
  <2>6. ActiveJobIsScheduled'
    BY <1>1, <1>4, <2>3 DEF NoJobStranded, ActiveJobIsScheduled, TypeOK
  <2>. QED
    BY <2>4, <2>5, <2>6 DEF NoJobStranded
<1>5. CASE UpdateJob(j, "failed", "other") /\ Leave(w, j, ev)
  <2>1. /\ \A k \in Jobs \ {j} : status'[k] = status[k]
        /\ status'[j] \notin Live \cup {"queued"}
    BY <1>5 DEF UpdateJob, Exists, Live, TypeOK
  <2>2. LiveJobHasRun'
    BY <1>2, <2>1 DEF LiveJobHasRun
  <2>3. QueuedJobIsScheduled'
    BY <1>1, <2>1 DEF NoJobStranded, QueuedJobIsScheduled
  <2>4. ActiveJobIsScheduled'
    BY <1>1, <1>5 DEF NoJobStranded, ActiveJobIsScheduled, Leave, TypeOK
  <2>. QED
    BY <2>2, <2>3, <2>4 DEF NoJobStranded
<1>. QED
  BY <1>3, <1>4, <1>5 DEF RunJob

LEMMA WorkerStrands ==
  ASSUME TypeOK, NoJobStranded, NEW w \in Workers, WorkerStep(w)
  PROVE  NoJobStranded'
<1>1. CASE WorkerTake(w)
  <2>. PICK j \in Jobs : j = Head(queue)
    BY <1>1, TailQueued DEF TypeOK, WorkerTake
  <2>1. /\ cur[w] = NoJob
        /\ \A k : Queued(k) => Queued(k)' \/ k = j
        /\ autoStarted' = autoStarted
    BY <1>1, TailQueued DEF TypeOK, WorkerTake
  <2>2. CASE RunJob(w, j, event)
    BY <2>1, <2>2, RunJobStrands
  <2>3. CASE /\ pc' = [pc EXCEPT ![w] = "waiting"]
             /\ cur' = [cur EXCEPT ![w] = j]
             /\ UNCHANGED <<status, active>>
    <3>1. Scheduled(j)'
      <4>1. cur'[w] = j
        BY <2>3 DEF TypeOK
      <4>. QED
        BY <4>1 DEF Scheduled, Held
    <3>2. \A k \in Jobs : Scheduled(k) => Scheduled(k)'
      BY <2>1, <2>3, <3>1, OthersHold, JobsAssumption DEF Scheduled
    <3>3. LiveJobHasRun'
      <4>. SUFFICES ASSUME NEW k \in Jobs, status[k] \in Live
                    PROVE  \E v \in Workers : cur'[v] = k /\ Executing(v)'
        BY <2>3 DEF LiveJobHasRun
      <4>1. PICK v \in Workers : cur[v] = k /\ Executing(v)
        BY DEF NoJobStranded, LiveJobHasRun
      <4>2. v # w
        BY <2>1, <4>1, JobsAssumption
      <4>. QED
        BY <2>3, <4>1, <4>2 DEF Executing, TypeOK
    <3>. QED
      BY <2>1, <2>3, <3>2, <3>3
      DEF NoJobStranded, QueuedJobIsScheduled, ActiveJobIsScheduled, TypeOK
  <2>. QED
    BY <1>1, <2>2, <2>3 DEF WorkerTake
<1>2. ASSUME pc[w] = "waiting", FailUnrun(w)
      PROVE  NoJobStranded'
  <2>1. cur[w] \in Jobs
    BY <1>2 DEF TypeOK
  <2>2. /\ \A k \in Jobs \ {cur[w]} : status'[k] = status[k]
        /\ status'[cur[w]] \notin Live \cup {"queued"}
    BY <1>2, <2>1 DEF FailUnrun, UpdateJob, Exists, Live, TypeOK
  <2>. QED
    BY <1>2, <2>1, <2>2, LeaveStrands DEF FailUnrun
<1>3. CASE DepsFailed(w)
  BY <1>2, <1>3 DEF DepsFailed
<1>4. CASE DepTimeout(w)
  BY <1>2, <1>4 DEF DepTimeout
<1>5. CASE DepsSatisfied(w)
  <2>1. cur[w] \in Jobs
    BY <1>5 DEF TypeOK, DepsSatisfied
  <2>2. \A k : Queued(k) => Queued(k)'
    BY <1>5 DEF DepsSatisfied, Queued
  <2>. QED
    BY <1>5, <2>1, <2>2, RunJobStrands DEF DepsSatisfied
<1>6. CASE RunEnd(w)
  <2>1. cur[w] \in Jobs
    BY <1>6 DEF TypeOK, RunEnd, EndPhases
  <2>2. /\ \A k \in Jobs \ {cur[w]} : status'[k] = status[k]
        /\ status'[cur[w]] \notin Live \cup {"queued"}
    BY <1>6, <2>1 DEF RunEnd, KeepsUserStop, UpdateJob, Exists, Live, TypeOK
  <2>. QED
    BY <1>6, <2>1, <2>2, LeaveStrands DEF RunEnd
<1>. QED
  BY <1>1, <1>3, <1>4, <1>5, <1>6 DEF WorkerStep

\* A thread writes the status of a job its worker executes.
LEMMA ThreadStrands ==
  ASSUME TypeOK, NoJobStranded, NEW w \in Workers, ThreadStep(w)
  PROVE  NoJobStranded'
<1>1. /\ UNCHANGED <<queue, autoStarted, active, cur>>
      /\ \A k \in Jobs : status'[k] = status[k] \/ (k = cur[w] /\ status'[k] \in Live)
  <2>1. ASSUME NEW s \in Live, UpdateStatus(cur[w], s)
        PROVE  \A k \in Jobs : status'[k] = status[k] \/ (k = cur[w] /\ status'[k] \in Live)
    BY <2>1 DEF UpdateStatus, UpdateJob, TypeOK
  <2>2. CASE OnlyThread
    BY <2>2 DEF OnlyThread, storeVars, bridgeVars
  <2>3. CASE ThreadUnlimit(w)
    <3>1. UpdateStatus(cur[w], "running") /\ UNCHANGED <<autoStarted, bridgeVars, cur>>
      BY <2>3 DEF ThreadUnlimit
    <3>. QED
      BY <2>1, <3>1 DEF bridgeVars, Live
  <2>4. CASE ThreadLimit(w)
    <3>1. UpdateStatus(cur[w], "rate_limited") /\ UNCHANGED <<autoStarted, bridgeVars, cur>>
      BY <2>4 DEF ThreadLimit
    <3>. QED
      BY <2>1, <3>1 DEF bridgeVars, Live
  <2>. QED
    BY <2>2, <2>3, <2>4 DEF ThreadStep, ThreadLaunch, ThreadTop, ThreadAgentStart,
       ThreadCall, ThreadWait
<1>2. /\ Executing(w)
      /\ \E phase \in ThreadPhases \cup EndPhases : pc' = [pc EXCEPT ![w] = phase]
  BY DEF Executing, Goto, ThreadPhases, EndPhases, ThreadStep, ThreadLaunch,
     ThreadTop, ThreadAgentStart, ThreadUnlimit, ThreadCall, ThreadLimit, ThreadWait
<1>3. \A v \in Workers : Executing(v) => Executing(v)'
  BY <1>2 DEF Executing, TypeOK
<1>4. LiveJobHasRun'
  BY <1>1, <1>2, <1>3 DEF NoJobStranded, LiveJobHasRun
<1>5. \A k : Scheduled(k) => Scheduled(k)'
  BY <1>1 DEF Scheduled, Queued, Held
<1>6. QueuedJobIsScheduled'
  BY <1>1, <1>5 DEF NoJobStranded, QueuedJobIsScheduled, Live
<1>7. ActiveJobIsScheduled'
  BY <1>1, <1>5 DEF NoJobStranded, ActiveJobIsScheduled, TypeOK
<1>. QED
  BY <1>4, <1>6, <1>7 DEF NoJobStranded

\* Clients leave the workers at their jobs and take nothing off the queue: a
\* step of theirs strands nobody that makes no job live, and that puts what it
\* makes queued or active on the queue.
LEMMA ClientKeeps ==
  ASSUME TypeOK, NoJobStranded, NEW j \in Jobs,
         UNCHANGED <<pc, cur>>,
         queue' = queue \/ Enqueue(j),
         \A k \in Jobs \ {j} : status'[k] = status[k] /\ autoStarted'[k] = autoStarted[k],
         active' \subseteq active \cup {j},
         status'[j] \in Live => status[j] \in Live,
         \/ Enqueue(j)
         \/ /\ active' \subseteq active
            /\ status'[j] = "queued" => ~autoStarted'[j]
  PROVE  NoJobStranded'
<1>1. \A k : Scheduled(k) => Scheduled(k)'
  BY AppendQueued DEF Scheduled, Held, Queued, Enqueue, TypeOK
<1>2. Enqueue(j) => Scheduled(j)'
  BY AppendQueued DEF Scheduled, Enqueue, TypeOK
<1>3. LiveJobHasRun'
  BY DEF NoJobStranded, LiveJobHasRun, Executing
<1>4. QueuedJobIsScheduled'
  BY <1>1, <1>2 DEF NoJobStranded, QueuedJobIsScheduled
<1>5. ActiveJobIsScheduled'
  BY <1>1, <1>2 DEF NoJobStranded, ActiveJobIsScheduled, TypeOK
<1>. QED
  BY <1>3, <1>4, <1>5 DEF NoJobStranded

\* No operation of a client strands a job.
LEMMA ClientStrands ==
  ASSUME TypeOK, NoJobStranded, ClientStep
  PROVE  NoJobStranded'
<1>1. ASSUME NEW j \in Jobs, NEW dep, NEW dom, NEW auto \in BOOLEAN,
             AddJob(j, dep, dom, auto)
      PROVE  NoJobStranded'
  <2>1. /\ status' = [status EXCEPT ![j] = "queued"]
        /\ autoStarted' = [autoStarted EXCEPT ![j] = auto]
        /\ UNCHANGED <<pc, cur>>
    BY <1>1 DEF AddJob, NewRecord, workerVars
  <2>2. \/ Enqueue(j) /\ active' = active \cup {j}
        \/ ~auto /\ UNCHANGED <<queue, active>>
    BY <1>1 DEF AddJob, SmartEnqueue
  <2>3. /\ \A k \in Jobs \ {j} : status'[k] = status[k] /\ autoStarted'[k] = autoStarted[k]
        /\ status'[j] = "queued" /\ autoStarted'[j] = auto
    BY <2>1 DEF TypeOK
  <2>4. status'[j] \notin Live
    BY <2>3 DEF Live
  <2>. QED
    BY <2>1, <2>2, <2>3, <2>4, ClientKeeps
<1>2. ASSUME NEW src \in Jobs, NEW j \in Jobs, RestartJob(src, j)
      PROVE  NoJobStranded'
  <2>1. /\ status' = [status EXCEPT ![j] = "queued"]
        /\ autoStarted' = [autoStarted EXCEPT ![j] = TRUE]
        /\ UNCHANGED <<pc, cur, active>> /\ Enqueue(j)
    BY <1>2 DEF RestartJob, NewRecord, workerVars
  <2>2. /\ \A k \in Jobs \ {j} : status'[k] = status[k] /\ autoStarted'[k] = autoStarted[k]
        /\ status'[j] \notin Live
    BY <2>1 DEF TypeOK, Live
  <2>. QED
    BY <2>1, <2>2, ClientKeeps
<1>3. ASSUME NEW j \in Jobs, StartJob(j)
      PROVE  NoJobStranded'
  <2>1. /\ status' = [status EXCEPT ![j] = "queued"]
        /\ autoStarted' = [autoStarted EXCEPT ![j] = TRUE]
        /\ UNCHANGED <<pc, cur, active>> /\ Enqueue(j)
    BY <1>3 DEF StartJob, UpdateStatus, UpdateJob, workerVars
  <2>2. /\ \A k \in Jobs \ {j} : status'[k] = status[k] /\ autoStarted'[k] = autoStarted[k]
        /\ status'[j] \notin Live
    BY <2>1 DEF TypeOK, Live
  <2>. QED
    BY <2>1, <2>2, ClientKeeps
<1>4. ASSUME NEW j \in Jobs, UNCHANGED <<autoStarted, queue, active, pc, cur>>,
             \A k \in Jobs \ {j} : status'[k] = status[k],
             status'[j] # "queued",
             status'[j] \in Live => status[j] \in Live
      PROVE  NoJobStranded'
  BY <1>4, ClientKeeps
<1>5. ASSUME NEW j \in Jobs, StopJob(j)
      PROVE  NoJobStranded'
  <2>1. /\ \A k \in Jobs \ {j} : status'[k] = status[k]
        /\ status'[j] = "failed"
    BY <1>5 DEF StopJob, UpdateJob, Exists, TypeOK, Live
  <2>. QED
    BY <1>4, <1>5, <2>1 DEF StopJob, Live
<1>6. ASSUME NEW j \in Jobs, PauseJob(j)
      PROVE  NoJobStranded'
  <2>1. /\ \A k \in Jobs \ {j} : status'[k] = status[k]
        /\ status'[j] = "paused" /\ status[j] \in Live
    BY <1>6 DEF PauseJob, UpdateStatus, UpdateJob, Exists, TypeOK, Live
  <2>. QED
    BY <1>4, <1>6, <2>1 DEF PauseJob, Live
<1>7. ASSUME NEW j \in Jobs, ResumeJob(j)
      PROVE  NoJobStranded'
  <2>1. /\ \A k \in Jobs \ {j} : status'[k] = status[k]
        /\ status'[j] = "running" /\ status[j] \in Live
    BY <1>7 DEF ResumeJob, UpdateStatus, UpdateJob, Exists, TypeOK, Live
  <2>. QED
    BY <1>4, <1>7, <2>1 DEF ResumeJob, bridgeVars, workerVars, Live
<1>8. ASSUME NEW j \in Jobs, DeleteJob(j)
      PROVE  NoJobStranded'
  <2>1. /\ \A k \in Jobs \ {j} : status'[k] = status[k]
        /\ status'[j] = "deleted"
    BY <1>8 DEF DeleteJob, TypeOK
  <2>. QED
    BY <1>4, <1>8, <2>1 DEF DeleteJob, bridgeVars, workerVars, Live
<1>. QED
  BY <1>1, <1>2, <1>3, <1>5, <1>6, <1>7, <1>8
  DEF ClientStep, CreateJob, CloneJob, RetryJob

LEMMA RestartStrands ==
  ASSUME TypeOK, ServerRestart
  PROVE  NoJobStranded'
<1>1. \A k \in Jobs : status'[k] \notin Live \cup {"queued"}
  BY DEF ServerRestart, Interrupted, TypeOK, Live
<1>. QED
  BY <1>1 DEF ServerRestart, NoJobStranded, LiveJobHasRun, QueuedJobIsScheduled,
     ActiveJobIsScheduled

LEMMA StutterStrands ==
  ASSUME NoJobStranded, UNCHANGED vars
  PROVE  NoJobStranded'
  BY DEF NoJobStranded, LiveJobHasRun, QueuedJobIsScheduled, ActiveJobIsScheduled,
     Executing, Scheduled, Queued, Held, vars, storeVars, bridgeVars, workerVars

\* Whatever the clients do and in whatever order the loop and the threads run, a
\* job that is live has a run, a job that waits to run is on the queue or held
\* by a worker, and the conflict registry names only such jobs.
THEOREM NobodyStranded == Spec => []NoJobStranded
<1>1. Init => NoJobStranded
  BY DEF Init, NoJobStranded, LiveJobHasRun, QueuedJobIsScheduled,
     ActiveJobIsScheduled, Live
<1>2. TypeOK /\ NoJobStranded /\ [Next]_vars => NoJobStranded'
  BY WorkerStrands, ThreadStrands, ClientStrands, RestartStrands, StutterStrands
  DEF Next
<1>. QED
  BY <1>1, <1>2, TypeCorrect, PTL DEF Spec

\* A job that is RUNNING, PAUSED or RATE_LIMITED has a run of its own: no STOP,
\* PAUSE, RESUME, late result or callback leaves it in such a state with nobody
\* to end it.
THEOREM LiveJobsRun == Spec => []LiveJobHasRun
<1>1. NoJobStranded => LiveJobHasRun
  BY DEF NoJobStranded
<1>. QED
  BY <1>1, NobodyStranded, PTL

\* A job that is QUEUED for execution is on the queue or in a worker's hands.
THEOREM QueuedJobsScheduled == Spec => []QueuedJobIsScheduled
<1>1. NoJobStranded => QueuedJobIsScheduled
  BY DEF NoJobStranded
<1>. QED
  BY <1>1, NobodyStranded, PTL

\* The conflict registry never leaks an entry: whoever is in it is on the queue
\* or in a worker's hands, and will be taken out.
THEOREM ActiveJobsScheduled == Spec => []ActiveJobIsScheduled
<1>1. NoJobStranded => ActiveJobIsScheduled
  BY DEF NoJobStranded
<1>. QED
  BY <1>1, NobodyStranded, PTL

-----------------------------------------------------------------------------
(* Clients that START a job once.                                          *)

StartedOnce == "requeue" \notin Ops

-----------------------------------------------------------------------------
(* A job that was started once is queued or held once.                     *)

QueueOnce == \A i, k \in DOMAIN queue : queue[i] = queue[k] => i = k

\* A job that one more request will put on the queue for the first time.
Startable(j) == status[j] = "absent" \/ (status[j] = "queued" /\ ~autoStarted[j])
StartableIsFree == \A j \in Jobs : Startable(j) => ~Scheduled(j)

Once == AtMostOneRun /\ StartableIsFree

LEMMA AppendOnce ==
  ASSUME queue \in Seq(Jobs), QueueOnce, NEW j \in Jobs, ~Queued(j),
         queue' = Append(queue, j)
  PROVE  QueueOnce'
<1>1. /\ DOMAIN queue = 1..Len(queue) /\ DOMAIN queue' = 1..(Len(queue) + 1)
      /\ Len(queue) \in Nat
      /\ \A i \in 1..Len(queue) : queue'[i] = queue[i]
      /\ queue'[Len(queue) + 1] = j
  OBVIOUS
<1>2. \A i \in 1..Len(queue) : queue'[i] # j
  BY <1>1 DEF Queued
<1>. QED
  BY <1>1, <1>2 DEF QueueOnce

LEMMA TailOnce ==
  ASSUME queue \in Seq(Jobs), QueueOnce, queue # <<>>, queue' = Tail(queue),
         NEW j, j = Head(queue)
  PROVE  QueueOnce' /\ ~Queued(j)'
<1>1. /\ DOMAIN queue = 1..Len(queue) /\ DOMAIN queue' = 1..(Len(queue) - 1)
      /\ Len(queue) \in Nat /\ Len(queue) >= 1
      /\ \A i \in 1..(Len(queue) - 1) : queue'[i] = queue[i + 1]
      /\ Head(queue) = queue[1]
  BY HeadTailProperties, EmptySeq
<1>2. \A i \in 1..(Len(queue) - 1) : i + 1 \in 1..Len(queue) /\ i + 1 # 1
  BY <1>1
<1>3. QueueOnce'
  BY <1>1, <1>2 DEF QueueOnce
<1>4. ASSUME NEW i \in DOMAIN queue', queue'[i] = j
      PROVE  FALSE
  BY <1>1, <1>2, <1>4 DEF QueueOnce
<1>. QED
  BY <1>3, <1>4 DEF Queued

\* A step that puts no job on the queue and gives none to a worker.
LEMMA QuietOnce ==
  ASSUME TypeOK, Once, queue' = queue,
         \A w \in Workers : cur'[w] \in {cur[w], NoJob},
         \A k \in Jobs : Startable(k)' => Startable(k)
  PROVE  Once'
<1>1. \A k \in Jobs : (Queued(k)' <=> Queued(k)) /\ (Held(k)' => Held(k))
  BY JobsAssumption DEF Queued, Held
<1>2. AtMostOneRun'
  <2>1. \A i, k \in DOMAIN queue' : queue'[i] = queue'[k] => i = k
    BY DEF Once, AtMostOneRun
  <2>2. \A j \in Jobs : ~(Queued(j)' /\ Held(j)')
    BY <1>1 DEF Once, AtMostOneRun
  <2>3. \A v, w \in Workers : cur'[v] = cur'[w] /\ cur'[v] # NoJob => v = w
    BY DEF Once, AtMostOneRun
  <2>. QED
    BY <2>1, <2>2, <2>3 DEF AtMostOneRun
<1>3. StartableIsFree'
  BY <1>1 DEF Once, StartableIsFree, Scheduled
<1>. QED
  BY <1>2, <1>3 DEF Once

\* A request that enqueues a job for the first time.
LEMMA EnqueueOnce ==
  ASSUME TypeOK, Once, NEW j \in Jobs, Startable(j), Enqueue(j), cur' = cur,
         ~Startable(j)', \A k \in Jobs \ {j} : Startable(k)' => Startable(k)
  PROVE  Once'
<1>1. ~Queued(j) /\ ~Held(j)
  BY DEF Once, StartableIsFree, Scheduled
<1>2. queue' = Append(queue, j) /\ queue \in Seq(Jobs)
  BY DEF Enqueue, TypeOK
<1>3. \A k : (Queued(k)' <=> Queued(k) \/ k = j) /\ (Held(k)' <=> Held(k))
  BY <1>2, AppendQueued DEF Held
<1>4. QueueOnce'
  BY <1>1, <1>2, AppendOnce DEF Once, AtMostOneRun, QueueOnce
<1>5. AtMostOneRun'
  <2>1. \A k \in Jobs : ~(Queued(k)' /\ Held(k)')
    BY <1>1, <1>3 DEF Once, AtMostOneRun
  <2>. QED
    BY <1>4, <2>1 DEF Once, AtMostOneRun, QueueOnce
<1>6. StartableIsFree'
  BY <1>3 DEF Once, StartableIsFree, Scheduled
<1>. QED
  BY <1>5, <1>6 DEF Once

\* A worker takes the job at the head of the queue, to hold it or to drop it.
LEMMA TakeOnce ==
  ASSUME TypeOK, Once, NEW w \in Workers, queue # <<>>, queue' = Tail(queue),
         NEW j, j = Head(queue), cur[w] = NoJob,
         \/ cur' = [cur EXCEPT ![w] = j]
         \/ cur' = [cur EXCEPT ![w] = NoJob],
         \A k \in Jobs : Startable(k)' => Startable(k)
  PROVE  Once'
<1>1. /\ j \in Jobs /\ Queued(j) /\ ~Queued(j)' /\ QueueOnce'
      /\ \A k : Queued(k)' => Queued(k)
  BY TailQueued, TailOnce DEF TypeOK, Once, AtMostOneRun, QueueOnce
<1>2. ~Held(j) /\ ~Startable(j)
  BY <1>1 DEF Once, AtMostOneRun, StartableIsFree, Scheduled
<1>3. \A k \in Jobs \ {j} : Held(k)' => Held(k)
  BY JobsAssumption DEF Held, TypeOK
<1>4. AtMostOneRun'
  <2>1. \A k \in Jobs : ~(Queued(k)' /\ Held(k)')
    BY <1>1, <1>3 DEF Once, AtMostOneRun
  <2>2. \A v \in Workers : v # w => cur'[v] = cur[v] /\ cur[v] # j
    BY <1>2 DEF Held, TypeOK
  <2>3. \A u, v \in Workers : cur'[u] = cur'[v] /\ cur'[u] # NoJob => u = v
    BY <2>2 DEF Once, AtMostOneRun, TypeOK
  <2>. QED
    BY <1>1, <2>1, <2>3 DEF AtMostOneRun, QueueOnce
<1>5. StartableIsFree'
  BY <1>1, <1>2, <1>3 DEF Once, StartableIsFree, Scheduled
<1>. QED
  BY <1>4, <1>5 DEF Once

\* Workers and threads make no job startable.
LEMMA UpdateStartable ==
  ASSUME TypeOK, NEW j \in Jobs, NEW s \in Live \cup Terminal, NEW e, UpdateJob(j, s, e),
         autoStarted' = autoStarted, NEW k \in Jobs, Startable(k)'
  PROVE  Startable(k)
  BY DEF Startable, UpdateJob, Live, Terminal, TypeOK

LEMMA RunJobOnce ==
  ASSUME TypeOK, NEW w \in Workers, NEW j \in Jobs, NEW ev, RunJob(w, j, ev),
         autoStarted' = autoStarted
  PROVE  /\ \A k \in Jobs : Startable(k)' => Startable(k)
         /\ cur' = [cur EXCEPT ![w] = j] \/ cur' = [cur EXCEPT ![w] = NoJob]
<1>1. CASE Leave(w, j, ev) /\ UNCHANGED status
  BY <1>1 DEF Leave, Startable
<1>2. CASE UpdateJob(j, "running", "none") /\ cur' = [cur EXCEPT ![w] = j]
  BY <1>2, UpdateStartable DEF Live
<1>3. CASE UpdateJob(j, "failed", "other") /\ Leave(w, j, ev)
  BY <1>3, UpdateStartable DEF Terminal, Leave
<1>. QED
  BY <1>1, <1>2, <1>3 DEF RunJob

LEMMA WorkerOnce ==
  ASSUME TypeOK, Once, NEW w \in Workers, WorkerStep(w)
  PROVE  Once'
<1>0. autoStarted' = autoStarted
  BY DEF WorkerStep, WorkerTake, DepsFailed, DepTimeout, FailUnrun, DepsSatisfied, RunEnd
<1>1. CASE WorkerTake(w)
  <2>. PICK j \in Jobs : j = Head(queue)
    BY <1>1, TailQueued DEF TypeOK, WorkerTake
  <2>1. cur[w] = NoJob /\ queue # <<>> /\ queue' = Tail(queue)
    BY <1>1 DEF TypeOK, WorkerTake
  <2>2. CASE RunJob(w, j, event)
    BY <1>0, <2>1, <2>2, RunJobOnce, TakeOnce
  <2>3. CASE cur' = [cur EXCEPT ![w] = j] /\ UNCHANGED status
    <3>1. \A k \in Jobs : Startable(k)' => Startable(k)
      BY <1>0, <2>3 DEF Startable
    <3>. QED
      BY <2>1, <2>3, <3>1, TakeOnce
  <2>. QED
    BY <1>1, <2>2, <2>3 DEF WorkerTake
<1>2. CASE DepsFailed(w) \/ DepTimeout(w)
  <2>1. FailUnrun(w) /\ cur[w] \in Jobs
    BY <1>2 DEF DepsFailed, DepTimeout, TypeOK
  <2>2. /\ queue' = queue /\ UpdateJob(cur[w], "failed", "other")
        /\ cur' = [cur EXCEPT ![w] = NoJob]
    BY <2>1 DEF FailUnrun, Leave
  <2>3. \A k \in Jobs : Startable(k)' => Startable(k)
    BY <1>0, <2>1, <2>2, UpdateStartable DEF Terminal
  <2>. QED
    BY <2>2, <2>3, QuietOnce DEF TypeOK
<1>3. CASE DepsSatisfied(w)
  <2>1. cur[w] \in Jobs /\ RunJob(w, cur[w], event) /\ queue' = queue
    BY <1>3 DEF TypeOK, DepsSatisfied
  <2>2. /\ \A k \in Jobs : Startable(k)' => Startable(k)
        /\ \/ cur' = [cur EXCEPT ![w] = cur[w]]
           \/ cur' = [cur EXCEPT ![w] = NoJob]
    BY <1>0, <2>1, RunJobOnce
  <2>3. \A v \in Workers : cur'[v] \in {cur[v], NoJob}
    BY <2>2 DEF TypeOK
  <2>. QED
    BY <2>1, <2>2, <2>3, QuietOnce
<1>4. CASE RunEnd(w)
  <2>1. cur[w] \in Jobs /\ queue' = queue /\ cur' = [cur EXCEPT ![w] = NoJob]
    BY <1>4 DEF TypeOK, RunEnd, EndPhases, Leave
  <2>2. \/ UNCHANGED status
        \/ \E s \in Terminal, e \in Errors : UpdateJob(cur[w], s, e)
    BY <1>4 DEF RunEnd, Terminal, Errors
  <2>3. \A k \in Jobs : Startable(k)' => Startable(k)
    BY <1>0, <2>1, <2>2, UpdateStartable DEF Startable
  <2>. QED
    BY <2>1, <2>3, QuietOnce DEF TypeOK
<1>. QED
  BY <1>1, <1>2, <1>3, <1>4 DEF WorkerStep

LEMMA ThreadOnce ==
  ASSUME TypeOK, Once, NEW w \in Workers, ThreadStep(w)
  PROVE  Once'
<1>1. UNCHANGED <<queue, autoStarted, cur>>
  BY DEF ThreadStep, ThreadLaunch, ThreadTop, ThreadAgentStart, ThreadUnlimit,
     ThreadCall, ThreadLimit, ThreadWait, OnlyThread, storeVars, bridgeVars
<1>2. \/ UNCHANGED status
      \/ cur[w] \in Jobs /\ \E s \in Live : UpdateJob(cur[w], s, error[cur[w]])
  BY DEF ThreadStep, ThreadLaunch, ThreadTop, ThreadAgentStart, ThreadUnlimit,
     ThreadCall, ThreadLimit, ThreadWait, OnlyThread, storeVars, UpdateStatus, TypeOK, Live
<1>3. \A k \in Jobs : Startable(k)' => Startable(k)
  BY <1>1, <1>2, UpdateStartable DEF Startable
<1>. QED
  BY <1>1, <1>3, QuietOnce DEF TypeOK

LEMMA ClientOnce ==
  ASSUME StartedOnce, TypeOK, Once, ClientStep
  PROVE  Once'
<1>1. ASSUME NEW j \in Jobs, NEW dep, NEW dom, NEW auto \in BOOLEAN,
             AddJob(j, dep, dom, auto)
      PROVE  Once'
  <2>1. /\ status[j] = "absent" /\ cur' = cur
        /\ status' = [status EXCEPT ![j] = "queued"]
        /\ autoStarted' = [autoStarted EXCEPT ![j] = auto]
    BY <1>1 DEF AddJob, NewRecord, workerVars
  <2>2. /\ Startable(j)
        /\ \A k \in Jobs \ {j} : Startable(k)' => Startable(k)
        /\ auto => ~Startable(j)'
    BY <2>1 DEF Startable, TypeOK
  <2>3. CASE auto /\ Enqueue(j)
    BY <2>1, <2>2, <2>3, EnqueueOnce
  <2>4. CASE queue' = queue
    BY <2>1, <2>2, <2>4, QuietOnce
  <2>. QED
    BY <1>1, <2>3, <2>4 DEF AddJob, SmartEnqueue
<1>2. ASSUME NEW src \in Jobs, NEW j \in Jobs, RestartJob(src, j)
      PROVE  Once'
  <2>1. /\ status[j] = "absent" /\ cur' = cur /\ Enqueue(j)
        /\ status' = [status EXCEPT ![j] = "queued"]
        /\ autoStarted' = [autoStarted EXCEPT ![j] = TRUE]
    BY <1>2 DEF RestartJob, NewRecord, workerVars
  <2>2. /\ Startable(j) /\ ~Startable(j)'
        /\ \A k \in Jobs \ {j} : Startable(k)' => Startable(k)
    BY <2>1 DEF Startable, TypeOK
  <2>. QED
    BY <2>1, <2>2, EnqueueOnce
<1>3. ASSUME NEW j \in Jobs, StartJob(j)
      PROVE  Once'
  <2>1. /\ status[j] = "queued" /\ ~autoStarted[j]
        /\ cur' = cur /\ Enqueue(j)
        /\ status' = [status EXCEPT ![j] = "queued"]
        /\ autoStarted' = [autoStarted EXCEPT ![j] = TRUE]
    BY <1>3 DEF StartJob, StartRefused, StartedOnce, UpdateStatus, UpdateJob, workerVars
  <2>2. /\ Startable(j) /\ ~Startable(j)'
        /\ \A k \in Jobs \ {j} : Startable(k)' => Startable(k)
    BY <2>1 DEF Startable, TypeOK
  <2>. QED
    BY <2>1, <2>2, EnqueueOnce
<1>4. ASSUME NEW j \in Jobs, StopJob(j) \/ PauseJob(j) \/ ResumeJob(j) \/ DeleteJob(j)
      PROVE  Once'
  <2>1. UNCHANGED <<queue, autoStarted, cur>>
    BY <1>4 DEF StopJob, PauseJob, ResumeJob, DeleteJob, bridgeVars, workerVars
  <2>2. \A k \in Jobs : Startable(k)' => Startable(k)
    BY <1>4, <2>1 DEF StopJob, PauseJob, ResumeJob, DeleteJob, UpdateStatus, UpdateJob,
       Startable, TypeOK
  <2>. QED
    BY <2>1, <2>2, QuietOnce DEF TypeOK
<1>. QED
  BY <1>1, <1>2, <1>3, <1>4
  DEF ClientStep, CreateJob, CloneJob, RetryJob

LEMMA RestartOnce ==
  ASSUME TypeOK, Once, ServerRestart
  PROVE  Once'
<1>1. queue' = <<>> /\ cur' = [w \in Workers |-> NoJob]
  BY DEF ServerRestart
<1>2. \A k \in Jobs : ~Queued(k)' /\ ~Held(k)'
  BY <1>1, JobsAssumption DEF Queued, Held
<1>. QED
  BY <1>1, <1>2 DEF Once, AtMostOneRun, StartableIsFree, Scheduled

LEMMA InitOnce == Init => Once
  BY JobsAssumption
  DEF Init, Once, AtMostOneRun, StartableIsFree, Startable, Scheduled, Queued, Held

LEMMA StepOnce ==
  ASSUME StartedOnce, TypeOK, Once, [Next]_vars
  PROVE  Once'
<1>1. UNCHANGED vars => Once'
  BY QuietOnce DEF vars, storeVars, bridgeVars, workerVars, Startable, TypeOK
<1>. QED
  BY <1>1, WorkerOnce, ThreadOnce, ClientOnce, RestartOnce DEF Next

\* A job that nobody starts again is never twice on the queue or in the pool.
THEOREM StartedOnceRunsOnce ==
  ASSUME StartedOnce
  PROVE  Spec => []AtMostOneRun
<1>1. TypeOK /\ Once /\ [Next]_vars => Once'
  BY StepOnce
<1>2. Once => AtMostOneRun
  BY DEF Once
<1>. QED
  BY <1>1, <1>2, InitOnce, TypeCorrect, PTL DEF Spec

-----------------------------------------------------------------------------
(* What START refuses, whoever starts what and how often.                  *)

\* A step that schedules nobody and makes nobody startable.
LEMMA QuietFree ==
  ASSUME StartableIsFree, \A k \in Jobs : Scheduled(k)' => Scheduled(k),
         \A k \in Jobs : Startable(k)' => Startable(k)
  PROVE  StartableIsFree'
  BY DEF StartableIsFree

\* A request that enqueues a job makes it one that START refuses.
LEMMA EnqueueFree ==
  ASSUME TypeOK, StartableIsFree, NEW j \in Jobs, Enqueue(j), cur' = cur,
         status' = [status EXCEPT ![j] = "queued"],
         autoStarted' = [autoStarted EXCEPT ![j] = TRUE]
  PROVE  StartableIsFree'
<1>1. \A k \in Jobs \ {j} : /\ Startable(k)' => Startable(k)
                            /\ Scheduled(k)' => Scheduled(k)
  BY AppendQueued DEF Startable, Scheduled, Held, Enqueue, TypeOK
<1>2. ~Startable(j)'
  BY DEF Startable, TypeOK
<1>. QED
  BY <1>1, <1>2 DEF StartableIsFree

LEMMA WorkerFree ==
  ASSUME TypeOK, StartableIsFree, NEW w \in Workers, WorkerStep(w)
  PROVE  StartableIsFree'
<1>0. autoStarted' = autoStarted
  BY DEF WorkerStep, WorkerTake, DepsFailed, DepTimeout, FailUnrun, DepsSatisfied, RunEnd
<1>1. ASSUME NEW j \in Jobs, Scheduled(j), \A k : Queued(k)' => Queued(k),
             cur' = [cur EXCEPT ![w] = j] \/ cur' = [cur EXCEPT ![w] = NoJob],
             \A k \in Jobs : Startable(k)' => Startable(k)
      PROVE  StartableIsFree'
  <2>1. \A k \in Jobs : Held(k)' => Held(k) \/ k = j
    BY <1>1, JobsAssumption DEF Held, TypeOK
  <2>. QED
    BY <1>1, <2>1, QuietFree DEF Scheduled
<1>2. CASE WorkerTake(w)
  <2>. PICK j \in Jobs : j = Head(queue)
    BY <1>2, TailQueued DEF TypeOK, WorkerTake
  <2>1. Scheduled(j) /\ \A k : Queued(k)' => Queued(k)
    BY <1>2, TailQueued DEF TypeOK, WorkerTake, Scheduled
  <2>2. CASE RunJob(w, j, event)
    BY <1>0, <1>1, <2>1, <2>2, RunJobOnce
  <2>3. CASE cur' = [cur EXCEPT ![w] = j] /\ UNCHANGED status
    BY <1>0, <1>1, <2>1, <2>3 DEF Startable
  <2>. QED
    BY <1>2, <2>2, <2>3 DEF WorkerTake
<1>3. ASSUME pc[w] \in EndPhases \cup {"waiting"}, queue' = queue, NEW j, j = cur[w]
      PROVE  j \in Jobs /\ Scheduled(j) /\ \A k : Queued(k)' => Queued(k)
  <2>1. j \in Jobs
    BY <1>3 DEF TypeOK, EndPhases
  <2>. QED
    BY <1>3, <2>1 DEF Scheduled, Held, Queued
<1>4. CASE DepsFailed(w) \/ DepTimeout(w) \/ RunEnd(w)
  <2>. PICK j : j = cur[w]
    OBVIOUS
  <2>1. /\ pc[w] \in EndPhases \cup {"waiting"} /\ queue' = queue
        /\ cur' = [cur EXCEPT ![w] = NoJob]
        /\ UNCHANGED status \/ \E s \in Terminal, e \in Errors : UpdateJob(j, s, e)
    BY <1>4 DEF DepsFailed, DepTimeout, FailUnrun, RunEnd, Leave, Terminal, Errors
  <2>2. \A k \in Jobs : Startable(k)' => Startable(k)
    BY <1>0, <1>3, <2>1, UpdateStartable DEF Startable
  <2>. QED
    BY <1>1, <1>3, <2>1, <2>2
<1>5. CASE DepsSatisfied(w)
  <2>. PICK j : j = cur[w]
    OBVIOUS
  <2>1. pc[w] = "waiting" /\ RunJob(w, j, event) /\ queue' = queue
    BY <1>5 DEF DepsSatisfied
  <2>. QED
    BY <1>0, <1>1, <1>3, <2>1, RunJobOnce
<1>. QED
  BY <1>2, <1>4, <1>5 DEF WorkerStep

LEMMA ThreadFree ==
  ASSUME TypeOK, StartableIsFree, NEW w \in Workers, ThreadStep(w)
  PROVE  StartableIsFree'
<1>1. UNCHANGED <<queue, autoStarted, cur>>
  BY DEF ThreadStep, ThreadLaunch, ThreadTop, ThreadAgentStart, ThreadUnlimit,
     ThreadCall, ThreadLimit, ThreadWait, OnlyThread, storeVars, bridgeVars
<1>2. \/ UNCHANGED status
      \/ cur[w] \in Jobs /\ \E s \in Live : UpdateJob(cur[w], s, error[cur[w]])
  BY DEF ThreadStep, ThreadLaunch, ThreadTop, ThreadAgentStart, ThreadUnlimit,
     ThreadCall, ThreadLimit, ThreadWait, OnlyThread, storeVars, UpdateStatus, TypeOK, Live
<1>3. \A k \in Jobs : Startable(k)' => Startable(k)
  BY <1>1, <1>2, UpdateStartable DEF Startable
<1>. QED
  BY <1>1, <1>3, QuietFree DEF Scheduled, Queued, Held

LEMMA ClientFree ==
  ASSUME TypeOK, StartableIsFree, ClientStep
  PROVE  StartableIsFree'
<1>1. ASSUME NEW j \in Jobs, NEW dep, NEW dom, NEW auto \in BOOLEAN,
             AddJob(j, dep, dom, auto)
      PROVE  StartableIsFree'
  <2>1. /\ status[j] = "absent" /\ cur' = cur
        /\ status' = [status EXCEPT ![j] = "queued"]
        /\ autoStarted' = [autoStarted EXCEPT ![j] = auto]
    BY <1>1 DEF AddJob, NewRecord, workerVars
  <2>2. CASE auto /\ Enqueue(j)
    BY <2>1, <2>2, EnqueueFree
  <2>3. CASE queue' = queue
    <3>1. \A k \in Jobs : Startable(k)' => Startable(k)
      BY <2>1 DEF Startable, TypeOK
    <3>. QED
      BY <2>1, <2>3, <3>1, QuietFree DEF Scheduled, Queued, Held
  <2>. QED
    BY <1>1, <2>2, <2>3 DEF AddJob, SmartEnqueue
<1>2. ASSUME NEW src \in Jobs, NEW j \in Jobs, RestartJob(src, j)
      PROVE  StartableIsFree'
  BY <1>2, EnqueueFree DEF RestartJob, NewRecord, workerVars
<1>3. ASSUME NEW j \in Jobs, StartJob(j)
      PROVE  StartableIsFree'
  <2>1. /\ Enqueue(j) /\ cur' = cur
        /\ status' = [status EXCEPT ![j] = "queued"]
        /\ autoStarted' = [autoStarted EXCEPT ![j] = TRUE]
    BY <1>3 DEF StartJob, UpdateStatus, UpdateJob, workerVars
  <2>. QED
    BY <2>1, EnqueueFree
<1>4. ASSUME NEW j \in Jobs, StopJob(j) \/ PauseJob(j) \/ ResumeJob(j) \/ DeleteJob(j)
      PROVE  StartableIsFree'
  <2>1. UNCHANGED <<queue, autoStarted, cur>>
    BY <1>4 DEF StopJob, PauseJob, ResumeJob, DeleteJob, bridgeVars, workerVars
  <2>2. \A k \in Jobs : Startable(k)' => Startable(k)
    BY <1>4, <2>1 DEF StopJob, PauseJob, ResumeJob, DeleteJob, UpdateStatus, UpdateJob,
       Startable, TypeOK
  <2>. QED
    BY <2>1, <2>2, QuietFree DEF Scheduled, Queued, Held
<1>. QED
  BY <1>1, <1>2, <1>3, <1>4
  DEF ClientStep, CreateJob, CloneJob, RetryJob

\* Whom START would put on the queue is neither there nor in the hands of a
\* worker, unless its run was halted.
LEMMA FreeInvariant == Spec => []StartableIsFree
<1>1. Init => StartableIsFree
  BY JobsAssumption DEF Init, StartableIsFree, Scheduled, Queued, Held
<1>2. TypeOK /\ StartableIsFree /\ [Next]_vars => StartableIsFree'
  <2>1. StartableIsFree /\ UNCHANGED vars => StartableIsFree'
    BY DEF vars, storeVars, bridgeVars, workerVars, StartableIsFree, Startable, Scheduled,
       Queued, Held
  <2>2. ServerRestart => StartableIsFree'
    BY JobsAssumption DEF ServerRestart, StartableIsFree, Scheduled, Queued, Held
  <2>. QED
    BY <2>1, <2>2, WorkerFree, ThreadFree, ClientFree DEF Next
<1>. QED
  BY <1>1, <1>2, TypeCorrect, PTL DEF Spec

\* Only requests enqueue, and only the job they name.
LEMMA WhoEnqueues ==
  ASSUME TypeOK, [Next]_vars, NEW j \in Jobs, Enqueued(j)
  PROVE  \/ status[j] = "absent"
         \/ StartJob(j)
<1>. /\ queue \in Seq(Jobs) /\ Len(queue') > Len(queue) /\ queue'[Len(queue')] = j
  BY DEF TypeOK, Enqueued
<1>1. queue' # queue
  OBVIOUS
<1>2. ASSUME queue # <<>>, queue' = Tail(queue)
      PROVE  FALSE
  BY <1>2, HeadTailProperties, EmptySeq
<1>3. queue' # <<>>
  BY EmptySeq
<1>4. \A w \in Workers : ~WorkerStep(w)
  BY <1>1, <1>2 DEF WorkerStep, WorkerTake, DepsFailed, DepTimeout, FailUnrun, DepsSatisfied, RunEnd
<1>5. \A w \in Workers : ~ThreadStep(w)
  BY <1>1 DEF ThreadStep, ThreadLaunch, ThreadTop, ThreadAgentStart, ThreadUnlimit,
     ThreadCall, ThreadLimit, ThreadWait, OnlyThread, bridgeVars
<1>6. ~ServerRestart /\ ~UNCHANGED vars
  BY <1>1, <1>3 DEF ServerRestart, vars, bridgeVars
<1>7. ASSUME NEW k \in Jobs, Enqueue(k)
      PROVE  k = j
  BY <1>7 DEF Enqueue
<1>8. ClientStep
  BY <1>4, <1>5, <1>6 DEF Next
<1>9. ASSUME NEW k \in Jobs, NEW dep, NEW dom, NEW auto, AddJob(k, dep, dom, auto)
      PROVE  status[j] = "absent"
  BY <1>1, <1>7, <1>9 DEF AddJob, SmartEnqueue, NewRecord
<1>10. ASSUME NEW src \in Jobs, NEW k \in Jobs, RestartJob(src, k)
       PROVE  status[j] = "absent"
  BY <1>7, <1>10 DEF RestartJob, NewRecord
<1>11. ASSUME NEW k \in Jobs, StartJob(k)
       PROVE  StartJob(j)
  BY <1>7, <1>11 DEF StartJob
<1>12. \A k \in Jobs : ~StopJob(k) /\ ~PauseJob(k) /\ ~ResumeJob(k) /\ ~DeleteJob(k)
  BY <1>1 DEF StopJob, PauseJob, ResumeJob, DeleteJob, bridgeVars
<1>. QED
  BY <1>8, <1>9, <1>10, <1>11, <1>12 DEF ClientStep, CreateJob, CloneJob, RetryJob

\* In every world, with any number of jobs and of STARTs: a job that is on the
\* queue or in the hands of a worker is put on the queue again only after its run
\* was stopped, paused or limited, or has failed.
THEOREM OnlyHaltedAreRequeued == Spec => OnlyHaltedRequeued
<1>1. TypeOK /\ StartableIsFree /\ [Next]_vars
        => [\A j \in Jobs : Enqueued(j) /\ Scheduled(j)
              => status[j] \in {"paused", "rate_limited", "failed"}]_vars
  <2>. SUFFICES ASSUME TypeOK, StartableIsFree, [Next]_vars, NEW j \in Jobs,
                       Enqueued(j), Scheduled(j)
                PROVE  status[j] \in {"paused", "rate_limited", "failed"}
    OBVIOUS
  <2>1. ~Startable(j)
    BY DEF StartableIsFree
  <2>2. StartJob(j)
    BY <2>1, WhoEnqueues DEF Startable
  <2>. QED
    BY <2>1, <2>2
    DEF StartJob, StartRefused, Exists, Startable, TypeOK, Statuses, Live, Terminal
<1>. QED
  BY <1>1, TypeCorrect, FreeInvariant, PTL DEF Spec, OnlyHaltedRequeued

-----------------------------------------------------------------------------
(* STOP and PAUSE reach the run of a job that was started once.            *)

\* A registration belongs to a run in progress.
RegisteredRuns ==
  \A j \in Jobs, v \in Workers : reg[j] = v => Executing(v) /\ cur[v] = j

Stoppable == SignalReachesRun /\ RegisteredRuns

\* A run of the job has begun: it has, or had, a registration or a stop file.
Begun(j) == reg[j] # NoWorker \/ j \in stopFiles

\* A job has one run: once it has begun the job is not on its way to another.
BegunOnce ==
  \A j \in Jobs : Begun(j) =>
    ~Startable(j) /\ ~Queued(j) /\ \A w \in Workers : cur[w] = j => Executing(w)

\* Worker w begins, or ends, the run of a job that was queued or held.
LEMMA WorkerBegins ==
  ASSUME TypeOK, Once, BegunOnce, NEW w \in Workers, NEW j \in Jobs, Scheduled(j), ~Queued(j)',
         \A k \in Jobs : Startable(k)' => Startable(k), \A k : Queued(k)' => Queued(k),
         \A v \in Workers \ {w} : pc'[v] = pc[v] /\ cur'[v] = cur[v] /\ cur[v] # j,
         cur'[w] \in {j, NoJob}, cur'[w] = j => Executing(w)' \/ ~Begun(j)',
         \A k \in Jobs \ {j} : Begun(k)' => Begun(k)
  PROVE  BegunOnce'
<1>. SUFFICES ASSUME NEW k \in Jobs, Begun(k)'
              PROVE  ~Startable(k)' /\ ~Queued(k)' /\ \A v \in Workers : cur'[v] = k => Executing(v)'
  BY DEF BegunOnce
<1>1. CASE k = j
  <2>1. ~Startable(j)'
    BY DEF Once, StartableIsFree
  <2>2. ASSUME NEW v \in Workers, cur'[v] = j
        PROVE  Executing(v)'
    BY <1>1, <2>2
  <2>. QED
    BY <1>1, <2>1, <2>2
<1>2. CASE k # j
  <2>1. ~Startable(k) /\ ~Queued(k) /\ \A v \in Workers : cur[v] = k => Executing(v)
    BY <1>2 DEF BegunOnce
  <2>2. \A v \in Workers : cur'[v] = k => v # w
    BY <1>2, JobsAssumption
  <2>. QED
    BY <2>1, <2>2 DEF Executing
<1>. QED
  BY <1>1, <1>2

LEMMA RunJobBegins ==
  ASSUME TypeOK, NEW w \in Workers, NEW j \in Jobs, NEW ev, RunJob(w, j, ev)
  PROVE  /\ cur'[w] \in {j, NoJob} /\ (cur'[w] = j => Executing(w)')
         /\ \A v \in Workers \ {w} : pc'[v] = pc[v] /\ cur'[v] = cur[v]
         /\ \A k \in Jobs \ {j} : Begun(k)' => Begun(k)
<1>1. \A k \in Jobs \ {j} : Begun(k)' => Begun(k)
  BY FilesType DEF RunJob, Begun, TypeOK
<1>2. CASE Leave(w, j, ev)
  BY <1>1, <1>2, JobsAssumption DEF Leave, TypeOK
<1>3. CASE pc' = [pc EXCEPT ![w] = "launch"] /\ cur' = [cur EXCEPT ![w] = j]
  BY <1>1, <1>3 DEF Executing, ThreadPhases, TypeOK
<1>. QED
  BY <1>2, <1>3 DEF RunJob

LEMMA WorkerBegun ==
  ASSUME TypeOK, Once, BegunOnce, NEW w \in Workers, WorkerStep(w)
  PROVE  BegunOnce'
<1>0. autoStarted' = autoStarted /\ Once'
  BY WorkerOnce
  DEF WorkerStep, WorkerTake, DepsFailed, DepTimeout, FailUnrun, DepsSatisfied, RunEnd
<1>1. CASE WorkerTake(w)
  <2>. PICK j \in Jobs : j = Head(queue)
    BY <1>1, TailQueued DEF TypeOK, WorkerTake
  <2>1. Queued(j) /\ ~Queued(j)' /\ (\A k : Queued(k)' => Queued(k)) /\ Scheduled(j)
    BY <1>1, TailQueued, TailOnce
    DEF TypeOK, WorkerTake, Once, AtMostOneRun, QueueOnce, Scheduled
  <2>2. \A v \in Workers : cur[v] # j
    BY <2>1 DEF Once, AtMostOneRun, Held
  <2>3. CASE RunJob(w, j, event)
    <3>1. \A k \in Jobs : Startable(k)' => Startable(k)
      BY <1>0, <2>3, RunJobOnce
    <3>. QED
      BY <2>1, <2>2, <2>3, <3>1, RunJobBegins, WorkerBegins
  <2>4. CASE /\ pc' = [pc EXCEPT ![w] = "waiting"]
             /\ cur' = [cur EXCEPT ![w] = j]
             /\ UNCHANGED <<status, reg, stopFiles>>
    <3>1. \A k \in Jobs : (Startable(k)' => Startable(k)) /\ (Begun(k)' => Begun(k))
      BY <1>0, <2>4 DEF Startable, Begun
    <3>2. ~Begun(j)'
      BY <2>1, <3>1 DEF BegunOnce
    <3>3. cur'[w] = j /\ \A v \in Workers \ {w} : pc'[v] = pc[v] /\ cur'[v] = cur[v]
      BY <2>4 DEF TypeOK
    <3>. QED
      BY <2>1, <2>2, <3>1, <3>2, <3>3, WorkerBegins
  <2>. QED
    BY <1>1, <2>3, <2>4 DEF WorkerTake
<1>2. ASSUME pc[w] \in EndPhases \cup {"waiting"}, queue' = queue, NEW j, j = cur[w]
      PROVE  /\ j \in Jobs /\ \A v \in Workers \ {w} : cur[v] # j
             /\ Scheduled(j) /\ ~Queued(j)'
             /\ \A k : Queued(k)' => Queued(k)
  <2>1. j \in Jobs /\ j # NoJob
    BY <1>2, JobsAssumption DEF TypeOK, EndPhases
  <2>2. Held(j)
    BY <1>2 DEF Held
  <2>3. \A k : Queued(k)' <=> Queued(k)
    BY <1>2 DEF Queued
  <2>. QED
    BY <1>2, <2>1, <2>2, <2>3 DEF Once, AtMostOneRun, Scheduled
<1>3. ASSUME pc[w] \in EndPhases \cup {"waiting"}, queue' = queue, Leave(w, cur[w], event),
             \A k \in Jobs : Startable(k)' => Startable(k),
             \A k \in Jobs \ {cur[w]} : Begun(k)' => Begun(k)
      PROVE  BegunOnce'
  <2>. PICK j : j = cur[w]
    OBVIOUS
  <2>1. /\ cur'[w] = NoJob
        /\ \A v \in Workers \ {w} : pc'[v] = pc[v] /\ cur'[v] = cur[v]
    BY <1>3 DEF Leave, TypeOK
  <2>2. cur'[w] # j
    BY <1>2, <1>3, <2>1, JobsAssumption
  <2>. QED
    BY <1>2, <1>3, <2>1, <2>2, WorkerBegins
<1>4. CASE DepsFailed(w) \/ DepTimeout(w)
  <2>1. /\ pc[w] = "waiting" /\ Leave(w, cur[w], event) /\ UNCHANGED <<queue, reg, stopFiles>>
        /\ UpdateJob(cur[w], "failed", "other")
    BY <1>4 DEF DepsFailed, DepTimeout, FailUnrun
  <2>2. \A k \in Jobs : (Startable(k)' => Startable(k)) /\ (Begun(k)' => Begun(k))
    BY <1>0, <1>2, <2>1, UpdateStartable DEF Terminal, Begun
  <2>. QED
    BY <1>3, <2>1, <2>2
<1>5. CASE DepsSatisfied(w)
  <2>. PICK j : j = cur[w]
    OBVIOUS
  <2>1. pc[w] = "waiting" /\ RunJob(w, j, event) /\ queue' = queue
    BY <1>5 DEF DepsSatisfied
  <2>2. \A k \in Jobs : Startable(k)' => Startable(k)
    BY <1>0, <1>2, <2>1, RunJobOnce
  <2>. QED
    BY <1>2, <2>1, <2>2, RunJobBegins, WorkerBegins
<1>6. CASE RunEnd(w)
  <2>1. /\ pc[w] \in EndPhases /\ Leave(w, cur[w], event) /\ queue' = queue
        /\ reg' = [reg EXCEPT ![cur[w]] = NoWorker] /\ UnlinkStopFile(cur[w])
    BY <1>6 DEF RunEnd
  <2>2. \/ UNCHANGED status
        \/ \E s \in Terminal, e \in Errors : UpdateJob(cur[w], s, e)
    BY <1>6 DEF RunEnd, Terminal, Errors
  <2>3. \A k \in Jobs : Startable(k)' => Startable(k)
    BY <1>0, <1>2, <2>1, <2>2, UpdateStartable DEF Startable
  <2>4. \A k \in Jobs \ {cur[w]} : Begun(k)' => Begun(k)
    BY <1>2, <2>1, FilesType DEF Begun, TypeOK
  <2>. QED
    BY <1>3, <2>1, <2>3, <2>4
<1>. QED
  BY <1>1, <1>4, <1>5, <1>6 DEF WorkerStep

\* Requests and threads begin no run and end none.
LEMMA QuietBegun ==
  ASSUME TypeOK, BegunOnce, UNCHANGED <<reg, cur>>,
         \A v \in Workers : Executing(v)' <=> Executing(v),
         \A k \in Jobs : Begun(k)' => Begun(k),
         \A k \in Jobs : Startable(k)' => Startable(k),
         \A k \in Jobs : Queued(k)' => Queued(k) \/ Startable(k)
  PROVE  BegunOnce'
  BY DEF BegunOnce

LEMMA ThreadBegun ==
  ASSUME TypeOK, BegunOnce, NEW w \in Workers, ThreadStep(w)
  PROVE  BegunOnce'
<1>1. /\ UNCHANGED <<bridgeVars, cur, autoStarted>> /\ Executing(w)
      /\ \E phase \in ThreadPhases \cup EndPhases : pc' = [pc EXCEPT ![w] = phase]
  BY DEF Executing, Goto, ThreadPhases, EndPhases, ThreadStep, ThreadLaunch, OnlyThread,
     ThreadTop, ThreadAgentStart, ThreadUnlimit, ThreadCall, ThreadLimit, ThreadWait, storeVars
<1>2. \A v \in Workers : Executing(v)' <=> Executing(v)
  BY <1>1 DEF Executing, TypeOK
<1>3. \/ UNCHANGED status
      \/ cur[w] \in Jobs /\ \E s \in Live : UpdateJob(cur[w], s, error[cur[w]])
  BY DEF ThreadStep, ThreadLaunch, ThreadTop, ThreadAgentStart, ThreadUnlimit,
     ThreadCall, ThreadLimit, ThreadWait, OnlyThread, storeVars, UpdateStatus, TypeOK, Live
<1>4. \A k \in Jobs : Startable(k)' => Startable(k)
  BY <1>1, <1>3, UpdateStartable DEF Startable
<1>. QED
  BY <1>1, <1>2, <1>4, QuietBegun DEF bridgeVars, Queued, Begun

LEMMA ClientBegun ==
  ASSUME StartedOnce, TypeOK, BegunOnce, ClientStep
  PROVE  BegunOnce'
<1>. DEFINE Calm == /\ \A k \in Jobs : Startable(k)' => Startable(k)
                    /\ \A k \in Jobs : Queued(k)' => Queued(k) \/ Startable(k)
<1>1. UNCHANGED <<reg, pc, cur>>
  BY DEF ClientStep, CreateJob, CloneJob, RetryJob, AddJob, NewRecord, RestartJob, StartJob,
     StopJob, PauseJob, ResumeJob, DeleteJob, bridgeVars, workerVars
<1>2. \A v \in Workers : Executing(v)' <=> Executing(v)
  BY <1>1 DEF Executing
<1>3. \A k \in Jobs : Begun(k)' => Begun(k)
  <2>1. \/ UNCHANGED stopFiles
        \/ \E j \in Jobs : SignalStop(j)
    BY DEF ClientStep, CreateJob, CloneJob, RetryJob, AddJob, NewRecord, RestartJob, StartJob,
       StopJob, PauseJob, ResumeJob, DeleteJob, bridgeVars
  <2>2. ASSUME NEW j \in Jobs, SignalStop(j)
        PROVE  \A k \in Jobs : Begun(k)' => Begun(k)
    BY <1>1, <2>2, FilesType DEF SignalStop, Begun
  <2>. QED
    BY <1>1, <2>1, <2>2 DEF Begun
<1>4. ASSUME NEW j \in Jobs, Startable(j), queue' = queue \/ Enqueue(j),
             \A k \in Jobs \ {j} : status'[k] = status[k] /\ autoStarted'[k] = autoStarted[k]
      PROVE  Calm
  <2>1. \A k \in Jobs : Queued(k)' => Queued(k) \/ k = j
    BY <1>4, AppendQueued DEF Enqueue, Queued, TypeOK
  <2>2. \A k \in Jobs \ {j} : Startable(k)' => Startable(k)
    BY <1>4 DEF Startable
  <2>. QED
    BY <1>4, <2>1, <2>2
<1>5. ASSUME NEW j \in Jobs, NEW dom, NEW auto, NewRecord(j, dom, auto)
      PROVE  /\ Startable(j)
             /\ \A k \in Jobs \ {j} : status'[k] = status[k] /\ autoStarted'[k] = autoStarted[k]
  BY <1>5 DEF NewRecord, Startable, TypeOK
<1>6. ASSUME NEW j \in Jobs, NEW dep, NEW dom, NEW auto, AddJob(j, dep, dom, auto)
      PROVE  Calm
  <2>1. NewRecord(j, dom, auto) /\ (queue' = queue \/ Enqueue(j))
    BY <1>6 DEF AddJob, SmartEnqueue
  <2>. QED
    BY <1>4, <1>5, <2>1
<1>7. ASSUME NEW src \in Jobs, NEW j \in Jobs, RestartJob(src, j)
      PROVE  Calm
  <2>1. NewRecord(j, domains[src], TRUE) /\ Enqueue(j)
    BY <1>7 DEF RestartJob
  <2>. QED
    BY <1>4, <1>5, <2>1
<1>8. ASSUME NEW j \in Jobs, StartJob(j)
      PROVE  Calm
  <2>1. Startable(j) /\ Enqueue(j)
    BY <1>8 DEF StartJob, StartRefused, StartedOnce, Startable
  <2>2. \A k \in Jobs \ {j} : status'[k] = status[k] /\ autoStarted'[k] = autoStarted[k]
    BY <1>8 DEF StartJob, UpdateStatus, UpdateJob, TypeOK
  <2>. QED
    BY <1>4, <2>1, <2>2
<1>9. ASSUME NEW j \in Jobs, StopJob(j) \/ PauseJob(j) \/ ResumeJob(j) \/ DeleteJob(j)
      PROVE  Calm
  <2>1. UNCHANGED <<queue, autoStarted>>
    BY <1>9 DEF StopJob, PauseJob, ResumeJob, DeleteJob, bridgeVars
  <2>2. \A k \in Jobs : Startable(k)' => Startable(k)
    BY <1>9, <2>1 DEF StopJob, PauseJob, ResumeJob, DeleteJob, UpdateStatus, UpdateJob,
       Startable, TypeOK
  <2>. QED
    BY <2>1, <2>2 DEF Queued
<1>10. Calm
  BY <1>6, <1>7, <1>8, <1>9 DEF ClientStep, CreateJob, CloneJob, RetryJob
<1>. QED
  BY <1>1, <1>2, <1>3, <1>10, QuietBegun

LEMMA StepBegun ==
  ASSUME StartedOnce, TypeOK, Once, BegunOnce, [Next]_vars
  PROVE  BegunOnce'
<1>1. CASE UNCHANGED vars
  BY <1>1, QuietBegun
  DEF vars, storeVars, bridgeVars, workerVars, Begun, Startable, Queued, Executing
<1>2. CASE ServerRestart
  <2>1. /\ queue' = <<>> /\ cur' = [w \in Workers |-> NoJob] /\ autoStarted' = autoStarted
        /\ reg' = [j \in Jobs |-> NoWorker] /\ stopFiles' \in SUBSET stopFiles
        /\ status' = [j \in Jobs |-> IF j \in Interrupted THEN "failed" ELSE status[j]]
    BY <1>2 DEF ServerRestart
  <2>2. \A k \in Jobs : ~Queued(k)' /\ \A w \in Workers : cur'[w] # k
    BY <2>1, JobsAssumption DEF Queued
  <2>3. \A k \in Jobs : Startable(k)' => Startable(k)
    BY <2>1 DEF Startable, TypeOK
  <2>4. \A k \in Jobs : Begun(k)' => Begun(k)
    BY <2>1 DEF Begun
  <2>. QED
    BY <2>2, <2>3, <2>4 DEF BegunOnce
<1>. QED
  BY <1>1, <1>2, WorkerBegun, ThreadBegun, ClientBegun DEF Next

\* Only the run of worker w and the registration of its job change.
LEMMA OthersStoppable ==
  ASSUME TypeOK, Stoppable, NEW w \in Workers, NEW j \in Jobs,
         Executing(w) => cur[w] = j,
         \A v \in Workers \ {w} : /\ Executing(v)' <=> Executing(v)
                                  /\ cur'[v] = cur[v] /\ cur[v] # j
                                  /\ stopEv'[v] = stopEv[v],
         \A k \in Jobs \ {j} : reg'[k] = reg[k] /\ (k \in stopFiles' => k \in stopFiles),
         Executing(w)' => cur'[w] = j /\ reg'[j] = w /\ (j \in stopFiles' => stopEv'[w]),
         reg'[j] \in Workers => reg'[j] = w /\ Executing(w)' /\ cur'[w] = j
  PROVE  Stoppable'
<1>1. SignalReachesRun'
  <2>. SUFFICES ASSUME NEW v \in Workers, Executing(v)'
                PROVE  reg'[cur'[v]] = v /\ (cur'[v] \in stopFiles' => stopEv'[v])
    BY DEF SignalReachesRun
  <2>1. CASE v = w
    BY <2>1
  <2>2. CASE v # w
    <3>1. cur[v] \in Jobs \ {j}
      BY <2>2 DEF TypeOK, Executing, ThreadPhases, EndPhases
    <3>. QED
      BY <2>2, <3>1 DEF Stoppable, SignalReachesRun
  <2>. QED
    BY <2>1, <2>2
<1>2. RegisteredRuns'
  <2>. SUFFICES ASSUME NEW k \in Jobs, NEW v \in Workers, reg'[k] = v
                PROVE  Executing(v)' /\ cur'[v] = k
    BY DEF RegisteredRuns
  <2>1. CASE k = j
    BY <2>1
  <2>2. CASE k # j
    <3>1. Executing(v) /\ cur[v] = k
      BY <2>2 DEF Stoppable, RegisteredRuns
    <3>2. v # w
      BY <2>2, <3>1
    <3>. QED
      BY <3>1, <3>2
  <2>. QED
    BY <2>1, <2>2
<1>. QED
  BY <1>1, <1>2 DEF Stoppable

LEMMA RunJobStoppable ==
  ASSUME TypeOK, Stoppable, NEW w \in Workers, NEW j \in Jobs, NEW ev,
         ~Executing(w), \A v \in Workers \ {w} : cur[v] # j,
         j \notin stopFiles, RunJob(w, j, ev)
  PROVE  Stoppable'
<1>1. \A v \in Workers \ {w} : pc'[v] = pc[v] /\ cur'[v] = cur[v] /\ stopEv'[v] = stopEv[v]
  BY DEF RunJob, Leave, TypeOK
<1>2. \A k \in Jobs \ {j} : reg'[k] = reg[k] /\ (k \in stopFiles' => k \in stopFiles)
  BY FilesType DEF RunJob, TypeOK
<1>3. CASE Leave(w, j, ev) /\ UNCHANGED <<reg, stopFiles, stopEv>>
  <2>1. ~Executing(w)'
    BY <1>3 DEF Leave, Executing, ThreadPhases, EndPhases, TypeOK
  <2>2. reg'[j] # w
    BY <1>3 DEF Stoppable, RegisteredRuns
  <2>3. reg'[j] \notin Workers
    <3>1. ASSUME NEW v \in Workers, reg[j] = v
          PROVE  FALSE
      BY <3>1 DEF Stoppable, RegisteredRuns
    <3>. QED
      BY <1>3, <3>1
  <2>. QED
    BY <1>1, <1>2, <2>1, <2>3, OthersStoppable DEF Executing
<1>4. CASE /\ reg' = [reg EXCEPT ![j] = w]
           /\ UnlinkStopFile(j)
           /\ pc' = [pc EXCEPT ![w] = "launch"]
           /\ cur' = [cur EXCEPT ![w] = j]
  <2>1. Executing(w)' /\ cur'[w] = j /\ reg'[j] = w /\ j \notin stopFiles'
    BY <1>4, FilesType DEF Executing, ThreadPhases, TypeOK
  <2>. QED
    BY <1>1, <1>2, <2>1, OthersStoppable DEF Executing
<1>5. CASE reg' = [reg EXCEPT ![j] = Stale] /\ Leave(w, j, ev)
  <2>1. ~Executing(w)' /\ reg'[j] \notin Workers
    BY <1>5, WorkersAssumption DEF Leave, Executing, ThreadPhases, EndPhases, TypeOK
  <2>. QED
    BY <1>1, <1>2, <2>1, OthersStoppable DEF Executing
<1>. QED
  BY <1>3, <1>4, <1>5 DEF RunJob

LEMMA WorkerStoppable ==
  ASSUME TypeOK, Once, Stoppable, BegunOnce, NEW w \in Workers, WorkerStep(w)
  PROVE  Stoppable'
<1>1. CASE WorkerTake(w)
  <2>. PICK j \in Jobs : j = Head(queue)
    BY <1>1, TailQueued DEF TypeOK, WorkerTake
  <2>1. ~Executing(w) /\ \A v \in Workers : cur[v] # j
    <3>1. Queued(j)
      BY <1>1, TailQueued DEF TypeOK, WorkerTake
    <3>. QED
      BY <1>1, <3>1 DEF Once, AtMostOneRun, Held, WorkerTake, Executing, ThreadPhases, EndPhases
  <2>2. CASE RunJob(w, j, event)
    <3>1. Queued(j)
      BY <1>1, TailQueued DEF TypeOK, WorkerTake
    <3>2. j \notin stopFiles
      BY <3>1 DEF BegunOnce, Begun
    <3>. QED
      BY <2>1, <2>2, <3>2, RunJobStoppable
  <2>3. CASE /\ pc' = [pc EXCEPT ![w] = "waiting"]
             /\ cur' = [cur EXCEPT ![w] = j]
             /\ UNCHANGED <<reg, stopFiles, stopEv>>
    <3>1. ~Executing(w)'
      BY <2>3 DEF Executing, ThreadPhases, EndPhases, TypeOK
    <3>2. \A v \in Workers \ {w} : (Executing(v)' <=> Executing(v)) /\ cur'[v] = cur[v]
      BY <2>3 DEF Executing, TypeOK
    <3>3. reg'[j] \notin Workers
      BY <2>1, <2>3 DEF Stoppable, RegisteredRuns
    <3>. QED
      BY <2>1, <2>3, <3>1, <3>2, <3>3, OthersStoppable
  <2>. QED
    BY <1>1, <2>2, <2>3 DEF WorkerTake
<1>2. ASSUME pc[w] \in EndPhases \cup {"waiting"}
      PROVE  cur[w] \in Jobs /\ \A v \in Workers \ {w} : cur[v] # cur[w]
  <2>1. cur[w] \in Jobs /\ cur[w] # NoJob
    BY <1>2, JobsAssumption DEF TypeOK, EndPhases
  <2>. QED
    BY <2>1 DEF Once, AtMostOneRun
<1>3. ASSUME pc[w] = "waiting"
      PROVE  ~Executing(w)
  BY <1>3 DEF Executing, ThreadPhases, EndPhases
<1>4. CASE DepsFailed(w) \/ DepTimeout(w)
  <2>1. pc[w] = "waiting" /\ FailUnrun(w)
    BY <1>4 DEF DepsFailed, DepTimeout
  <2>2. /\ pc' = [pc EXCEPT ![w] = "idle"] /\ cur' = [cur EXCEPT ![w] = NoJob]
        /\ UNCHANGED <<reg, stopFiles, stopEv>>
    BY <2>1 DEF FailUnrun, Leave
  <2>3. ~Executing(w)' /\ \A v \in Workers \ {w} : (Executing(v)' <=> Executing(v)) /\ cur'[v] = cur[v]
    BY <2>2 DEF Executing, ThreadPhases, EndPhases, TypeOK
  <2>4. reg'[cur[w]] \notin Workers
    BY <1>2, <1>3, <2>1, <2>2 DEF Stoppable, RegisteredRuns
  <2>. QED
    BY <1>2, <1>3, <2>1, <2>2, <2>3, <2>4, OthersStoppable
<1>5. CASE DepsSatisfied(w)
  <2>1. pc[w] = "waiting" /\ RunJob(w, cur[w], event)
    BY <1>5 DEF DepsSatisfied
  <2>2. cur[w] \notin stopFiles
    BY <1>2, <1>3, <2>1 DEF BegunOnce, Begun
  <2>. QED
    BY <1>2, <1>3, <2>1, <2>2, RunJobStoppable
<1>6. CASE RunEnd(w)
  <2>1. /\ reg' = [reg EXCEPT ![cur[w]] = NoWorker]
        /\ UnlinkStopFile(cur[w])
        /\ stopEv' = [stopEv EXCEPT ![w] = FALSE]
        /\ pc' = [pc EXCEPT ![w] = "idle"] /\ cur' = [cur EXCEPT ![w] = NoJob]
    BY <1>6 DEF RunEnd, Leave
  <2>2. ~Executing(w)' /\ \A v \in Workers \ {w} : (Executing(v)' <=> Executing(v)) /\ cur'[v] = cur[v]
    BY <2>1 DEF Executing, ThreadPhases, EndPhases, TypeOK
  <2>3. cur[w] \in Jobs /\ \A v \in Workers \ {w} : cur[v] # cur[w]
    BY <1>2, <1>6 DEF RunEnd
  <2>4. reg'[cur[w]] \notin Workers
    BY <2>1, <2>3, WorkersAssumption DEF TypeOK
  <2>5. /\ \A v \in Workers \ {w} : stopEv'[v] = stopEv[v]
        /\ \A k \in Jobs \ {cur[w]} : reg'[k] = reg[k] /\ (k \in stopFiles' => k \in stopFiles)
    BY <2>1, <2>3, FilesType DEF TypeOK
  <2>. QED
    BY <2>2, <2>3, <2>4, <2>5, OthersStoppable
<1>. QED
  BY <1>1, <1>4, <1>5, <1>6 DEF WorkerStep

LEMMA ThreadStoppable ==
  ASSUME TypeOK, Stoppable, NEW w \in Workers, ThreadStep(w)
  PROVE  Stoppable'
<1>1. /\ UNCHANGED <<bridgeVars, cur, stopEv>> /\ Executing(w)
      /\ \E phase \in ThreadPhases \cup EndPhases : pc' = [pc EXCEPT ![w] = phase]
  BY DEF Executing, Goto, ThreadPhases, EndPhases, ThreadStep, ThreadLaunch, OnlyThread,
     ThreadTop, ThreadAgentStart, ThreadUnlimit, ThreadCall, ThreadLimit, ThreadWait
<1>2. \A v \in Workers : Executing(v)' <=> Executing(v)
  BY <1>1 DEF Executing, TypeOK
<1>. QED
  BY <1>1, <1>2 DEF Stoppable, SignalReachesRun, RegisteredRuns, bridgeVars

\* STOP and PAUSE set the event of a run, and no file but that of its job.
LEMMA SignalStoppable ==
  ASSUME TypeOK, Once, Stoppable, NEW j \in Jobs, SignalStop(j), UNCHANGED <<reg, pc, cur>>
  PROVE  Stoppable'
<1>1. \A v \in Workers : Executing(v)' <=> Executing(v)
  BY DEF Executing
<1>2. RegisteredRuns'
  BY <1>1 DEF Stoppable, RegisteredRuns
<1>3. ASSUME NEW v \in Workers, Executing(v)
      PROVE  cur[v] \in stopFiles' => stopEv'[v]
  <2>1. reg[cur[v]] = v /\ (cur[v] \in stopFiles => stopEv[v]) /\ cur[v] \in Jobs
    BY <1>3 DEF Stoppable, SignalReachesRun, Executing, ThreadPhases, EndPhases, TypeOK
  <2>2. CASE cur[v] = j
    BY <2>1, <2>2 DEF SignalStop, TypeOK
  <2>3. CASE cur[v] # j
    <3>1. cur[v] \in stopFiles' => cur[v] \in stopFiles
      BY <2>1, <2>3, FilesType DEF SignalStop
    <3>2. stopEv[v] => stopEv'[v]
      BY DEF SignalStop, TypeOK
    <3>. QED
      BY <2>1, <3>1, <3>2
  <2>. QED
    BY <2>2, <2>3
<1>. QED
  BY <1>1, <1>2, <1>3 DEF Stoppable, SignalReachesRun

LEMMA ClientStoppable ==
  ASSUME TypeOK, Once, Stoppable, ClientStep
  PROVE  Stoppable'
<1>1. CASE UNCHANGED <<reg, stopFiles, workerVars>>
  BY <1>1 DEF Stoppable, SignalReachesRun, RegisteredRuns, Executing, workerVars
<1>2. ASSUME NEW j \in Jobs, StopJob(j) \/ PauseJob(j)
      PROVE  Stoppable'
  BY <1>2, SignalStoppable DEF StopJob, PauseJob
<1>. QED
  BY <1>1, <1>2 DEF ClientStep, CreateJob, CloneJob, RetryJob, AddJob, NewRecord, RestartJob,
     StartJob, ResumeJob, DeleteJob, bridgeVars

\* The steps that write a job's record leave a run whose job is PAUSED or stopped
\* by the user with its stop event set.
LEMMA WorkerTells ==
  ASSUME TypeOK, Once, StopIsTold, NEW w \in Workers, WorkerStep(w)
  PROVE  StopIsTold'
<1>1. ASSUME NEW j \in Jobs, \A v \in Workers \ {w} : cur[v] # j,
             \A v \in Workers \ {w} : /\ pc'[v] = pc[v] /\ cur'[v] = cur[v]
                                      /\ stopEv'[v] = stopEv[v],
             \A k \in Jobs \ {j} : status'[k] = status[k] /\ error'[k] = error[k],
             Executing(w)' => cur'[w] = j /\ status'[j] \notin {"paused", "failed"}
      PROVE  StopIsTold'
  <2>. SUFFICES ASSUME NEW v \in Workers, Executing(v)',
                       status'[cur'[v]] = "paused" \/ UserStopped(cur[v])'
                PROVE  stopEv'[v]
    BY DEF StopIsTold, UserStopped
  <2>1. v # w
    BY <1>1 DEF UserStopped
  <2>2. Executing(v) /\ cur'[v] = cur[v] /\ cur[v] \in Jobs \ {j}
    BY <1>1, <2>1 DEF Executing, ThreadPhases, EndPhases, TypeOK
  <2>. QED
    BY <1>1, <2>1, <2>2 DEF StopIsTold, UserStopped
<1>2. ASSUME NEW j \in Jobs, NEW ev, \A v \in Workers \ {w} : cur[v] # j, RunJob(w, j, ev)
      PROVE  StopIsTold'
  <2>1. /\ \A v \in Workers \ {w} : /\ pc'[v] = pc[v] /\ cur'[v] = cur[v]
                                    /\ stopEv'[v] = stopEv[v]
        /\ \A k \in Jobs \ {j} : status'[k] = status[k] /\ error'[k] = error[k]
    BY <1>2 DEF RunJob, Leave, UpdateJob, TypeOK
  <2>2. CASE Leave(w, j, ev)
    <3>1. ~Executing(w)'
      BY <2>2 DEF Leave, Executing, ThreadPhases, EndPhases, TypeOK
    <3>. QED
      BY <1>1, <1>2, <2>1, <3>1
  <2>3. CASE ~SkipsRun(j) /\ UpdateJob(j, "running", "none") /\ cur' = [cur EXCEPT ![w] = j]
    <3>1. cur'[w] = j /\ status'[j] \notin {"paused", "failed"}
      BY <2>3 DEF SkipsRun, Terminal, UpdateJob, Exists, TypeOK
    <3>. QED
      BY <1>1, <1>2, <2>1, <3>1
  <2>. QED
    BY <1>2, <2>2, <2>3 DEF RunJob
<1>3. ASSUME pc[w] \in EndPhases \cup {"waiting"}
      PROVE  cur[w] \in Jobs /\ \A v \in Workers \ {w} : cur[v] # cur[w]
  <2>1. cur[w] \in Jobs /\ cur[w] # NoJob
    BY <1>3, JobsAssumption DEF TypeOK, EndPhases
  <2>. QED
    BY <2>1 DEF Once, AtMostOneRun
<1>4. ASSUME pc[w] \in EndPhases \cup {"waiting"}, Leave(w, cur[w], event),
             \A v \in Workers \ {w} : stopEv'[v] = stopEv[v],
             \A k \in Jobs \ {cur[w]} : status'[k] = status[k] /\ error'[k] = error[k]
      PROVE  StopIsTold'
  <2>1. ~Executing(w)' /\ \A v \in Workers \ {w} : pc'[v] = pc[v] /\ cur'[v] = cur[v]
    BY <1>4 DEF Leave, Executing, ThreadPhases, EndPhases, TypeOK
  <2>. QED
    BY <1>1, <1>3, <1>4, <2>1
<1>5. CASE WorkerTake(w)
  <2>. PICK j \in Jobs : j = Head(queue)
    BY <1>5, TailQueued DEF TypeOK, WorkerTake
  <2>1. \A v \in Workers : cur[v] # j
    <3>1. Queued(j)
      BY <1>5, TailQueued DEF TypeOK, WorkerTake
    <3>. QED
      BY <3>1 DEF Once, AtMostOneRun, Held
  <2>2. CASE RunJob(w, j, event)
    BY <1>2, <2>1, <2>2
  <2>3. CASE /\ pc' = [pc EXCEPT ![w] = "waiting"]
             /\ cur' = [cur EXCEPT ![w] = j]
             /\ UNCHANGED <<status, error, stopEv>>
    <3>1. ~Executing(w)' /\ \A v \in Workers \ {w} : pc'[v] = pc[v] /\ cur'[v] = cur[v]
      BY <2>3 DEF Executing, ThreadPhases, EndPhases, TypeOK
    <3>. QED
      BY <1>1, <2>1, <2>3, <3>1
  <2>. QED
    BY <1>5, <2>2, <2>3 DEF WorkerTake
<1>6. CASE DepsFailed(w) \/ DepTimeout(w)
  <2>1. /\ pc[w] = "waiting" /\ Leave(w, cur[w], event) /\ stopEv' = stopEv
        /\ UpdateJob(cur[w], "failed", "other")
    BY <1>6 DEF DepsFailed, DepTimeout, FailUnrun
  <2>2. \A k \in Jobs \ {cur[w]} : status'[k] = status[k] /\ error'[k] = error[k]
    BY <2>1 DEF UpdateJob, TypeOK
  <2>. QED
    BY <1>4, <2>1, <2>2
<1>7. CASE DepsSatisfied(w)
  BY <1>2, <1>3, <1>7 DEF DepsSatisfied
<1>8. CASE RunEnd(w)
  <2>1. pc[w] \in EndPhases /\ Leave(w, cur[w], event) /\ stopEv' = [stopEv EXCEPT ![w] = FALSE]
    BY <1>8 DEF RunEnd
  <2>2. \A k \in Jobs \ {cur[w]} : status'[k] = status[k] /\ error'[k] = error[k]
    BY <1>8 DEF RunEnd, UpdateJob, TypeOK
  <2>3. \A v \in Workers \ {w} : stopEv'[v] = stopEv[v]
    BY <2>1 DEF TypeOK
  <2>. QED
    BY <1>4, <2>1, <2>2, <2>3
<1>. QED
  BY <1>5, <1>6, <1>7, <1>8 DEF WorkerStep

LEMMA ThreadTells ==
  ASSUME TypeOK, StopIsTold, NEW w \in Workers, ThreadStep(w)
  PROVE  StopIsTold'
<1>1. /\ UNCHANGED <<cur, stopEv>> /\ Executing(w)
      /\ \E phase \in ThreadPhases \cup EndPhases : pc' = [pc EXCEPT ![w] = phase]
  BY DEF Executing, Goto, ThreadPhases, EndPhases, ThreadStep, ThreadLaunch, OnlyThread,
     ThreadTop, ThreadAgentStart, ThreadUnlimit, ThreadCall, ThreadLimit, ThreadWait
<1>2. \A v \in Workers : Executing(v)' <=> Executing(v)
  BY <1>1 DEF Executing, TypeOK
<1>3. \/ UNCHANGED <<status, error>>
      \/ \E s \in {"running", "rate_limited"} : UpdateJob(cur[w], s, error[cur[w]])
  BY DEF ThreadStep, ThreadLaunch, ThreadTop, ThreadAgentStart, ThreadUnlimit,
     ThreadCall, ThreadLimit, ThreadWait, OnlyThread, storeVars, UpdateStatus
<1>4. cur[w] \in Jobs
  BY <1>1 DEF Executing, ThreadPhases, EndPhases, TypeOK
<1>5. \A k \in Jobs : \/ status'[k] = status[k] /\ error'[k] = error[k]
                      \/ status'[k] \in {"running", "rate_limited"}
  BY <1>3, <1>4 DEF UpdateJob, TypeOK
<1>6. \A v \in Workers : Executing(v) => cur[v] \in Jobs
  BY DEF Executing, ThreadPhases, EndPhases, TypeOK
<1>. QED
  BY <1>1, <1>2, <1>5, <1>6 DEF StopIsTold, UserStopped

LEMMA ClientTells ==
  ASSUME TypeOK, Stoppable, StopIsTold, ClientStep
  PROVE  StopIsTold'
<1>1. \A v \in Workers : Executing(v) => cur[v] \in Jobs
  BY DEF Executing, ThreadPhases, EndPhases, TypeOK
<1>2. ASSUME UNCHANGED workerVars,
             \A k \in Jobs : \/ status'[k] = status[k] /\ error'[k] = error[k]
                           \/ status'[k] \notin {"paused", "failed"}
      PROVE  StopIsTold'
  BY <1>1, <1>2 DEF StopIsTold, UserStopped, Executing, workerVars
<1>3. ASSUME NEW j \in Jobs, SignalStop(j), UNCHANGED <<pc, cur>>,
             \A k \in Jobs \ {j} : status'[k] = status[k] /\ error'[k] = error[k]
      PROVE  StopIsTold'
  <2>. SUFFICES ASSUME NEW v \in Workers, Executing(v),
                       status'[cur[v]] = "paused" \/ UserStopped(cur[v])'
                PROVE  stopEv'[v]
    BY <1>3 DEF StopIsTold, UserStopped, Executing
  <2>1. CASE cur[v] = j
    BY <1>3, <2>1 DEF Stoppable, SignalReachesRun, SignalStop, TypeOK
  <2>2. CASE cur[v] # j
    <3>1. stopEv[v]
      BY <1>1, <1>3, <2>2 DEF StopIsTold, UserStopped
    <3>. QED
      BY <1>3, <3>1 DEF SignalStop, TypeOK
  <2>. QED
    BY <2>1, <2>2
<1>4. ASSUME NEW j \in Jobs, StopJob(j) \/ PauseJob(j)
      PROVE  StopIsTold'
  <2>1. /\ SignalStop(j) /\ UNCHANGED <<pc, cur>>
        /\ \E s \in Statuses, e \in Errors : UpdateJob(j, s, e)
    BY <1>4 DEF StopJob, PauseJob, UpdateStatus, Statuses, Live, Terminal, Errors, TypeOK
  <2>2. \A k \in Jobs \ {j} : status'[k] = status[k] /\ error'[k] = error[k]
    BY <2>1 DEF UpdateJob, TypeOK
  <2>. QED
    BY <1>3, <2>1, <2>2
<1>5. ASSUME NEW j \in Jobs, ResumeJob(j) \/ StartJob(j)
      PROVE  StopIsTold'
  <2>1. UNCHANGED workerVars /\ \E s \in {"running", "queued"} : UpdateStatus(j, s)
    BY <1>5 DEF ResumeJob, StartJob
  <2>2. \A k \in Jobs : \/ status'[k] = status[k] /\ error'[k] = error[k]
                        \/ status'[k] \notin {"paused", "failed"}
    BY <2>1 DEF UpdateStatus, UpdateJob, TypeOK
  <2>. QED
    BY <1>2, <2>1, <2>2
<1>6. ASSUME NEW j \in Jobs, DeleteJob(j)
      PROVE  StopIsTold'
  <2>1. UNCHANGED workerVars /\ status' = [status EXCEPT ![j] = "deleted"] /\ error' = error
    BY <1>6 DEF DeleteJob
  <2>. QED
    BY <1>2, <2>1 DEF TypeOK
<1>7. ASSUME NEW j \in Jobs, NEW dom, NEW auto, NewRecord(j, dom, auto)
      PROVE  StopIsTold'
  <2>1. UNCHANGED workerVars /\ status' = [status EXCEPT ![j] = "queued"] /\ error' = error
    BY <1>7 DEF NewRecord
  <2>. QED
    BY <1>2, <2>1 DEF TypeOK
<1>. QED
  BY <1>4, <1>5, <1>6, <1>7
  DEF ClientStep, CreateJob, CloneJob, RetryJob, AddJob, RestartJob

\* What the theorems about runs rest on where jobs are started once.
RunInv == Once /\ Stoppable /\ BegunOnce /\ StopIsTold

LEMMA RunInvariant ==
  ASSUME StartedOnce
  PROVE  Spec => []RunInv
<1>1. Init => Stoppable /\ BegunOnce /\ StopIsTold
  BY WorkersAssumption
  DEF Init, Stoppable, SignalReachesRun, RegisteredRuns, BegunOnce, Begun, StopIsTold, Executing,
      ThreadPhases, EndPhases
<1>2. TypeOK /\ RunInv /\ [Next]_vars => Stoppable'
  <2>1. Stoppable /\ UNCHANGED vars => Stoppable'
    BY DEF vars, bridgeVars, workerVars, Stoppable, SignalReachesRun, RegisteredRuns, Executing
  <2>2. ServerRestart => Stoppable'
    BY WorkersAssumption
    DEF ServerRestart, Stoppable, SignalReachesRun, RegisteredRuns, Executing, ThreadPhases,
        EndPhases
  <2>. QED
    BY <2>1, <2>2, WorkerStoppable, ThreadStoppable, ClientStoppable DEF Next, RunInv
<1>3. TypeOK /\ RunInv /\ [Next]_vars => StopIsTold'
  <2>1. StopIsTold /\ UNCHANGED vars => StopIsTold'
    BY DEF vars, storeVars, workerVars, StopIsTold, UserStopped, Executing
  <2>2. ServerRestart => StopIsTold'
    BY DEF ServerRestart, StopIsTold, Executing, ThreadPhases, EndPhases
  <2>. QED
    BY <2>1, <2>2, WorkerTells, ThreadTells, ClientTells DEF Next, RunInv
<1>4. TypeOK /\ Once /\ [Next]_vars => Once'
  BY StepOnce
<1>5. TypeOK /\ RunInv /\ [Next]_vars => BegunOnce'
  BY StepBegun DEF RunInv
<1>. QED
  BY <1>1, <1>2, <1>3, <1>4, <1>5, InitOnce, TypeCorrect, PTL DEF Spec, RunInv

\* What is registered for a job is its run in progress, whose stop event is set as
\* long as the user wants it stopped or paused; and no stop file stops the tools
\* of another run, be it that a file could not be written, or not be removed.
\* This holds for jobs that nobody starts again.
THEOREM StartedOnceIsStoppable ==
  ASSUME StartedOnce
  PROVE  Spec => []RunIsStoppable
<1>1. RunInv => RunIsStoppable
  BY DEF RunInv, Stoppable, RunIsStoppable
<1>. QED
  BY <1>1, RunInvariant, PTL

-----------------------------------------------------------------------------
(* A stop is final where nothing limits a run.                             *)

\* Nothing limits a run where no provider answers 429.
LimitPhases == {"limit", "wait", "unlimit"}
Unlimited ==
  "rate_limit" \notin Ops =>
    /\ \A j \in Jobs : status[j] # "rate_limited"
    /\ \A w \in Workers : pc[w] \notin LimitPhases

\* Nobody but the RATE_LIMITED callback writes that status.
LEMMA NoOneLimits ==
  ASSUME TypeOK, Unlimited, "rate_limit" \notin Ops,
         \A j \in Jobs : status'[j] \in {status[j], "queued", "running", "paused", "completed",
                                         "failed", "deleted"},
         \A w \in Workers : pc'[w] = pc[w] \/ pc'[w] \notin LimitPhases
  PROVE  Unlimited'
  BY DEF Unlimited

LEMMA UpdateWrites ==
  ASSUME TypeOK, NEW j, NEW s, NEW e, UpdateJob(j, s, e)
  PROVE  \A k \in Jobs : status'[k] \in {status[k], s}
  BY DEF UpdateJob, TypeOK

LEMMA StepUnlimited ==
  ASSUME TypeOK, Unlimited, [Next]_vars
  PROVE  Unlimited'
<1>. DEFINE Written(s) == \A k \in Jobs : status'[k] \in {status[k], s}
            Moved(w, S) == \E phase \in S : pc' = [pc EXCEPT ![w] = phase]
<1>. SUFFICES ASSUME "rate_limit" \notin Ops
              PROVE  Unlimited'
  BY DEF Unlimited
<1>1. CASE UNCHANGED pc /\ \E s \in {"queued", "running", "paused", "failed", "deleted"} : Written(s)
  BY <1>1, NoOneLimits
<1>2. ASSUME NEW w \in Workers, Moved(w, {"idle", "waiting", "launch", "top", "start", "call"} \cup EndPhases),
             \E s \in {"queued", "running", "completed", "failed"} : Written(s)
      PROVE  Unlimited'
  <2>1. \A v \in Workers : pc'[v] = pc[v] \/ pc'[v] \notin LimitPhases
    BY <1>2 DEF LimitPhases, EndPhases, TypeOK
  <2>. QED
    BY <1>2, <2>1, NoOneLimits
<1>3. CASE ClientStep
  <2>1. UNCHANGED pc
    BY <1>3 DEF ClientStep, CreateJob, CloneJob, RetryJob, AddJob, NewRecord, RestartJob,
       StartJob, StopJob, PauseJob, ResumeJob, DeleteJob, workerVars
  <2>2. ASSUME NEW j \in Jobs, NEW dom, NEW auto, NewRecord(j, dom, auto)
        PROVE  Written("queued")
    BY <2>2 DEF NewRecord, TypeOK
  <2>3. ASSUME NEW j \in Jobs, StartJob(j) \/ StopJob(j) \/ PauseJob(j) \/ ResumeJob(j)
        PROVE  \E s \in {"queued", "running", "paused", "failed"} : Written(s)
    BY <2>3, UpdateWrites DEF StartJob, StopJob, PauseJob, ResumeJob, UpdateStatus
  <2>4. ASSUME NEW j \in Jobs, DeleteJob(j)
        PROVE  Written("deleted")
    BY <2>4 DEF DeleteJob, TypeOK
  <2>. QED
    BY <1>1, <1>3, <2>1, <2>2, <2>3, <2>4
    DEF ClientStep, CreateJob, CloneJob, RetryJob, AddJob, RestartJob
<1>4. ASSUME NEW w \in Workers, NEW j, NEW ev, RunJob(w, j, ev)
      PROVE  Unlimited'
  <2>1. Moved(w, {"idle", "launch"})
    BY <1>4 DEF RunJob, Leave
  <2>2. \E s \in {"running", "failed"} : Written(s)
    <3>1. UNCHANGED status => Written("failed")
      OBVIOUS
    <3>. QED
      BY <1>4, <3>1, UpdateWrites DEF RunJob
  <2>. QED
    BY <1>2, <2>1, <2>2
<1>5. ASSUME NEW w \in Workers, WorkerStep(w)
      PROVE  Unlimited'
  <2>1. CASE WorkerTake(w)
    <3>1. CASE pc' = [pc EXCEPT ![w] = "waiting"] /\ UNCHANGED status
      <4>1. Moved(w, {"waiting"}) /\ Written("failed")
        BY <3>1
      <4>. QED
        BY <1>2, <4>1
    <3>. QED
      BY <1>4, <2>1, <3>1 DEF WorkerTake
  <2>2. CASE DepsFailed(w) \/ DepTimeout(w) \/ RunEnd(w)
    <3>1. Moved(w, {"idle"})
      BY <2>2 DEF DepsFailed, DepTimeout, FailUnrun, RunEnd, Leave
    <3>2. \E s \in {"completed", "failed"} : Written(s)
      <4>1. UNCHANGED status => Written("failed")
        OBVIOUS
      <4>. QED
        BY <2>2, <4>1, UpdateWrites DEF DepsFailed, DepTimeout, FailUnrun, RunEnd
    <3>. QED
      BY <1>2, <3>1, <3>2
  <2>3. CASE DepsSatisfied(w)
    BY <1>4, <2>3 DEF DepsSatisfied
  <2>. QED
    BY <1>5, <2>1, <2>2, <2>3 DEF WorkerStep
<1>6. ASSUME NEW w \in Workers, ThreadStep(w)
      PROVE  Unlimited'
  <2>1. cur[w] \in Jobs /\ pc[w] \notin LimitPhases
    BY <1>6 DEF Unlimited, ThreadStep, ThreadLaunch, ThreadTop, ThreadAgentStart, ThreadUnlimit,
       ThreadCall, ThreadLimit, ThreadWait, TypeOK
  <2>2. Moved(w, {"top", "start", "call"} \cup EndPhases) /\ UNCHANGED status
    BY <1>6, <2>1 DEF Unlimited, LimitPhases, EndPhases, Goto, OnlyThread, storeVars, ThreadStep,
       ThreadLaunch, ThreadTop, ThreadAgentStart, ThreadUnlimit, ThreadCall, ThreadLimit,
       ThreadWait
  <2>3. Written("failed")
    BY <2>2
  <2>. QED
    BY <1>2, <2>2, <2>3
<1>7. CASE ServerRestart
  BY <1>7 DEF ServerRestart, Unlimited, LimitPhases
<1>8. CASE UNCHANGED vars
  BY <1>8 DEF vars, storeVars, workerVars, Unlimited
<1>. QED
  BY <1>3, <1>5, <1>6, <1>7, <1>8 DEF Next

LEMMA UnlimitedInvariant == Spec => []Unlimited
<1>1. Init => Unlimited
  BY DEF Init, Unlimited, LimitPhases
<1>. QED
  BY <1>1, StepUnlimited, TypeCorrect, PTL DEF Spec

\* No late output of a run, no late failure of a gate and no restart of the
\* server brings a job back that the user has stopped, unless somebody starts it
\* again or a provider's 429 is written over the stop.
THEOREM StopIsFinal ==
  ASSUME StartedOnce, "rate_limit" \notin Ops
  PROVE  Spec => StoppedStaysFailed
<1>1. ASSUME TypeOK, Unlimited, [Next]_vars, NEW j \in Jobs, UserStopped(j)
      PROVE  status'[j] \in {"failed", "deleted"}
  <2>0. status[j] = "failed" /\ error[j] = "user_stop" /\ status \in [Jobs -> Statuses]
    BY <1>1 DEF UserStopped, TypeOK
  <2>1. ASSUME NEW k, NEW s, NEW e, UpdateJob(k, s, e), s = "failed" \/ k # j
        PROVE  status'[j] = "failed"
    BY <2>0, <2>1 DEF UpdateJob
  <2>2. CASE ClientStep
    <3>1. ASSUME NEW k \in Jobs, NEW dom, NEW auto, NewRecord(k, dom, auto)
          PROVE  status'[j] = "failed"
      BY <2>0, <3>1 DEF NewRecord
    <3>2. ASSUME NEW k \in Jobs, StartJob(k) \/ PauseJob(k) \/ ResumeJob(k) \/ StopJob(k)
          PROVE  status'[j] = "failed"
      <4>1. StartJob(k) \/ PauseJob(k) \/ ResumeJob(k) => k # j
        BY <2>0 DEF StartJob, PauseJob, ResumeJob, StartedOnce
      <4>. QED
        BY <2>1, <3>2, <4>1 DEF StartJob, PauseJob, ResumeJob, StopJob, UpdateStatus
    <3>3. ASSUME NEW k \in Jobs, DeleteJob(k)
          PROVE  status'[j] \in {"failed", "deleted"}
      BY <2>0, <3>3 DEF DeleteJob
    <3>. QED
      BY <2>2, <3>1, <3>2, <3>3
      DEF ClientStep, CreateJob, CloneJob, RetryJob, AddJob, RestartJob
  <2>3. ASSUME NEW w \in Workers, NEW k, NEW ev, RunJob(w, k, ev)
        PROVE  status'[j] = "failed"
    BY <2>0, <2>1, <2>3 DEF RunJob, SkipsRun, Terminal
  <2>4. ASSUME NEW w \in Workers, WorkerStep(w)
        PROVE  status'[j] = "failed"
    <3>1. CASE WorkerTake(w) \/ DepsSatisfied(w)
      BY <2>0, <2>3, <3>1 DEF WorkerTake, DepsSatisfied
    <3>2. CASE DepsFailed(w) \/ DepTimeout(w)
      BY <2>1, <3>2 DEF DepsFailed, DepTimeout, FailUnrun
    <3>3. CASE RunEnd(w)
      BY <2>0, <2>1, <3>3 DEF RunEnd, KeepsUserStop
    <3>. QED
      BY <2>4, <3>1, <3>2, <3>3 DEF WorkerStep
  <2>5. ASSUME NEW w \in Workers, ThreadStep(w)
        PROVE  status'[j] = "failed"
    <3>1. pc[w] \notin LimitPhases
      BY <1>1 DEF Unlimited, StartedOnce
    <3>2. UNCHANGED status
      BY <2>5, <3>1 DEF LimitPhases, OnlyThread, storeVars, ThreadStep, ThreadLaunch, ThreadTop,
         ThreadAgentStart, ThreadUnlimit, ThreadCall, ThreadLimit, ThreadWait
    <3>. QED
      BY <2>0, <3>2
  <2>6. CASE ServerRestart
    BY <2>0, <2>6 DEF ServerRestart
  <2>7. CASE UNCHANGED vars
    BY <2>0, <2>7 DEF vars, storeVars
  <2>. QED
    BY <1>1, <2>2, <2>4, <2>5, <2>6, <2>7 DEF Next
<1>2. TypeOK /\ Unlimited /\ [Next]_vars =>
        [\A j \in Jobs : UserStopped(j) => status'[j] \in {"failed", "deleted"}]_vars
  BY <1>1
<1>. QED
  BY <1>2, UnlimitedInvariant, TypeCorrect, PTL DEF Spec, StoppedStaysFailed

-----------------------------------------------------------------------------
(* Runs as RunThread knows them.                                           *)

LEMMA RunUnmoved ==
  ASSUME NEW w \in Workers, pc'[w] = pc[w], stopEv'[w] = stopEv[w]
  PROVE  [Run(w)!Next]_(Run(w)!vars) /\ (Executing(w)' <=> Executing(w))
BY DEF Run!vars, RunPhase, Executing

\* Every step of a runner thread, the writes of its callback aside, is one of
\* RunThread.
LEMMA ThreadIsRun ==
  ASSUME TypeOK, NEW w \in Workers, ThreadStep(w)
  PROVE  [Run(w)!Next]_(Run(w)!vars) /\ Executing(w)
<1>. USE DEF Run!Next, Run!vars, RunPhase, Goto, OnlyThread, Executing, ThreadPhases
<1>1. CASE ThreadLaunch(w)
  BY <1>1 DEF ThreadLaunch, Run!Begin, Run!Raise, TypeOK
<1>2. CASE ThreadTop(w)
  BY <1>2 DEF ThreadTop, Run!Begin, Run!Raise, TypeOK
<1>3. CASE ThreadAgentStart(w) \/ ThreadUnlimit(w) \/ ThreadLimit(w)
  BY <1>3 DEF ThreadAgentStart, ThreadUnlimit, ThreadLimit, TypeOK
<1>4. CASE ThreadCall(w)
  BY <1>4 DEF ThreadCall, Run!Turn, Run!Fail, Run!Raise, TypeOK
<1>5. CASE ThreadWait(w)
  BY <1>5 DEF ThreadWait, Run!Wake, Run!Raise, TypeOK
<1>. QED
  BY <1>1, <1>2, <1>3, <1>4, <1>5 DEF ThreadStep

\* A worker begins a run as RunThread begins, or is out of it.
LEMMA WorkerIsRun ==
  ASSUME TypeOK, NEW w \in Workers, WorkerStep(w)
  PROVE  Executing(w)' => ~Executing(w) /\ Run(w)!Init'
<1>1. ASSUME NEW j, NEW ev, RunJob(w, j, ev), Executing(w)'
      PROVE  Run(w)!Init'
  <2>1. pc'[w] # "idle"
    BY <1>1 DEF Executing, ThreadPhases, EndPhases
  <2>2. pc'[w] = "launch" /\ stopEv'[w] = FALSE
    BY <1>1, <2>1 DEF RunJob, Leave, TypeOK
  <2>. QED
    BY <2>2 DEF Run!Init, RunPhase
<1>2. CASE WorkerTake(w) \/ DepsSatisfied(w)
  <2>1. ~Executing(w)
    BY <1>2 DEF WorkerTake, DepsSatisfied, Executing, ThreadPhases, EndPhases
  <2>2. CASE pc' = [pc EXCEPT ![w] = "waiting"]
    BY <2>2 DEF Executing, ThreadPhases, EndPhases, TypeOK
  <2>. QED
    BY <1>1, <1>2, <2>1, <2>2 DEF WorkerTake, DepsSatisfied
<1>3. CASE DepsFailed(w) \/ DepTimeout(w) \/ RunEnd(w)
  BY <1>3 DEF DepsFailed, DepTimeout, FailUnrun, RunEnd, Leave, Executing, ThreadPhases,
     EndPhases, TypeOK
<1>. QED
  BY <1>2, <1>3 DEF WorkerStep

LEMMA OthersUnmoved ==
  ASSUME TypeOK, NEW w \in Workers, WorkerStep(w) \/ ThreadStep(w)
  PROVE  \A v \in Workers \ {w} : pc'[v] = pc[v] /\ stopEv'[v] = stopEv[v]
<1>1. CASE ThreadStep(w)
  BY <1>1 DEF ThreadStep, ThreadLaunch, ThreadTop, ThreadAgentStart, ThreadUnlimit,
     ThreadCall, ThreadLimit, ThreadWait, OnlyThread, Goto, TypeOK
<1>2. ASSUME NEW j, NEW ev, RunJob(w, j, ev)
      PROVE  \A v \in Workers \ {w} : pc'[v] = pc[v] /\ stopEv'[v] = stopEv[v]
  BY <1>2 DEF RunJob, Leave, TypeOK
<1>3. CASE WorkerStep(w)
  BY <1>2, <1>3 DEF WorkerStep, WorkerTake, DepsFailed, DepTimeout, FailUnrun, DepsSatisfied,
     RunEnd, Leave, TypeOK
<1>. QED
  BY <1>1, <1>3

\* To its worker a run of the bridge is a RunThread: it begins in its initial
\* state, and what handlers, workers and the thread do to it are steps of it.
\* Once told to stop it begins no turn, completes nothing and waits for nobody.
THEOREM BridgeRunsAreThreads == Spec => RunsImplementRunThread
<1>1. ASSUME TypeOK, [Next]_vars, NEW w \in Workers, Executing(w)'
      PROVE  /\ ~Executing(w) => Run(w)!Init'
             /\ Executing(w) => [Run(w)!Next]_(Run(w)!vars)
  <2>1. CASE ClientStep
    <3>1. UNCHANGED pc /\ (UNCHANGED stopEv \/ \E j \in Jobs : SignalStop(j))
      BY <2>1 DEF ClientStep, CreateJob, CloneJob, RetryJob, AddJob, NewRecord, RestartJob,
         StartJob, StopJob, PauseJob, ResumeJob, DeleteJob, workerVars
    <3>2. ASSUME NEW j \in Jobs, SignalStop(j)
          PROVE  stopEv'[w] = stopEv[w] \/ stopEv'[w] = TRUE
      BY <1>1, <3>2 DEF SignalStop, TypeOK
    <3>3. CASE stopEv'[w] = stopEv[w]
      BY <1>1, <3>1, <3>3, RunUnmoved
    <3>4. CASE stopEv'[w] = TRUE
      BY <1>1, <3>1, <3>4 DEF Executing, Run!Next, Run!Stop, RunPhase
    <3>. QED
      BY <3>1, <3>2, <3>3, <3>4
  <2>2. ASSUME NEW v \in Workers, WorkerStep(v) \/ ThreadStep(v)
        PROVE  /\ ~Executing(w) => Run(w)!Init'
               /\ Executing(w) => [Run(w)!Next]_(Run(w)!vars)
    <3>1. CASE v = w
      BY <1>1, <2>2, <3>1, ThreadIsRun, WorkerIsRun
    <3>2. CASE v # w
      BY <1>1, <2>2, <3>2, OthersUnmoved, RunUnmoved
    <3>. QED
      BY <3>1, <3>2
  <2>3. CASE ServerRestart
    BY <1>1, <2>3 DEF ServerRestart, Executing, ThreadPhases, EndPhases
  <2>4. CASE UNCHANGED vars
    BY <1>1, <2>4, RunUnmoved DEF vars, workerVars
  <2>. QED
    BY <1>1, <2>1, <2>2, <2>3, <2>4 DEF Next
<1>2. TypeOK /\ [Next]_vars =>
        [\A w \in Workers :
           /\ Executing(w)' /\ ~Executing(w) => Run(w)!Init'
           /\ Executing(w)' /\ Executing(w) => [Run(w)!Next]_(Run(w)!vars)]_vars
  BY <1>1
<1>. QED
  BY <1>2, TypeCorrect, PTL DEF Spec, RunsImplementRunThread
=============================================================================
