----------------------------- MODULE JobBridge -----------------------------
(***************************************************************************)
(* The life of a job of the Tactical WebUI: the REST handlers that create  *)
(* and control it (backend/api/jobs.py), the store that holds its record   *)
(* (backend/core/session_store.py), the conflict registry that sequences   *)
(* it behind others (backend/core/conflict_detector.py) and the worker     *)
(* pool that gates it on its prerequisites and drives the engine's runner  *)
(* thread (backend/core/engine_bridge.py, engine/runner.py).               *)
(*                                                                         *)
(* Handlers and worker coroutines share one asyncio loop: what they do     *)
(* between two awaits is one step.  A runner is a thread: each of its      *)
(* reads of the stop event or of the store, and each write its event       *)
(* callback makes, is a step of its own.  The lines of a handler are one   *)
(* step with respect to those threads too: of the two things a handler     *)
(* writes (stop event, job record), a runner step reads or writes only one.*)
(***************************************************************************)
EXTENDS Integers, Sequences, FiniteSets

CONSTANTS
  Jobs,           \* the job ids that clients may name
  Strangers,      \* those of them that no job has: mistyped, or of jobs long gone
  Workers,        \* the worker coroutines: max_concurrent_jobs of them
  DomainSets,     \* the sets of resource domains a prompt may mention
  SoftExclusive,  \* the one domain whose overlap is only a soft conflict
  MaxQueue,       \* bound of the model: entries in the job queue
  Ops             \* what clients and the environment do in this instance

\* Creation with auto_start is always on.  "manual" creates without
\* auto_start and "start" starts such a job; "requeue" is START on any other
\* job.  "rate_limit", "error", "file_error" and "server_restart" are the
\* environment's.
AllOps == {"manual", "start", "requeue", "stop", "pause", "resume", "restart",
           "clone", "retry", "delete", "rate_limit", "error", "file_error",
           "server_restart"}

NoJob == "nojob"
NoWorker == "noworker"
\* A registration that outlived the run it was made for.
Stale == "stale"

ASSUME WorkersAssumption == {NoWorker, Stale} \cap Workers = {}
ASSUME JobsAssumption == NoJob \notin Jobs
ASSUME StrangersAssumption == Strangers \subseteq Jobs
ASSUME OpsAssumption == Ops \subseteq AllOps
ASSUME MaxQueueAssumption == MaxQueue \in Nat

VARIABLES
  status,       \* Job.status; "absent" before creation, "deleted" if not in the store
  error,        \* Job.error, up to what the code and the properties tell apart
  deps,         \* Job.depends_on
  domains,      \* the resource domains the prompt mentions
  autoStarted,  \* Job.auto_started
  queue,        \* EngineBridge.job_queue
  event,        \* EngineBridge._completion_events: not there, clear or set
  active,       \* the keys of EngineBridge._active_domains
  reg,          \* _job_stop_events and _job_stop_files: whose run they belong to
  stopFiles,    \* the jobs whose stop marker file exists
  pc,           \* where a worker is and, while it awaits a run, where that run is
  cur,          \* the job a worker holds
  stopEv        \* the stop_event of a worker's current run

storeVars == <<status, error, deps, domains, autoStarted>>
bridgeVars == <<queue, event, active, reg, stopFiles>>
workerVars == <<pc, cur, stopEv>>
vars == <<storeVars, bridgeVars, workerVars>>

Live == {"running", "paused", "rate_limited"}
Terminal == {"completed", "failed"}
Statuses == {"absent", "queued", "deleted"} \cup Live \cup Terminal
Errors == {"none", "user_stop", "interrupted", "other"}

\* Where a runner thread is: before its first look at the store, at the stop
\* check that opens a turn, in the AGENT_START callback, in that callback after
\* it read RATE_LIMITED, in a provider call or a tool, past the stop check that
\* follows a 429 from every provider, asleep until the cooldown is over.
ThreadPhases == {"launch", "top", "start", "unlimit", "call", "limit", "wait"}
\* How a run ended: with status "complete", with any other, with an exception.
EndPhases == {"complete", "fail", "raise"}

Exists(j) == status[j] \notin {"absent", "deleted"}
Executing(w) == pc[w] \in ThreadPhases \cup EndPhases
Queued(j) == \E i \in DOMAIN queue : queue[i] = j
Held(j) == \E w \in Workers : cur[w] = j
Scheduled(j) == Queued(j) \/ Held(j)

Init ==
  /\ status = [j \in Jobs |-> IF j \in Strangers THEN "deleted" ELSE "absent"]
  /\ error = [j \in Jobs |-> "none"]
  /\ deps = [j \in Jobs |-> {}]
  /\ domains = [j \in Jobs |-> {}]
  /\ autoStarted = [j \in Jobs |-> FALSE]
  /\ queue = <<>>
  /\ event = [j \in Jobs |-> "none"]
  /\ active = {}
  /\ reg = [j \in Jobs |-> NoWorker]
  /\ stopFiles = {}
  /\ pc = [w \in Workers |-> "idle"]
  /\ cur = [w \in Workers |-> NoJob]
  /\ stopEv = [w \in Workers |-> FALSE]

-----------------------------------------------------------------------------
(* The pieces the handlers and the workers share.                          *)

\* update_job(status, error): a no-op on a job that is no longer in the store.
UpdateJob(j, s, e) ==
  /\ status' = IF Exists(j) THEN [status EXCEPT ![j] = s] ELSE status
  /\ error' = IF Exists(j) THEN [error EXCEPT ![j] = e] ELSE error

UpdateStatus(j, s) == UpdateJob(j, s, error[j])

\* _ensure_completion_event for every job of S (its cap is not reached here).
Ensured(S) ==
  [j \in Jobs |-> IF j \in S /\ event[j] = "none" THEN "clear" ELSE event[j]]

\* enqueue
Enqueue(j) ==
  /\ Len(queue) < MaxQueue
  /\ queue' = Append(queue, j)
  /\ event' = Ensured({j})

\* MUTANT: only jobs that already run count as conflicting.
HardConflictsWithRunning(dom) ==
  {a \in active : status[a] \in Live /\ (domains[a] \cap dom) \ {SoftExclusive} # {}}

\* detect_conflicts: the active jobs whose domains overlap dom in more than
\* soft_exclusive.
HardConflicts(dom) == {a \in active : (domains[a] \cap dom) \ {SoftExclusive} # {}}

\* smart_enqueue of a new job: its dependencies, the registration of its
\* domains and its place in the queue.
SmartEnqueue(j, dep, dom) ==
  /\ deps' = [deps EXCEPT ![j] = dep \cup HardConflicts(dom)]
  /\ active' = active \cup {j}
  /\ Enqueue(j)

\* An OSError keeps the stop marker as it is, and is swallowed.
FileFails == "file_error" \in Ops /\ UNCHANGED stopFiles

\* write_text and unlink of the stop marker of a job.
WriteStopFile(j) == stopFiles' = stopFiles \cup {j} \/ FileFails
UnlinkStopFile(j) == stopFiles' = stopFiles \ {j} \/ FileFails

\* MUTANT: the file comes first, and its OSError ends the call.
SignalStopFileFirst(j) ==
  \/ /\ stopEv' = IF reg[j] \in Workers THEN [stopEv EXCEPT ![reg[j]] = TRUE]
                                        ELSE stopEv
     /\ stopFiles' = IF reg[j] # NoWorker THEN stopFiles \cup {j} ELSE stopFiles
  \/ FileFails /\ UNCHANGED stopEv

\* signal_stop: the event registered last for the job, if any, and then the file.
SignalStop(j) ==
  /\ stopEv' = IF reg[j] \in Workers THEN [stopEv EXCEPT ![reg[j]] = TRUE]
                                     ELSE stopEv
  /\ IF reg[j] # NoWorker THEN WriteStopFile(j) ELSE UNCHANGED stopFiles

\* MUTANT: the worker forgets to forget its job.
LeaveHolding(w, j, ev) ==
  /\ event' = [ev EXCEPT ![j] = IF @ = "none" THEN @ ELSE "set"]
  /\ active' = active \ {j}
  /\ pc' = [pc EXCEPT ![w] = "idle"]
  /\ UNCHANGED cur

\* MUTANT: _signal_completion does not release the domains.
LeaveNoRelease(w, j, ev) ==
  /\ event' = [ev EXCEPT ![j] = IF @ = "none" THEN @ ELSE "set"]
  /\ UNCHANGED active
  /\ pc' = [pc EXCEPT ![w] = "idle"]
  /\ cur' = [cur EXCEPT ![w] = NoJob]

\* MUTANT: the completion event is not set.
LeaveNoSignal(w, j, ev) ==
  /\ event' = ev
  /\ active' = active \ {j}
  /\ pc' = [pc EXCEPT ![w] = "idle"]
  /\ cur' = [cur EXCEPT ![w] = NoJob]

\* The finally clause of _worker_loop, and the return to queue.get(): ev is
\* _completion_events as the worker leaves it.
Leave(w, j, ev) ==
  /\ event' = [ev EXCEPT ![j] = IF @ = "none" THEN @ ELSE "set"]
  /\ active' = active \ {j}
  /\ pc' = [pc EXCEPT ![w] = "idle"]
  /\ cur' = [cur EXCEPT ![w] = NoJob]

-----------------------------------------------------------------------------
(* The REST handlers.                                                      *)

\* create_job with no auto_start leaves the job QUEUED but on no queue.
NewRecord(j, dom, auto) ==
  /\ status[j] = "absent"
  /\ status' = [status EXCEPT ![j] = "queued"]
  /\ domains' = [domains EXCEPT ![j] = dom]
  /\ autoStarted' = [autoStarted EXCEPT ![j] = auto]
  /\ UNCHANGED <<error, reg, stopFiles, workerVars>>

AddJob(j, dep, dom, auto) ==
  /\ NewRecord(j, dom, auto)
  /\ \/ auto /\ SmartEnqueue(j, dep, dom)
     \/ /\ ~auto /\ "manual" \in Ops
        /\ deps' = [deps EXCEPT ![j] = dep]
        /\ UNCHANGED <<queue, event, active>>

\* POST /api/jobs: the client names any ids as prerequisites, be they of jobs
\* that are deleted or of none; an id is random, so none that is yet to come.
CreateJob(j, dep, dom, auto) ==
  /\ \A d \in dep : status[d] # "absent"
  /\ AddJob(j, dep, dom, auto)

\* POST /api/jobs/{id}/clone: the copy has no prerequisites of its own.
CloneJob(src, j, dom, auto) ==
  /\ "clone" \in Ops /\ Exists(src)
  /\ AddJob(j, {}, dom, auto)

\* POST /api/jobs/{id}/retry: a new job, not a second run of this one.
RetryJob(src, j, dom) ==
  /\ "retry" \in Ops /\ status[src] \in Terminal
  /\ AddJob(j, {}, dom, TRUE)

\* POST /api/jobs/{id}/restart: the same prompt, enqueued without a look at the
\* conflict registry.
RestartJob(src, j) ==
  /\ "restart" \in Ops /\ Exists(src)
  /\ NewRecord(j, domains[src], TRUE)
  /\ deps' = [deps EXCEPT ![j] = {}]
  /\ Enqueue(j)
  /\ UNCHANGED active

\* MUTANT: a job on the queue is not refused.
StartRefusedOffQueue(j) == status[j] \in {"running", "completed"}

\* The three refusals of start_job.
StartRefused(j) ==
  \/ status[j] \in {"running", "completed"}
  \/ status[j] = "queued" /\ autoStarted[j]

\* MUTANT: the job is not marked as started.
StartJobUnmarked(j) ==
  /\ Exists(j) /\ ~StartRefused(j)
  /\ IF status[j] = "queued" THEN "start" \in Ops ELSE "requeue" \in Ops
  /\ UpdateStatus(j, "queued")
  /\ Enqueue(j)
  /\ UNCHANGED <<autoStarted, deps, domains, active, reg, stopFiles, workerVars>>

\* POST /api/jobs/{id}/start
StartJob(j) ==
  /\ Exists(j) /\ ~StartRefused(j)
  /\ IF status[j] = "queued" THEN "start" \in Ops ELSE "requeue" \in Ops
  /\ UpdateStatus(j, "queued")
  /\ Enqueue(j)
  /\ autoStarted' = [autoStarted EXCEPT ![j] = TRUE]
  /\ UNCHANGED <<deps, domains, active, reg, stopFiles, workerVars>>

\* POST /api/jobs/{id}/stop: neither the queue entry nor the completion event is
\* touched.
StopJob(j) ==
  /\ "stop" \in Ops
  /\ status[j] \in Live \cup {"queued"}
  /\ SignalStop(j)
  /\ UpdateJob(j, "failed", "user_stop")
  /\ UNCHANGED <<deps, domains, autoStarted, queue, event, active, reg, pc, cur>>

\* POST /api/jobs/{id}/pause
PauseJob(j) ==
  /\ "pause" \in Ops
  /\ status[j] \in {"running", "rate_limited"}
  /\ SignalStop(j)
  /\ UpdateStatus(j, "paused")
  /\ UNCHANGED <<deps, domains, autoStarted, queue, event, active, reg, pc, cur>>

\* POST /api/jobs/{id}/resume: the stop event stays set.
ResumeJob(j) ==
  /\ "resume" \in Ops
  /\ status[j] \in {"paused", "rate_limited"}
  /\ UpdateStatus(j, "running")
  /\ UNCHANGED <<deps, domains, autoStarted, bridgeVars, workerVars>>

\* DELETE /api/jobs/{id}: from any state, and only from the store.
DeleteJob(j) ==
  /\ "delete" \in Ops /\ Exists(j)
  /\ status' = [status EXCEPT ![j] = "deleted"]
  /\ UNCHANGED <<error, deps, domains, autoStarted, bridgeVars, workerVars>>

-----------------------------------------------------------------------------
(* The workers.                                                            *)

\* MUTANT: a job that was stopped in the queue runs all the same.
SkipsRunOfCompleted(j) == status[j] \in {"completed", "deleted"}

\* run_job does nothing for a job that was stopped, has ended or is gone.
SkipsRun(j) == status[j] \in Terminal \cup {"deleted"}

\* run_job up to its await: mark the job RUNNING, register a fresh stop event and
\* hand the runner to a thread.  EngineRunner(...) reads the configuration before
\* that: when it raises, _worker_loop fails the job and the registration stays.
RunJob(w, j, ev) ==
  \/ /\ SkipsRun(j)
     /\ Leave(w, j, ev)
     /\ UNCHANGED <<status, error, reg, stopFiles, stopEv>>
  \/ /\ ~SkipsRun(j)
     /\ UpdateJob(j, "running", "none")
     /\ reg' = [reg EXCEPT ![j] = w]
     /\ UnlinkStopFile(j)
     /\ stopEv' = [stopEv EXCEPT ![w] = FALSE]
     /\ pc' = [pc EXCEPT ![w] = "launch"]
     /\ cur' = [cur EXCEPT ![w] = j]
     /\ event' = ev
     /\ UNCHANGED active
  \/ /\ ~SkipsRun(j) /\ "error" \in Ops
     /\ UpdateJob(j, "failed", "other")
     /\ reg' = [reg EXCEPT ![j] = Stale]
     /\ UnlinkStopFile(j)
     /\ Leave(w, j, ev)
     /\ UNCHANGED stopEv

\* MUTANT: the events of prerequisites that have already ended are not set.
SubscribedLate(j) == Ensured(deps[j])

\* What _wait_for_dependencies does to the events before it waits: the events of
\* ended prerequisites are set, those of the others exist.
Subscribed(j) ==
  [d \in Jobs |-> IF d \in deps[j] /\ status[d] \in Terminal
                    THEN "set" ELSE Ensured(deps[j])[d]]

\* _worker_loop takes the oldest entry; _run_job_with_deps runs it at once, or
\* parks this worker on the events of the job's prerequisites.
WorkerTake(w) ==
  /\ pc[w] = "idle" /\ queue # <<>>
  /\ queue' = Tail(queue)
  /\ LET j == Head(queue) IN
     \/ /\ deps[j] = {} \/ status[j] = "deleted"
        /\ RunJob(w, j, event)
     \/ /\ deps[j] # {} /\ status[j] # "deleted"
        /\ event' = Subscribed(j)
        /\ pc' = [pc EXCEPT ![w] = "waiting"]
        /\ cur' = [cur EXCEPT ![w] = j]
        /\ UNCHANGED <<status, error, active, reg, stopFiles, stopEv>>
  /\ UNCHANGED <<deps, domains, autoStarted>>

\* MUTANT: the first prerequisite that ends releases the job.
SomeSet(j) == \E d \in deps[j] : event[d] = "set"

\* gather() returns once every event has been set.
AllSet(j) == \A d \in deps[j] : event[d] = "set"

\* MUTANT: a prerequisite the user stopped does not count as failed.
FailedDepsUnstopped(j) ==
  {d \in deps[j] : status[d] = "failed" /\ error[d] # "user_stop"}

\* The check after the wait.
FailedDeps(j) == {d \in deps[j] : status[d] = "failed"}

\* MUTANT: the caller is left to record the failure, and does not.
FailUnrunSilently(w) ==
  /\ Leave(w, cur[w], event)
  /\ UNCHANGED <<status, error, deps, domains, autoStarted, queue, reg, stopFiles, stopEv>>

\* The job fails before it ran: a prerequisite failed, or the hour is over.
FailUnrun(w) ==
  /\ UpdateJob(cur[w], "failed", "other")
  /\ Leave(w, cur[w], event)
  /\ UNCHANGED <<deps, domains, autoStarted, queue, reg, stopFiles, stopEv>>

DepsFailed(w) ==
  /\ pc[w] = "waiting" /\ AllSet(cur[w]) /\ FailedDeps(cur[w]) # {}
  /\ FailUnrun(w)

\* The wait times out after _DEPENDENCY_TIMEOUT_S.
DepTimeout(w) ==
  /\ pc[w] = "waiting" /\ ~AllSet(cur[w])
  /\ FailUnrun(w)

\* A prerequisite that is no longer in the store counts as satisfied.
DepsSatisfied(w) ==
  /\ pc[w] = "waiting" /\ AllSet(cur[w]) /\ FailedDeps(cur[w]) = {}
  /\ RunJob(w, cur[w], event)
  /\ UNCHANGED <<deps, domains, autoStarted, queue>>

-----------------------------------------------------------------------------
(* The runner thread of worker w.                                          *)

Goto(w, phase) == pc' = [pc EXCEPT ![w] = phase]
OnlyThread == UNCHANGED <<storeVars, bridgeVars, cur, stopEv>>

\* _run_sync: spin while the job is PAUSED, unless the stop event is set; then
\* EngineRunner.run sets up its session, which may raise.
ThreadLaunch(w) ==
  /\ pc[w] = "launch"
  /\ \/ status[cur[w]] # "paused" /\ Goto(w, "top")
     \/ status[cur[w]] = "paused" /\ stopEv[w] /\ Goto(w, "fail")
     \/ status[cur[w]] # "paused" /\ "error" \in Ops /\ Goto(w, "raise")
  /\ OnlyThread

\* The stop check at the top of the loop.  A run that ends, here or further on, still
\* has files of its session to write, which may raise.
ThreadTop(w) ==
  /\ pc[w] = "top"
  /\ \/ Goto(w, IF stopEv[w] THEN "fail" ELSE "start")
     \/ "error" \in Ops /\ Goto(w, "raise")
  /\ OnlyThread

\* The AGENT_START callback reads the status ...
ThreadAgentStart(w) ==
  /\ pc[w] = "start"
  /\ Goto(w, IF status[cur[w]] = "rate_limited" THEN "unlimit" ELSE "call")
  /\ OnlyThread

\* ... and then writes RUNNING, whatever happened in between.
ThreadUnlimit(w) ==
  /\ pc[w] = "unlimit"
  /\ UpdateStatus(cur[w], "running")
  /\ Goto(w, "call")
  /\ UNCHANGED <<deps, domains, autoStarted, bridgeVars, cur, stopEv>>

\* One provider call and the turn's tools.  Only a run whose stop event was not
\* set at the check after the call goes on, completes, or waits for a cooldown.
ThreadCall(w) ==
  /\ pc[w] = "call"
  /\ \/ ~stopEv[w] /\ \E phase \in {"top", "complete"} : Goto(w, phase)
     \/ ~stopEv[w] /\ "rate_limit" \in Ops /\ Goto(w, "limit")
     \/ Goto(w, "fail")
     \/ "error" \in Ops /\ Goto(w, "raise")
  /\ OnlyThread

\* The RATE_LIMITED callback.
ThreadLimit(w) ==
  /\ pc[w] = "limit"
  /\ UpdateStatus(cur[w], "rate_limited")
  /\ Goto(w, "wait")
  /\ UNCHANGED <<deps, domains, autoStarted, bridgeVars, cur, stopEv>>

\* _wait_interruptible returns: the cooldown is over or the stop event is set.
ThreadWait(w) ==
  /\ pc[w] = "wait"
  /\ \/ Goto(w, IF stopEv[w] THEN "fail" ELSE "call")
     \/ "error" \in Ops /\ Goto(w, "raise")
  /\ OnlyThread

\* MUTANT: late output is kept off a paused job too.
KeepsUserStopAndPause(w) ==
  pc[w] # "raise" /\ status[cur[w]] \in {"failed", "paused"}

\* MUTANT: the result of the run always counts.
KeepsNothing(w) == FALSE

\* run_job leaves a job alone that the user stopped, unless the run raised.
KeepsUserStop(w) ==
  pc[w] # "raise" /\ status[cur[w]] = "failed" /\ error[cur[w]] = "user_stop"

\* run_job after its await, and the worker's way back to the queue.  The stop
\* event of the run is set and dropped; the registration is popped by job id.
RunEnd(w) ==
  /\ pc[w] \in EndPhases
  /\ LET j == cur[w] IN
     /\ reg' = [reg EXCEPT ![j] = NoWorker]
     /\ UnlinkStopFile(j)
     /\ stopEv' = [stopEv EXCEPT ![w] = FALSE]
     /\ \/ KeepsUserStop(w) /\ UNCHANGED <<status, error>>
        \/ /\ ~KeepsUserStop(w)
           /\ IF pc[w] = "complete" THEN UpdateJob(j, "completed", "none")
                                    ELSE UpdateJob(j, "failed", "other")
     /\ Leave(w, j, event)
  /\ UNCHANGED <<deps, domains, autoStarted, queue>>

ThreadStep(w) ==
  \/ ThreadLaunch(w) \/ ThreadTop(w) \/ ThreadAgentStart(w) \/ ThreadUnlimit(w)
  \/ ThreadCall(w) \/ ThreadLimit(w) \/ ThreadWait(w)

WorkerStep(w) ==
  WorkerTake(w) \/ DepsFailed(w) \/ DepTimeout(w) \/ DepsSatisfied(w) \/ RunEnd(w)

-----------------------------------------------------------------------------

\* MUTANT: load() takes a job that has ended for an interrupted one.
InterruptedAll == {j \in Jobs : Exists(j)}

\* The jobs load() finds in flight.
Interrupted == {j \in Jobs : status[j] \in Live \cup {"queued"}}

\* The server stops or dies, and starts again: what is in memory is gone, and
\* store.load() fails every job that had not ended.  A clean shutdown removes
\* the stop files of the runs it cancels, a crash leaves them.
ServerRestart ==
  /\ "server_restart" \in Ops
  /\ status' = [j \in Jobs |-> IF j \in Interrupted THEN "failed" ELSE status[j]]
  /\ error' = [j \in Jobs |-> IF j \in Interrupted THEN "interrupted" ELSE error[j]]
  /\ queue' = <<>>
  /\ event' = [j \in Jobs |-> "none"]
  /\ active' = {}
  /\ reg' = [j \in Jobs |-> NoWorker]
  /\ stopFiles' \in SUBSET stopFiles
  /\ pc' = [w \in Workers |-> "idle"]
  /\ cur' = [w \in Workers |-> NoJob]
  /\ stopEv' = [w \in Workers |-> FALSE]
  /\ UNCHANGED <<deps, domains, autoStarted>>

ClientStep ==
  \/ \E j \in Jobs, dep \in SUBSET Jobs, dom \in DomainSets, auto \in BOOLEAN :
       CreateJob(j, dep, dom, auto)
  \/ \E src, j \in Jobs, dom \in DomainSets, auto \in BOOLEAN : CloneJob(src, j, dom, auto)
  \/ \E src, j \in Jobs, dom \in DomainSets : RetryJob(src, j, dom)
  \/ \E src, j \in Jobs : RestartJob(src, j)
  \/ \E j \in Jobs : \/ StartJob(j) \/ StopJob(j) \/ PauseJob(j)
                     \/ ResumeJob(j) \/ DeleteJob(j)

Next ==
  \/ ClientStep
  \/ \E w \in Workers : WorkerStep(w) \/ ThreadStep(w)
  \/ ServerRestart

Spec == Init /\ [][Next]_vars

\* A worker waits for an id that no job has: nobody will ever set its event.
WaitsForNobody(w) ==
  /\ pc[w] = "waiting"
  /\ \E d \in deps[cur[w]] : event[d] # "set" /\ ~Exists(d) /\ ~Scheduled(d)

\* Fairness: the loop runs whatever is ready, a thread is scheduled, and a run
\* does not stay in its turns for ever (the loop counter of EngineRunner.run
\* bounds them, and a provider that is asked again and again answers at last):
\* the one strong condition.  The one hour timeout (asyncio.wait_for) ends the
\* waits for nobody, and is not relied on for any other.  Clients and faults owe
\* nothing.
CallEnds(w) == ThreadCall(w) /\ pc'[w] \in EndPhases
HourIsOver(w) == WaitsForNobody(w) /\ DepTimeout(w)

WorkerFairness(w) ==
  /\ WF_vars(WorkerTake(w)) /\ WF_vars(DepsFailed(w)) /\ WF_vars(DepsSatisfied(w))
  /\ WF_vars(ThreadStep(w)) /\ SF_vars(CallEnds(w)) /\ WF_vars(RunEnd(w))
  /\ WF_vars(HourIsOver(w))

FairSpec == Spec /\ \A w \in Workers : WorkerFairness(w)

-----------------------------------------------------------------------------
(* Properties of every instance.                                           *)

TypeOK ==
  /\ status \in [Jobs -> Statuses]
  /\ error \in [Jobs -> Errors]
  /\ deps \in [Jobs -> SUBSET Jobs]
  /\ domains \in [Jobs -> DomainSets \cup {{}}]
  /\ autoStarted \in [Jobs -> BOOLEAN]
  /\ queue \in Seq(Jobs)
  /\ event \in [Jobs -> {"none", "clear", "set"}]
  /\ active \subseteq Jobs
  /\ reg \in [Jobs -> Workers \cup {NoWorker, Stale}]
  /\ stopFiles \subseteq Jobs
  /\ pc \in [Workers -> {"idle", "waiting"} \cup ThreadPhases \cup EndPhases]
  /\ cur \in [Workers -> Jobs \cup {NoJob}]
  /\ stopEv \in [Workers -> BOOLEAN]
  /\ \A w \in Workers : cur[w] = NoJob <=> pc[w] = "idle"

\* No job is stranded in a state only a worker can take it out of: one that is
\* RUNNING, PAUSED or RATE_LIMITED has a run, whatever mixture of START, STOP,
\* PAUSE and RESUME brought it there (run_job, the event callback, jobs.py).
LiveJobHasRun ==
  \A j \in Jobs : status[j] \in Live => \E w \in Workers : cur[w] = j /\ Executing(w)

\* A job that the API reports as queued for execution is on the queue or in the
\* hands of a worker: no START, no failed gate and no restart of the server
\* leaves it QUEUED with nobody to run it.
QueuedJobIsScheduled ==
  \A j \in Jobs : status[j] = "queued" /\ autoStarted[j] => Scheduled(j)

\* The conflict registry holds no job that has left the bridge: a leaked entry
\* would sequence later jobs behind a job that never signals again
\* (smart_enqueue, _signal_completion).
ActiveJobIsScheduled == \A j \in active : Scheduled(j)

\* Nobody is stranded, neither a job nor an entry of the registry: the three
\* above hold together whatever clients, providers and workers do.
NoJobStranded == LiveJobHasRun /\ QueuedJobIsScheduled /\ ActiveJobIsScheduled

Enqueued(j) == Len(queue') > Len(queue) /\ queue'[Len(queue')] = j

\* A job gets a second entry or a second run only after it was halted.  START
\* refuses by the record of the job ("already running", "already queued"), which
\* says who is on the queue or in the hands of a worker: two STARTs of a job that
\* was put aside, or the START of one that was not, enqueue it once (start_job).
OnlyHaltedRequeued ==
  [][\A j \in Jobs : Enqueued(j) /\ Scheduled(j)
       => status[j] \in {"paused", "rate_limited", "failed"}]_vars

-----------------------------------------------------------------------------
(* Properties that need a client to leave out some operations: the runs and *)
(* the README say which, and which runs show what happens with them.        *)

\* A job is queued or held once: it never runs twice at a time.
AtMostOneRun ==
  /\ \A i, k \in DOMAIN queue : queue[i] = queue[k] => i = k
  /\ \A j \in Jobs : ~(Queued(j) /\ Held(j))
  /\ \A v, w \in Workers : cur[v] = cur[w] /\ cur[v] # NoJob => v = w

\* A job runs only when each of its prerequisites is COMPLETED
\* (_wait_for_dependencies).
GatedByPrerequisites ==
  \A w \in Workers : Executing(w) => \A d \in deps[cur[w]] : status[d] = "completed"

\* Two jobs whose prompts name a common resource never run at the same time
\* (detect_conflicts, smart_enqueue).
ConflictingJobsExclude ==
  \A v, w \in Workers :
    /\ v # w /\ Executing(v) /\ Executing(w)
    => (domains[cur[v]] \cap domains[cur[w]]) \ {SoftExclusive} = {}

\* STOP and PAUSE reach the run: what is registered for a job is its run in
\* progress, whose event is set as long as the record says PAUSED or stopped by
\* the user, whether or not the marker for its tools could be written; and no
\* marker, left over or not removed, stops the tools of a run that goes on.
SignalReachesRun ==
  \A w \in Workers : Executing(w) =>
    reg[cur[w]] = w /\ (cur[w] \in stopFiles => stopEv[w])

UserStopped(j) == status[j] = "failed" /\ error[j] = "user_stop"

StopIsTold ==
  \A w \in Workers :
    Executing(w) /\ (status[cur[w]] = "paused" \/ UserStopped(cur[w])) => stopEv[w]

RunIsStoppable == SignalReachesRun /\ StopIsTold

\* A worker that has a step to take: the one hour timeout and the wait of a
\* paused run for its RESUME do not count.
CanGoOn(w) ==
  \/ pc[w] = "idle" /\ queue # <<>>
  \/ pc[w] = "waiting" /\ AllSet(cur[w])
  \/ Executing(w) /\ ~(pc[w] = "launch" /\ status[cur[w]] = "paused" /\ ~stopEv[w])

\* The workers never take every slot with jobs that wait for jobs on the queue:
\* while there is a job to run, somebody can go on, or sits out the hour of a job
\* that named an id no job has.
NoPoolStall ==
  (\E j \in Jobs : Scheduled(j)) => \E w \in Workers : CanGoOn(w) \/ WaitsForNobody(w)

\* A prerequisite that is a job in the store is waited for only as long as some
\* worker will set its event.
WaitedForIsScheduled ==
  \A w \in Workers : pc[w] = "waiting" =>
    \A d \in deps[cur[w]] : event[d] = "set" \/ Scheduled(d) \/ ~Exists(d)

\* A wait for prerequisites ends by itself, unless one of them is no job: some
\* worker can go on, and what the waiting ones wait for will be set
\* (_run_job_with_deps, _signal_completion).
WaitersAreWoken == NoPoolStall /\ WaitedForIsScheduled

\* "never overwrite terminal state with late runner output".
StoppedStaysFailed ==
  [][\A j \in Jobs : UserStopped(j)
       => status'[j] \in {"failed", "deleted"}]_vars

\* A job that was paused leaves that state by a request of the user (or with
\* the server).
PausedParks ==
  [][\A j \in Jobs : status[j] = "paused"
       => \/ status'[j] \in {"paused", "running", "queued", "deleted"}
          \/ error'[j] \in {"user_stop", "interrupted"}]_vars

Settled(j) == status[j] \in Terminal \cup {"deleted"}

\* If no job is left PAUSED for ever, every job that was queued for execution ends.
QueuedJobsSettle ==
  (\A j \in Jobs : []<>(status[j] # "paused"))
    => \A j \in Jobs : (status[j] = "queued" /\ autoStarted[j]) ~> Settled(j)

\* The bridge implements GatedJobs when its RUNNING, PAUSED and RATE_LIMITED are
\* all seen as running (engine_bridge.py's gate and run_job's late results).
Phase(j) == IF status[j] \in Live THEN "running" ELSE status[j]
Gate == INSTANCE GatedJobs WITH phase <- [j \in Jobs |-> Phase(j)], needs <- deps
ImplementsGatedJobs == Gate!Spec

\* The run of a worker implements RunThread, the writes of its event callback
\* being steps within a turn (engine_bridge.py's wait for the runner thread,
\* runner.py's loop).  It begins where RunThread begins, and requests, workers
\* and other runs do to it what RunThread allows: once told to stop it begins
\* no turn, completes nothing and sits out no cooldown.
RunPhase(w) ==
  CASE pc[w] \in {"launch", "top"} -> "top"
    [] pc[w] \in {"start", "unlimit", "call"} -> "call"
    [] pc[w] \in {"limit", "wait"} -> "wait"
    [] OTHER -> pc[w]
Run(w) == INSTANCE RunThread WITH phase <- RunPhase(w), stop <- stopEv[w]
RunsImplementRunThread ==
  [][\A w \in Workers :
       /\ Executing(w)' /\ ~Executing(w) => Run(w)!Init'
       /\ Executing(w)' /\ Executing(w) => [Run(w)!Next]_(Run(w)!vars)]_vars
=============================================================================
