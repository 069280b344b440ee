------------------------ MODULE JobBridgeGateProofs ------------------------
(***************************************************************************)
(* Theorems about JobBridge in the worlds where a job's prerequisites and  *)
(* the conflict registry can be relied on.  GateWorld: nobody starts a job *)
(* again or deletes one, and no run is told to stop while providers answer *)
(* 429.  SequencedWorld: besides, every job enters by smart_enqueue.       *)
(* NoneAside: nobody creates a job that waits for a START.                 *)
(***************************************************************************)
EXTENDS JobBridgeProofs, FiniteSetTheorems, WellFoundedInduction

-----------------------------------------------------------------------------
(* The gate.                                                               *)

\* Nobody starts a job again or deletes one, and either nobody stops one or no
\* provider answers 429.
GateWorld == StartedOnce /\ "delete" \notin Ops /\ ("stop" \notin Ops \/ "rate_limit" \notin Ops)

\* A run's job is live, unless the user stopped it meanwhile.
RunStatus(s, e) == s \in Live \/ (s = "failed" /\ e = "user_stop" /\ "stop" \in Ops)

\* How far a job is and what its record says.
StatusFits ==
  /\ \A j \in Jobs : Queued(j) => status[j] \in {"queued", "failed"}
  /\ \A w \in Workers : pc[w] = "waiting" => status[cur[w]] \in {"queued", "failed"}
  /\ \A w \in Workers : Executing(w) => RunStatus(status[cur[w]], error[cur[w]])

\* A completion event is set for a job that has ended, and that is for good.
SetMeansEnded == \A j \in Jobs : event[j] = "set" => status[j] \in Terminal

GateInv == StatusFits /\ Unlimited /\ SetMeansEnded /\ GatedByPrerequisites

\* A step of worker w, or of its runner, that writes the record of job j, which
\* it holds from now on or lets go.
LEMMA HolderGate ==
  ASSUME TypeOK, GateInv, NEW w \in Workers, NEW j \in Jobs, deps' = deps,
         \A k \in Jobs \ {j} : status'[k] = status[k] /\ error'[k] = error[k],
         status[j] = "completed" => status'[j] = "completed",
         status'[j] = "rate_limited" => "rate_limit" \in Ops,
         \A k \in Jobs : Queued(k)' => Queued(k) /\ k # j,
         \A k \in Jobs : event'[k] = "set" => status'[k] \in Terminal,
         \A v \in Workers \ {w} : pc'[v] = pc[v] /\ cur'[v] = cur[v] /\ cur[v] # j,
         pc'[w] \in LimitPhases => "rate_limit" \in Ops,
         pc'[w] = "waiting" => cur'[w] = j /\ status'[j] \in {"queued", "failed"},
         Executing(w)' => /\ cur'[w] = j /\ RunStatus(status'[j], error'[j])
                          /\ \A d \in deps[j] : status[d] = "completed"
  PROVE  GateInv'
<1>1. \A v \in Workers \ {w} : (Executing(v)' <=> Executing(v))
  BY DEF Executing
<1>2. \A v \in Workers \ {w} : Executing(v) \/ pc[v] = "waiting" => cur[v] \in Jobs \ {j}
  BY DEF TypeOK, Executing, ThreadPhases, EndPhases
<1>3. StatusFits'
  <2>2. \A k \in Jobs : Queued(k)' => status'[k] \in {"queued", "failed"}
    BY DEF GateInv, StatusFits
  <2>3. \A v \in Workers : pc'[v] = "waiting" => status'[cur'[v]] \in {"queued", "failed"}
    BY <1>2 DEF GateInv, StatusFits
  <2>4. \A v \in Workers : Executing(v)' => RunStatus(status'[cur'[v]], error'[cur'[v]])
    BY <1>1, <1>2 DEF GateInv, StatusFits
  <2>. QED
    BY <2>2, <2>3, <2>4 DEF StatusFits, RunStatus
<1>4. Unlimited'
  BY DEF GateInv, Unlimited
<1>5. SetMeansEnded'
  BY DEF SetMeansEnded
<1>6. GatedByPrerequisites'
  <2>. SUFFICES ASSUME NEW v \in Workers, Executing(v)', NEW d \in deps[cur'[v]]
                PROVE  status'[d] = "completed"
    BY DEF GatedByPrerequisites
  <2>1. cur'[v] \in Jobs /\ d \in Jobs
    BY <1>1, <1>2 DEF TypeOK
  <2>2. status[d] = "completed"
    BY <1>1 DEF GateInv, GatedByPrerequisites
  <2>. QED
    BY <2>1, <2>2
<1>. QED
  BY <1>3, <1>4, <1>5, <1>6 DEF GateInv

\* A request about job j, which leaves the workers and all other records alone.
LEMMA RequestGate ==
  ASSUME TypeOK, GateInv, NEW j \in Jobs, UNCHANGED <<pc, cur>>,
         \A k \in Jobs \ {j} : /\ status'[k] = status[k] /\ error'[k] = error[k]
                               /\ deps'[k] = deps[k],
         status[j] \notin Terminal, status'[j] # "rate_limited",
         \A k \in Jobs : Queued(k)' => Queued(k) \/ k = j,
         Queued(j)' => status'[j] \in {"queued", "failed"},
         \A k \in Jobs : event'[k] = "set" => event[k] = "set",
         Held(j) => /\ deps'[j] = deps[j]
                    /\ status[j] = "queued" => status'[j] \in {"queued", "failed"}
                    /\ status[j] \in Live => RunStatus(status'[j], error'[j])
  PROVE  GateInv'
<1>1. \A v \in Workers : (Executing(v)' <=> Executing(v))
  BY DEF Executing
<1>2. \A v \in Workers : Executing(v) \/ pc[v] = "waiting" => cur[v] \in Jobs
  BY DEF TypeOK, Executing, ThreadPhases, EndPhases
<1>4. StatusFits'
  <2>2. \A k \in Jobs : Queued(k)' => status'[k] \in {"queued", "failed"}
    BY DEF GateInv, StatusFits
  <2>3. ASSUME NEW v \in Workers, pc[v] = "waiting"
        PROVE  status'[cur[v]] \in {"queued", "failed"}
    <3>1. CASE cur[v] = j
      BY <2>3, <3>1 DEF GateInv, StatusFits, Held, Terminal
    <3>2. CASE cur[v] # j
      BY <1>2, <2>3, <3>2 DEF GateInv, StatusFits
    <3>. QED
      BY <3>1, <3>2
  <2>4. ASSUME NEW v \in Workers, Executing(v)
        PROVE  RunStatus(status'[cur[v]], error'[cur[v]])
    <3>1. CASE cur[v] = j
      BY <2>4, <3>1 DEF GateInv, StatusFits, Held, Terminal, RunStatus
    <3>2. CASE cur[v] # j
      BY <1>2, <2>4, <3>2 DEF GateInv, StatusFits
    <3>. QED
      BY <3>1, <3>2
  <2>. QED
    BY <1>1, <2>2, <2>3, <2>4 DEF StatusFits, RunStatus
<1>5. Unlimited'
  BY DEF GateInv, Unlimited
<1>6. SetMeansEnded'
  BY DEF GateInv, SetMeansEnded
<1>7. GatedByPrerequisites'
  <2>. SUFFICES ASSUME NEW v \in Workers, Executing(v), NEW d \in deps'[cur[v]]
                PROVE  status'[d] = "completed"
    BY <1>1 DEF GatedByPrerequisites
  <2>1. deps'[cur[v]] = deps[cur[v]] /\ cur[v] \in Jobs
    BY <1>2 DEF Held
  <2>2. status[d] = "completed" /\ d \in Jobs
    BY <2>1 DEF GateInv, GatedByPrerequisites, TypeOK
  <2>. QED
    BY <2>2 DEF Terminal
<1>. QED
  BY <1>4, <1>5, <1>6, <1>7 DEF GateInv

LEMMA RunJobGate ==
  ASSUME TypeOK, GateInv, NEW w \in Workers, NEW j \in Jobs, NEW ev, RunJob(w, j, ev),
         deps' = deps,
         status[j] \in {"queued", "failed"},
         \A d \in deps[j] : status[d] = "completed",
         \A k \in Jobs : ev[k] = "set" => status[k] \in Terminal,
         ev \in [Jobs -> {"none", "clear", "set"}],
         \A k \in Jobs : Queued(k)' => Queued(k) /\ k # j,
         \A v \in Workers \ {w} : cur[v] # j
  PROVE  GateInv'
<1>1. \A v \in Workers \ {w} : pc'[v] = pc[v] /\ cur'[v] = cur[v]
  BY DEF RunJob, Leave, TypeOK
<1>2. CASE SkipsRun(j) /\ Leave(w, j, ev) /\ UNCHANGED <<status, error>>
  <2>1. status[j] = "failed"
    BY <1>2 DEF SkipsRun, Terminal
  <2>2. pc'[w] = "idle" /\ ~Executing(w)'
    BY <1>2 DEF Leave, Executing, ThreadPhases, EndPhases, TypeOK
  <2>3. \A k \in Jobs : event'[k] = "set" => status'[k] \in Terminal
    BY <1>2, <2>1 DEF Leave, Terminal
  <2>. QED
    BY <1>1, <1>2, <2>1, <2>2, <2>3, HolderGate DEF LimitPhases
<1>3. CASE /\ ~SkipsRun(j)
           /\ UpdateJob(j, "running", "none")
           /\ pc' = [pc EXCEPT ![w] = "launch"]
           /\ cur' = [cur EXCEPT ![w] = j]
           /\ event' = ev
  <2>1. status[j] = "queued"
    BY <1>3 DEF SkipsRun, Terminal
  <2>2. /\ status'[j] = "running"
        /\ \A k \in Jobs \ {j} : status'[k] = status[k] /\ error'[k] = error[k]
    BY <1>3, <2>1 DEF UpdateJob, Exists, TypeOK
  <2>3. \A k \in Jobs : event'[k] = "set" => status'[k] \in Terminal
    BY <1>3, <2>1, <2>2 DEF Terminal
  <2>4. pc'[w] = "launch" /\ cur'[w] = j /\ RunStatus(status'[j], error'[j])
    BY <1>3, <2>2 DEF RunStatus, Live, TypeOK
  <2>. QED
    BY <1>1, <2>1, <2>2, <2>3, <2>4, HolderGate DEF LimitPhases
<1>4. CASE ~SkipsRun(j) /\ UpdateJob(j, "failed", "other") /\ Leave(w, j, ev)
  <2>1. status[j] = "queued"
    BY <1>4 DEF SkipsRun, Terminal
  <2>2. /\ status'[j] = "failed"
        /\ \A k \in Jobs \ {j} : status'[k] = status[k] /\ error'[k] = error[k]
    BY <1>4, <2>1 DEF UpdateJob, Exists, TypeOK
  <2>3. pc'[w] = "idle" /\ ~Executing(w)'
    BY <1>4 DEF Leave, Executing, ThreadPhases, EndPhases, TypeOK
  <2>4. \A k \in Jobs : event'[k] = "set" => status'[k] \in Terminal
    BY <1>4, <2>2 DEF Leave, Terminal
  <2>. QED
    BY <1>1, <2>1, <2>2, <2>3, <2>4, HolderGate DEF LimitPhases
<1>. QED
  BY <1>2, <1>3, <1>4 DEF RunJob

\* What a gate that is passed means.
LEMMA PassedGate ==
  ASSUME TypeOK, GateInv, NEW j \in Jobs, AllSet(j), FailedDeps(j) = {}, NEW d \in deps[j]
  PROVE  status[d] = "completed"
  BY DEF AllSet, FailedDeps, GateInv, SetMeansEnded, Terminal, TypeOK

LEMMA WorkerGate ==
  ASSUME TypeOK, Once, GateInv, NEW w \in Workers, WorkerStep(w)
  PROVE  GateInv'
<1>1. ASSUME pc[w] \in EndPhases \cup {"waiting"}
      PROVE  /\ cur[w] \in Jobs /\ \A v \in Workers \ {w} : cur[v] # cur[w]
             /\ ~Queued(cur[w])
  <2>1. cur[w] \in Jobs /\ cur[w] # NoJob
    BY <1>1, JobsAssumption DEF TypeOK, EndPhases
  <2>. QED
    BY <2>1 DEF Once, AtMostOneRun, Held
<1>2. CASE WorkerTake(w)
  <2>. PICK j \in Jobs : j = Head(queue)
    BY <1>2, TailQueued DEF TypeOK, WorkerTake
  <2>1. /\ Queued(j) /\ ~Queued(j)'
        /\ \A k \in Jobs : Queued(k)' => Queued(k)
        /\ \A v \in Workers : cur[v] # j
    <3>1. queue \in Seq(Jobs) /\ QueueOnce /\ queue # <<>> /\ queue' = Tail(queue)
      BY <1>2 DEF TypeOK, Once, AtMostOneRun, QueueOnce, WorkerTake
    <3>2. Queued(j) /\ ~Queued(j)' /\ \A k \in Jobs : Queued(k)' => Queued(k)
      BY <3>1, TailQueued, TailOnce
    <3>. QED
      BY <3>2 DEF Once, AtMostOneRun, Held
  <2>2. status[j] \in {"queued", "failed"} /\ status[j] # "deleted" /\ deps' = deps
    BY <1>2, <2>1 DEF GateInv, StatusFits, WorkerTake
  <2>3. CASE deps[j] = {} /\ RunJob(w, j, event)
    BY <2>1, <2>2, <2>3, RunJobGate DEF GateInv, SetMeansEnded, TypeOK
  <2>4. CASE /\ event' = Subscribed(j)
             /\ pc' = [pc EXCEPT ![w] = "waiting"]
             /\ cur' = [cur EXCEPT ![w] = j]
             /\ UNCHANGED <<status, error>>
    <3>1. \A k \in Jobs : event'[k] = "set" => status'[k] \in Terminal
      BY <2>4 DEF Subscribed, Ensured, GateInv, SetMeansEnded
    <3>2. pc'[w] = "waiting" /\ cur'[w] = j /\ ~Executing(w)'
      BY <2>4 DEF TypeOK, Executing, ThreadPhases, EndPhases
    <3>3. \A v \in Workers \ {w} : pc'[v] = pc[v] /\ cur'[v] = cur[v]
      BY <2>4 DEF TypeOK
    <3>. QED
      BY <2>1, <2>2, <2>4, <3>1, <3>2, <3>3, HolderGate DEF LimitPhases
  <2>. QED
    BY <1>2, <2>2, <2>3, <2>4 DEF WorkerTake
<1>3. CASE DepsFailed(w) \/ DepTimeout(w)
  <2>1. pc[w] = "waiting" /\ FailUnrun(w)
    BY <1>3 DEF DepsFailed, DepTimeout
  <2>2. status[cur[w]] \in {"queued", "failed"}
    BY <2>1 DEF GateInv, StatusFits
  <2>3. /\ status'[cur[w]] = "failed"
        /\ \A k \in Jobs \ {cur[w]} : status'[k] = status[k] /\ error'[k] = error[k]
    BY <1>1, <2>1, <2>2 DEF FailUnrun, UpdateJob, Exists, TypeOK
  <2>4. Leave(w, cur[w], event) /\ UNCHANGED <<deps, queue>>
    BY <2>1 DEF FailUnrun
  <2>5. pc'[w] = "idle" /\ ~Executing(w)'
    BY <2>4 DEF Leave, Executing, ThreadPhases, EndPhases, TypeOK
  <2>6. \A v \in Workers \ {w} : pc'[v] = pc[v] /\ cur'[v] = cur[v]
    BY <2>4 DEF Leave, TypeOK
  <2>7. \A k \in Jobs : event'[k] = "set" => status'[k] \in Terminal
    BY <2>3, <2>4 DEF Leave, Terminal, GateInv, SetMeansEnded, TypeOK
  <2>8. \A k \in Jobs : Queued(k)' => Queued(k) /\ k # cur[w]
    BY <1>1, <2>1, <2>4 DEF Queued
  <2>. QED
    BY <1>1, <2>1, <2>2, <2>3, <2>4, <2>5, <2>6, <2>7, <2>8, HolderGate DEF LimitPhases
<1>4. CASE DepsSatisfied(w)
  <2>1. pc[w] = "waiting" /\ RunJob(w, cur[w], event) /\ UNCHANGED <<deps, queue>>
    BY <1>4 DEF DepsSatisfied
  <2>2. \A d \in deps[cur[w]] : status[d] = "completed"
    BY <1>1, <1>4, PassedGate DEF DepsSatisfied
  <2>3. status[cur[w]] \in {"queued", "failed"}
    BY <2>1 DEF GateInv, StatusFits
  <2>4. \A k \in Jobs : Queued(k)' => Queued(k) /\ k # cur[w]
    BY <1>1, <2>1 DEF Queued
  <2>. QED
    BY <1>1, <2>1, <2>2, <2>3, <2>4, RunJobGate DEF GateInv, SetMeansEnded, TypeOK
<1>5. CASE RunEnd(w)
  <2>1. Executing(w) /\ pc[w] \in EndPhases
    BY <1>5 DEF RunEnd, Executing
  <2>2. RunStatus(status[cur[w]], error[cur[w]])
    BY <2>1 DEF GateInv, StatusFits
  <2>3. Leave(w, cur[w], event) /\ UNCHANGED <<deps, queue>>
    BY <1>5 DEF RunEnd
  <2>4. /\ status'[cur[w]] \in Terminal
        /\ \A k \in Jobs \ {cur[w]} : status'[k] = status[k] /\ error'[k] = error[k]
    BY <1>1, <1>5, <2>1, <2>2
    DEF RunEnd, KeepsUserStop, RunStatus, UpdateJob, Exists, Terminal, Live, TypeOK
  <2>5. pc'[w] = "idle" /\ ~Executing(w)'
    BY <2>3 DEF Leave, Executing, ThreadPhases, EndPhases, TypeOK
  <2>6. \A v \in Workers \ {w} : pc'[v] = pc[v] /\ cur'[v] = cur[v]
    BY <2>3 DEF Leave, TypeOK
  <2>7. \A k \in Jobs : event'[k] = "set" => status'[k] \in Terminal
    BY <2>3, <2>4 DEF Leave, GateInv, SetMeansEnded, TypeOK
  <2>8. \A k \in Jobs : Queued(k)' => Queued(k) /\ k # cur[w]
    BY <1>1, <2>1, <2>3 DEF Queued
  <2>9. status[cur[w]] # "completed" /\ status'[cur[w]] \notin {"deleted", "rate_limited"}
    BY <2>2, <2>4 DEF RunStatus, Live, Terminal
  <2>. QED
    BY <1>1, <2>1, <2>3, <2>4, <2>5, <2>6, <2>7, <2>8, <2>9, HolderGate DEF LimitPhases
<1>. QED
  BY <1>2, <1>3, <1>4, <1>5 DEF WorkerStep

LEMMA ThreadGate ==
  ASSUME GateWorld, TypeOK, Once, GateInv, NEW w \in Workers, ThreadStep(w)
  PROVE  GateInv'
<1>1. /\ Executing(w) /\ cur[w] \in Jobs /\ UNCHANGED <<deps, bridgeVars, cur>>
      /\ \E phase \in ThreadPhases \cup EndPhases : pc' = [pc EXCEPT ![w] = phase]
  BY DEF Executing, Goto, ThreadPhases, EndPhases, ThreadStep, ThreadLaunch, OnlyThread,
     ThreadTop, ThreadAgentStart, ThreadUnlimit, ThreadCall, ThreadLimit, ThreadWait,
     storeVars, TypeOK
<1>2. Executing(w)' /\ \A v \in Workers \ {w} : pc'[v] = pc[v] /\ cur'[v] = cur[v]
  BY <1>1 DEF Executing, TypeOK
<1>3. /\ ~Queued(cur[w]) /\ \A v \in Workers \ {w} : cur[v] # cur[w]
      /\ \A k \in Jobs : Queued(k)' => Queued(k) /\ k # cur[w]
  <2>1. ~Queued(cur[w]) /\ \A v \in Workers \ {w} : cur[v] # cur[w]
    BY <1>1, JobsAssumption DEF Once, AtMostOneRun, Held
  <2>. QED
    BY <1>1, <2>1 DEF Queued, bridgeVars
<1>4. /\ RunStatus(status[cur[w]], error[cur[w]])
      /\ \A d \in deps[cur[w]] : status[d] = "completed"
      /\ \A k \in Jobs : event'[k] = "set" => status[k] \in Terminal
  BY <1>1 DEF GateInv, StatusFits, GatedByPrerequisites, SetMeansEnded, bridgeVars
<1>5. pc'[w] # "waiting"
  BY <1>1 DEF ThreadPhases, EndPhases, TypeOK
<1>6. CASE OnlyThread
  <2>1. UNCHANGED <<status, error>>
    BY <1>6 DEF OnlyThread, storeVars
  <2>2. pc'[w] \in LimitPhases => "rate_limit" \in Ops
    BY <1>6 DEF OnlyThread, ThreadStep, ThreadLaunch, ThreadTop, ThreadAgentStart, ThreadUnlimit,
       ThreadCall, ThreadLimit, ThreadWait, Goto, LimitPhases, GateInv, Unlimited, TypeOK
  <2>3. status[cur[w]] = "rate_limited" => "rate_limit" \in Ops
    BY <1>1 DEF GateInv, Unlimited
  <2>. QED
    BY <1>1, <1>2, <1>3, <1>4, <1>5, <2>1, <2>2, <2>3, HolderGate
<1>7. ASSUME NEW s \in Live, UpdateStatus(cur[w], s), pc[w] \in LimitPhases,
             pc'[w] \in {"wait", "call"}
      PROVE  GateInv'
  <2>1. "rate_limit" \in Ops /\ status[cur[w]] \in Live
    BY <1>4, <1>7 DEF GateInv, Unlimited, GateWorld, RunStatus
  <2>2. /\ status'[cur[w]] = s
        /\ \A k \in Jobs \ {cur[w]} : status'[k] = status[k] /\ error'[k] = error[k]
    BY <1>1, <1>7, <2>1 DEF UpdateStatus, UpdateJob, Exists, Live, TypeOK
  <2>3. \A k \in Jobs : event'[k] = "set" => status'[k] \in Terminal
    BY <1>4, <2>1, <2>2 DEF Live, Terminal
  <2>4. /\ RunStatus(status'[cur[w]], error'[cur[w]])
        /\ status[cur[w]] # "completed" /\ status'[cur[w]] # "deleted"
    BY <2>1, <2>2 DEF RunStatus, Live
  <2>. QED
    BY <1>1, <1>2, <1>3, <1>4, <1>5, <2>1, <2>2, <2>3, <2>4, HolderGate
<1>8. CASE ThreadUnlimit(w)
  BY <1>7, <1>8 DEF ThreadUnlimit, Goto, Live, LimitPhases, TypeOK
<1>9. CASE ThreadLimit(w)
  BY <1>7, <1>9 DEF ThreadLimit, Goto, Live, LimitPhases, TypeOK
<1>. QED
  BY <1>6, <1>8, <1>9 DEF ThreadStep, ThreadLaunch, ThreadTop, ThreadAgentStart,
     ThreadCall, ThreadWait

LEMMA ClientGate ==
  ASSUME GateWorld, TypeOK, Once, GateInv, ClientStep
  PROVE  GateInv'
<1>1. ASSUME NEW S
      PROVE  \A k \in Jobs : Ensured(S)[k] = "set" => event[k] = "set"
  BY DEF Ensured
<1>2. ASSUME NEW j \in Jobs, Startable(j)
      PROVE  ~Held(j) /\ ~Queued(j) /\ status[j] \notin Terminal
  BY <1>2 DEF Once, StartableIsFree, Scheduled, Startable, Terminal
<1>3. ASSUME NEW j \in Jobs, UNCHANGED queue \/ Enqueue(j)
      PROVE  /\ \A k \in Jobs : Queued(k)' => Queued(k) \/ k = j
             /\ Enqueue(j) => \A k \in Jobs : event'[k] = "set" => event[k] = "set"
  <2>1. \A k \in Jobs : Queued(k)' => Queued(k) \/ k = j
    BY <1>3, AppendQueued DEF Enqueue, Queued, TypeOK
  <2>. QED
    BY <1>1, <2>1 DEF Enqueue
<1>4. ASSUME NEW j \in Jobs, Startable(j), UNCHANGED <<queue, event>> \/ Enqueue(j),
             status' = [status EXCEPT ![j] = "queued"],
             \A k \in Jobs \ {j} : error'[k] = error[k] /\ deps'[k] = deps[k],
             UNCHANGED <<pc, cur>>
      PROVE  GateInv'
  <2>1. /\ status'[j] = "queued" /\ \A k \in Jobs \ {j} : status'[k] = status[k]
    BY <1>4 DEF TypeOK
  <2>. QED
    BY <1>2, <1>3, <1>4, <2>1, RequestGate
<1>5. ASSUME NEW j \in Jobs, NEW dep, NEW dom, NEW auto, AddJob(j, dep, dom, auto)
      PROVE  GateInv'
  <2>1. /\ Startable(j) /\ status' = [status EXCEPT ![j] = "queued"]
        /\ UNCHANGED <<error, pc, cur>>
    BY <1>5 DEF AddJob, NewRecord, Startable, workerVars
  <2>2. /\ UNCHANGED <<queue, event>> \/ Enqueue(j)
        /\ \A k \in Jobs \ {j} : deps'[k] = deps[k]
    BY <1>5 DEF AddJob, SmartEnqueue, TypeOK
  <2>. QED
    BY <1>4, <2>1, <2>2
<1>6. ASSUME NEW src \in Jobs, NEW j \in Jobs, RestartJob(src, j)
      PROVE  GateInv'
  <2>1. /\ Startable(j) /\ status' = [status EXCEPT ![j] = "queued"]
        /\ UNCHANGED <<error, pc, cur>> /\ Enqueue(j)
        /\ \A k \in Jobs \ {j} : deps'[k] = deps[k]
    BY <1>6 DEF RestartJob, NewRecord, Startable, workerVars, TypeOK
  <2>. QED
    BY <1>4, <2>1
<1>7. ASSUME NEW j \in Jobs, StartJob(j)
      PROVE  GateInv'
  <2>1. status[j] = "queued" /\ ~autoStarted[j] /\ UpdateStatus(j, "queued") /\ Enqueue(j)
        /\ UNCHANGED <<deps, pc, cur>>
    BY <1>7 DEF StartJob, StartRefused, GateWorld, StartedOnce, workerVars
  <2>2. /\ Startable(j) /\ status' = [status EXCEPT ![j] = "queued"]
        /\ \A k \in Jobs \ {j} : error'[k] = error[k]
    BY <2>1 DEF Startable, UpdateStatus, UpdateJob, Exists, TypeOK
  <2>. QED
    BY <1>4, <2>1, <2>2
<1>8. ASSUME NEW j \in Jobs, StopJob(j)
      PROVE  GateInv'
  <2>1. /\ status'[j] = "failed" /\ error'[j] = "user_stop" /\ "stop" \in Ops
        /\ status[j] \notin Terminal /\ UNCHANGED <<deps, queue, event, pc, cur>>
        /\ \A k \in Jobs \ {j} : status'[k] = status[k] /\ error'[k] = error[k]
    BY <1>8 DEF StopJob, UpdateJob, Exists, Live, Terminal, TypeOK
  <2>. QED
    BY <1>3, <2>1, RequestGate DEF RunStatus
<1>9. ASSUME NEW j \in Jobs, NEW s \in {"running", "paused"}, status[j] \in Live,
             UpdateStatus(j, s), UNCHANGED <<deps, queue, event, pc, cur>>
      PROVE  GateInv'
  <2>1. /\ status'[j] = s /\ \A k \in Jobs \ {j} : status'[k] = status[k] /\ error'[k] = error[k]
    BY <1>9 DEF UpdateStatus, UpdateJob, Exists, Live, TypeOK
  <2>2. status[j] \notin Terminal \cup {"queued"} /\ ~Queued(j)
    BY <1>9 DEF Live, Terminal, GateInv, StatusFits
  <2>3. RunStatus(status'[j], error'[j]) /\ s \notin {"deleted", "rate_limited"}
    BY <2>1 DEF RunStatus, Live
  <2>4. ~Queued(j)'
    BY <1>9, <2>2 DEF Queued
  <2>. QED
    BY <1>3, <1>9, <2>1, <2>2, <2>3, <2>4, RequestGate
<1>10. ASSUME NEW j \in Jobs, PauseJob(j) \/ ResumeJob(j)
       PROVE  GateInv'
  <2>1. status[j] \in Live /\ UNCHANGED <<deps, queue, event, pc, cur>>
        /\ \E s \in {"running", "paused"} : UpdateStatus(j, s)
    BY <1>10 DEF PauseJob, ResumeJob, Live, bridgeVars, workerVars
  <2>. QED
    BY <1>9, <2>1
<1>11. \A j \in Jobs : ~DeleteJob(j)
  BY DEF DeleteJob, GateWorld
<1>. QED
  BY <1>5, <1>6, <1>7, <1>8, <1>10, <1>11 DEF ClientStep, CreateJob, CloneJob, RetryJob

LEMMA RestartGate ==
  ASSUME TypeOK, GateInv, ServerRestart
  PROVE  GateInv'
<1>1. \A k \in Jobs : ~Queued(k)' /\ event'[k] # "set"
  BY DEF ServerRestart, Queued
<1>2. \A w \in Workers : ~Executing(w)' /\ pc'[w] = "idle"
  BY DEF ServerRestart, Executing, ThreadPhases, EndPhases
<1>3. \A k \in Jobs : status'[k] \in {status[k], "failed"}
  BY DEF ServerRestart
<1>. QED
  BY <1>1, <1>2, <1>3
  DEF GateInv, StatusFits, Unlimited, LimitPhases, SetMeansEnded, GatedByPrerequisites

LEMMA StutterGate ==
  ASSUME GateInv, UNCHANGED vars
  PROVE  GateInv'
  BY DEF GateInv, StatusFits, Unlimited, SetMeansEnded, GatedByPrerequisites, Executing, Queued,
     RunStatus, vars, storeVars, bridgeVars, workerVars

LEMMA StepGate ==
  ASSUME GateWorld, TypeOK, Once, GateInv, [Next]_vars
  PROVE  GateInv'
  BY WorkerGate, ThreadGate, ClientGate, RestartGate, StutterGate DEF Next

LEMMA GateInvariant ==
  ASSUME GateWorld
  PROVE  Spec => [](TypeOK /\ Once /\ GateInv)
<1>1. Init => GateInv
  BY DEF Init, GateInv, StatusFits, Unlimited, LimitPhases, SetMeansEnded, GatedByPrerequisites,
     Executing, ThreadPhases, EndPhases, Queued
<1>2. TypeOK /\ Once /\ GateInv /\ [Next]_vars => Once' /\ GateInv'
  BY StepOnce, StepGate DEF GateWorld
<1>. QED
  BY <1>1, <1>2, InitOnce, TypeCorrect, PTL DEF Spec

\* In a gate world a job runs only when, and only as long as, every one of its
\* prerequisites is COMPLETED.
THEOREM GateHolds ==
  ASSUME GateWorld
  PROVE  Spec => []GatedByPrerequisites
<1>1. GateInv => GatedByPrerequisites
  BY DEF GateInv
<1>. QED
  BY <1>1, GateInvariant, PTL

-----------------------------------------------------------------------------
(* The bridge implements GatedJobs.                                        *)

Unseen == UNCHANGED Gate!vars

LEMMA UnseenStep ==
  ASSUME deps' = deps,
         \A k \in Jobs : status'[k] = status[k] \/ (status[k] \in Live /\ status'[k] \in Live)
  PROVE  Unseen
  BY DEF Unseen, Gate!vars, Phase

LEMMA FailStep ==
  ASSUME NEW S \in SUBSET Jobs, deps' = deps,
         \A k \in S : status[k] \in Live \cup {"queued"} /\ status'[k] = "failed",
         \A k \in Jobs \ S : status'[k] = status[k]
  PROVE  Gate!Next
<1>1. \A k \in S : Phase(k) \in {"queued", "running"}
  BY DEF Phase, Live
<1>2. \A k \in Jobs : Phase(k)' = IF k \in S THEN "failed" ELSE Phase(k)
  BY DEF Phase, Live
<1>3. Gate!Fail(S)
  BY <1>1, <1>2 DEF Gate!Fail
<1>. QED
  BY <1>3 DEF Gate!Next

LEMMA FailOneStep ==
  ASSUME NEW j \in Jobs, deps' = deps,
         status[j] \in Live \cup {"queued"}, status'[j] = "failed",
         \A k \in Jobs \ {j} : status'[k] = status[k]
  PROVE  Gate!Next
<1>1. {j} \in SUBSET Jobs
  OBVIOUS
<1>. QED
  BY <1>1, FailStep

LEMMA BeginStep ==
  ASSUME TypeOK, NEW j \in Jobs, deps' = deps, status[j] = "queued", status'[j] \in Live,
         \A k \in Jobs \ {j} : status'[k] = status[k],
         \A d \in deps[j] : status[d] = "completed"
  PROVE  Gate!Next
<1>1. Phase(j) = "queued" /\ \A d \in deps[j] : d \in Jobs /\ Phase(d) = "completed"
  BY DEF Phase, Live, TypeOK
<1>2. \A k \in Jobs : Phase(k)' = IF k = j THEN "running" ELSE Phase(k)
  BY DEF Phase
<1>3. Gate!Begin(j)
  BY <1>1, <1>2 DEF Gate!Begin
<1>. QED
  BY <1>3 DEF Gate!Next

LEMMA CompleteStep ==
  ASSUME NEW j \in Jobs, deps' = deps, status[j] \in Live, status'[j] = "completed",
         \A k \in Jobs \ {j} : status'[k] = status[k]
  PROVE  Gate!Next
<1>1. Phase(j) = "running" /\ \A k \in Jobs : Phase(k)' = IF k = j THEN "completed" ELSE Phase(k)
  BY DEF Phase, Live
<1>2. Gate!Complete(j)
  BY <1>1 DEF Gate!Complete
<1>. QED
  BY <1>2 DEF Gate!Next

LEMMA CreateStep ==
  ASSUME TypeOK, NEW j \in Jobs, NEW dep \in SUBSET Jobs,
         deps' = [deps EXCEPT ![j] = dep],
         status[j] = "absent", status' = [status EXCEPT ![j] = "queued"],
         \A d \in dep : status[d] # "absent"
  PROVE  Gate!Next
<1>1. Phase(j) = "absent" /\ \A d \in dep : Phase(d) # "absent"
  BY DEF Phase, Live
<1>2. \A k \in Jobs : Phase(k)' = IF k = j THEN "queued" ELSE Phase(k)
  BY DEF Phase, Live, TypeOK
<1>3. Gate!Create(j, dep)
  BY <1>1, <1>2 DEF Gate!Create
<1>. QED
  BY <1>3 DEF Gate!Next

LEMMA RunJobImplements ==
  ASSUME TypeOK, NEW w \in Workers, NEW j \in Jobs, NEW ev, RunJob(w, j, ev), deps' = deps,
         status[j] \in {"queued", "failed"},
         \A d \in deps[j] : status[d] = "completed"
  PROVE  Gate!Next \/ Unseen
<1>1. CASE UNCHANGED status
  BY <1>1, UnseenStep
<1>2. CASE ~SkipsRun(j) /\ UpdateJob(j, "running", "none")
  <2>1. /\ status[j] = "queued" /\ status'[j] \in Live
        /\ \A k \in Jobs \ {j} : status'[k] = status[k]
    BY <1>2 DEF SkipsRun, Terminal, UpdateJob, Exists, Live, TypeOK
  <2>. QED
    BY <2>1, BeginStep
<1>3. CASE ~SkipsRun(j) /\ UpdateJob(j, "failed", "other")
  <2>1. /\ status[j] = "queued" /\ status'[j] = "failed"
        /\ \A k \in Jobs \ {j} : status'[k] = status[k]
    BY <1>3 DEF SkipsRun, Terminal, UpdateJob, Exists, TypeOK
  <2>. QED
    BY <2>1, FailOneStep
<1>. QED
  BY <1>1, <1>2, <1>3 DEF RunJob

LEMMA WorkerImplements ==
  ASSUME TypeOK, GateInv, NEW w \in Workers, WorkerStep(w)
  PROVE  Gate!Next \/ Unseen
<1>0. deps' = deps
  BY DEF WorkerStep, WorkerTake, DepsFailed, DepTimeout, FailUnrun, DepsSatisfied, RunEnd
<1>1. CASE WorkerTake(w)
  <2>. PICK j \in Jobs : j = Head(queue)
    BY <1>1, TailQueued DEF TypeOK, WorkerTake
  <2>1. status[j] \in {"queued", "failed"}
    BY <1>1, TailQueued DEF TypeOK, WorkerTake, GateInv, StatusFits
  <2>2. CASE deps[j] = {} /\ RunJob(w, j, event)
    BY <1>0, <2>1, <2>2, RunJobImplements
  <2>3. CASE UNCHANGED status
    BY <1>0, <2>3, UnseenStep
  <2>. QED
    BY <1>1, <2>1, <2>2, <2>3 DEF WorkerTake
<1>2. CASE DepsFailed(w) \/ DepTimeout(w)
  <2>1. pc[w] = "waiting" /\ FailUnrun(w) /\ cur[w] \in Jobs
    BY <1>2 DEF DepsFailed, DepTimeout, TypeOK
  <2>2. status[cur[w]] \in {"queued", "failed"}
    BY <2>1 DEF GateInv, StatusFits
  <2>3. status'[cur[w]] = "failed" /\ \A k \in Jobs \ {cur[w]} : status'[k] = status[k]
    BY <2>1, <2>2 DEF FailUnrun, UpdateJob, Exists, TypeOK
  <2>. QED
    BY <1>0, <2>1, <2>2, <2>3, FailOneStep, UnseenStep
<1>3. CASE DepsSatisfied(w)
  <2>1. pc[w] = "waiting" /\ RunJob(w, cur[w], event) /\ cur[w] \in Jobs
    BY <1>3 DEF DepsSatisfied, TypeOK
  <2>2. status[cur[w]] \in {"queued", "failed"}
    BY <2>1 DEF GateInv, StatusFits
  <2>. QED
    BY <1>0, <1>3, <2>1, <2>2, PassedGate, RunJobImplements DEF DepsSatisfied
<1>4. CASE RunEnd(w)
  <2>1. cur[w] \in Jobs /\ RunStatus(status[cur[w]], error[cur[w]])
    BY <1>4 DEF RunEnd, Executing, GateInv, StatusFits, EndPhases, TypeOK
  <2>2. CASE KeepsUserStop(w)
    BY <1>0, <1>4, <2>2, UnseenStep DEF RunEnd
  <2>3. CASE ~KeepsUserStop(w)
    <3>1. \A k \in Jobs \ {cur[w]} : status'[k] = status[k]
      BY <1>4, <2>1, <2>3 DEF RunEnd, UpdateJob, TypeOK
    <3>2. CASE status[cur[w]] \in Live
      <4>1. status'[cur[w]] \in Terminal
        BY <1>4, <2>1, <2>3, <3>2 DEF RunEnd, UpdateJob, Exists, Live, Terminal, TypeOK
      <4>. QED
        BY <1>0, <2>1, <3>1, <3>2, <4>1, CompleteStep, FailOneStep DEF Terminal
    <3>3. CASE status[cur[w]] = "failed" /\ error[cur[w]] = "user_stop"
      <4>1. pc[w] = "raise"
        BY <2>3, <3>3 DEF KeepsUserStop
      <4>2. status'[cur[w]] = "failed"
        BY <1>4, <2>1, <2>3, <3>3, <4>1 DEF RunEnd, UpdateJob, Exists, TypeOK
      <4>. QED
        BY <1>0, <3>1, <3>3, <4>2, UnseenStep
    <3>. QED
      BY <2>1, <3>2, <3>3 DEF RunStatus
  <2>. QED
    BY <2>2, <2>3
<1>. QED
  BY <1>1, <1>2, <1>3, <1>4 DEF WorkerStep

LEMMA ThreadImplements ==
  ASSUME GateWorld, TypeOK, GateInv, NEW w \in Workers, ThreadStep(w)
  PROVE  Unseen
<1>1. Executing(w) /\ cur[w] \in Jobs /\ deps' = deps
  BY DEF Executing, ThreadPhases, EndPhases, ThreadStep, ThreadLaunch, OnlyThread,
     ThreadTop, ThreadAgentStart, ThreadUnlimit, ThreadCall, ThreadLimit, ThreadWait,
     storeVars, TypeOK
<1>2. CASE UNCHANGED status
  BY <1>1, <1>2, UnseenStep
<1>3. ASSUME NEW s \in Live, UpdateStatus(cur[w], s), pc[w] \in LimitPhases
      PROVE  Unseen
  <2>1. status[cur[w]] \in Live
    BY <1>1, <1>3 DEF GateInv, Unlimited, GateWorld, StatusFits, RunStatus
  <2>2. status'[cur[w]] = s /\ \A k \in Jobs \ {cur[w]} : status'[k] = status[k]
    BY <1>1, <1>3, <2>1 DEF UpdateStatus, UpdateJob, Exists, Live, TypeOK
  <2>. QED
    BY <1>1, <2>1, <2>2, UnseenStep
<1>4. CASE ThreadUnlimit(w)
  BY <1>3, <1>4 DEF ThreadUnlimit, Live, LimitPhases
<1>5. CASE ThreadLimit(w)
  BY <1>3, <1>5 DEF ThreadLimit, Live, LimitPhases
<1>. QED
  BY <1>2, <1>4, <1>5 DEF ThreadStep, ThreadLaunch, ThreadTop, ThreadAgentStart,
     ThreadCall, ThreadWait, OnlyThread, storeVars

LEMMA ClientImplements ==
  ASSUME GateWorld, TypeOK, NoJobStranded, Once, ClientStep
  PROVE  Gate!Next \/ Unseen
<1>1. \A d \in active : d \in Jobs /\ status[d] # "absent"
  BY DEF TypeOK, NoJobStranded, ActiveJobIsScheduled, Once, StartableIsFree, Startable
<1>2. ASSUME NEW j \in Jobs, NEW dep \in SUBSET Jobs, NEW dom, NEW auto,
             AddJob(j, dep, dom, auto), \A d \in dep : status[d] # "absent"
      PROVE  Gate!Next
  <2>1. status[j] = "absent" /\ status' = [status EXCEPT ![j] = "queued"]
    BY <1>2 DEF AddJob, NewRecord
  <2>2. \A d \in dep \cup HardConflicts(dom) : d \in Jobs /\ status[d] # "absent"
    BY <1>1, <1>2 DEF Exists, HardConflicts
  <2>3. \/ deps' = [deps EXCEPT ![j] = dep]
        \/ deps' = [deps EXCEPT ![j] = dep \cup HardConflicts(dom)]
    BY <1>2 DEF AddJob, SmartEnqueue
  <2>4. dep \cup HardConflicts(dom) \in SUBSET Jobs
    BY <2>2
  <2>. QED
    BY <2>1, <2>2, <2>3, <2>4, CreateStep
<1>3. ASSUME NEW src \in Jobs, NEW j \in Jobs, RestartJob(src, j)
      PROVE  Gate!Next
  <2>1. /\ status[j] = "absent" /\ status' = [status EXCEPT ![j] = "queued"]
        /\ deps' = [deps EXCEPT ![j] = {}]
    BY <1>3 DEF RestartJob, NewRecord
  <2>2. {} \in SUBSET Jobs /\ \A d \in {} : status[d] # "absent"
    OBVIOUS
  <2>. QED
    BY <2>1, <2>2, CreateStep
<1>4. ASSUME NEW j \in Jobs, StartJob(j)
      PROVE  Unseen
  <2>1. status[j] = "queued" /\ UpdateStatus(j, "queued") /\ deps' = deps
    BY <1>4 DEF StartJob, StartRefused, GateWorld, StartedOnce
  <2>2. \A k \in Jobs : status'[k] = status[k]
    BY <2>1 DEF UpdateStatus, UpdateJob, TypeOK
  <2>. QED
    BY <2>1, <2>2, UnseenStep
<1>5. ASSUME NEW j \in Jobs, StopJob(j)
      PROVE  Gate!Next
  <2>1. /\ status[j] \in Live \cup {"queued"} /\ status'[j] = "failed" /\ deps' = deps
        /\ \A k \in Jobs \ {j} : status'[k] = status[k]
    BY <1>5 DEF StopJob, UpdateJob, Exists, Live, TypeOK
  <2>. QED
    BY <2>1, FailOneStep
<1>6. ASSUME NEW j \in Jobs, PauseJob(j) \/ ResumeJob(j)
      PROVE  Unseen
  <2>1. /\ status[j] \in Live /\ status'[j] \in Live /\ deps' = deps
        /\ \A k \in Jobs \ {j} : status'[k] = status[k]
    BY <1>6 DEF PauseJob, ResumeJob, UpdateStatus, UpdateJob, Exists, Live, TypeOK
  <2>. QED
    BY <2>1, UnseenStep
<1>7. \A j \in Jobs : ~DeleteJob(j)
  BY DEF DeleteJob, GateWorld
<1>8. ASSUME NEW src \in Jobs, NEW j \in Jobs, NEW dom, NEW auto,
             CloneJob(src, j, dom, auto) \/ RetryJob(src, j, dom)
      PROVE  Gate!Next
  <2>1. AddJob(j, {}, dom, auto) \/ AddJob(j, {}, dom, TRUE)
    BY <1>8 DEF CloneJob, RetryJob
  <2>2. {} \in SUBSET Jobs /\ \A d \in {} : status[d] # "absent"
    OBVIOUS
  <2>. QED
    BY <1>2, <2>1, <2>2
<1>9. ASSUME NEW j \in Jobs, NEW dep \in SUBSET Jobs, NEW dom, NEW auto,
             CreateJob(j, dep, dom, auto)
      PROVE  Gate!Next
  BY <1>2, <1>9 DEF CreateJob
<1>. QED
  BY <1>3, <1>4, <1>5, <1>6, <1>7, <1>8, <1>9 DEF ClientStep

\* In a gate world the bridge implements GatedJobs: jobs go one way, end once,
\* and begin when their prerequisites are completed.
THEOREM BridgeImplementsGate ==
  ASSUME GateWorld
  PROVE  Spec => ImplementsGatedJobs
<1>1. Init => Gate!Init
  BY DEF Init, Gate!Init, Phase, Live
<1>2. TypeOK /\ NoJobStranded /\ Once /\ GateInv /\ [Next]_vars => [Gate!Next]_(Gate!vars)
  <2>1. UNCHANGED vars => Unseen
    BY UnseenStep DEF vars, storeVars
  <2>2. ServerRestart => Gate!Next
    <3>1. Interrupted \in SUBSET Jobs
      BY DEF Interrupted
    <3>2. ASSUME ServerRestart
          PROVE  /\ deps' = deps
                 /\ \A k \in Interrupted : status[k] \in Live \cup {"queued"} /\ status'[k] = "failed"
                 /\ \A k \in Jobs \ Interrupted : status'[k] = status[k]
      BY <3>2 DEF ServerRestart, Interrupted
    <3>. QED
      BY <3>1, <3>2, FailStep
  <2>. QED
    BY <2>1, <2>2, WorkerImplements, ThreadImplements, ClientImplements DEF Next, Unseen
<1>. QED
  BY <1>1, <1>2, GateInvariant, NobodyStranded, PTL DEF Spec, ImplementsGatedJobs, Gate!Spec

-----------------------------------------------------------------------------
(* Jobs that name a common resource.                                       *)

\* Besides what the gate needs: every job that runs entered by smart_enqueue.
\* START and RESTART do not ask the conflict registry.
SequencedWorld == GateWorld /\ {"start", "restart"} \cap Ops = {}

Overlap(j, k) == (domains[j] \cap domains[k]) \ {SoftExclusive} # {}

\* The registry knows every job the bridge has, so of two that overlap the later
\* one was made to wait for the other.
Sequenced ==
  /\ \A j \in Jobs : Scheduled(j) => j \in active
  /\ \A j, k \in Jobs :
       j # k /\ Scheduled(j) /\ Scheduled(k) /\ Overlap(j, k) => j \in deps[k] \/ k \in deps[j]

\* A step that schedules nothing and takes only what it ends off the registry.
LEMMA QuietSequenced ==
  ASSUME Sequenced, UNCHANGED <<deps, domains>>,
         \A k \in Jobs : Scheduled(k)' => Scheduled(k) /\ (k \in active => k \in active')
  PROVE  Sequenced'
  BY DEF Sequenced, Overlap

\* A worker takes its job off the registry when it lets it go, and only then.
LEMMA HolderRegistry ==
  ASSUME TypeOK, Once, NEW w \in Workers, NEW j \in Jobs,
         \A v \in Workers \ {w} : cur'[v] = cur[v],
         \A k \in Jobs : Queued(k)' => Queued(k) /\ k # j,
         \A v \in Workers \ {w} : cur[v] # j,
         Scheduled(j),
         \/ cur'[w] = j /\ active' = active
         \/ cur'[w] = NoJob /\ active' = active \ {j}
  PROVE  \A k \in Jobs : Scheduled(k)' => Scheduled(k) /\ (k \in active => k \in active')
<1>. SUFFICES ASSUME NEW k \in Jobs, Scheduled(k)'
              PROVE  Scheduled(k) /\ (k \in active => k \in active')
  OBVIOUS
<1>1. CASE k = j
  <2>1. ~Queued(k)' /\ Held(k)'
    BY <1>1 DEF Scheduled
  <2>2. cur'[w] = j
    BY <1>1, <2>1 DEF Held
  <2>. QED
    BY <1>1, <2>2, JobsAssumption
<1>2. CASE k # j
  <2>1. k \in active => k \in active'
    BY <1>2
  <2>2. Held(k)' => Held(k)
    BY <1>2, JobsAssumption DEF Held
  <2>. QED
    BY <2>1, <2>2 DEF Scheduled
<1>. QED
  BY <1>1, <1>2

LEMMA WorkerSequenced ==
  ASSUME TypeOK, Once, Sequenced, NEW w \in Workers, WorkerStep(w)
  PROVE  Sequenced'
<1>0. UNCHANGED <<deps, domains>>
  BY DEF WorkerStep, WorkerTake, DepsFailed, DepTimeout, FailUnrun, DepsSatisfied, RunEnd
<1>1. ASSUME NEW j \in Jobs, Scheduled(j),
             \A k \in Jobs : Queued(k)' => Queued(k) /\ k # j,
             \A v \in Workers \ {w} : cur[v] # j,
             \/ cur' = [cur EXCEPT ![w] = j] /\ active' = active
             \/ cur' = [cur EXCEPT ![w] = NoJob] /\ active' = active \ {j}
      PROVE  Sequenced'
  <2>1. /\ \A v \in Workers \ {w} : cur'[v] = cur[v]
        /\ \/ cur'[w] = j /\ active' = active
           \/ cur'[w] = NoJob /\ active' = active \ {j}
    BY <1>1 DEF TypeOK
  <2>2. \A k \in Jobs : Scheduled(k)' => Scheduled(k) /\ (k \in active => k \in active')
    BY <1>1, <2>1, HolderRegistry
  <2>. QED
    BY <1>0, <2>2, QuietSequenced
<1>2. ASSUME NEW j \in Jobs, NEW ev, RunJob(w, j, ev)
      PROVE  \/ cur' = [cur EXCEPT ![w] = j] /\ active' = active
             \/ cur' = [cur EXCEPT ![w] = NoJob] /\ active' = active \ {j}
  BY <1>2 DEF RunJob, Leave
<1>3. ASSUME pc[w] \in EndPhases \cup {"waiting"}, queue' = queue
      PROVE  /\ cur[w] \in Jobs /\ Scheduled(cur[w])
             /\ \A v \in Workers \ {w} : cur[v] # cur[w]
             /\ \A k \in Jobs : Queued(k)' => Queued(k) /\ k # cur[w]
  <2>1. cur[w] \in Jobs /\ cur[w] # NoJob /\ Held(cur[w])
    BY <1>3, JobsAssumption DEF TypeOK, EndPhases, Held
  <2>2. ~Queued(cur[w]) /\ \A v \in Workers \ {w} : cur[v] # cur[w]
    BY <2>1 DEF Once, AtMostOneRun
  <2>. QED
    BY <1>3, <2>1, <2>2 DEF Queued, Scheduled
<1>4. CASE WorkerTake(w)
  <2>. PICK j \in Jobs : j = Head(queue)
    BY <1>4, TailQueued DEF TypeOK, WorkerTake
  <2>1. /\ Queued(j) /\ ~Queued(j)'
        /\ \A k \in Jobs : Queued(k)' => Queued(k)
    <3>1. queue \in Seq(Jobs) /\ QueueOnce /\ queue # <<>> /\ queue' = Tail(queue)
      BY <1>4 DEF TypeOK, Once, AtMostOneRun, QueueOnce, WorkerTake
    <3>. QED
      BY <3>1, TailQueued, TailOnce
  <2>2. Scheduled(j) /\ \A v \in Workers : cur[v] # j
    BY <2>1 DEF Once, AtMostOneRun, Held, Scheduled
  <2>3. \/ cur' = [cur EXCEPT ![w] = j] /\ active' = active
        \/ cur' = [cur EXCEPT ![w] = NoJob] /\ active' = active \ {j}
    BY <1>2, <1>4 DEF WorkerTake
  <2>. QED
    BY <1>1, <2>1, <2>2, <2>3
<1>5. CASE DepsFailed(w) \/ DepTimeout(w)
  <2>1. /\ pc[w] = "waiting" /\ queue' = queue
        /\ cur' = [cur EXCEPT ![w] = NoJob] /\ active' = active \ {cur[w]}
    BY <1>5 DEF DepsFailed, DepTimeout, FailUnrun, Leave
  <2>. QED
    BY <1>1, <1>3, <2>1
<1>6. CASE DepsSatisfied(w)
  <2>1. pc[w] = "waiting" /\ queue' = queue /\ RunJob(w, cur[w], event)
    BY <1>6 DEF DepsSatisfied
  <2>. QED
    BY <1>1, <1>2, <1>3, <2>1
<1>7. CASE RunEnd(w)
  <2>1. /\ pc[w] \in EndPhases /\ queue' = queue
        /\ cur' = [cur EXCEPT ![w] = NoJob] /\ active' = active \ {cur[w]}
    BY <1>7 DEF RunEnd, Leave
  <2>. QED
    BY <1>1, <1>3, <2>1
<1>. QED
  BY <1>4, <1>5, <1>6, <1>7 DEF WorkerStep

\* smart_enqueue finds every job that overlaps the new one in the registry.
LEMMA AddSequenced ==
  ASSUME TypeOK, Once, Sequenced, NEW j \in Jobs, NEW dep, NEW dom, NEW auto,
         AddJob(j, dep, dom, auto)
  PROVE  Sequenced'
<1>1. /\ ~Scheduled(j) /\ cur' = cur
      /\ domains'[j] = dom /\ \A k \in Jobs \ {j} : domains'[k] = domains[k]
  BY DEF AddJob, NewRecord, workerVars, Once, StartableIsFree, Startable, TypeOK
<1>2. CASE UNCHANGED <<queue, active>>
  <2>1. \A k \in Jobs : (Scheduled(k)' <=> Scheduled(k)) /\ (Scheduled(k) => k # j)
    BY <1>1, <1>2 DEF Scheduled, Queued, Held
  <2>2. \A k \in Jobs \ {j} : deps'[k] = deps[k]
    BY DEF AddJob, SmartEnqueue, TypeOK
  <2>. QED
    BY <1>1, <1>2, <2>1, <2>2 DEF Sequenced, Overlap
<1>3. CASE SmartEnqueue(j, dep, dom)
  <2>1. /\ deps'[j] = dep \cup HardConflicts(dom)
        /\ \A k \in Jobs \ {j} : deps'[k] = deps[k]
        /\ active' = active \cup {j}
    BY <1>3 DEF SmartEnqueue, TypeOK
  <2>2. \A k \in Jobs : Scheduled(k)' <=> Scheduled(k) \/ k = j
    BY <1>1, <1>3, AppendQueued DEF SmartEnqueue, Enqueue, Scheduled, Held, TypeOK
  <2>3. ASSUME NEW k \in Jobs \ {j}, Scheduled(k), (domains[k] \cap dom) \ {SoftExclusive} # {}
        PROVE  k \in deps'[j]
    BY <2>1, <2>3 DEF Sequenced, HardConflicts
  <2>4. ASSUME NEW k \in Jobs \ {j}, Scheduled(k), Overlap(j, k)' \/ Overlap(k, j)'
        PROVE  k \in deps'[j]
    <3>1. (domains[k] \cap dom) \ {SoftExclusive} # {}
      BY <1>1, <2>4 DEF Overlap
    <3>. QED
      BY <2>3, <2>4, <3>1
  <2>5. ASSUME NEW i \in Jobs \ {j}, NEW k \in Jobs \ {j}
        PROVE  /\ Overlap(i, k)' <=> Overlap(i, k)
               /\ deps'[i] = deps[i] /\ deps'[k] = deps[k]
    BY <1>1, <2>1 DEF Overlap
  <2>. QED
    BY <2>1, <2>2, <2>4, <2>5 DEF Sequenced
<1>. QED
  BY <1>2, <1>3 DEF AddJob

LEMMA ClientSequenced ==
  ASSUME SequencedWorld, TypeOK, Once, Sequenced, ClientStep
  PROVE  Sequenced'
<1>1. ASSUME NEW j \in Jobs, StopJob(j) \/ PauseJob(j) \/ ResumeJob(j) \/ DeleteJob(j)
      PROVE  Sequenced'
  <2>1. UNCHANGED <<deps, domains, queue, active, cur>>
    BY <1>1 DEF StopJob, PauseJob, ResumeJob, DeleteJob, bridgeVars, workerVars
  <2>2. \A k \in Jobs : Scheduled(k)' => Scheduled(k)
    BY <2>1 DEF Scheduled, Queued, Held
  <2>. QED
    BY <2>1, <2>2, QuietSequenced
<1>2. \A src, j \in Jobs : ~RestartJob(src, j) /\ ~StartJob(j)
  BY DEF SequencedWorld, GateWorld, StartedOnce, RestartJob, StartJob
<1>. QED
  BY <1>1, <1>2, AddSequenced DEF ClientStep, CreateJob, CloneJob, RetryJob

\* Of two jobs that overlap one is a prerequisite of the other, and an executing
\* job's prerequisites are COMPLETED, which an executing job is not.
LEMMA SequencedExcludes ==
  ASSUME TypeOK, Once, GateInv, Sequenced
  PROVE  ConflictingJobsExclude
<1>1. ASSUME NEW v \in Workers, Executing(v)
      PROVE  /\ cur[v] \in Jobs /\ Scheduled(cur[v]) /\ status[cur[v]] # "completed"
             /\ \A d \in deps[cur[v]] : status[d] = "completed"
  <2>1. cur[v] \in Jobs /\ Held(cur[v])
    BY <1>1, JobsAssumption DEF TypeOK, Executing, ThreadPhases, EndPhases, Held
  <2>2. RunStatus(status[cur[v]], error[cur[v]])
    BY <1>1 DEF GateInv, StatusFits
  <2>3. \A d \in deps[cur[v]] : status[d] = "completed"
    BY <1>1 DEF GateInv, GatedByPrerequisites
  <2>. QED
    BY <2>1, <2>2, <2>3 DEF Scheduled, RunStatus, Live
<1>2. SUFFICES ASSUME NEW v \in Workers, NEW w \in Workers,
                      v # w, Executing(v), Executing(w), Overlap(cur[v], cur[w])
               PROVE  FALSE
  BY DEF ConflictingJobsExclude, Overlap
<1>3. cur[v] # cur[w]
  BY <1>1, JobsAssumption, <1>2 DEF Once, AtMostOneRun
<1>4. cur[v] \in deps[cur[w]] \/ cur[w] \in deps[cur[v]]
  BY <1>1, <1>2, <1>3 DEF Sequenced
<1>. QED
  BY <1>1, <1>2, <1>4

\* Where every job that runs was sequenced when it was created, two jobs that
\* name a common resource never run at the same time.
THEOREM ConflictsExclude ==
  ASSUME SequencedWorld
  PROVE  Spec => []ConflictingJobsExclude
<1>1. Init => Sequenced
  BY JobsAssumption DEF Init, Sequenced, Scheduled, Queued, Held
<1>2. TypeOK /\ Once /\ Sequenced /\ [Next]_vars => Sequenced'
  <2>1. Sequenced /\ UNCHANGED vars => Sequenced'
    BY QuietSequenced
    DEF vars, storeVars, bridgeVars, workerVars, Scheduled, Queued, Held
  <2>2. TypeOK /\ Sequenced /\ (\E w \in Workers : ThreadStep(w)) => Sequenced'
    <3>1. ASSUME NEW w \in Workers, ThreadStep(w)
          PROVE  UNCHANGED <<deps, domains, queue, active, cur>>
      BY <3>1 DEF ThreadStep, ThreadLaunch, ThreadTop, ThreadAgentStart, ThreadUnlimit,
         ThreadCall, ThreadLimit, ThreadWait, OnlyThread, storeVars, bridgeVars
    <3>. QED
      BY <3>1, QuietSequenced DEF Scheduled, Queued, Held
  <2>3. ServerRestart => Sequenced'
    BY JobsAssumption DEF ServerRestart, Sequenced, Scheduled, Queued, Held
  <2>. QED
    BY <2>1, <2>2, <2>3, WorkerSequenced, ClientSequenced DEF Next
<1>3. TypeOK /\ Once /\ GateInv /\ Sequenced => ConflictingJobsExclude
  BY SequencedExcludes
<1>. QED
  BY <1>1, <1>2, <1>3, GateInvariant, PTL DEF Spec, SequencedWorld

-----------------------------------------------------------------------------
(* Waits for prerequisites.                                                *)

\* Every job is enqueued when it is created.
NoneAside == "manual" \notin Ops

AllStarted == \A j \in Jobs : Exists(j) => autoStarted[j]

\* Prerequisites are ids that were there, or gone, when the job was created.
DepsExist == \A j \in Jobs : \A d \in deps[j] : status[d] # "absent"

\* What is queued or held was created.
Present == \A j \in Jobs : Scheduled(j) => status[j] # "absent"

\* The event of a job that is not set has somebody who will set it.
ClearScheduled ==
  \A j \in Jobs : event[j] = "clear" => Scheduled(j) \/ status[j] = "deleted"

\* There is an event for whatever a worker waits for.
WaitSeen ==
  \A w \in Workers : pc[w] = "waiting" => \A d \in deps[cur[w]] : event[d] # "none"

WaitInv == AllStarted /\ DepsExist /\ Present /\ ClearScheduled /\ WaitSeen

\* A record that is neither created nor, by update_job, deleted.
KeepsRecord(k) ==
  (status'[k] = "absent" <=> status[k] = "absent") /\ (status'[k] = "deleted" <=> status[k] = "deleted")

\* A step that creates nothing and starts no wait.
LEMMA QuietWait ==
  ASSUME WaitInv, TypeOK, deps' = deps,
         \A k \in Jobs : /\ status'[k] = "absent" <=> status[k] = "absent"
                         /\ status[k] = "deleted" => status'[k] = "deleted"
                         /\ autoStarted[k] => autoStarted'[k],
         \A k \in Jobs : /\ Scheduled(k)' => Scheduled(k)
                         /\ event[k] # "none" => event'[k] # "none"
                         /\ event'[k] = "clear" =>
                              event[k] = "clear" /\ (Scheduled(k) => Scheduled(k)'),
         \A w \in Workers : pc'[w] = "waiting" => pc[w] = "waiting" /\ cur'[w] = cur[w]
  PROVE  WaitInv'
<1>1. AllStarted' /\ Present'
  BY DEF WaitInv, AllStarted, Present, Exists
<1>2. ClearScheduled'
  BY DEF WaitInv, ClearScheduled
<1>3. DepsExist'
  BY DEF WaitInv, DepsExist, TypeOK
<1>4. WaitSeen'
  BY DEF WaitInv, WaitSeen, TypeOK
<1>. QED
  BY <1>1, <1>2, <1>3, <1>4 DEF WaitInv

\* No worker schedules a job.
LEMMA WorkerSchedules ==
  ASSUME TypeOK, NEW w \in Workers, WorkerStep(w)
  PROVE  \A k \in Jobs : Scheduled(k)' => Scheduled(k)
<1>1. ASSUME NEW j, \/ cur' = [cur EXCEPT ![w] = j]
                    \/ cur' = [cur EXCEPT ![w] = NoJob],
             Scheduled(j), \A k \in Jobs : Queued(k)' => Queued(k)
      PROVE  \A k \in Jobs : Scheduled(k)' => Scheduled(k)
  <2>1. \A k \in Jobs : Held(k)' => Held(k) \/ k = j
    BY <1>1, JobsAssumption DEF Held, TypeOK
  <2>. QED
    BY <1>1, <2>1 DEF Scheduled
<1>2. ASSUME NEW j, NEW ev, RunJob(w, j, ev)
      PROVE  cur' = [cur EXCEPT ![w] = j] \/ cur' = [cur EXCEPT ![w] = NoJob]
  BY <1>2 DEF RunJob, Leave
<1>3. CASE WorkerTake(w)
  <2>1. Queued(Head(queue)) /\ \A k \in Jobs : Queued(k)' => Queued(k)
    BY <1>3, TailQueued DEF TypeOK, WorkerTake
  <2>2. \/ cur' = [cur EXCEPT ![w] = Head(queue)]
        \/ cur' = [cur EXCEPT ![w] = NoJob]
    BY <1>2, <1>3 DEF WorkerTake
  <2>. QED
    BY <1>1, <2>1, <2>2 DEF Scheduled
<1>4. CASE DepsFailed(w) \/ DepTimeout(w) \/ DepsSatisfied(w) \/ RunEnd(w)
  <2>1. queue' = queue
    BY <1>4 DEF DepsFailed, DepTimeout, FailUnrun, DepsSatisfied, RunEnd
  <2>2. \/ cur' = [cur EXCEPT ![w] = cur[w]]
        \/ cur' = [cur EXCEPT ![w] = NoJob]
    BY <1>2, <1>4 DEF DepsFailed, DepTimeout, FailUnrun, DepsSatisfied, RunEnd, Leave
  <2>3. Scheduled(cur[w])
    BY DEF Scheduled, Held
  <2>. QED
    BY <1>1, <2>1, <2>2, <2>3 DEF Queued
<1>. QED
  BY <1>3, <1>4 DEF WorkerStep

\* update_job keeps jobs where they are: there, or not there.
LEMMA UpdateKeeps ==
  ASSUME TypeOK, NEW j \in Jobs, NEW s \in Live \cup Terminal \cup {"queued"}, NEW e,
         UpdateJob(j, s, e), NEW k \in Jobs
  PROVE  KeepsRecord(k)
  BY DEF KeepsRecord, UpdateJob, Exists, Live, Terminal, TypeOK

\* What RunJob does to the job it is called for: it keeps it scheduled or sets
\* its event.
LEMMA RunJobWait ==
  ASSUME TypeOK, NEW w \in Workers, NEW j \in Jobs, RunJob(w, j, event)
  PROVE  /\ \A k \in Jobs : KeepsRecord(k)
         /\ \A k \in Jobs \ {j} : event'[k] = event[k]
         /\ event'[j] \in {event[j], "set"}
         /\ cur'[w] = j \/ event'[j] # "clear"
         /\ \A v \in Workers \ {w} : cur'[v] = cur[v] /\ pc'[v] = pc[v]
         /\ pc'[w] # "waiting"
<1>1. \A v \in Workers \ {w} : cur'[v] = cur[v] /\ pc'[v] = pc[v]
  BY DEF RunJob, Leave, TypeOK
<1>2. pc'[w] # "waiting"
  BY DEF RunJob, Leave, TypeOK
<1>3. CASE Leave(w, j, event) /\ UNCHANGED status
  BY <1>1, <1>2, <1>3 DEF Leave, KeepsRecord, TypeOK
<1>4. CASE UpdateJob(j, "running", "none") /\ cur' = [cur EXCEPT ![w] = j] /\ event' = event
  <2>1. cur'[w] = j
    BY <1>4 DEF TypeOK
  <2>. QED
    BY <1>1, <1>2, <1>4, <2>1, UpdateKeeps DEF Live
<1>5. CASE UpdateJob(j, "failed", "other") /\ Leave(w, j, event)
  BY <1>1, <1>2, <1>5, UpdateKeeps DEF Leave, Terminal, TypeOK
<1>. QED
  BY <1>3, <1>4, <1>5 DEF RunJob

\* A worker whose job is in hand lets it go and sets its event, or keeps it.
LEMMA HolderWait ==
  ASSUME TypeOK, NEW w \in Workers, NEW j \in Jobs,
         \A v \in Workers \ {w} : cur'[v] = cur[v],
         cur[w] \in {j, NoJob},
         \A k \in Jobs : Queued(k) => Queued(k)' \/ k = j,
         cur'[w] = j \/ event'[j] # "clear",
         event'[j] \in {event[j], "set"},
         \A k \in Jobs \ {j} : event'[k] = event[k]
  PROVE  \A k \in Jobs : /\ event[k] # "none" => event'[k] # "none"
                         /\ event'[k] = "clear" =>
                              event[k] = "clear" /\ (Scheduled(k) => Scheduled(k)')
<1>. SUFFICES ASSUME NEW k \in Jobs, event'[k] = "clear", Scheduled(k)
              PROVE  Scheduled(k)'
  OBVIOUS
<1>1. CASE k = j
  BY <1>1 DEF Scheduled, Held
<1>2. CASE k # j
  <2>1. Held(k) => Held(k)'
    <3>1. ASSUME NEW v \in Workers, cur[v] = k
          PROVE  v # w
      BY <1>2, <3>1, JobsAssumption
    <3>. QED
      BY <3>1 DEF Held
  <2>. QED
    BY <1>2, <2>1 DEF Scheduled
<1>. QED
  BY <1>1, <1>2

LEMMA WorkerWait ==
  ASSUME TypeOK, NoJobStranded, WaitInv, NEW w \in Workers, WorkerStep(w)
  PROVE  WaitInv'
<1>0. UNCHANGED <<deps, autoStarted>>
  BY DEF WorkerStep, WorkerTake, DepsFailed, DepTimeout, FailUnrun, DepsSatisfied, RunEnd
<1>1. ASSUME NEW j \in Jobs, RunJob(w, j, event), cur[w] \in {j, NoJob},
             \A k \in Jobs : Queued(k) => Queued(k)' \/ k = j
      PROVE  WaitInv'
  <2>1. /\ \A k \in Jobs : KeepsRecord(k)
        /\ \A k \in Jobs \ {j} : event'[k] = event[k]
        /\ event'[j] \in {event[j], "set"}
        /\ cur'[w] = j \/ event'[j] # "clear"
        /\ \A v \in Workers \ {w} : cur'[v] = cur[v] /\ pc'[v] = pc[v]
        /\ pc'[w] # "waiting"
    BY <1>1, RunJobWait
  <2>2. \A k \in Jobs : /\ event[k] # "none" => event'[k] # "none"
                        /\ event'[k] = "clear" =>
                             event[k] = "clear" /\ (Scheduled(k) => Scheduled(k)')
    BY <1>1, <2>1, HolderWait
  <2>3. \A v \in Workers : pc'[v] = "waiting" => pc[v] = "waiting" /\ cur'[v] = cur[v]
    BY <2>1
  <2>. QED
    BY <1>0, <2>1, <2>2, <2>3, WorkerSchedules, QuietWait DEF KeepsRecord
<1>2. ASSUME NEW j \in Jobs, cur[w] = j, Leave(w, j, event), queue' = queue,
             \/ UNCHANGED status
             \/ \E s \in Terminal, e \in Errors : UpdateJob(j, s, e)
      PROVE  WaitInv'
  <2>1. /\ \A v \in Workers \ {w} : cur'[v] = cur[v] /\ pc'[v] = pc[v]
        /\ event'[j] # "clear"
        /\ event'[j] \in {event[j], "set"}
        /\ \A k \in Jobs \ {j} : event'[k] = event[k]
        /\ pc'[w] # "waiting"
    BY <1>2 DEF Leave, TypeOK
  <2>2. \A k \in Jobs : Queued(k) => Queued(k)'
    BY <1>2 DEF Queued
  <2>3. \A k \in Jobs : /\ event[k] # "none" => event'[k] # "none"
                        /\ event'[k] = "clear" =>
                             event[k] = "clear" /\ (Scheduled(k) => Scheduled(k)')
    BY <1>2, <2>1, <2>2, HolderWait
  <2>4. \A k \in Jobs : KeepsRecord(k)
    BY <1>2, UpdateKeeps DEF KeepsRecord
  <2>5. \A v \in Workers : pc'[v] = "waiting" => pc[v] = "waiting" /\ cur'[v] = cur[v]
    BY <2>1
  <2>. QED
    BY <1>0, <2>3, <2>4, <2>5, WorkerSchedules, QuietWait DEF KeepsRecord
<1>3. CASE WorkerTake(w)
  <2>. PICK j \in Jobs : j = Head(queue)
    BY <1>3, TailQueued DEF TypeOK, WorkerTake
  <2>1. /\ cur[w] = NoJob /\ Queued(j)
        /\ \A k \in Jobs : Queued(k) => Queued(k)' \/ k = j
    BY <1>3, TailQueued DEF TypeOK, WorkerTake
  <2>2. CASE RunJob(w, j, event)
    BY <1>1, <2>1, <2>2
  <2>3. CASE /\ event' = Subscribed(j)
             /\ pc' = [pc EXCEPT ![w] = "waiting"]
             /\ cur' = [cur EXCEPT ![w] = j]
             /\ UNCHANGED status
    <3>1. cur'[w] = j /\ \A v \in Workers \ {w} : cur'[v] = cur[v] /\ pc'[v] = pc[v]
      BY <2>3 DEF TypeOK
    <3>2. \A k \in Jobs : Scheduled(k) => Scheduled(k)'
      <4>1. ASSUME NEW k \in Jobs, Held(k)
            PROVE  Held(k)'
        BY <2>1, <3>1, <4>1, JobsAssumption DEF Held
      <4>. QED
        BY <2>1, <3>1, <4>1 DEF Scheduled, Held
    <3>3. \A k \in Jobs : /\ event[k] # "none" => event'[k] # "none"
                          /\ k \in deps[j] => event'[k] # "none"
                          /\ event'[k] = "clear" =>
                               event[k] = "clear" \/ (k \in deps[j] /\ status[k] \notin Terminal
                                                      /\ event[k] = "none")
      BY <2>3 DEF Subscribed, Ensured, TypeOK
    <3>4. ASSUME NEW k \in deps[j], status[k] \notin Terminal, event[k] = "none"
          PROVE  Scheduled(k) \/ status[k] = "deleted"
      <4>1. k \in Jobs /\ status[k] # "absent"
        BY DEF WaitInv, DepsExist, TypeOK
      <4>2. CASE status[k] = "deleted"
        BY <4>2
      <4>3. CASE status[k] \in Live \cup {"queued"}
        BY <4>1, <4>3 DEF WaitInv, AllStarted, NoJobStranded, LiveJobHasRun,
           QueuedJobIsScheduled, Scheduled, Held, Exists, Live
      <4>. QED
        BY <3>4, <4>1, <4>2, <4>3 DEF TypeOK, Statuses
    <3>5. ClearScheduled'
      BY <2>3, <3>2, <3>3, <3>4 DEF WaitInv, ClearScheduled
    <3>6. WaitSeen'
      <4>. SUFFICES ASSUME NEW v \in Workers, pc'[v] = "waiting", NEW d \in deps[cur'[v]]
                    PROVE  event'[d] # "none"
        BY <1>0 DEF WaitSeen
      <4>1. CASE v = w
        BY <3>1, <3>3, <4>1 DEF TypeOK
      <4>2. CASE v # w
        <5>1. pc[v] = "waiting" /\ cur'[v] = cur[v] /\ cur[v] \in Jobs
          BY <3>1, <4>2 DEF TypeOK
        <5>2. d \in Jobs /\ event[d] # "none"
          BY <5>1 DEF WaitInv, WaitSeen, TypeOK
        <5>. QED
          BY <3>3, <5>2
      <4>. QED
        BY <4>1, <4>2
    <3>7. AllStarted' /\ DepsExist' /\ Present'
      BY <1>0, <2>3, <3>3, WorkerSchedules
      DEF WaitInv, AllStarted, DepsExist, Present, Exists
    <3>. QED
      BY <3>5, <3>6, <3>7 DEF WaitInv
  <2>. QED
    BY <1>3, <2>2, <2>3 DEF WorkerTake
<1>4. CASE DepsFailed(w) \/ DepTimeout(w)
  <2>1. FailUnrun(w) /\ cur[w] \in Jobs
    BY <1>4 DEF DepsFailed, DepTimeout, TypeOK
  <2>2. "failed" \in Terminal /\ "other" \in Errors
    BY DEF Terminal, Errors
  <2>. QED
    BY <1>2, <2>1, <2>2 DEF FailUnrun
<1>5. CASE DepsSatisfied(w)
  <2>1. cur[w] \in Jobs /\ RunJob(w, cur[w], event) /\ queue' = queue
    BY <1>5 DEF TypeOK, DepsSatisfied
  <2>2. \A k \in Jobs : Queued(k) => Queued(k)'
    BY <2>1 DEF Queued
  <2>. QED
    BY <1>1, <2>1, <2>2
<1>6. CASE RunEnd(w)
  <2>1. cur[w] \in Jobs /\ queue' = queue /\ Leave(w, cur[w], event)
    BY <1>6 DEF TypeOK, RunEnd, EndPhases
  <2>2. \/ UNCHANGED status
        \/ \E s \in Terminal, e \in Errors : UpdateJob(cur[w], s, e)
    BY <1>6 DEF RunEnd, Terminal, Errors
  <2>. QED
    BY <1>2, <2>1, <2>2
<1>. QED
  BY <1>3, <1>4, <1>5, <1>6 DEF WorkerStep

\* A request that puts a new job on the queue.
LEMMA NewJobWait ==
  ASSUME TypeOK, WaitInv, NEW j \in Jobs, NEW dep \in SUBSET Jobs,
         status[j] = "absent", status' = [status EXCEPT ![j] = "queued"],
         autoStarted' = [autoStarted EXCEPT ![j] = TRUE],
         deps' = [deps EXCEPT ![j] = dep], \A d \in dep : status[d] # "absent",
         Enqueue(j), UNCHANGED <<pc, cur>>
  PROVE  WaitInv'
<1>1. \A k \in Jobs : Scheduled(k)' <=> Scheduled(k) \/ k = j
  BY AppendQueued DEF Enqueue, Scheduled, Held, TypeOK
<1>2. /\ \A k \in Jobs \ {j} : event'[k] = event[k]
      /\ \A k \in Jobs : event[k] # "none" => event'[k] # "none"
      /\ event'[j] # "none"
  BY DEF Enqueue, Ensured
<1>3. AllStarted' /\ Present'
  BY <1>1, <1>2 DEF WaitInv, AllStarted, Present, Exists, TypeOK
<1>4. DepsExist'
  <2>1. \A k \in Jobs : status[k] # "absent" => status'[k] # "absent"
    BY DEF TypeOK
  <2>2. \A k \in Jobs : \A d \in deps'[k] : d \in Jobs /\ status[d] # "absent"
    BY DEF WaitInv, DepsExist, TypeOK
  <2>. QED
    BY <2>1, <2>2 DEF DepsExist
<1>5. ClearScheduled'
  <2>1. \A k \in Jobs \ {j} : status'[k] = status[k]
    BY DEF TypeOK
  <2>. QED
    BY <1>1, <1>2, <2>1 DEF WaitInv, ClearScheduled
<1>6. WaitSeen'
  <2>. SUFFICES ASSUME NEW v \in Workers, pc[v] = "waiting", NEW d \in deps'[cur[v]]
                PROVE  event'[d] # "none"
    BY DEF WaitSeen
  <2>1. cur[v] \in Jobs /\ Scheduled(cur[v])
    BY DEF TypeOK, Scheduled, Held
  <2>2. cur[v] # j
    BY <2>1 DEF WaitInv, Present
  <2>3. d \in Jobs /\ event[d] # "none"
    BY <2>1, <2>2 DEF WaitInv, WaitSeen, TypeOK
  <2>. QED
    BY <1>2, <2>3
<1>. QED
  BY <1>3, <1>4, <1>5, <1>6 DEF WaitInv

LEMMA ClientWait ==
  ASSUME NoneAside, TypeOK, NoJobStranded, WaitInv, ClientStep
  PROVE  WaitInv'
<1>1. \A d \in active : d \in Jobs /\ status[d] # "absent"
  BY DEF NoJobStranded, ActiveJobIsScheduled, WaitInv, Present, TypeOK
<1>2. ASSUME NEW j \in Jobs, NEW dep \in SUBSET Jobs, NEW dom, NEW auto \in BOOLEAN,
             AddJob(j, dep, dom, auto), \A d \in dep : status[d] # "absent"
      PROVE  WaitInv'
  <2>1. SmartEnqueue(j, dep, dom) /\ auto = TRUE
    BY <1>2 DEF AddJob, NoneAside
  <2>2. /\ dep \cup HardConflicts(dom) \in SUBSET Jobs
        /\ \A d \in dep \cup HardConflicts(dom) : status[d] # "absent"
    BY <1>1, <1>2 DEF Exists, HardConflicts
  <2>3. /\ status[j] = "absent" /\ status' = [status EXCEPT ![j] = "queued"]
        /\ autoStarted' = [autoStarted EXCEPT ![j] = TRUE]
        /\ UNCHANGED <<pc, cur>>
    BY <1>2, <2>1 DEF AddJob, NewRecord, workerVars
  <2>4. deps' = [deps EXCEPT ![j] = dep \cup HardConflicts(dom)] /\ Enqueue(j)
    BY <2>1 DEF SmartEnqueue
  <2>. QED
    BY <2>2, <2>3, <2>4, NewJobWait
<1>3. ASSUME NEW src \in Jobs, NEW j \in Jobs, RestartJob(src, j)
      PROVE  WaitInv'
  <2>1. /\ status[j] = "absent" /\ status' = [status EXCEPT ![j] = "queued"]
        /\ autoStarted' = [autoStarted EXCEPT ![j] = TRUE]
        /\ deps' = [deps EXCEPT ![j] = {}] /\ Enqueue(j) /\ UNCHANGED <<pc, cur>>
    BY <1>3 DEF RestartJob, NewRecord, workerVars
  <2>2. {} \in SUBSET Jobs /\ \A d \in {} : status[d] # "absent"
    OBVIOUS
  <2>. QED
    BY <2>1, <2>2, NewJobWait
<1>4. ASSUME NEW j \in Jobs, StartJob(j)
      PROVE  WaitInv'
  <2>1. /\ status[j] # "absent" /\ UpdateStatus(j, "queued") /\ Enqueue(j)
        /\ autoStarted' = [autoStarted EXCEPT ![j] = TRUE]
        /\ UNCHANGED <<deps, pc, cur>>
    BY <1>4 DEF StartJob, Exists, workerVars
  <2>2. \A k \in Jobs : Scheduled(k)' <=> Scheduled(k) \/ k = j
    BY <2>1, AppendQueued DEF Enqueue, Scheduled, Held, TypeOK
  <2>3. \A k \in Jobs : /\ event[k] # "none" => event'[k] # "none"
                        /\ k # j => event'[k] = event[k]
    BY <2>1 DEF Enqueue, Ensured
  <2>4. \A k \in Jobs : KeepsRecord(k)
    BY <2>1, UpdateKeeps DEF UpdateStatus
  <2>5. AllStarted' /\ DepsExist' /\ Present'
    BY <2>1, <2>2, <2>3, <2>4
    DEF KeepsRecord, WaitInv, AllStarted, DepsExist, Present, Exists, TypeOK
  <2>6. ClearScheduled'
    BY <2>2, <2>3, <2>4 DEF KeepsRecord, WaitInv, ClearScheduled
  <2>7. WaitSeen'
    BY <2>1, <2>3 DEF WaitInv, WaitSeen, TypeOK
  <2>. QED
    BY <2>5, <2>6, <2>7 DEF WaitInv
<1>5. ASSUME NEW j \in Jobs, StopJob(j) \/ PauseJob(j) \/ ResumeJob(j)
      PROVE  WaitInv'
  <2>1. UNCHANGED <<deps, autoStarted, queue, event, pc, cur>>
    BY <1>5 DEF StopJob, PauseJob, ResumeJob, bridgeVars, workerVars
  <2>2. \E s \in Live \cup Terminal, e \in Errors \cup {error[j]} : UpdateJob(j, s, e)
    BY <1>5 DEF StopJob, PauseJob, ResumeJob, UpdateStatus, Live, Terminal, Errors
  <2>3. \A k \in Jobs : KeepsRecord(k)
    BY <2>2, UpdateKeeps
  <2>4. \A k \in Jobs : Scheduled(k)' <=> Scheduled(k)
    BY <2>1 DEF Scheduled, Queued, Held
  <2>. QED
    BY <2>1, <2>3, <2>4, QuietWait DEF KeepsRecord
<1>6. ASSUME NEW j \in Jobs, DeleteJob(j)
      PROVE  WaitInv'
  <2>1. UNCHANGED <<deps, autoStarted, queue, event, pc, cur>>
    BY <1>6 DEF DeleteJob, bridgeVars, workerVars
  <2>2. "delete" \in Ops /\ Exists(j) /\ status' = [status EXCEPT ![j] = "deleted"]
    BY <1>6 DEF DeleteJob
  <2>3. \A k \in Jobs : Scheduled(k)' <=> Scheduled(k)
    BY <2>1 DEF Scheduled, Queued, Held
  <2>. QED
    BY <2>1, <2>2, <2>3, QuietWait DEF Exists, TypeOK
<1>7. ASSUME NEW j \in Jobs, NEW dom, NEW auto \in BOOLEAN, AddJob(j, {}, dom, auto)
      PROVE  WaitInv'
  <2>1. {} \in SUBSET Jobs /\ \A d \in {} : status[d] # "absent"
    OBVIOUS
  <2>. QED
    BY <1>2, <1>7, <2>1
<1>8. ASSUME NEW src \in Jobs, NEW j \in Jobs, NEW dom, NEW auto \in BOOLEAN,
             CloneJob(src, j, dom, auto) \/ RetryJob(src, j, dom)
      PROVE  WaitInv'
  BY <1>7, <1>8 DEF CloneJob, RetryJob
<1>9. ASSUME NEW j \in Jobs, NEW dep \in SUBSET Jobs, NEW dom, NEW auto \in BOOLEAN,
              CreateJob(j, dep, dom, auto)
       PROVE  WaitInv'
  BY <1>2, <1>9 DEF CreateJob
<1>. QED
  BY <1>3, <1>4, <1>5, <1>6, <1>8, <1>9 DEF ClientStep

LEMMA ThreadWaitInv ==
  ASSUME TypeOK, WaitInv, NEW w \in Workers, ThreadStep(w)
  PROVE  WaitInv'
<1>1. /\ UNCHANGED <<deps, autoStarted, bridgeVars, cur>> /\ cur[w] \in Jobs
      /\ \E phase \in ThreadPhases \cup EndPhases : pc' = [pc EXCEPT ![w] = phase]
  BY DEF Goto, ThreadPhases, EndPhases, ThreadStep, ThreadLaunch, OnlyThread, storeVars,
     ThreadTop, ThreadAgentStart, ThreadUnlimit, ThreadCall, ThreadLimit, ThreadWait, TypeOK
<1>2. UNCHANGED status \/ \E s \in Live : UpdateJob(cur[w], s, error[cur[w]])
  BY DEF ThreadStep, ThreadLaunch, ThreadTop, ThreadAgentStart, ThreadUnlimit,
     ThreadCall, ThreadLimit, ThreadWait, OnlyThread, storeVars, UpdateStatus, Live
<1>3. \A k \in Jobs : KeepsRecord(k)
  BY <1>1, <1>2, UpdateKeeps DEF KeepsRecord
<1>4. \A v \in Workers : pc'[v] = "waiting" => pc[v] = "waiting"
  BY <1>1 DEF ThreadPhases, EndPhases, TypeOK
<1>5. \A k \in Jobs : Scheduled(k)' <=> Scheduled(k)
  BY <1>1 DEF Scheduled, Queued, Held, bridgeVars
<1>. QED
  BY <1>1, <1>3, <1>4, <1>5, QuietWait DEF KeepsRecord, bridgeVars

LEMMA RestartWait ==
  ASSUME TypeOK, WaitInv, ServerRestart
  PROVE  WaitInv'
<1>1. \A k \in Jobs : KeepsRecord(k)
  BY DEF ServerRestart, KeepsRecord, Interrupted, Live
<1>2. \A k \in Jobs : ~Scheduled(k)'
  BY JobsAssumption DEF ServerRestart, Scheduled, Queued, Held
<1>3. AllStarted' /\ DepsExist' /\ Present'
  BY <1>1, <1>2
  DEF KeepsRecord, ServerRestart, WaitInv, AllStarted, DepsExist, Present,
      Exists, TypeOK
<1>4. ClearScheduled' /\ WaitSeen'
  BY DEF ServerRestart, ClearScheduled, WaitSeen
<1>. QED
  BY <1>3, <1>4 DEF WaitInv

LEMMA WaitInvariant ==
  ASSUME NoneAside
  PROVE  Spec => []WaitInv
<1>1. Init => WaitInv
  BY JobsAssumption
  DEF Init, WaitInv, AllStarted, DepsExist, Present, ClearScheduled,
      WaitSeen, Scheduled, Queued, Held, Exists
<1>2. TypeOK /\ NoJobStranded /\ WaitInv /\ [Next]_vars => WaitInv'
  <2>1. WaitInv /\ UNCHANGED vars => WaitInv'
    BY DEF vars, storeVars, bridgeVars, workerVars, WaitInv, AllStarted, DepsExist,
       Present, ClearScheduled, WaitSeen, Scheduled, Queued, Held, Exists
  <2>. QED
    BY <2>1, WorkerWait, ClientWait, ThreadWaitInv, RestartWait DEF Next
<1>. QED
  BY <1>1, <1>2, TypeCorrect, NobodyStranded, PTL DEF Spec

LEMMA EventSetOrScheduled ==
  ASSUME TypeOK, WaitInv, NEW w \in Workers, pc[w] = "waiting", NEW d \in deps[cur[w]]
  PROVE  /\ d \in Jobs
         /\ \/ event[d] = "set" \/ Scheduled(d)
            \/ status[d] = "deleted"
<1>1. cur[w] \in Jobs /\ d \in Jobs
  BY DEF TypeOK
<1>2. event[d] \in {"clear", "set"}
  BY <1>1 DEF WaitInv, WaitSeen, TypeOK
<1>. QED
  BY <1>1, <1>2 DEF WaitInv, ClearScheduled

\* Whoever waits for a prerequisite that is a job waits for an event that is set
\* already or that the worker of a job on the queue or in hand will set, whatever
\* ids were named, and whatever is stopped, started again, deleted or lost in a
\* restart of the server.
THEOREM WaitsAreForScheduled ==
  ASSUME NoneAside
  PROVE  Spec => []WaitedForIsScheduled
<1>1. TypeOK /\ WaitInv => WaitedForIsScheduled
  BY EventSetOrScheduled DEF WaitedForIsScheduled, Exists
<1>. QED
  BY <1>1, WaitInvariant, TypeCorrect, PTL

-----------------------------------------------------------------------------
(* Some worker can always go on.                                           *)

\* Every set of naturals that is not empty has a least element.
LEMMA LeastNatural ==
  ASSUME NEW T \in SUBSET Nat, T # {}
  PROVE  \E x \in T : \A y \in T : x <= y
<1>. DEFINE Below(n) == {m \in Nat : m < n}
            Initial == {Below(n) : n \in T}
<1>1. \A n \in T : Below(n) \in FiniteSubsetsOf(Nat)
  <2>. SUFFICES ASSUME NEW n \in T
                PROVE  Below(n) \in FiniteSubsetsOf(Nat)
    OBVIOUS
  <2>1. \A m \in Below(n) : m <= n
    OBVIOUS
  <2>2. IsFiniteSet(Below(n))
    BY <2>1, FS_BoundedSetOfNaturals
  <2>. QED
    BY <2>2 DEF FiniteSubsetsOf
<1>2. \E b \in Initial : \A c \in Initial : <<c, b>> \notin StrictSubsetOrdering(Nat)
  <2>1. Initial \subseteq FiniteSubsetsOf(Nat) /\ Initial # {}
    BY <1>1
  <2>. QED
    BY <2>1, FS_StrictSubsetOrderingWellFounded, WFMin
<1>3. PICK x \in T : \A y \in T : <<Below(y), Below(x)>> \notin StrictSubsetOrdering(Nat)
  BY <1>2
<1>4. ASSUME NEW y \in T, y < x
      PROVE  FALSE
  <2>1. /\ Below(y) \in SUBSET Nat /\ Below(x) \in SUBSET Nat
        /\ Below(y) \subseteq Below(x) /\ Below(y) # Below(x)
    <3>1. y \in Below(x) /\ y \notin Below(y)
      BY <1>4
    <3>2. Below(y) \subseteq Below(x)
      BY <1>4
    <3>. QED
      BY <3>1, <3>2
  <2>2. <<Below(y), Below(x)>> \in StrictSubsetOrdering(Nat)
    <3>. HIDE DEF Below
    <3>. QED BY <2>1 DEF StrictSubsetOrdering
  <2>. QED
    BY <1>3, <2>2
<1>. QED
  BY <1>4

\* Workers take jobs in the order in which they were created, and prerequisites
\* are created first: age orders the jobs that way, and n is the next age.
InOrderOf(age, n) ==
  /\ \A j \in Jobs : status[j] # "absent" => age[j] < n
  /\ \A i, k \in DOMAIN queue : i < k => age[queue[i]] < age[queue[k]]
  /\ \A w \in Workers, i \in DOMAIN queue : cur[w] # NoJob => age[cur[w]] < age[queue[i]]
  /\ \A j \in Jobs : \A d \in deps[j] : age[d] < age[j]

InOrder == \E age \in [Jobs -> Nat], n \in Nat : InOrderOf(age, n)

\* Of the workers that hold a job, the one with the oldest can go on: what it
\* waits for is not held or, since whatever is on the queue is younger, queued; if
\* it is no job, the worker sits out its hour.
LEMMA OrderedGoesOn ==
  ASSUME TypeOK, StopIsTold, WaitInv, InOrder, Workers # {}
  PROVE  NoPoolStall
<1>. SUFFICES ASSUME NEW j \in Jobs, Scheduled(j)
              PROVE  \E w \in Workers : CanGoOn(w) \/ WaitsForNobody(w)
  BY DEF NoPoolStall
<1>. DEFINE Holders == {v \in Workers : cur[v] # NoJob}
<1>1. CASE Holders = {}
  <2>1. \A v \in Workers : cur[v] = NoJob /\ pc[v] = "idle"
    BY <1>1 DEF TypeOK
  <2>2. Queued(j)
    BY <2>1, JobsAssumption DEF Scheduled, Held
  <2>3. queue # <<>>
    BY <2>2 DEF Queued
  <2>. QED
    BY <2>1, <2>3 DEF CanGoOn
<1>2. CASE Holders # {}
  <2>1. PICK age \in [Jobs -> Nat], n \in Nat : InOrderOf(age, n)
    BY DEF InOrder
  <2>2. \A v \in Holders : cur[v] \in Jobs
    BY DEF TypeOK
  <2>3. PICK w \in Holders : \A v \in Holders : age[cur[w]] <= age[cur[v]]
    <3>. DEFINE T == {age[cur[v]] : v \in Holders}
    <3>1. T \in SUBSET Nat /\ T # {}
      BY <1>2, <2>2
    <3>2. \E x \in T : \A y \in T : x <= y
      <4>. HIDE DEF T
      <4>. QED
        BY <3>1, LeastNatural
    <3>. QED
      BY <3>2
  <2>4. CASE Executing(w)
    BY <2>4 DEF StopIsTold, CanGoOn
  <2>5. CASE pc[w] = "waiting" /\ AllSet(cur[w])
    BY <2>5 DEF CanGoOn
  <2>6. CASE pc[w] = "waiting" /\ ~AllSet(cur[w]) /\ ~WaitsForNobody(w)
    <3>1. PICK d \in deps[cur[w]] : event[d] # "set"
      BY <2>6 DEF AllSet
    <3>2. d \in Jobs /\ Scheduled(d) /\ age[d] < age[cur[w]]
      <4>1. d \in Jobs /\ Scheduled(d)
        BY <2>6, <3>1, EventSetOrScheduled DEF WaitsForNobody, Exists
      <4>. QED
        BY <2>1, <2>2, <3>1, <4>1 DEF InOrderOf
    <3>3. ~Held(d)
      <4>1. ASSUME NEW v \in Workers, cur[v] = d
            PROVE  FALSE
        <5>1. v \in Holders
          BY <3>2, <4>1, JobsAssumption
        <5>. QED
          BY <2>1, <2>2, <2>3, <3>2, <4>1, <5>1
      <4>. QED
        BY <4>1 DEF Held
    <3>4. ASSUME NEW i \in DOMAIN queue, queue[i] = d
          PROVE  FALSE
      <4>1. age[cur[w]] < age[d]
        BY <2>1, <3>4 DEF InOrderOf
      <4>. QED
        BY <2>1, <2>2, <3>2, <4>1
    <3>. QED
      BY <3>2, <3>3, <3>4 DEF Scheduled, Queued
  <2>7. pc[w] = "waiting" \/ Executing(w)
    BY DEF TypeOK, Executing
  <2>. QED
    BY <2>4, <2>5, <2>6, <2>7
<1>. QED
  BY <1>1, <1>2

\* A step that takes nothing but the head off the queue.
LEMMA QuietOrder ==
  ASSUME TypeOK, InOrder, deps' = deps,
         \A k \in Jobs : status'[k] = "absent" <=> status[k] = "absent",
         \/ queue' = queue /\ \A w \in Workers : cur'[w] \in {cur[w], NoJob}
         \/ /\ queue # <<>> /\ queue' = Tail(queue)
            /\ \A w \in Workers : cur'[w] \in {cur[w], NoJob, Head(queue)}
         \/ queue' = <<>>
  PROVE  InOrder'
<1>1. PICK age \in [Jobs -> Nat], n \in Nat : InOrderOf(age, n)
  BY DEF InOrder
<1>2. /\ \A j \in Jobs : status'[j] # "absent" => age[j] < n
      /\ \A j \in Jobs : \A d \in deps'[j] : age[d] < age[j]
  BY <1>1 DEF InOrderOf
<1>3. CASE queue' = queue /\ \A w \in Workers : cur'[w] \in {cur[w], NoJob}
  BY <1>1, <1>2, <1>3 DEF InOrderOf, InOrder
<1>4. CASE /\ queue # <<>> /\ queue' = Tail(queue)
           /\ \A w \in Workers : cur'[w] \in {cur[w], NoJob, Head(queue)}
  <2>1. /\ DOMAIN queue = 1..Len(queue) /\ DOMAIN queue' = 1..(Len(queue) - 1)
        /\ Len(queue) \in Nat /\ Len(queue) >= 1
        /\ \A i \in 1..(Len(queue) - 1) : queue'[i] = queue[i + 1]
        /\ Head(queue) = queue[1]
    BY <1>4, HeadTailProperties, EmptySeq DEF TypeOK
  <2>2. \A i \in DOMAIN queue' : i + 1 \in DOMAIN queue /\ 1 < i + 1 /\ 1 \in DOMAIN queue
    BY <2>1
  <2>3. \A i, k \in DOMAIN queue' : i < k => age[queue'[i]] < age[queue'[k]]
    BY <1>1, <2>1, <2>2 DEF InOrderOf
  <2>4. \A w \in Workers, i \in DOMAIN queue' : cur'[w] # NoJob => age[cur'[w]] < age[queue'[i]]
    BY <1>1, <1>4, <2>1, <2>2 DEF InOrderOf
  <2>. QED
    BY <1>2, <2>3, <2>4 DEF InOrderOf, InOrder
<1>5. CASE queue' = <<>>
  <2>1. DOMAIN queue' = {}
    BY <1>5
  <2>2. InOrderOf(age, n)'
    BY <1>2, <2>1 DEF InOrderOf
  <2>. QED
    BY <2>2 DEF InOrder
<1>. QED
  BY <1>3, <1>4, <1>5

\* A new job is the youngest.
LEMMA NewJobOrder ==
  ASSUME TypeOK, WaitInv, InOrder, NEW j \in Jobs, NEW dep \in SUBSET Jobs,
         status[j] = "absent", status' = [status EXCEPT ![j] = "queued"],
         deps' = [deps EXCEPT ![j] = dep], \A d \in dep : status[d] # "absent",
         Enqueue(j), cur' = cur
  PROVE  InOrder'
<1>1. PICK age \in [Jobs -> Nat], n \in Nat : InOrderOf(age, n)
  BY DEF InOrder
<1>. DEFINE ages == [age EXCEPT ![j] = n]
<1>2. /\ ages \in [Jobs -> Nat] /\ ages[j] = n
      /\ \A k \in Jobs \ {j} : ages[k] = age[k]
      /\ \A k \in Jobs : status[k] # "absent" => ages[k] = age[k] /\ age[k] < n
  BY <1>1 DEF InOrderOf
<1>. HIDE DEF ages
<1>3. \A k \in Jobs : status'[k] # "absent" => ages[k] < n + 1
  <2>1. \A k \in Jobs \ {j} : status'[k] = status[k] /\ ages[k] \in Nat
    BY <1>2 DEF TypeOK
  <2>. QED
    BY <1>2, <2>1
<1>4. \A k \in Jobs : \A d \in deps'[k] : ages[d] < ages[k]
  <2>. SUFFICES ASSUME NEW k \in Jobs, NEW d \in deps'[k]
                PROVE  ages[d] < ages[k]
    OBVIOUS
  <2>1. CASE k = j
    <3>1. d \in dep /\ d \in Jobs
      BY <2>1 DEF TypeOK
    <3>. QED
      BY <1>2, <2>1, <3>1
  <2>2. CASE k # j
    <3>1. d \in deps[k] /\ d \in Jobs /\ status[d] # "absent"
      BY <2>2 DEF WaitInv, DepsExist, TypeOK
    <3>2. age[d] < age[k]
      BY <1>1, <3>1 DEF InOrderOf
    <3>. QED
      BY <1>2, <2>2, <3>1, <3>2
  <2>. QED
    BY <2>1, <2>2
<1>5. /\ DOMAIN queue = 1..Len(queue) /\ DOMAIN queue' = 1..(Len(queue) + 1)
      /\ Len(queue) \in Nat
      /\ \A i \in 1..Len(queue) : queue'[i] = queue[i] /\ queue[i] \in Jobs
      /\ queue'[Len(queue) + 1] = j
  <2>1. queue \in Seq(Jobs) /\ queue' = Append(queue, j)
    BY DEF Enqueue, TypeOK
  <2>. QED
    BY <2>1
<1>6. \A i \in 1..Len(queue) : ages[queue[i]] = age[queue[i]] /\ age[queue[i]] < n
  <2>1. \A i \in 1..Len(queue) : Scheduled(queue[i]) /\ queue[i] \in Jobs
    BY <1>5 DEF Scheduled, Queued
  <2>. QED
    BY <1>2, <2>1 DEF WaitInv, Present
<1>7. \A w \in Workers : cur[w] # NoJob => ages[cur[w]] = age[cur[w]] /\ age[cur[w]] < n
  <2>1. \A w \in Workers : cur[w] # NoJob => Scheduled(cur[w]) /\ cur[w] \in Jobs
    BY DEF Scheduled, Held, TypeOK
  <2>. QED
    BY <1>2, <2>1 DEF WaitInv, Present
<1>8. \A i, k \in DOMAIN queue' : i < k => ages[queue'[i]] < ages[queue'[k]]
  <2>. SUFFICES ASSUME NEW i \in 1..(Len(queue) + 1), NEW k \in 1..(Len(queue) + 1), i < k
                PROVE  ages[queue'[i]] < ages[queue'[k]]
    BY <1>5
  <2>1. i \in 1..Len(queue)
    BY <1>5
  <2>2. CASE k \in 1..Len(queue)
    BY <1>1, <1>5, <1>6, <2>1, <2>2 DEF InOrderOf
  <2>3. CASE k = Len(queue) + 1
    BY <1>2, <1>5, <1>6, <2>1, <2>3
  <2>. QED
    BY <1>5, <2>2, <2>3
<1>9. \A w \in Workers, i \in DOMAIN queue' : cur'[w] # NoJob => ages[cur'[w]] < ages[queue'[i]]
  <2>. SUFFICES ASSUME NEW w \in Workers, NEW i \in 1..(Len(queue) + 1), cur[w] # NoJob
                PROVE  ages[cur[w]] < ages[queue'[i]]
    BY <1>5
  <2>1. CASE i \in 1..Len(queue)
    BY <1>1, <1>5, <1>6, <1>7, <2>1 DEF InOrderOf
  <2>2. CASE i = Len(queue) + 1
    BY <1>2, <1>5, <1>7, <2>2
  <2>. QED
    BY <1>5, <2>1, <2>2
<1>10. n + 1 \in Nat /\ InOrderOf(ages, n + 1)'
  BY <1>3, <1>4, <1>8, <1>9 DEF InOrderOf
<1>. QED
  BY <1>2, <1>10 DEF InOrder

LEMMA WorkerOrder ==
  ASSUME TypeOK, InOrder, NEW w \in Workers, WorkerStep(w)
  PROVE  InOrder'
<1>1. deps' = deps
  BY DEF WorkerStep, WorkerTake, DepsFailed, DepTimeout, FailUnrun, DepsSatisfied, RunEnd
<1>2. \A j \in Jobs : status'[j] = "absent" <=> status[j] = "absent"
  <2>1. ASSUME NEW j \in Jobs, NEW s \in {"running", "failed", "completed"}, NEW e,
               UpdateJob(j, s, e)
        PROVE  \A k \in Jobs : status'[k] = "absent" <=> status[k] = "absent"
    BY <2>1 DEF UpdateJob, Exists, TypeOK
  <2>2. ASSUME NEW j \in Jobs, NEW ev, RunJob(w, j, ev)
        PROVE  \A k \in Jobs : status'[k] = "absent" <=> status[k] = "absent"
    BY <2>1, <2>2 DEF RunJob
  <2>3. CASE WorkerTake(w)
    BY <2>2, <2>3, TailQueued DEF WorkerTake, TypeOK
  <2>4. CASE DepsFailed(w) \/ DepTimeout(w) \/ DepsSatisfied(w) \/ RunEnd(w)
    <3>1. cur[w] \in Jobs
      BY <2>4 DEF DepsFailed, DepTimeout, DepsSatisfied, RunEnd, EndPhases, TypeOK
    <3>. QED
      BY <2>1, <2>2, <2>4, <3>1
      DEF DepsFailed, DepTimeout, FailUnrun, DepsSatisfied, RunEnd
  <2>. QED
    BY <2>3, <2>4 DEF WorkerStep
<1>3. ASSUME NEW j, \/ cur' = [cur EXCEPT ![w] = j]
                    \/ cur' = [cur EXCEPT ![w] = NoJob]
      PROVE  \A v \in Workers : cur'[v] \in {cur[v], NoJob} \/ (v = w /\ cur'[v] = j)
  BY <1>3 DEF TypeOK
<1>4. ASSUME NEW j, NEW ev, RunJob(w, j, ev)
      PROVE  cur' = [cur EXCEPT ![w] = j] \/ cur' = [cur EXCEPT ![w] = NoJob]
  BY <1>4 DEF RunJob, Leave
<1>5. CASE WorkerTake(w)
  <2>1. /\ queue # <<>> /\ queue' = Tail(queue)
        /\ \/ cur' = [cur EXCEPT ![w] = Head(queue)]
           \/ cur' = [cur EXCEPT ![w] = NoJob]
    BY <1>4, <1>5 DEF WorkerTake
  <2>. QED
    BY <1>1, <1>2, <1>3, <2>1, QuietOrder
<1>6. CASE DepsFailed(w) \/ DepTimeout(w) \/ DepsSatisfied(w) \/ RunEnd(w)
  <2>1. /\ queue' = queue
        /\ \/ cur' = [cur EXCEPT ![w] = cur[w]]
           \/ cur' = [cur EXCEPT ![w] = NoJob]
    BY <1>4, <1>6 DEF DepsFailed, DepTimeout, FailUnrun, DepsSatisfied, RunEnd, Leave
  <2>. QED
    BY <1>1, <1>2, <1>3, <2>1, QuietOrder
<1>. QED
  BY <1>5, <1>6 DEF WorkerStep

LEMMA ClientOrder ==
  ASSUME StartedOnce, NoneAside, TypeOK, NoJobStranded, WaitInv, InOrder, ClientStep
  PROVE  InOrder'
<1>1. \A d \in active : d \in Jobs /\ status[d] # "absent"
  BY DEF NoJobStranded, ActiveJobIsScheduled, WaitInv, Present, TypeOK
<1>2. ASSUME NEW j \in Jobs, NEW dep \in SUBSET Jobs, NEW dom, NEW auto \in BOOLEAN,
             AddJob(j, dep, dom, auto), \A d \in dep : status[d] # "absent"
      PROVE  InOrder'
  <2>1. SmartEnqueue(j, dep, dom)
    BY <1>2 DEF AddJob, NoneAside
  <2>2. /\ dep \cup HardConflicts(dom) \in SUBSET Jobs
        /\ \A d \in dep \cup HardConflicts(dom) : status[d] # "absent"
    BY <1>1, <1>2 DEF Exists, HardConflicts
  <2>3. /\ status[j] = "absent" /\ status' = [status EXCEPT ![j] = "queued"]
        /\ cur' = cur
    BY <1>2 DEF AddJob, NewRecord, workerVars
  <2>4. deps' = [deps EXCEPT ![j] = dep \cup HardConflicts(dom)] /\ Enqueue(j)
    BY <2>1 DEF SmartEnqueue
  <2>. QED
    BY <2>2, <2>3, <2>4, NewJobOrder
<1>3. ASSUME NEW src \in Jobs, NEW j \in Jobs, RestartJob(src, j)
      PROVE  InOrder'
  <2>1. /\ status[j] = "absent" /\ status' = [status EXCEPT ![j] = "queued"]
        /\ deps' = [deps EXCEPT ![j] = {}] /\ Enqueue(j) /\ cur' = cur
    BY <1>3 DEF RestartJob, NewRecord, workerVars
  <2>2. {} \in SUBSET Jobs /\ \A d \in {} : status[d] # "absent"
    OBVIOUS
  <2>. QED
    BY <2>1, <2>2, NewJobOrder
<1>4. \A j \in Jobs : ~StartJob(j)
  BY DEF StartJob, StartRefused, StartedOnce, WaitInv, AllStarted
<1>5. ASSUME NEW j \in Jobs, StopJob(j) \/ PauseJob(j) \/ ResumeJob(j) \/ DeleteJob(j)
      PROVE  InOrder'
  <2>1. UNCHANGED <<deps, queue, cur>>
    BY <1>5 DEF StopJob, PauseJob, ResumeJob, DeleteJob, bridgeVars, workerVars
  <2>2. \A k \in Jobs : status'[k] = "absent" <=> status[k] = "absent"
    BY <1>5 DEF StopJob, PauseJob, ResumeJob, DeleteJob, UpdateStatus, UpdateJob, Exists, Live, TypeOK
  <2>. QED
    BY <2>1, <2>2, QuietOrder
<1>6. ASSUME NEW j \in Jobs, NEW dom, NEW auto \in BOOLEAN, AddJob(j, {}, dom, auto)
      PROVE  InOrder'
  <2>1. {} \in SUBSET Jobs /\ \A d \in {} : status[d] # "absent"
    OBVIOUS
  <2>. QED
    BY <1>2, <1>6, <2>1
<1>7. ASSUME NEW src \in Jobs, NEW j \in Jobs, NEW dom, NEW auto \in BOOLEAN,
             CloneJob(src, j, dom, auto) \/ RetryJob(src, j, dom)
      PROVE  InOrder'
  BY <1>6, <1>7 DEF CloneJob, RetryJob
<1>8. ASSUME NEW j \in Jobs, NEW dep \in SUBSET Jobs, NEW dom, NEW auto \in BOOLEAN,
              CreateJob(j, dep, dom, auto)
      PROVE  InOrder'
  BY <1>2, <1>8 DEF CreateJob
<1>. QED
  BY <1>3, <1>4, <1>5, <1>7, <1>8 DEF ClientStep

LEMMA ThreadOrder ==
  ASSUME TypeOK, InOrder, NEW w \in Workers, ThreadStep(w)
  PROVE  InOrder'
<1>1. UNCHANGED <<deps, queue, cur>> /\ cur[w] \in Jobs
  BY DEF ThreadPhases, EndPhases, ThreadStep, ThreadLaunch, OnlyThread, storeVars, bridgeVars,
     ThreadTop, ThreadAgentStart, ThreadUnlimit, ThreadCall, ThreadLimit, ThreadWait, TypeOK
<1>2. UNCHANGED status \/ \E s \in Live : UpdateJob(cur[w], s, error[cur[w]])
  BY DEF ThreadStep, ThreadLaunch, ThreadTop, ThreadAgentStart, ThreadUnlimit,
     ThreadCall, ThreadLimit, ThreadWait, OnlyThread, storeVars, UpdateStatus, Live
<1>3. \A k \in Jobs : status'[k] = "absent" <=> status[k] = "absent"
  BY <1>1, <1>2 DEF UpdateJob, Exists, Live, TypeOK
<1>. QED
  BY <1>1, <1>3, QuietOrder

LEMMA RestartOrder ==
  ASSUME TypeOK, InOrder, ServerRestart
  PROVE  InOrder'
<1>1. queue' = <<>> /\ deps' = deps
  BY DEF ServerRestart
<1>2. \A k \in Jobs : status'[k] = "absent" <=> status[k] = "absent"
  BY DEF ServerRestart, Interrupted, Live
<1>. QED
  BY <1>1, <1>2, QuietOrder

\* As long as nobody starts a job again or puts one aside, the workers never all
\* wait for jobs: the one with the oldest job can go on, or sits out the hour of a
\* job that named an id no job has, and whoever waits for a job will be woken.
\* The pool has one worker at least.
THEOREM WaitersWoken ==
  ASSUME StartedOnce, NoneAside, Workers # {}
  PROVE  Spec => []WaitersAreWoken
<1>1. Init => InOrder
  <2>. SUFFICES ASSUME Init
                PROVE  InOrder
    OBVIOUS
  <2>. DEFINE age == [j \in Jobs |-> 0]
  <2>1. age \in [Jobs -> Nat] /\ DOMAIN queue = {} /\ \A j \in Jobs : deps[j] = {}
    BY DEF Init
  <2>2. InOrderOf(age, 1)
    BY <2>1 DEF Init, InOrderOf
  <2>. QED
    BY <2>1, <2>2 DEF InOrder
<1>2. TypeOK /\ NoJobStranded /\ WaitInv /\ InOrder /\ [Next]_vars => InOrder'
  <2>1. TypeOK /\ InOrder /\ UNCHANGED vars => InOrder'
    BY QuietOrder DEF vars, storeVars, bridgeVars, workerVars
  <2>. QED
    BY <2>1, WorkerOrder, ClientOrder, ThreadOrder, RestartOrder DEF Next
<1>3. TypeOK /\ RunInv /\ WaitInv /\ InOrder => NoPoolStall
  BY OrderedGoesOn DEF RunInv
<1>. QED
  BY <1>1, <1>2, <1>3, RunInvariant, WaitInvariant, WaitsAreForScheduled, TypeCorrect,
     NobodyStranded, PTL DEF Spec, WaitersAreWoken
=============================================================================
