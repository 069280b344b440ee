----------------------------- MODULE ToolWaves -----------------------------
(***************************************************************************)
(* The execution of the tool calls of one model response.  The dependency  *)
(* analyzer partitions the batch into waves (engine/dependency_analyzer.py)*)
(* and the parallel executor runs the waves one after the other, the calls *)
(* of a wave on a bounded pool of threads (engine/parallel_executor.py).   *)
(* A call looks for the stop file, exports the runtime context of its job  *)
(* to the environment of the process and runs in the gateway               *)
(* (engine/tool_executor.py); a STOP of the job may come at any time.      *)
(*                                                                         *)
(* A call is known by its index in the batch, and is as much of it as      *)
(* _conflicts looks at: its tool and the paths among its parameters.       *)
(***************************************************************************)
EXTENDS Integers, Sequences, FiniteSets

CONSTANTS
  CallKinds,    \* the calls a model may make: records [tool, paths]
  SerialTools,  \* SERIAL_TOOLS
  MaxCalls,     \* bound of the model: calls in a response
  MaxWorkers    \* max_concurrent_tools

ASSUME MaxCallsAssumption == MaxCalls \in Nat
ASSUME MaxWorkersAssumption == MaxWorkers \in Nat \ {0}

VARIABLES
  batch,      \* the calls, in the order the model made them
  wave,       \* the wave a call was placed in, 0 before that
  phase,      \* what execute_all is at
  opened,     \* the number of waves begun
  pc,         \* where the execution of a call is
  outcome,    \* the result recorded for a call
  env,        \* whose OVERLORD11_* context os.environ holds
  saved,      \* the context that _runtime_env will put back
  stopEvent,  \* the stop event of the run
  stopFile    \* whether the stop marker file exists

planVars == <<batch, wave>>
callVars == <<pc, outcome, saved>>
stopVars == <<stopEvent, stopFile>>
vars == <<planVars, phase, opened, callVars, env, stopVars>>

Calls == DOMAIN batch
\* A thread is busy with the call: about to look for the stop file, past that,
\* with the old context saved, in the tool, back from it.
BusySteps == {"called", "checked", "saved", "running", "ran"}
Busy(c) == pc[c] \in BusySteps
Serial(c) == batch[c].tool \in SerialTools

Init ==
  /\ batch \in UNION {[1..n -> CallKinds] : n \in 0..MaxCalls}
  /\ wave = [c \in Calls |-> 0]
  /\ phase = "partition"
  /\ opened = 0
  /\ pc = [c \in Calls |-> "new"]
  /\ outcome = [c \in Calls |-> "none"]
  /\ env \in {"unset", "other"}
  /\ saved = [c \in Calls |-> "unset"]
  /\ stopEvent = FALSE
  /\ stopFile = FALSE

-----------------------------------------------------------------------------
(* DependencyAnalyzer.partition.                                           *)

\* MUTANT: writers are kept apart from each other only.
ConflictsOfWriters(a, b) ==
  \/ a.tool \in SerialTools /\ b.tool \in SerialTools
  \/ a.tool = b.tool
  \/ a.paths \cap b.paths # {}

\* MUTANT: a path is only shared by calls of one tool.
ConflictsNoPaths(a, b) ==
  \/ a.tool \in SerialTools \/ b.tool \in SerialTools
  \/ a.tool = b.tool

\* _conflicts
Conflicts(a, b) ==
  \/ a.tool \in SerialTools \/ b.tool \in SerialTools
  \/ a.tool = b.tool
  \/ a.paths \cap b.paths # {}

\* No call that was placed in wave v conflicts with call c.
Fits(c, v) == \A d \in 1..(c - 1) : wave[d] = v => ~Conflicts(batch[c], batch[d])

\* One round of the greedy loop: the next call joins the earliest wave it fits
\* in, a new one if there is none.
Place(c) ==
  /\ phase = "partition" /\ wave[c] = 0 /\ \A d \in 1..(c - 1) : wave[d] # 0
  /\ \E v \in 1..c :
       /\ Fits(c, v) /\ \A u \in 1..(v - 1) : ~Fits(c, u)
       /\ wave' = [wave EXCEPT ![c] = v]
  /\ UNCHANGED <<batch, phase, opened, callVars, env, stopVars>>

\* partition returns the waves.
Partitioned ==
  /\ phase = "partition" /\ \A c \in Calls : wave[c] # 0
  /\ phase' = "run"
  /\ UNCHANGED <<planVars, opened, callVars, env, stopVars>>

-----------------------------------------------------------------------------
(* ParallelToolExecutor.execute_all.                                       *)

\* The calls of the waves begun so far have all ended.
WaveOver == \A c \in Calls : wave[c] \leq opened => pc[c] = "done"

\* MUTANT: one wave too many.
MoreWavesInclusive == \E c \in Calls : wave[c] \geq opened

MoreWaves == \E c \in Calls : wave[c] > opened

\* The loop goes on to the next wave, unless the job was stopped.
OpenWave ==
  /\ phase = "run" /\ WaveOver /\ MoreWaves /\ ~stopEvent
  /\ opened' = opened + 1
  /\ UNCHANGED <<planVars, phase, callVars, env, stopVars>>

\* MUTANT: a stopped loop skips the waves that are left, and never leaves.
LoopOverUnstopped == ~MoreWaves

\* The loop ends after the last wave, or with a break.
LoopOver == stopEvent \/ ~MoreWaves

\* MUTANT: the calls never started get no result.
CancelledNone == outcome

\* The calls without a result are cancelled if the job was stopped.
Cancelled ==
  [c \in Calls |-> IF stopEvent /\ outcome[c] = "none" THEN "cancelled" ELSE outcome[c]]

\* execute_all returns the results, in the order of the calls.
Return ==
  /\ phase = "run" /\ WaveOver /\ LoopOver
  /\ phase' = "returned"
  /\ outcome' = Cancelled
  /\ UNCHANGED <<planVars, opened, pc, env, saved, stopVars>>

\* A thread of the pool takes the oldest call of the wave; the only call of a
\* wave runs on the thread of execute_all itself.
CallStart(c) ==
  /\ phase = "run" /\ pc[c] = "new" /\ wave[c] = opened
  /\ \A d \in 1..(c - 1) : wave[d] = opened => pc[d] # "new"
  /\ Cardinality({d \in Calls : Busy(d)}) < MaxWorkers
  /\ pc' = [pc EXCEPT ![c] = "called"]
  /\ UNCHANGED <<planVars, phase, opened, outcome, env, saved, stopVars>>

-----------------------------------------------------------------------------
(* ToolExecutor.execute, and the rest of _execute_one.                     *)

\* The look for the stop file.
CallCheck(c) ==
  /\ pc[c] = "called"
  /\ IF stopFile
       THEN /\ pc' = [pc EXCEPT ![c] = "ran"]
            /\ outcome' = [outcome EXCEPT ![c] = "cancelled"]
       ELSE /\ pc' = [pc EXCEPT ![c] = "checked"]
            /\ UNCHANGED outcome
  /\ UNCHANGED <<planVars, phase, opened, env, saved, stopVars>>

\* _runtime_env remembers what os.environ holds ...
CallSave(c) ==
  /\ pc[c] = "checked"
  /\ saved' = [saved EXCEPT ![c] = env]
  /\ pc' = [pc EXCEPT ![c] = "saved"]
  /\ UNCHANGED <<planVars, phase, opened, outcome, env, stopVars>>

\* MUTANT: os.environ.setdefault.
ExportedDefault == IF env = "unset" THEN "job" ELSE env

\* What os.environ holds once the context is exported.
Exported == "job"

\* ... exports the context of the job, and the tool runs ...
CallEnter(c) ==
  /\ pc[c] = "saved"
  /\ env' = Exported
  /\ pc' = [pc EXCEPT ![c] = "running"]
  /\ UNCHANGED <<planVars, phase, opened, outcome, saved, stopVars>>

\* ... and puts back what it remembered, whatever os.environ holds by now.
CallExit(c) ==
  /\ pc[c] = "running"
  /\ env' = saved[c]
  /\ \E o \in {"ok", "error"} : outcome' = [outcome EXCEPT ![c] = o]
  /\ pc' = [pc EXCEPT ![c] = "ran"]
  /\ UNCHANGED <<planVars, phase, opened, saved, stopVars>>

\* The call is logged and its events go out; results holds its outcome.
CallLog(c) ==
  /\ pc[c] = "ran"
  /\ pc' = [pc EXCEPT ![c] = "done"]
  /\ UNCHANGED <<planVars, phase, opened, outcome, env, saved, stopVars>>

\* The log cannot be written: an error result for a call of the pool; the only
\* call of a wave takes execute_all with it.
CallRaise(c) ==
  /\ pc[c] = "ran"
  /\ pc' = [pc EXCEPT ![c] = "done"]
  /\ IF \E d \in Calls \ {c} : wave[d] = wave[c]
       THEN outcome' = [outcome EXCEPT ![c] = "error"] /\ UNCHANGED phase
       ELSE phase' = "raised" /\ UNCHANGED outcome
  /\ UNCHANGED <<planVars, opened, env, saved, stopVars>>

CallStep(c) ==
  \/ CallCheck(c) \/ CallSave(c) \/ CallEnter(c) \/ CallExit(c)
  \/ CallLog(c) \/ CallRaise(c)

-----------------------------------------------------------------------------

\* signal_stop, from the loop's thread: first the event, then the file.
Stop ==
  /\ phase \in {"partition", "run"}
  /\ \/ ~stopEvent /\ stopEvent' = TRUE /\ UNCHANGED stopFile
     \/ stopEvent /\ ~stopFile /\ stopFile' = TRUE /\ UNCHANGED stopEvent
  /\ UNCHANGED <<planVars, phase, opened, callVars, env>>

ExecutorStep ==
  \/ \E c \in Calls : Place(c)
  \/ Partitioned \/ OpenWave \/ Return
  \/ \E c \in Calls : CallStart(c)

Next == ExecutorStep \/ (\E c \in Calls : CallStep(c)) \/ Stop

Spec == Init /\ [][Next]_vars

\* The executor's thread and the threads of the pool are scheduled, and every
\* tool returns (the gateway's tools have timeouts of their own).
FairSpec ==
  /\ Spec /\ WF_vars(ExecutorStep)
  /\ \A c \in 1..MaxCalls : WF_vars(c \in Calls /\ CallStep(c))

-----------------------------------------------------------------------------

Contexts == {"unset", "other", "job"}

TypeOK ==
  /\ batch \in Seq(CallKinds)
  /\ wave \in [Calls -> 0..Len(batch)]
  /\ phase \in {"partition", "run", "returned", "raised"}
  /\ opened \in 0..Len(batch)
  /\ pc \in [Calls -> {"new", "done"} \cup BusySteps]
  /\ outcome \in [Calls -> {"none", "ok", "error", "cancelled"}]
  /\ env \in Contexts
  /\ saved \in [Calls -> Contexts]
  /\ stopEvent \in BOOLEAN /\ stopFile \in BOOLEAN

\* Nothing runs beside a serial tool, and calls that run together are of different
\* tools and on different paths, whatever the batch and the size of the pool
\* (partition, and the executor that waits for a wave before it begins the next).
ConflictsNeverOverlap ==
  \A c, d \in Calls : c # d /\ Busy(c) /\ Busy(d) =>
    /\ ~Serial(c)
    /\ batch[c].tool # batch[d].tool
    /\ batch[c].paths \cap batch[d].paths = {}

\* A call of a serial tool waits for every call the model made before it: a
\* write never overtakes a read (partition).
SerialAfterEarlier ==
  \A c \in Calls : Serial(c) /\ pc[c] # "new" => \A d \in 1..(c - 1) : pc[d] = "done"

\* A serial tool runs with the context of its own job, whatever the waves before
\* it left in the environment of the process (_runtime_env).
SerialSeesContext == \A c \in Calls : Serial(c) /\ pc[c] = "running" => env = "job"

\* When execute_all returns, every call has a result: one that was started its
\* own, one that was not started "cancelled", and that only if the job was
\* stopped (the runner feeds the results back to the model one per call).
EveryCallAnswered ==
  phase = "returned" =>
    \A c \in Calls :
      /\ outcome[c] # "none" /\ ~Busy(c)
      /\ pc[c] = "new" => outcome[c] = "cancelled"
      /\ outcome[c] = "cancelled" => stopEvent

\* execute_all comes back, and waits for no call for ever, a STOP or not.
Terminates == <>(phase \in {"returned", "raised"})

\* "Execute all tool calls in dependency order": of two calls that conflict the
\* later one starts only when the earlier one has ended.
ConflictsInOrder ==
  \A c, d \in Calls :
    c < d /\ Conflicts(batch[c], batch[d]) /\ pc[d] # "new" => pc[c] = "done"

\* "execute() is reentrant": a tool that runs sees the context of its own job.
RunningSeesContext == \A c \in Calls : pc[c] = "running" => env = "job"
=============================================================================
