----------------------------- MODULE ToolCalls -----------------------------
(***************************************************************************)
(* What one tool call does between its start and its result, for the calls *)
(* of all jobs that run at one time.  Each job has a ToolExecutor of its   *)
(* own (engine/tool_executor.py) with a gateway of its own                 *)
(* (tool_gateway/executor.py): it normalises and validates the arguments,  *)
(* counts the calls it rejects and runs the tool.  What all jobs share is  *)
(* the environment of the process, where a tool looks up the job it works  *)
(* for.  A command (tools/shell_runner.py) runs as a process group that    *)
(* the call watches, stops when its time is up or its job is stopped, and  *)
(* kills when that does not help.                                          *)
(*                                                                         *)
(* The three OVERLORD11_* variables are one value here: the job they name. *)
(***************************************************************************)
EXTENDS Integers, Sequences, FiniteSets

CONSTANTS
  Jobs,     \* jobs with a run in progress
  Calls,    \* tool calls, each known by its name
  JobOf,    \* the job a call belongs to
  NoJob,    \* no OVERLORD11_* variable is set
  Fields,   \* names of arguments
  Tools,    \* the registry: a tool's fields, the required ones, those that are
            \* lists, those a lone value is wrapped for, its aliases in order,
            \* and whether it runs a process
  Waves     \* what may be in progress at one time: functions from calls to
            \* requests, each the tool, its arguments and the files it writes

Total == "total"
NoCall == "nocall"
Keys == Fields \cup {Total}

ASSUME JobsAssumption == NoJob \notin Jobs /\ JobOf \in [Calls -> Jobs]
ASSUME CallsAssumption == IsFiniteSet(Calls)
ASSUME FieldsAssumption == Total \notin Fields
ASSUME WavesAssumption == \A w \in Waves : DOMAIN w \subseteq Calls

VARIABLES
  request,    \* the calls in progress, and what the model asked for
  pc,         \* where execute is
  saved,      \* the context that _runtime_env will put back
  root,       \* the job whose workspace the tool works in
  outcome,    \* what became of the call
  env,        \* the job whose context os.environ holds
  issues,     \* the fields a call was rejected for
  counts,     \* rejected calls of a job: all of them, those of a field
  todo,       \* the counters a rejected call has yet to add to
  held,       \* the value it has read of one of them
  report,     \* the counts in its result
  proc,       \* the leader of the process group, and a child with its pipe
  late,       \* timeout_seconds have passed
  stopFile    \* whether the stop file of a job exists

contextVars == <<saved, root, env>>
countVars == <<issues, counts, todo, held, report>>
procVars == <<proc, late>>
callVars == <<request, pc, outcome, contextVars, countVars, procVars, stopFile>>

Active == DOMAIN request
Running == {JobOf[c] : c \in Active}
JobsRoots == Jobs \cup {NoJob}
NotHeld == [key |-> Total, value |-> -1]
NoCounts == [k \in Keys |-> 0]

CallsInit ==
  /\ request \in Waves
  /\ pc = [c \in Active |-> "new"]
  /\ saved = [c \in Active |-> NoJob]
  /\ root = [c \in Active |-> NoJob]
  /\ outcome = [c \in Active |-> "none"]
  /\ env = NoJob
  /\ issues = [c \in Active |-> {}]
  /\ counts = [j \in Jobs |-> NoCounts]
  /\ todo = [c \in Active |-> {}]
  /\ held = [c \in Active |-> NotHeld]
  /\ report = [c \in Active |-> NoCounts]
  /\ proc = [c \in Active |-> [leader |-> "none", child |-> "none"]]
  /\ late = [c \in Active |-> FALSE]
  /\ stopFile = [j \in Jobs |-> FALSE]

Goto(c, step) == pc' = [pc EXCEPT ![c] = step]
Ends(c, what) == outcome' = [outcome EXCEPT ![c] = what]

-----------------------------------------------------------------------------
(* ToolExecutor.execute, _runtime_env.                                     *)

\* The stop file of the job exists already.
CallCancelled(c) ==
  /\ pc[c] = "new" /\ stopFile[JobOf[c]]
  /\ Goto(c, "returned") /\ Ends(c, "cancelled")
  /\ UNCHANGED <<request, contextVars, countVars, procVars, stopFile>>

CallStarts(c) ==
  /\ pc[c] = "new" /\ ~stopFile[JobOf[c]]
  /\ Goto(c, "started")
  /\ UNCHANGED <<request, outcome, contextVars, countVars, procVars, stopFile>>

SaveContext(c) ==
  /\ pc[c] = "started"
  /\ saved' = [saved EXCEPT ![c] = env]
  /\ Goto(c, "saved")
  /\ UNCHANGED <<request, outcome, root, env, countVars, procVars, stopFile>>

SetContext(c) ==
  /\ pc[c] = "saved"
  /\ env' = JobOf[c]
  /\ Goto(c, "gate")
  /\ UNCHANGED <<request, outcome, saved, root, countVars, procVars, stopFile>>

\* MUTANT: a variable that was not set before is set to the text of None.
RestoredAsText(c) == IF saved[c] = NoJob THEN "None" ELSE saved[c]

Restored(c) == saved[c]

\* The finally clause, and the return, which forgets what only the call knew; a child
\* that is still there is nobody's any more.
PutContextBack(c) ==
  /\ pc[c] = "leaving"
  /\ env' = Restored(c)
  /\ saved' = [saved EXCEPT ![c] = NoJob]
  /\ late' = [late EXCEPT ![c] = FALSE]
  /\ proc' = [proc EXCEPT ![c].child = "none"]
  /\ Goto(c, "returned")
  /\ UNCHANGED <<request, outcome, root, countVars, stopFile>>

-----------------------------------------------------------------------------
(* ToolGateway.execute_tool_call up to the tool: parse, normalise, validate.*)

\* An alias stands for its field unless the field is given as well.
Rename(args, alias) ==
  IF alias.from \notin DOMAIN args \/ alias.to \in DOMAIN args THEN args
  ELSE [f \in (DOMAIN args \ {alias.from}) \cup {alias.to} |->
          args[IF f = alias.to THEN alias.from ELSE f]]

\* ALIASES_BY_TOOL
Aliases(t) == Tools[t].aliases

\* normalize_arguments: the aliases one after the other, then the lone values.
Normalized(t, args) ==
  LET renamed[i \in 0..Len(Aliases(t))] ==
        IF i = 0 THEN args ELSE Rename(renamed[i - 1], Aliases(t)[i])
      result == renamed[Len(Aliases(t))]
  IN  [f \in DOMAIN result |-> IF f \in Tools[t].wrapped THEN "list" ELSE result[f]]

\* validate_arguments: the fields of the issues a schema finds: a field that is
\* required and missing, one that is not the tool's, one of the wrong type.
Issues(t, args) ==
  {f \in Fields :
     IF f \in DOMAIN args
       THEN f \notin Tools[t].fields \/ (args[f] = "list") # (f \in Tools[t].lists)
       ELSE f \in Tools[t].required}

\* The tools a ToolExecutor registers.
Registered == DOMAIN Tools

Known(c) == request[c].tool \in Registered

\* The fields execute_tool_call finds fault with; a call for a tool nobody
\* registered names none.
Faults(c) ==
  IF Known(c) THEN Issues(request[c].tool, Normalized(request[c].tool, request[c].args))
  ELSE {}

Valid(c) == Known(c) /\ Faults(c) = {}
RunsProcess(c) == Known(c) /\ Tools[request[c].tool].process

Admit(c) ==
  /\ pc[c] = "gate" /\ Valid(c)
  /\ Goto(c, "tool")
  /\ UNCHANGED <<request, outcome, contextVars, countVars, procVars, stopFile>>

\* A rejection that names no field is not counted.
Reject(c) ==
  /\ pc[c] = "gate" /\ ~Valid(c)
  /\ issues' = [issues EXCEPT ![c] = Faults(c)]
  /\ todo' = [todo EXCEPT ![c] = IF Faults(c) = {} THEN {} ELSE Faults(c) \cup {Total}]
  /\ Goto(c, "count") /\ Ends(c, "rejected")
  /\ UNCHANGED <<request, contextVars, counts, held, report, procVars, stopFile>>

-----------------------------------------------------------------------------
(* _increment_validation_retry_count and its read-back: no lock is held, and *)
(* a counter is read in one step and written in another.                   *)

ReadCount(c, k) ==
  /\ pc[c] = "count" /\ k \in todo[c]
  /\ k # Total => Total \notin todo[c]
  /\ held' = [held EXCEPT ![c] = [key |-> k, value |-> counts[JobOf[c]][k]]]
  /\ Goto(c, "counting")
  /\ UNCHANGED <<request, outcome, contextVars, issues, counts, todo, report, procVars, stopFile>>

\* MUTANT: a call that is rejected counts for two.
AddTwice(c) == held[c].value + 2

AddOne(c) == held[c].value + 1

\* The total that is reported is the one that was written.
WriteCount(c) ==
  /\ pc[c] = "counting"
  /\ counts' = [counts EXCEPT ![JobOf[c]][held[c].key] = AddOne(c)]
  /\ report' = IF held[c].key = Total THEN [report EXCEPT ![c][Total] = AddOne(c)] ELSE report
  /\ todo' = [todo EXCEPT ![c] = @ \ {held[c].key}]
  /\ held' = [held EXCEPT ![c] = NotHeld]
  /\ Goto(c, "count")
  /\ UNCHANGED <<request, outcome, contextVars, issues, procVars, stopFile>>

\* The counts of the fields are read again for the result.
ReportCounts(c) ==
  /\ pc[c] = "count" /\ todo[c] = {}
  /\ report' = [report EXCEPT ![c] =
       [k \in Keys |-> IF k \in issues[c] THEN counts[JobOf[c]][k] ELSE @[k]]]
  /\ Goto(c, "leaving")
  /\ UNCHANGED <<request, outcome, contextVars, issues, counts, todo, held, procVars, stopFile>>

-----------------------------------------------------------------------------
(* The tools.  Each resolves its workspace from the environment first.     *)

\* A tool that runs no process, or a command that is only to be described or
\* cannot be started, answers or raises.
RunTool(c) ==
  /\ pc[c] = "tool"
  /\ root' = [root EXCEPT ![c] = env]
  /\ \E what \in {"ok", "error"} : Ends(c, what)
  /\ Goto(c, "leaving")
  /\ UNCHANGED <<request, saved, env, countVars, procVars, stopFile>>

\* run_command starts its process, the leader of a group of its own.
StartProcess(c) ==
  /\ pc[c] = "tool" /\ RunsProcess(c)
  /\ root' = [root EXCEPT ![c] = env]
  /\ proc' = [proc EXCEPT ![c].leader = "up"]
  /\ Goto(c, "looking")
  /\ UNCHANGED <<request, outcome, saved, env, countVars, late, stopFile>>

\* What a signal to the group may leave of it: nothing is sent once the leader
\* has ended, SIGTERM may be ignored, SIGKILL may not, and neither reaches a
\* child that has left the group.
Signalled(p, force) ==
  IF p.leader = "down" THEN {p}
  ELSE {q \in [leader : {"up", "down"}, child : {p.child, "none"}] :
          /\ force => q.leader = "down"
          /\ p.child = "grouped" /\ force => q.child = "none"
          /\ p.child # "grouped" => q.child = p.child}

\* The leader is reaped and nobody holds the pipe: communicate returns.
Over(p) == p.leader = "down" /\ p.child = "none"

Terminate(c, force) == \E p \in Signalled(proc[c], force) : proc' = [proc EXCEPT ![c] = p]

\* _is_stop_requested: the environment says whose stop file to look for.
StopSeen == env # NoJob /\ stopFile[env]

StopProcess(c) ==
  /\ pc[c] = "looking" /\ StopSeen
  /\ Terminate(c, FALSE)
  /\ Goto(c, "ending") /\ Ends(c, "stopped")
  /\ UNCHANGED <<request, contextVars, countVars, late, stopFile>>

TimeOut(c) ==
  /\ pc[c] = "looking" /\ ~StopSeen /\ late[c]
  /\ Terminate(c, FALSE)
  /\ Goto(c, "ending") /\ Ends(c, "timed out")
  /\ UNCHANGED <<request, contextVars, countVars, late, stopFile>>

\* Neither: the call waits for the output for a fifth of a second.
Wait(c) ==
  /\ pc[c] = "looking" /\ ~StopSeen /\ ~late[c]
  /\ Goto(c, "waiting")
  /\ UNCHANGED <<request, outcome, contextVars, countVars, procVars, stopFile>>

\* Output that is no text in the expected encoding is an error.
Communicate(c) ==
  /\ pc[c] = "waiting"
  /\ IF Over(proc[c]) THEN Goto(c, "leaving") /\ \E what \in {"ok", "error"} : Ends(c, what)
     ELSE Goto(c, "looking") /\ UNCHANGED outcome
  /\ UNCHANGED <<request, contextVars, countVars, procVars, stopFile>>

\* MUTANT: the second signal is a polite one too.
KillPolitely(c) == Terminate(c, FALSE)

Kill(c) == Terminate(c, TRUE)

\* A second is left for the output, which may be no text; then the group is killed.
CollectOutput(c) ==
  /\ pc[c] = "ending"
  /\ IF Over(proc[c])
       THEN Goto(c, "leaving") /\ UNCHANGED proc /\ (UNCHANGED outcome \/ Ends(c, "error"))
       ELSE Goto(c, "killed") /\ Kill(c) /\ UNCHANGED outcome
  /\ UNCHANGED <<request, contextVars, countVars, late, stopFile>>

\* MUTANT: after the kill the call waits until the pipe is closed.
GivesUpWhenOver(c) == pc[c] = "killed" /\ Over(proc[c])

\* Another second, and the output that is not there by then is given up.
GivesUp(c) == pc[c] = "killed"

GiveUpOutput(c) ==
  /\ GivesUp(c)
  /\ Goto(c, "leaving")
  /\ UNCHANGED outcome \/ (Over(proc[c]) /\ Ends(c, "error"))
  /\ UNCHANGED <<request, contextVars, countVars, procVars, stopFile>>

-----------------------------------------------------------------------------
(* What happens around the calls.                                          *)

\* A command starts a child, in its group or out of it; either ends.  What becomes
\* of a child when its call has left is left out.
ProcessStep(c) ==
  /\ pc[c] \in {"looking", "waiting", "ending", "killed"}
  /\ \/ proc[c].leader = "up" /\ proc[c].child = "none"
        /\ \E kind \in {"grouped", "detached"} : proc' = [proc EXCEPT ![c].child = kind]
     \/ proc[c].leader = "up" /\ proc' = [proc EXCEPT ![c].leader = "down"]
     \/ proc[c].child # "none" /\ proc' = [proc EXCEPT ![c].child = "none"]
  /\ UNCHANGED <<request, pc, outcome, contextVars, countVars, late, stopFile>>

TimeUp(c) ==
  /\ pc[c] \in {"looking", "waiting"} /\ ~late[c]
  /\ late' = [late EXCEPT ![c] = TRUE]
  /\ UNCHANGED <<request, pc, outcome, contextVars, countVars, proc, stopFile>>

\* signal_stop writes the stop file of a job; that of a job stopped when all calls
\* have returned nobody looks for here.
StopJob(j) ==
  /\ ~stopFile[j] /\ \E c \in Active : pc[c] # "returned"
  /\ stopFile' = [stopFile EXCEPT ![j] = TRUE]
  /\ UNCHANGED <<request, pc, outcome, contextVars, countVars, procVars>>

\* The steps of a call from CallStarts on.
CallStep(c) ==
  \/ SaveContext(c) \/ SetContext(c) \/ PutContextBack(c)
  \/ Admit(c) \/ Reject(c)
  \/ \E k \in Keys : ReadCount(c, k)
  \/ WriteCount(c) \/ ReportCounts(c)
  \/ RunTool(c) \/ StartProcess(c)
  \/ StopProcess(c) \/ TimeOut(c) \/ Wait(c) \/ Communicate(c)
  \/ CollectOutput(c) \/ GiveUpOutput(c)

AroundStep == (\E c \in Active : ProcessStep(c) \/ TimeUp(c)) \/ (\E j \in Running : StopJob(j))

-----------------------------------------------------------------------------
(* Properties.                                                             *)

InProcess == {"looking", "waiting", "ending", "killed"}
Steps == {"new", "started", "saved", "gate", "count", "counting", "tool", "leaving",
          "returned"} \cup InProcess

Outcomes == {"none", "cancelled", "rejected", "ok", "error", "stopped", "timed out"}

CallsTypeOK ==
  /\ request \in Waves
  /\ pc \in [Active -> Steps]
  /\ saved \in [Active -> JobsRoots]
  /\ root \in [Active -> JobsRoots]
  /\ outcome \in [Active -> Outcomes]
  /\ env \in JobsRoots
  /\ issues \in [Active -> SUBSET Fields]
  /\ counts \in [Jobs -> [Keys -> Nat]]
  /\ todo \in [Active -> SUBSET Keys]
  /\ held \in [Active -> [key : Keys, value : Nat \cup {-1}]]
  /\ report \in [Active -> [Keys -> Nat]]
  /\ proc \in [Active -> [leader : {"none", "up", "down"},
                          child : {"none", "grouped", "detached"}]]
  /\ late \in [Active -> BOOLEAN]
  /\ stopFile \in [Jobs -> BOOLEAN]

\* The calls of job j that were rejected, and for field k.
RejectedFor(j, k) ==
  {c \in Active : JobOf[c] = j /\ outcome[c] = "rejected"
                  /\ (k # Total => k \in issues[c])}

\* The count of rejected calls a result shows, and the one of each field, is
\* never more than the calls that were rejected so far: threads of a wave that
\* count at one time may lose a call, they never invent one
\* (_increment_validation_retry_count).
CountsNeverOvershoot ==
  \A j \in Jobs, k \in Keys :
    /\ counts[j][k] \leq Cardinality(RejectedFor(j, k))
    /\ \A c \in Active : JobOf[c] = j => report[c][k] \leq Cardinality(RejectedFor(j, k))

\* When a call returns, its process is no longer there, whether the command
\* ended, ran out of time, was stopped or ignores SIGTERM (_wait_for_process).
NoShellSurvives ==
  \A c \in Active : pc[c] \in {"leaving", "returned"} => proc[c].leader # "up"

\* "ToolExecutor.execute() is reentrant", and "Cancellation is job-scoped": a
\* tool works in the workspace of its own job, and a command is stopped only
\* when its own job is.
ToolsSeeOwnContext ==
  \A c \in Active :
    /\ outcome[c] \in {"ok", "stopped", "timed out"} => root[c] = JobOf[c]
    /\ outcome[c] = "stopped" => stopFile[JobOf[c]]
=============================================================================
