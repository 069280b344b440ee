---------------------------- MODULE SessionFiles ----------------------------
(***************************************************************************)
(* What a run leaves behind of its tool calls.  A thread of the parallel   *)
(* executor announces its call, has it executed (ToolCalls), writes a      *)
(* trace file and an entry of the session log, and announces the result    *)
(* (_execute_one of engine/parallel_executor.py, engine/session_manager.py,*)
(* engine/event_stream.py).  The log is rewritten as a whole each time, by *)
(* the threads of a wave without a lock.  When the calls are over the      *)
(* runner writes the final answer and a summary and closes the session,    *)
(* which writes the log twice; any of these writes may raise.  What the    *)
(* user is shown is chosen among the files (backend/api/artifacts.py).     *)
(***************************************************************************)
EXTENDS ToolCalls

CONSTANTS
  Earlier,    \* an entry of a run that this one resumes
  Found,      \* what may be in events.json when it does
  Finals      \* what a run may end with: the type of a text, or nothing

Closing == "closing"
Torn == <<"torn">>
Empty == <<"empty">>
NoText == "none"
Entries == Calls \cup {Earlier, Closing}

ASSUME EntriesAssumption == Earlier \notin Calls /\ Closing \notin Calls
ASSUME FoundAssumption == \A f \in Found : f = Torn \/ f \in Seq({Earlier})

VARIABLES
  rec,        \* where the recording of a call is
  trace,      \* the trace file of a call: its number, 0 before it has one
  seen,       \* the log as the thread of a call is about to write it
  numbers,    \* the trace counter of a session
  log,        \* the entries of a session
  logFile,    \* events.json
  events,     \* what a run announced: "call" and "result" of a call
  final,      \* the file of the final answer, if there is one
  ending      \* how far the end of a run has come

sessionVars == <<trace, seen, numbers, log, logFile, final, ending>>
recordVars == <<rec, events, sessionVars>>
vars == <<callVars, recordVars>>

CallsOf(j) == {c \in Active : JobOf[c] = j}

\* EngineSession.create starts an empty log, load takes the one it finds, or
\* an empty one if it cannot be parsed.
Opened ==
  {[entries |-> << >>, file |-> << >>]}
  \cup {[entries |-> IF f = Torn THEN << >> ELSE f, file |-> f] : f \in Found}

Init ==
  /\ CallsInit
  /\ rec = [c \in Active |-> "new"]
  /\ trace = [c \in Active |-> 0]
  /\ seen = [c \in Active |-> << >>]
  /\ numbers = [j \in Jobs |-> 0]
  /\ \E found \in Opened :
       log = [j \in Jobs |-> found.entries] /\ logFile = [j \in Jobs |-> found.file]
  /\ events = [j \in Jobs |-> << >>]
  /\ final = [j \in Jobs |-> {}]
  /\ ending = [j \in Jobs |-> "running"]

\* EventStream.emit: the append is made under a lock.
Emit(j, what, c) == events' = [events EXCEPT ![j] = Append(@, [what |-> what, call |-> c])]

Records(c, step) == rec' = [rec EXCEPT ![c] = step]

-----------------------------------------------------------------------------
(* ParallelToolExecutor._execute_one.                                      *)

Announce(c) ==
  /\ rec[c] = "new"
  /\ Emit(JobOf[c], "call", c)
  /\ Records(c, "executing")
  /\ UNCHANGED <<callVars, sessionVars>>

Execute(c) ==
  /\ rec[c] = "executing"
  /\ CallCancelled(c) \/ CallStarts(c) \/ CallStep(c)
  /\ UNCHANGED recordVars

\* write_trace and the entry log_tool_call appends: the number is taken and put
\* into the name of the file without another thread in between; that the entries
\* may come in another order than the numbers, and timeline.jsonl, are left out.
LogCall(c) ==
  /\ rec[c] = "executing" /\ pc[c] = "returned"
  /\ numbers' = [numbers EXCEPT ![JobOf[c]] = @ + 1]
  /\ trace' = [trace EXCEPT ![c] = numbers[JobOf[c]] + 1]
  /\ log' = [log EXCEPT ![JobOf[c]] = Append(@, c)]
  /\ Records(c, "appended")
  /\ UNCHANGED <<callVars, events, seen, logFile, final, ending>>

\* _persist_logs dumps the log as it is now,
DumpLog(c) ==
  /\ rec[c] = "appended"
  /\ seen' = [seen EXCEPT ![c] = log[JobOf[c]]]
  /\ Records(c, "dumped")
  /\ UNCHANGED <<callVars, events, trace, numbers, log, logFile, final, ending>>

\* truncates the file,
OpenLog(c) ==
  /\ rec[c] = "dumped"
  /\ logFile' = [logFile EXCEPT ![JobOf[c]] = Empty]
  /\ Records(c, "opened")
  /\ UNCHANGED <<callVars, events, trace, seen, numbers, log, final, ending>>

\* What is in the file after the text of a log is written over what is there: a
\* text that is shorter leaves the end of the other behind it.
Overlays(text, there) ==
  IF there = Torn THEN {text, Torn}
  ELSE IF there = Empty \/ Len(there) \leq Len(text) THEN {text} ELSE {Torn}

\* and writes.
WriteLog(c) ==
  /\ rec[c] = "opened"
  /\ \E text \in Overlays(seen[c], logFile[JobOf[c]]) :
       logFile' = [logFile EXCEPT ![JobOf[c]] = text]
  /\ seen' = [seen EXCEPT ![c] = << >>]
  /\ Records(c, "logged")
  /\ UNCHANGED <<callVars, events, trace, numbers, log, final, ending>>

\* One of the writes fails, that of the trace after its number was taken:
\* _execute_one raises, and no result is announced.
WriteFails(c) ==
  /\ \/ /\ rec[c] = "executing" /\ pc[c] = "returned"
        /\ numbers' = [numbers EXCEPT ![JobOf[c]] = @ + 1]
     \/ rec[c] \in {"dumped", "opened"} /\ UNCHANGED numbers
  /\ seen' = [seen EXCEPT ![c] = << >>]
  /\ Records(c, "raised")
  /\ UNCHANGED <<callVars, events, trace, log, logFile, final, ending>>

\* on_result or on_error.
AnnounceResult(c) ==
  /\ rec[c] = "logged"
  /\ Emit(JobOf[c], "result", c)
  /\ Records(c, "done")
  /\ UNCHANGED <<callVars, sessionVars>>

-----------------------------------------------------------------------------
(* The end of EngineRunner.run.                                            *)

\* MUTANT: the session is closed when the tools have returned.
CallsOverEarly(j) == \A c \in CallsOf(j) : rec[c] \notin {"new", "executing"}

\* The pool is left when its threads have ended.  What a thread raised becomes
\* the result of its call, but in a wave of one it is the run that fails.
CallsOver(j) ==
  /\ \A c \in CallsOf(j) : rec[c] \in {"done", "raised"}
  /\ Cardinality(CallsOf(j)) = 1 => \A c \in CallsOf(j) : rec[c] = "done"

\* The files in the directory of a session that its tools wrote there.  A file
\* is its category in the listing, its name and its type.
Written(j) == UNION {request[c].writes : c \in {d \in Active : outcome[d] = "ok" /\ root[d] = j}}

\* log_product_output: a final_output that is there already is kept.
Answer(j, type) ==
  LET taken == \E f \in Written(j) : f.cat = "product" /\ f.name = "final_output" /\ f.type = type
  IN  [cat |-> "product", name |-> IF taken THEN "final_response" ELSE "final_output", type |-> type]

Ending(j, step) == ending' = [ending EXCEPT ![j] = step]

\* log_product_output, which writes no file for an empty text.
WriteAnswer(j) ==
  /\ ending[j] = "running" /\ CallsOver(j)
  /\ \E type \in Finals :
       final' = [final EXCEPT ![j] = IF type = NoText THEN {} ELSE {Answer(j, type)}]
  /\ Ending(j, "answered")
  /\ UNCHANGED <<callVars, rec, events, trace, seen, numbers, log, logFile>>

\* write_job_summary, and the first step of close: an entry is added to the log.
CloseSession(j) ==
  /\ ending[j] = "answered"
  /\ log' = [log EXCEPT ![j] = Append(@, Closing)]
  /\ Ending(j, "closed")
  /\ UNCHANGED <<callVars, rec, events, trace, seen, numbers, logFile, final>>

\* MUTANT: a session that is closed does not write its log.
SavedNot(j) == UNCHANGED logFile

\* _persist_logs, while no thread writes.
Saved(j) == logFile' = [logFile EXCEPT ![j] = log[j]]

\* close writes the log in log_event, and once more.
SaveLog(j) ==
  /\ ending[j] \in {"closed", "saved"}
  /\ Saved(j)
  /\ Ending(j, IF ending[j] = "closed" THEN "saved" ELSE "ended")
  /\ UNCHANGED <<callVars, rec, events, trace, seen, numbers, log, final>>

\* A write of the end fails, before it has opened its file or after it: the answer
\* may be there or not, and events.json as it was, empty or in part.  The run raises.
EndFails(j) ==
  /\ \/ /\ ending[j] = "running" /\ CallsOver(j) /\ UNCHANGED logFile
        /\ \E type \in Finals \ {NoText} :
             final' \in {final, [final EXCEPT ![j] = {Answer(j, type)}]}
     \/ ending[j] = "answered" /\ UNCHANGED <<final, logFile>>
     \/ /\ ending[j] \in {"closed", "saved"} /\ UNCHANGED final
        /\ \E left \in {logFile[j], Empty, Torn} : logFile' = [logFile EXCEPT ![j] = left]
  /\ Ending(j, "raised")
  /\ UNCHANGED <<callVars, rec, events, trace, seen, numbers, log>>

Finish(j) == WriteAnswer(j) \/ CloseSession(j) \/ SaveLog(j) \/ EndFails(j)

-----------------------------------------------------------------------------
(* GET /api/artifacts/{job_id}/primary-output: the best-ranked file.  Of two *)
(* of one rank it takes the newer one, here either.                        *)

\* events.json, the summary and the traces are listed as "system".
EngineFiles == [cat : {"system"}, name : {"events"}, type : {"json"}]

Files(j) == Written(j) \cup final[j] \cup EngineFiles

Wanted(f) == f.cat \in {"product", "output"}

\* MUTANT: files of every category are ranked by their names and types.
BucketsOfNames(f, required) ==
  <<f.type = required, f.name = "answer", f.name = "final_output", f.type = "html">>

\* _output_rank: the first of these that is true places a file.
Buckets(f, required) ==
  <<f.type = required, f.name = "answer", f.name = "final_output",
    f.cat = "product", f.cat = "output", f.type = "html", f.type = "png">>

Bucket(f, required) ==
  LET tests == Buckets(f, required)
  IN  CHOOSE b \in 1..(Len(tests) + 1) :
        /\ b \leq Len(tests) => tests[b]
        /\ \A lower \in 1..(b - 1) : ~tests[lower]

\* _OUTPUT_EXT_PRIORITY, in which every type of this model has a place.
TypePriority == [html |-> 0, png |-> 3, md |-> 9, json |-> 11]

RanksBelow(f, g, required) ==
  \/ Bucket(f, required) < Bucket(g, required)
  \/ Bucket(f, required) = Bucket(g, required) /\ TypePriority[f.type] < TypePriority[g.type]

\* _select_primary_output
PrimaryOutputs(j, required) ==
  {f \in Files(j) : \A g \in Files(j) : ~RanksBelow(g, f, required)}

-----------------------------------------------------------------------------
Record(c) ==
  \/ Announce(c) \/ LogCall(c) \/ DumpLog(c) \/ OpenLog(c)
  \/ WriteLog(c) \/ WriteFails(c) \/ AnnounceResult(c)

ThreadStep == \E c \in Active : Execute(c) \/ Record(c)

Next ==
  \/ ThreadStep
  \/ AroundStep /\ UNCHANGED recordVars
  \/ \E j \in Running : Finish(j)

\* The threads go on with their calls and time passes; nothing is asked of the
\* processes, nor that a thread gets its turn before the others are done.
Spec ==
  /\ Init /\ [][Next]_vars
  /\ WF_vars(ThreadStep)
  /\ WF_vars((\E c \in Active : TimeUp(c)) /\ UNCHANGED recordVars)

-----------------------------------------------------------------------------
(* Properties.                                                             *)

RecSteps == {"new", "executing", "appended", "dumped", "opened", "logged",
             "done", "raised"}
EndSteps == {"running", "answered", "closed", "saved", "ended", "raised"}

TypeOK ==
  /\ CallsTypeOK
  /\ rec \in [Active -> RecSteps]
  /\ trace \in [Active -> Nat]
  /\ seen \in [Active -> Seq(Entries)]
  /\ numbers \in [Jobs -> Nat]
  /\ log \in [Jobs -> Seq(Entries)]
  /\ logFile \in [Jobs -> Seq(Entries) \cup {Torn, Empty}]
  /\ events \in [Jobs -> Seq([what : {"call", "result"}, call : Calls])]
  /\ final \in [Jobs -> SUBSET [cat : {"product"}, name : {"final_output", "final_response"},
                                type : Finals]]
  /\ ending \in [Jobs -> EndSteps]

\* Once a session that is closed was written, its file is the whole log.
LogIsSaved(j) == ending[j] \in {"saved", "ended"} => logFile[j] = log[j]

\* Where a sequence has a value.
Places(s, v) == {i \in DOMAIN s : s[i] = v}

\* A call whose result was announced is in the log once, with a trace file no
\* other call has; its result was announced once, after the call.
CallIsRecorded(c) ==
  LET j == JobOf[c]
      Said(what) == Places(events[j], [what |-> what, call |-> c])
  IN  rec[c] = "done" =>
        /\ \E i \in DOMAIN log[j] : Places(log[j], c) = {i}
        /\ trace[c] # 0 /\ \A d \in CallsOf(j) \ {c} : trace[d] # trace[c]
        /\ \E i, k \in DOMAIN events[j] :
             i < k /\ Said("call") = {i} /\ Said("result") = {k}

\* While there is a file among the products or outputs, the one a user is shown
\* is none of the engine's records, unless a type is required that they have.
PrimaryIsNoRecord(j) ==
  \A required \in {"none", "html", "md"} :
    (\E f \in Files(j) : Wanted(f)) => PrimaryOutputs(j, required) \cap EngineFiles = {}

\* Whatever the threads of a wave do at one time, and though a write of theirs fails
\* or is written over, the record of a run that ended without an error is complete:
\* its log is in its file.  Of every run each call that ended is in the log, and the
\* primary output is no file of the record (_execute_one, _persist_logs, close,
\* get_primary_output).
RecordIsComplete ==
  /\ \A j \in Jobs : LogIsSaved(j) /\ PrimaryIsNoRecord(j)
  /\ \A c \in Active : CallIsRecorded(c)

\* Every call comes to an end: it is recorded, or it raised.  No command keeps a
\* thread for ever, whatever holds its pipe (_wait_for_process).
CallsReturn == <>(\A c \in Active : rec[c] \in {"done", "raised"})
=============================================================================
