------------------------- MODULE SessionFilesProofs -------------------------
(***************************************************************************)
(* Proofs about ToolCalls and SessionFiles for any jobs, calls, tools and  *)
(* requests.                                                               *)
(*                                                                         *)
(* ProcessInv follows the process of a command through the steps of its    *)
(* call; CountInv bounds a counter, and the value a thread has read of it, *)
(* by the calls that have added to it; EntryInv says how often a call is   *)
(* in the log, the trace numbers and the events at each step of its        *)
(* recording; SavedInv that no thread writes once its run is ending.       *)
(***************************************************************************)
EXTENDS SessionFiles, FiniteSetTheorems, SequenceTheorems, TLAPS

CallAction(c) == CallCancelled(c) \/ CallStarts(c) \/ CallStep(c)

-----------------------------------------------------------------------------
(* Types.                                                                  *)

\* The types of what a call leaves to its session.
FilesTyped ==
  /\ rec \in [Active -> RecSteps]
  /\ trace \in [Active -> Nat]
  /\ seen \in [Active -> Seq(Entries)]
  /\ numbers \in [Jobs -> Nat]
  /\ log \in [Jobs -> Seq(Entries)]
  /\ logFile \in [Jobs -> Seq(Entries) \cup {Torn, Empty}]
  /\ events \in [Jobs -> Seq([what : {"call", "result"}, call : Calls])]
  /\ final \in [Jobs -> SUBSET [cat : {"product"}, name : {"final_output", "final_response"},
                                type : Finals]]
  /\ ending \in [Jobs -> EndSteps]

LEMMA TypeParts == TypeOK <=> CallsTypeOK /\ FilesTyped
BY DEF TypeOK, FilesTyped

LEMMA TypePartsNext == TypeOK' <=> CallsTypeOK' /\ FilesTyped'
BY DEF TypeOK, FilesTyped

\* The calls in progress are finitely many, each of a job.
LEMMA ActiveCalls ==
  ASSUME request \in Waves
  PROVE  /\ Active \subseteq Calls /\ IsFiniteSet(Active)
         /\ \A c \in Active : JobOf[c] \in Jobs
<1>1. Active \subseteq Calls
  BY WavesAssumption DEF Active
<1>. QED  BY <1>1, CallsAssumption, JobsAssumption, FS_Subset

Processes == [leader : {"none", "up", "down"}, child : {"none", "grouped", "detached"}]

LEMMA SignalTyped ==
  ASSUME NEW p \in Processes, NEW force \in BOOLEAN
  PROVE  Signalled(p, force) \subseteq Processes
BY DEF Signalled, Processes

\* The types of an action that leaves the process and the counts alone.
LEMMA PlainTyped ==
  ASSUME CallsTypeOK, NEW c \in Active, UNCHANGED <<request, countVars, procVars, stopFile>>,
         NEW step \in Steps, pc' = [pc EXCEPT ![c] = step],
         outcome' \in [Active -> Outcomes],
         saved' \in [Active -> JobsRoots], root' \in [Active -> JobsRoots], env' \in JobsRoots
  PROVE  CallsTypeOK'
BY DEF CallsTypeOK, Active, countVars, procVars

\* The types of one that leaves the context and the counts alone.
LEMMA ProcessTyped ==
  ASSUME CallsTypeOK, NEW c \in Active,
         UNCHANGED <<request, contextVars, countVars, late, stopFile>>,
         NEW step \in Steps, pc' = [pc EXCEPT ![c] = step],
         outcome' \in [Active -> Outcomes], proc' \in [Active -> Processes]
  PROVE  CallsTypeOK'
BY DEF CallsTypeOK, Active, countVars, contextVars, Processes

\* The types of one that only counts.
LEMMA CountTyped ==
  ASSUME CallsTypeOK, NEW c \in Active,
         UNCHANGED <<request, contextVars, procVars, stopFile>>,
         NEW step \in Steps, pc' = [pc EXCEPT ![c] = step],
         outcome' \in [Active -> Outcomes],
         issues' \in [Active -> SUBSET Fields], counts' \in [Jobs -> [Keys -> Nat]],
         todo' \in [Active -> SUBSET Keys],
         held' \in [Active -> [key : Keys, value : Nat \cup {-1}]],
         report' \in [Active -> [Keys -> Nat]]
  PROVE  CallsTypeOK'
BY DEF CallsTypeOK, Active, procVars, contextVars

LEMMA CallTyped ==
  ASSUME CallsTypeOK, NEW c \in Active, CallAction(c)
  PROVE  CallsTypeOK'
<1>. USE DEF Goto, Ends
<1>a. JobOf[c] \in Jobs /\ Total \in Keys /\ Fields \subseteq Keys
  BY ActiveCalls DEF Keys, CallsTypeOK
<1>b. /\ outcome \in [Active -> Outcomes] /\ saved \in [Active -> JobsRoots]
      /\ root \in [Active -> JobsRoots] /\ env \in JobsRoots
      /\ Jobs \subseteq JobsRoots
  BY DEF CallsTypeOK, JobsRoots
<1>c. /\ issues \in [Active -> SUBSET Fields] /\ counts \in [Jobs -> [Keys -> Nat]]
      /\ todo \in [Active -> SUBSET Keys]
      /\ held \in [Active -> [key : Keys, value : Nat \cup {-1}]]
      /\ report \in [Active -> [Keys -> Nat]]
  BY DEF CallsTypeOK
<1>d. proc \in [Active -> Processes]
  BY DEF CallsTypeOK, Processes
<1>e. {"new", "started", "saved", "gate", "count", "counting", "tool", "leaving", "returned",
       "looking", "waiting", "ending", "killed"} \subseteq Steps
  BY DEF Steps, InProcess
<1>f. \A step \in Steps : pc' = [pc EXCEPT ![c] = step] => pc' \in [Active -> Steps]
  BY DEF CallsTypeOK
<1>1. CASE CallCancelled(c) \/ CallStarts(c) \/ SaveContext(c) \/ SetContext(c)
           \/ PutContextBack(c) \/ Admit(c) \/ RunTool(c)
  <2>1. CASE CallCancelled(c)
    BY <1>b, <1>e, <2>1, PlainTyped DEF CallCancelled, contextVars, Outcomes
  <2>2. CASE CallStarts(c) \/ Admit(c)
    BY <1>b, <1>e, <2>2, PlainTyped DEF CallStarts, Admit, contextVars
  <2>3. CASE SaveContext(c)
    BY <1>b, <1>e, <2>3, PlainTyped DEF SaveContext
  <2>4. CASE SetContext(c)
    BY <1>a, <1>b, <1>e, <2>4, PlainTyped DEF SetContext
  <2>5. CASE PutContextBack(c)
    <3>1. /\ saved' \in [Active -> JobsRoots] /\ env' \in JobsRoots
          /\ proc' \in [Active -> Processes] /\ late' \in [Active -> BOOLEAN]
      BY <1>b, <1>d, <2>5 DEF PutContextBack, Restored, JobsRoots, Processes, CallsTypeOK
    <3>2. pc' \in [Active -> Steps]
      BY <1>e, <1>f, <2>5 DEF PutContextBack
    <3>. QED
      BY <2>5, <3>1, <3>2 DEF PutContextBack, CallsTypeOK, Processes, Active, countVars
  <2>6. CASE RunTool(c)
    <3>1. \E what \in {"ok", "error"} : outcome' = [outcome EXCEPT ![c] = what]
      BY <2>6 DEF RunTool, Ends
    <3>2. outcome' \in [Active -> Outcomes]
      BY <1>b, <3>1 DEF Outcomes
    <3>3. /\ root' \in [Active -> JobsRoots] /\ saved' = saved /\ env' = env
          /\ UNCHANGED <<request, countVars, procVars, stopFile>>
          /\ pc' = [pc EXCEPT ![c] = "leaving"]
      BY <1>b, <2>6 DEF RunTool, Goto
    <3>. QED
      BY <1>b, <1>e, <3>2, <3>3, PlainTyped
  <2>. QED  BY <1>1, <2>1, <2>2, <2>3, <2>4, <2>5, <2>6
<1>2. CASE Reject(c)
  <2>1. Faults(c) \subseteq Fields
    BY DEF Faults, Issues
  <2>2. todo' \in [Active -> SUBSET Keys] /\ issues' \in [Active -> SUBSET Fields]
    BY <1>2, <1>a, <1>c, <2>1 DEF Reject
  <2>3. outcome' \in [Active -> Outcomes]
    BY <1>2, <1>b DEF Reject, Outcomes
  <2>. QED  BY <1>2, <1>c, <1>e, <2>2, <2>3, CountTyped DEF Reject
<1>3. ASSUME NEW k \in Keys, ReadCount(c, k) PROVE CallsTypeOK'
  <2>1. counts[JobOf[c]][k] \in Nat
    BY <1>a, <1>c
  <2>2. held' \in [Active -> [key : Keys, value : Nat \cup {-1}]]
    BY <1>3, <1>c, <2>1 DEF ReadCount
  <2>. QED  BY <1>3, <1>b, <1>c, <1>e, <2>2, CountTyped DEF ReadCount
<1>4. CASE WriteCount(c)
  <2>1. AddOne(c) \in Nat /\ held[c].key \in Keys
    <3>1. held[c] \in [key : Keys, value : Nat \cup {-1}]
      BY <1>c
    <3>. QED  BY <3>1 DEF AddOne
  <2>2. counts' \in [Jobs -> [Keys -> Nat]]
    BY <1>4, <1>a, <1>c, <2>1 DEF WriteCount
  <2>3. report' \in [Active -> [Keys -> Nat]]
    BY <1>4, <1>a, <1>c, <2>1 DEF WriteCount
  <2>4. todo' \in [Active -> SUBSET Keys]
    BY <1>4, <1>c DEF WriteCount
  <2>5. held' \in [Active -> [key : Keys, value : Nat \cup {-1}]]
    BY <1>4, <1>a, <1>c DEF WriteCount, NotHeld
  <2>. QED  BY <1>4, <1>b, <1>c, <1>e, <2>2, <2>3, <2>4, <2>5, CountTyped DEF WriteCount
<1>5. CASE ReportCounts(c)
  <2>. DEFINE r == [k \in Keys |-> IF k \in issues[c] THEN counts[JobOf[c]][k] ELSE report[c][k]]
  <2>1. counts[JobOf[c]] \in [Keys -> Nat] /\ report[c] \in [Keys -> Nat]
    BY <1>a, <1>c
  <2>2. r \in [Keys -> Nat]
    BY <2>1
  <2>3. report' = [report EXCEPT ![c] = r]
    BY <1>5 DEF ReportCounts
  <2>. HIDE DEF r
  <2>4. report' \in [Active -> [Keys -> Nat]]
    BY <1>c, <2>2, <2>3
  <2>. QED  BY <1>5, <1>b, <1>c, <1>e, <2>4, CountTyped DEF ReportCounts
<1>6. CASE StartProcess(c)
  <2>1. proc' \in [Active -> Processes]
    BY <1>6, <1>d DEF StartProcess, Processes
  <2>2. root' \in [Active -> JobsRoots] /\ pc' \in [Active -> Steps]
    BY <1>6, <1>b, <1>e, <1>f DEF StartProcess
  <2>. QED
    BY <1>6, <2>1, <2>2 DEF StartProcess, CallsTypeOK, Processes, Active, countVars
<1>7. CASE StopProcess(c) \/ TimeOut(c) \/ CollectOutput(c)
  <2>1. ASSUME NEW force \in BOOLEAN, Terminate(c, force) PROVE proc' \in [Active -> Processes]
    BY <1>d, <2>1, SignalTyped DEF Terminate
  <2>2. proc' \in [Active -> Processes]
    BY <1>7, <1>d, <2>1 DEF StopProcess, TimeOut, CollectOutput, Kill
  <2>3. outcome' \in [Active -> Outcomes]
    <3>1. outcome' = outcome \/ \E what \in Outcomes : outcome' = [outcome EXCEPT ![c] = what]
      BY <1>7 DEF StopProcess, TimeOut, CollectOutput, Outcomes
    <3>. QED  BY <1>b, <3>1
  <2>. QED
    BY <1>7, <1>e, <2>2, <2>3, ProcessTyped DEF StopProcess, TimeOut, CollectOutput
<1>8. CASE Wait(c) \/ Communicate(c) \/ GiveUpOutput(c)
  <2>1. outcome' \in [Active -> Outcomes]
    <3>1. outcome' = outcome \/ \E what \in Outcomes : outcome' = [outcome EXCEPT ![c] = what]
      BY <1>8 DEF Wait, Communicate, GiveUpOutput, GivesUp, Outcomes
    <3>. QED  BY <1>b, <3>1
  <2>. QED
    BY <1>8, <1>d, <1>e, <2>1, ProcessTyped DEF Wait, Communicate, GiveUpOutput, GivesUp, procVars
<1>. QED
  BY <1>1, <1>2, <1>3, <1>4, <1>5, <1>6, <1>7, <1>8 DEF CallAction, CallStep

LEMMA AroundTyped ==
  ASSUME CallsTypeOK, AroundStep
  PROVE  CallsTypeOK'
<1>1. ASSUME NEW c \in Active, ProcessStep(c) PROVE CallsTypeOK'
  <2>1. proc \in [Active -> Processes]
    BY DEF CallsTypeOK, Processes
  <2>2. proc' \in [Active -> Processes]
    BY <1>1, <2>1 DEF ProcessStep, Processes
  <2>. QED
    BY <1>1, <2>2 DEF ProcessStep, Processes, CallsTypeOK, Active, contextVars, countVars
<1>2. ASSUME NEW c \in Active, TimeUp(c) PROVE CallsTypeOK'
  BY <1>2 DEF TimeUp, CallsTypeOK, Active, contextVars, countVars
<1>3. ASSUME NEW j \in Jobs, StopJob(j) PROVE CallsTypeOK'
  BY <1>3 DEF StopJob, CallsTypeOK, Active, contextVars, countVars, procVars
<1>4. Running \subseteq Jobs
  <2>1. \A c \in Active : JobOf[c] \in Jobs
    BY ActiveCalls DEF CallsTypeOK
  <2>. QED  BY <2>1, Zenon DEF Running
<1>. QED  BY <1>1, <1>2, <1>3, <1>4 DEF AroundStep

\* No step changes which calls are in progress.
LEMMA CallRequest ==
  ASSUME NEW c \in Active, CallAction(c)
  PROVE  request' = request
BY DEF CallAction, CallStep, CallCancelled, CallStarts, SaveContext, SetContext,
       PutContextBack, Admit, Reject, ReadCount, WriteCount, ReportCounts, RunTool,
       StartProcess, StopProcess, TimeOut, Wait, Communicate, CollectOutput, GiveUpOutput

LEMMA RequestsStay ==
  ASSUME [Next]_vars
  PROVE  request' = request
<1>1. \A c \in Active : CallAction(c) => request' = request
  BY CallRequest
<1>2. CASE AroundStep
  BY <1>2 DEF AroundStep, ProcessStep, TimeUp, StopJob
<1>3. ASSUME NEW c \in Active, Record(c) PROVE request' = request
  BY <1>3 DEF Record, Announce, LogCall, DumpLog, OpenLog, WriteLog, WriteFails,
              AnnounceResult, callVars
<1>4. ASSUME NEW j \in Running, Finish(j) PROVE request' = request
  BY <1>4 DEF Finish, WriteAnswer, CloseSession, SaveLog, EndFails, callVars
<1>5. CASE UNCHANGED vars
  BY <1>5 DEF vars, callVars
<1>. QED
  BY <1>1, <1>2, <1>3, <1>4, <1>5 DEF Next, ThreadStep, Execute, CallAction

\* What a thread or the runner does to the record of a session.
LEMMA RecordTyped ==
  ASSUME CallsTypeOK, FilesTyped, NEW c \in Active, Record(c)
  PROVE  FilesTyped'
<1>1. request' = request /\ Active' = Active
  BY RequestsStay DEF Next, ThreadStep, Active
<1>2. JobOf[c] \in Jobs /\ c \in Calls
  BY ActiveCalls DEF CallsTypeOK
<1>3. \A step \in RecSteps : Records(c, step) => rec' \in [Active -> RecSteps]
  BY DEF Records, FilesTyped
<1>4. ASSUME NEW what \in {"call", "result"}, Emit(JobOf[c], what, c)
      PROVE  events' \in [Jobs -> Seq([what : {"call", "result"}, call : Calls])]
  <2>1. Append(events[JobOf[c]], [what |-> what, call |-> c])
          \in Seq([what : {"call", "result"}, call : Calls])
    <3>1. events[JobOf[c]] \in Seq([what : {"call", "result"}, call : Calls])
      BY <1>2 DEF FilesTyped
    <3>2. [what |-> what, call |-> c] \in [what : {"call", "result"}, call : Calls]
      BY <1>2
    <3>. QED  BY <3>1, <3>2, AppendProperties
  <2>. QED  BY <1>2, <1>4, <2>1 DEF Emit, FilesTyped
<1>5. CASE Announce(c) \/ AnnounceResult(c)
  BY <1>1, <1>3, <1>4, <1>5 DEF Announce, AnnounceResult, sessionVars, FilesTyped, RecSteps
<1>6. CASE LogCall(c)
  <2>1. Append(log[JobOf[c]], c) \in Seq(Entries)
    BY <1>2 DEF FilesTyped, Entries
  <2>2. log' \in [Jobs -> Seq(Entries)]
    BY <1>2, <1>6, <2>1 DEF LogCall, FilesTyped
  <2>3. numbers' \in [Jobs -> Nat] /\ trace' \in [Active -> Nat]
    BY <1>2, <1>6 DEF LogCall, FilesTyped
  <2>4. rec' \in [Active -> RecSteps]
    BY <1>3, <1>6 DEF LogCall, RecSteps
  <2>. QED  BY <1>1, <1>6, <2>2, <2>3, <2>4 DEF LogCall, FilesTyped
<1>7. CASE DumpLog(c)
  <2>1. seen' \in [Active -> Seq(Entries)]
    BY <1>2, <1>7 DEF DumpLog, FilesTyped
  <2>2. rec' \in [Active -> RecSteps]
    BY <1>3, <1>7 DEF DumpLog, RecSteps
  <2>. QED  BY <1>1, <1>7, <2>1, <2>2 DEF DumpLog, FilesTyped
<1>8. CASE OpenLog(c) \/ WriteLog(c)
  <2>1. PICK text \in Seq(Entries) \cup {Torn, Empty} :
          logFile' = [logFile EXCEPT ![JobOf[c]] = text]
    BY <1>2, <1>8 DEF OpenLog, WriteLog, Overlays, FilesTyped
  <2>2. logFile' \in [Jobs -> Seq(Entries) \cup {Torn, Empty}]
    BY <2>1 DEF FilesTyped
  <2>3. rec' \in [Active -> RecSteps]
    BY <1>3, <1>8 DEF OpenLog, WriteLog, RecSteps
  <2>4. seen' \in [Active -> Seq(Entries)]
    <3>1. CASE UNCHANGED seen
      BY <3>1 DEF FilesTyped
    <3>2. CASE seen' = [seen EXCEPT ![c] = << >>]
      <4>1. << >> \in Seq(Entries)
        OBVIOUS
      <4>. QED  BY <3>2, <4>1 DEF FilesTyped
    <3>. QED  BY <1>8, <3>1, <3>2 DEF OpenLog, WriteLog
  <2>. QED  BY <1>1, <1>8, <2>2, <2>3, <2>4 DEF OpenLog, WriteLog, FilesTyped
<1>9. CASE WriteFails(c)
  <2>1. numbers' \in [Jobs -> Nat]
    <3>1. CASE UNCHANGED numbers
      BY <3>1 DEF FilesTyped
    <3>2. CASE numbers' = [numbers EXCEPT ![JobOf[c]] = @ + 1]
      BY <1>2, <3>2 DEF FilesTyped
    <3>. QED  BY <1>9, <3>1, <3>2 DEF WriteFails
  <2>2. rec' \in [Active -> RecSteps]
    BY <1>3, <1>9 DEF WriteFails, RecSteps
  <2>3. seen' \in [Active -> Seq(Entries)]
    BY <1>9 DEF WriteFails, FilesTyped
  <2>. QED  BY <1>1, <1>9, <2>1, <2>2, <2>3 DEF WriteFails, FilesTyped
<1>. QED  BY <1>5, <1>6, <1>7, <1>8, <1>9 DEF Record

\* What the end of a run changes.
LEMMA FinishFrame ==
  ASSUME FilesTyped, NEW j \in Jobs, Finish(j)
  PROVE  /\ UNCHANGED <<callVars, rec, events, trace, seen, numbers>>
         /\ \E step \in EndSteps \ {"running"} : ending' = [ending EXCEPT ![j] = step]
         /\ log' \in {log, [log EXCEPT ![j] = Append(@, Closing)]}
         /\ \E left \in {logFile[j], log[j], Empty, Torn} : logFile' = [logFile EXCEPT ![j] = left]
<1>1. logFile = [logFile EXCEPT ![j] = logFile[j]]
  BY DEF FilesTyped
<1>2. CASE WriteAnswer(j)
  BY <1>1, <1>2 DEF WriteAnswer, Ending, EndSteps
<1>3. CASE CloseSession(j)
  BY <1>1, <1>3 DEF CloseSession, Ending, EndSteps
<1>4. CASE SaveLog(j)
  BY <1>4 DEF SaveLog, Saved, Ending, EndSteps
<1>5. CASE EndFails(j)
  <2>1. UNCHANGED <<callVars, rec, events, trace, seen, numbers, log>>
        /\ ending' = [ending EXCEPT ![j] = "raised"]
    BY <1>5 DEF EndFails, Ending
  <2>2. UNCHANGED logFile \/ \E left \in {logFile[j], Empty, Torn} : logFile' = [logFile EXCEPT ![j] = left]
    BY <1>5 DEF EndFails
  <2>. QED  BY <1>1, <2>1, <2>2 DEF EndSteps
<1>. QED  BY <1>2, <1>3, <1>4, <1>5 DEF Finish

LEMMA FinishTyped ==
  ASSUME CallsTypeOK, FilesTyped, NEW j \in Jobs, Finish(j)
  PROVE  FilesTyped'
<1>. DEFINE FinalFiles == [cat : {"product"}, name : {"final_output", "final_response"}, type : Finals]
<1>1. Active' = Active
  BY FinishFrame DEF callVars, Active
<1>2. Append(log[j], Closing) \in Seq(Entries)
  BY DEF FilesTyped, Entries
<1>3. log' \in [Jobs -> Seq(Entries)]
  <2>1. log' = log \/ log' = [log EXCEPT ![j] = Append(log[j], Closing)]
    BY FinishFrame
  <2>. QED  BY <1>2, <2>1 DEF FilesTyped
<1>4. logFile' \in [Jobs -> Seq(Entries) \cup {Torn, Empty}]
  <2>1. PICK left \in {logFile[j], log[j], Empty, Torn} : logFile' = [logFile EXCEPT ![j] = left]
    BY FinishFrame
  <2>. QED  BY <2>1 DEF FilesTyped
<1>5. \A type \in Finals : Answer(j, type) \in FinalFiles
  BY DEF Answer
<1>6. final' \in [Jobs -> SUBSET FinalFiles]
  <2>1. final \in [Jobs -> SUBSET FinalFiles]
    BY DEF FilesTyped
  <2>. HIDE DEF Answer, FinalFiles
  <2>2. CASE WriteAnswer(j)
    BY <1>5, <2>1, <2>2 DEF WriteAnswer
  <2>3. CASE EndFails(j)
    BY <1>5, <2>1, <2>3 DEF EndFails
  <2>. QED  BY <2>1, <2>2, <2>3 DEF Finish, CloseSession, SaveLog
<1>. QED  BY <1>1, <1>3, <1>4, <1>6, FinishFrame DEF FilesTyped

LEMMA RunningJobs ==
  ASSUME CallsTypeOK
  PROVE  Running \subseteq Jobs
<1>1. \A c \in Active : JobOf[c] \in Jobs
  BY ActiveCalls DEF CallsTypeOK
<1>. QED  BY <1>1, Zenon DEF Running

LEMMA TypeStep == TypeOK /\ [Next]_vars => TypeOK'
<1>. SUFFICES ASSUME CallsTypeOK, FilesTyped, [Next]_vars
              PROVE  CallsTypeOK' /\ FilesTyped'
  BY TypeParts, TypePartsNext
<1>1. ASSUME UNCHANGED callVars PROVE CallsTypeOK'
  BY <1>1 DEF CallsTypeOK, callVars, contextVars, countVars, procVars, Active
<1>2. ASSUME UNCHANGED recordVars PROVE FilesTyped'
  BY <1>2, RequestsStay DEF FilesTyped, recordVars, sessionVars, Active
<1>3. ASSUME NEW c \in Active, Execute(c) PROVE CallsTypeOK' /\ FilesTyped'
  BY <1>2, <1>3, CallTyped DEF Execute, CallAction
<1>4. CASE AroundStep /\ UNCHANGED recordVars
  BY <1>2, <1>4, AroundTyped
<1>5. ASSUME NEW c \in Active, Record(c) PROVE CallsTypeOK' /\ FilesTyped'
  <2>1. UNCHANGED callVars
    BY <1>5 DEF Record, Announce, LogCall, DumpLog, OpenLog, WriteLog, WriteFails, AnnounceResult
  <2>. QED  BY <1>1, <1>5, <2>1, RecordTyped
<1>6. ASSUME NEW j \in Running, Finish(j) PROVE CallsTypeOK' /\ FilesTyped'
  <2>1. UNCHANGED callVars
    BY <1>6, FinishFrame, RunningJobs
  <2>. QED  BY <1>1, <1>6, <2>1, FinishTyped, RunningJobs
<1>7. CASE UNCHANGED vars
  BY <1>1, <1>2, <1>7 DEF vars
<1>. QED  BY <1>3, <1>4, <1>5, <1>6, <1>7 DEF Next, ThreadStep

LEMMA TypeInit == Init => TypeOK
<1>. SUFFICES ASSUME Init PROVE CallsTypeOK /\ FilesTyped
  BY TypeParts
<1>1. CallsTypeOK
  BY DEF Init, CallsInit, CallsTypeOK, Steps, InProcess, Outcomes, JobsRoots, NoCounts, NotHeld,
         Keys, Active
<1>2. \A found \in Opened : found.entries \in Seq(Entries)
                           /\ found.file \in Seq(Entries) \cup {Torn, Empty}
  <2>1. Seq({Earlier}) \subseteq Seq(Entries)
    BY DEF Entries
  <2>2. << >> \in Seq(Entries)
    OBVIOUS
  <2>3. ASSUME NEW f \in Found
        PROVE  /\ (IF f = Torn THEN << >> ELSE f) \in Seq(Entries)
               /\ f \in Seq(Entries) \cup {Torn, Empty}
    BY <2>1, <2>2, FoundAssumption
  <2>4. ASSUME NEW found \in Opened
        PROVE  /\ found.entries \in Seq(Entries)
               /\ found.file \in Seq(Entries) \cup {Torn, Empty}
    <3>1. CASE found = [entries |-> << >>, file |-> << >>]
      BY <2>2, <3>1
    <3>2. ASSUME NEW f \in Found, found = [entries |-> IF f = Torn THEN << >> ELSE f, file |-> f]
          PROVE  /\ found.entries \in Seq(Entries)
                 /\ found.file \in Seq(Entries) \cup {Torn, Empty}
      <4>1. found.entries = (IF f = Torn THEN << >> ELSE f) /\ found.file = f
        BY <3>2
      <4>. QED  BY <2>3, <4>1, Zenon
    <3>. QED  BY <3>1, <3>2, Zenon DEF Opened
  <2>. QED  BY <2>4
<1>3. FilesTyped
  BY <1>2 DEF Init, FilesTyped, RecSteps, EndSteps
<1>. QED  BY <1>1, <1>3

\* Every variable of the calls and of what they leave behind keeps its type.
THEOREM CallsTypeCorrect == Spec => []TypeOK
BY TypeInit, TypeStep, PTL DEF Spec

-----------------------------------------------------------------------------
(* The process of a command.                                               *)

\* A process is there from StartProcess on; its leader is gone when it was
\* killed, and when its call leaves the tool.
ProcessInv ==
  \A c \in Active :
    /\ pc[c] \notin InProcess \cup {"leaving", "returned"} => proc[c].leader = "none"
    /\ pc[c] = "killed" => proc[c].leader = "down"
    /\ pc[c] \in {"leaving", "returned"} => proc[c].leader # "up"

\* What the actions of one call do to it.
LEMMA ProcessKept ==
  ASSUME CallsTypeOK, ProcessInv, NEW c \in Active, UNCHANGED request,
         NEW step, pc' = [pc EXCEPT ![c] = step],
         \A d \in Active \ {c} : proc'[d] = proc[d],
         step \notin InProcess \cup {"leaving", "returned"} => proc'[c].leader = "none",
         step = "killed" => proc'[c].leader = "down",
         step \in {"leaving", "returned"} => proc'[c].leader # "up"
  PROVE  ProcessInv'
<1>1. pc \in [Active -> Steps]
  BY DEF CallsTypeOK
<1>. QED  BY <1>1 DEF ProcessInv, Active

LEMMA ProcessStays ==
  ASSUME CallsTypeOK, ProcessInv, NEW c \in Active, CallAction(c)
  PROVE  ProcessInv'
<1>. USE DEF Goto, InProcess
<1>1. /\ pc[c] \notin {"looking", "waiting", "ending", "killed", "leaving", "returned"}
           => proc[c].leader = "none"
      /\ pc[c] = "killed" => proc[c].leader = "down"
      /\ pc[c] \in {"leaving", "returned"} => proc[c].leader # "up"
  BY DEF ProcessInv
<1>2. proc \in [Active -> Processes]
  BY DEF CallsTypeOK, Processes
<1>3. CASE CallCancelled(c) \/ CallStarts(c) \/ SaveContext(c) \/ SetContext(c)
           \/ PutContextBack(c) \/ Admit(c) \/ RunTool(c)
  <2>1. CASE PutContextBack(c)
    <3>1. /\ \A d \in Active \ {c} : proc'[d] = proc[d]
          /\ proc'[c].leader = proc[c].leader
      BY <1>2, <2>1 DEF PutContextBack, Processes
    <3>. QED  BY <1>1, <2>1, <3>1, ProcessKept DEF PutContextBack
  <2>2. CASE ~PutContextBack(c)
    BY <1>1, <1>3, <2>2, ProcessKept DEF CallCancelled, CallStarts, SaveContext, SetContext,
       Admit, RunTool, procVars
  <2>. QED  BY <2>1, <2>2
<1>4. CASE Reject(c) \/ WriteCount(c) \/ ReportCounts(c) \/ \E k \in Keys : ReadCount(c, k)
  BY <1>1, <1>4, ProcessKept DEF Reject, WriteCount, ReportCounts, ReadCount, procVars
<1>5. CASE StartProcess(c)
  BY <1>2, <1>5, ProcessKept DEF StartProcess
<1>6. CASE StopProcess(c) \/ TimeOut(c)
  <2>1. \A d \in Active \ {c} : proc'[d] = proc[d]
    BY <1>2, <1>6 DEF StopProcess, TimeOut, Terminate
  <2>. QED  BY <1>6, <2>1, ProcessKept DEF StopProcess, TimeOut
<1>7. CASE Wait(c) \/ Communicate(c) \/ GiveUpOutput(c)
  BY <1>1, <1>7, ProcessKept DEF Wait, Communicate, GiveUpOutput, GivesUp, Over, procVars
<1>8. CASE CollectOutput(c)
  <2>1. CASE Over(proc[c])
    BY <1>8, <2>1, ProcessKept DEF CollectOutput, Over
  <2>2. CASE ~Over(proc[c])
    <3>1. PICK p \in Signalled(proc[c], TRUE) : proc' = [proc EXCEPT ![c] = p]
      BY <1>8, <2>2 DEF CollectOutput, Kill, Terminate
    <3>2. p.leader = "down"
      BY DEF Signalled
    <3>3. proc'[c].leader = "down" /\ \A d \in Active \ {c} : proc'[d] = proc[d]
      BY <1>2, <3>1, <3>2
    <3>. QED  BY <1>8, <2>2, <3>3, ProcessKept DEF CollectOutput
  <2>. QED  BY <2>1, <2>2
<1>. QED  BY <1>3, <1>4, <1>5, <1>6, <1>7, <1>8 DEF CallAction, CallStep

LEMMA ProcessAround ==
  ASSUME CallsTypeOK, ProcessInv, AroundStep
  PROVE  ProcessInv'
<1>1. ASSUME NEW c \in Active, ProcessStep(c) PROVE ProcessInv'
  <2>1. proc \in [Active -> Processes]
    BY DEF CallsTypeOK, Processes
  <2>2. \A d \in Active : \/ proc'[d].leader = proc[d].leader
                          \/ proc[d].leader = "up" /\ proc'[d].leader = "down"
    BY <1>1, <2>1 DEF ProcessStep, Processes
  <2>. QED  BY <1>1, <2>2 DEF ProcessStep, ProcessInv, Active
<1>2. ASSUME NEW c \in Active, TimeUp(c) PROVE ProcessInv'
  BY <1>2 DEF TimeUp, ProcessInv, Active
<1>3. ASSUME NEW j \in Running, StopJob(j) PROVE ProcessInv'
  BY <1>3 DEF StopJob, ProcessInv, Active, procVars
<1>. QED  BY <1>1, <1>2, <1>3 DEF AroundStep

LEMMA ProcessStable ==
  ASSUME ProcessInv, UNCHANGED callVars
  PROVE  ProcessInv'
BY DEF ProcessInv, callVars, procVars, Active

\* The recording of a call, the end of a run and a stuttering step leave the
\* calls alone.
LEMMA CallsOrRecord ==
  ASSUME [Next]_vars
  PROVE  \/ \E c \in Active : CallAction(c) /\ UNCHANGED recordVars
         \/ AroundStep /\ UNCHANGED recordVars
         \/ UNCHANGED callVars /\ \E c \in Active : Record(c)
         \/ UNCHANGED callVars /\ \E j \in Running : Finish(j)
         \/ UNCHANGED vars
<1>1. ASSUME NEW c \in Active, Record(c) PROVE UNCHANGED callVars
  BY <1>1 DEF Record, Announce, LogCall, DumpLog, OpenLog, WriteLog, WriteFails, AnnounceResult
<1>2. ASSUME NEW j \in Running, Finish(j) PROVE UNCHANGED callVars
  BY <1>2 DEF Finish, WriteAnswer, CloseSession, SaveLog, EndFails
<1>. QED  BY <1>1, <1>2 DEF Next, ThreadStep, Execute, CallAction

LEMMA ProcessInvariant == TypeOK /\ ProcessInv /\ [Next]_vars => ProcessInv'
<1>. SUFFICES ASSUME CallsTypeOK, ProcessInv, [Next]_vars PROVE ProcessInv'
  BY TypeParts
<1>. QED
  BY CallsOrRecord, ProcessStays, ProcessAround, ProcessStable DEF vars

\* When a call returns, the leader of its process group is gone, for any
\* requests: _wait_for_process leaves it only where it was reaped or killed.
THEOREM ShellsEnd == Spec => []NoShellSurvives
<1>1. Init => ProcessInv
  BY DEF Init, CallsInit, ProcessInv, InProcess, Active
<1>2. ProcessInv => NoShellSurvives
  BY DEF ProcessInv, NoShellSurvives
<1>. QED  BY <1>1, <1>2, ProcessInvariant, CallsTypeCorrect, PTL DEF Spec

-----------------------------------------------------------------------------
(* The counters of rejected calls.                                         *)

\* The rejected calls that have nothing more to add to the counter of k.
Counted(j, k) == {c \in RejectedFor(j, k) : k \notin todo[c]}

CountInv ==
  /\ \A c \in Active :
       /\ pc[c] \in {"count", "counting"} => outcome[c] = "rejected"
       /\ outcome[c] = "rejected" => pc[c] \in {"count", "counting", "leaving", "returned"}
       /\ todo[c] \subseteq issues[c] \cup {Total}
       /\ pc[c] = "counting" =>
            /\ held[c].key \in todo[c]
            /\ held[c].value \in Nat
            /\ \A k \in Keys :
                 k = held[c].key => held[c].value \leq Cardinality(Counted(JobOf[c], k))
  /\ \A j \in Jobs, k \in Keys :
       /\ counts[j][k] \leq Cardinality(Counted(j, k))
       /\ \A c \in Active : JobOf[c] = j => report[c][k] \leq Cardinality(Counted(j, k))

\* The calls that have been counted are some of those that were rejected.
LEMMA CountedRejected ==
  ASSUME CallsTypeOK, NEW j, NEW k
  PROVE  /\ IsFiniteSet(Counted(j, k)) /\ Cardinality(Counted(j, k)) \in Nat
         /\ Cardinality(Counted(j, k)) \leq Cardinality(RejectedFor(j, k))
         /\ Cardinality(RejectedFor(j, k)) \in Nat
<1>1. RejectedFor(j, k) \subseteq Active /\ IsFiniteSet(Active)
  BY ActiveCalls DEF RejectedFor, CallsTypeOK
<1>2. IsFiniteSet(RejectedFor(j, k))
  BY <1>1, FS_Subset
<1>3. Counted(j, k) \subseteq RejectedFor(j, k)
  BY DEF Counted
<1>. QED  BY <1>2, <1>3, FS_Subset, FS_CardinalityType

\* A call that was rejected remains so, and is counted more and more.
Grows ==
  \A d \in Active : outcome[d] = "rejected" =>
    /\ outcome'[d] = "rejected" /\ issues'[d] = issues[d] /\ todo'[d] \subseteq todo[d]

LEMMA CountedGrows ==
  ASSUME CallsTypeOK, CallsTypeOK', request' = request, Grows, NEW j, NEW k
  PROVE  /\ Counted(j, k) \subseteq Counted(j, k)'
         /\ Cardinality(Counted(j, k)) \leq Cardinality(Counted(j, k)')
         /\ Cardinality(Counted(j, k)') \in Nat /\ Cardinality(Counted(j, k)) \in Nat
<1>1. Counted(j, k) \subseteq Counted(j, k)'
  BY DEF Counted, RejectedFor, Grows, Active
<1>2. IsFiniteSet(Counted(j, k)')
  <2>1. RejectedFor(j, k)' \subseteq Active' /\ IsFiniteSet(Active')
    BY ActiveCalls DEF RejectedFor, CallsTypeOK, Active
  <2>2. Counted(j, k)' \subseteq RejectedFor(j, k)'
    BY DEF Counted
  <2>. QED  BY <2>1, <2>2, FS_Subset
<1>. QED  BY <1>1, <1>2, FS_Subset, FS_CardinalityType

\* What an action that adds to no counter does to the invariant.
LEMMA CountKept ==
  ASSUME CallsTypeOK, CallsTypeOK', CountInv, request' = request, Grows,
         UNCHANGED <<counts, report>>,
         \A d \in Active :
           /\ pc'[d] \in {"count", "counting"} => outcome'[d] = "rejected"
           /\ outcome'[d] = "rejected" => pc'[d] \in {"count", "counting", "leaving", "returned"}
           /\ todo'[d] \subseteq issues'[d] \cup {Total}
           /\ pc'[d] = "counting" =>
                \/ pc[d] = "counting" /\ held'[d] = held[d] /\ todo'[d] = todo[d]
                \/ /\ held'[d].key \in todo'[d] /\ held'[d].key \in Keys
                   /\ held'[d].value = counts[JobOf[d]][held'[d].key]
  PROVE  CountInv'
<1>1. Active' = Active /\ \A d \in Active : JobOf[d] \in Jobs
  BY ActiveCalls DEF Active, CallsTypeOK
<1>2. counts \in [Jobs -> [Keys -> Nat]] /\ report \in [Active -> [Keys -> Nat]]
      /\ held \in [Active -> [key : Keys, value : Nat \cup {-1}]]
  BY DEF CallsTypeOK
<1>3. ASSUME NEW d \in Active, pc'[d] = "counting"
      PROVE  /\ held'[d].key \in todo'[d] /\ held'[d].value \in Nat
             /\ \A k \in Keys :
                  k = held'[d].key => held'[d].value \leq Cardinality(Counted(JobOf[d], k)')
  <2>1. \A k \in Keys :
          /\ Cardinality(Counted(JobOf[d], k)) \leq Cardinality(Counted(JobOf[d], k)')
          /\ Cardinality(Counted(JobOf[d], k)') \in Nat /\ Cardinality(Counted(JobOf[d], k)) \in Nat
    BY CountedGrows
  <2>2. CASE pc[d] = "counting" /\ held'[d] = held[d] /\ todo'[d] = todo[d]
    <3>1. /\ held[d].key \in todo[d] /\ held[d].value \in Nat
          /\ \A k \in Keys :
               k = held[d].key => held[d].value \leq Cardinality(Counted(JobOf[d], k))
      BY <2>2 DEF CountInv
    <3>. QED  BY <2>1, <2>2, <3>1
  <2>3. CASE /\ held'[d].key \in todo'[d] /\ held'[d].key \in Keys
             /\ held'[d].value = counts[JobOf[d]][held'[d].key]
    <3>1. \A k \in Keys : /\ counts[JobOf[d]][k] \in Nat
                          /\ counts[JobOf[d]][k] \leq Cardinality(Counted(JobOf[d], k))
      BY <1>1, <1>2 DEF CountInv
    <3>. QED  BY <2>1, <2>3, <3>1
  <2>. QED  BY <1>3, <2>2, <2>3
<1>4. ASSUME NEW j \in Jobs, NEW k \in Keys
      PROVE  /\ counts'[j][k] \leq Cardinality(Counted(j, k)')
             /\ \A d \in Active : JobOf[d] = j => report'[d][k] \leq Cardinality(Counted(j, k)')
  <2>1. /\ counts[j][k] \leq Cardinality(Counted(j, k))
        /\ \A d \in Active : JobOf[d] = j => report[d][k] \leq Cardinality(Counted(j, k))
    BY DEF CountInv
  <2>2. counts[j][k] \in Nat /\ \A d \in Active : report[d][k] \in Nat
    BY <1>2
  <2>3. /\ Cardinality(Counted(j, k)) \leq Cardinality(Counted(j, k)')
        /\ Cardinality(Counted(j, k)') \in Nat /\ Cardinality(Counted(j, k)) \in Nat
    BY CountedGrows
  <2>. QED  BY <2>1, <2>2, <2>3
<1>. QED  BY <1>1, <1>3, <1>4 DEF CountInv

LEMMA CountsWritten ==
  ASSUME CallsTypeOK, CountInv, NEW c \in Active, WriteCount(c)
  PROVE  CountInv'
<1>1. CallsTypeOK' /\ request' = request /\ Active' = Active
  BY CallTyped DEF CallAction, CallStep, WriteCount, Active
<1>2. JobOf[c] \in Jobs /\ Total \in Keys
  BY ActiveCalls DEF CallsTypeOK, Keys
<1>3. /\ counts \in [Jobs -> [Keys -> Nat]] /\ report \in [Active -> [Keys -> Nat]]
      /\ held \in [Active -> [key : Keys, value : Nat \cup {-1}]]
      /\ todo \in [Active -> SUBSET Keys] /\ pc \in [Active -> Steps]
  BY DEF CallsTypeOK
<1>4. PICK key \in Keys : key = held[c].key
  BY <1>3
<1>5. PICK value \in Nat : value = held[c].value
  BY DEF CountInv, WriteCount
<1>6. /\ key \in todo[c] /\ outcome[c] = "rejected" /\ todo[c] \subseteq issues[c] \cup {Total}
      /\ value \leq Cardinality(Counted(JobOf[c], key))
  BY <1>4, <1>5 DEF CountInv, WriteCount
<1>7. /\ counts' = [counts EXCEPT ![JobOf[c]][key] = value + 1]
      /\ report' = IF key = Total THEN [report EXCEPT ![c][Total] = value + 1] ELSE report
      /\ todo' = [todo EXCEPT ![c] = @ \ {key}]
      /\ pc' = [pc EXCEPT ![c] = "count"]
      /\ UNCHANGED <<outcome, issues>>
      /\ \A d \in Active \ {c} : held'[d] = held[d]
  BY <1>3, <1>4, <1>5 DEF WriteCount, AddOne, Goto
<1>8. Grows
  BY <1>3, <1>7 DEF Grows
<1>9. \A j \in Jobs, k \in Keys :
        /\ Cardinality(Counted(j, k)) \leq Cardinality(Counted(j, k)')
        /\ Cardinality(Counted(j, k)') \in Nat /\ Cardinality(Counted(j, k)) \in Nat
  BY <1>1, <1>8, CountedGrows
<1>10. value + 1 \leq Cardinality(Counted(JobOf[c], key)')
  <2>1. c \in Counted(JobOf[c], key)' /\ c \notin Counted(JobOf[c], key)
    BY <1>1, <1>3, <1>6, <1>7 DEF Counted, RejectedFor
  <2>2. Counted(JobOf[c], key) \cup {c} \subseteq Counted(JobOf[c], key)'
    BY <1>1, <1>8, <2>1, CountedGrows
  <2>3. IsFiniteSet(Counted(JobOf[c], key)) /\ IsFiniteSet(Counted(JobOf[c], key)')
    <3>1. IsFiniteSet(Active)
      BY ActiveCalls DEF CallsTypeOK
    <3>2. Counted(JobOf[c], key)' \subseteq Active
      BY <1>1 DEF Counted, RejectedFor
    <3>. QED  BY <3>1, <3>2, CountedRejected, FS_Subset
  <2>4. /\ Cardinality(Counted(JobOf[c], key) \cup {c}) = Cardinality(Counted(JobOf[c], key)) + 1
        /\ Cardinality(Counted(JobOf[c], key) \cup {c}) \leq Cardinality(Counted(JobOf[c], key)')
    BY <2>1, <2>2, <2>3, FS_AddElement, FS_Subset
  <2>. QED  BY <1>2, <1>6, <1>9, <2>4
<1>11. ASSUME NEW j \in Jobs, NEW k \in Keys
       PROVE  /\ counts'[j][k] \leq Cardinality(Counted(j, k)')
              /\ \A d \in Active : JobOf[d] = j => report'[d][k] \leq Cardinality(Counted(j, k)')
  <2>1. /\ counts[j][k] \leq Cardinality(Counted(j, k))
        /\ \A d \in Active : JobOf[d] = j => report[d][k] \leq Cardinality(Counted(j, k))
        /\ counts[j][k] \in Nat /\ \A d \in Active : report[d][k] \in Nat
    BY <1>3 DEF CountInv
  <2>2. /\ counts[j][k] \leq Cardinality(Counted(j, k)')
        /\ \A d \in Active : JobOf[d] = j => report[d][k] \leq Cardinality(Counted(j, k)')
    BY <1>9, <2>1
  <2>3. counts'[j][k] = counts[j][k] \/ (j = JobOf[c] /\ k = key /\ counts'[j][k] = value + 1)
    BY <1>2, <1>3, <1>7
  <2>4. \A d \in Active : \/ report'[d][k] = report[d][k]
                          \/ d = c /\ k = key /\ report'[d][k] = value + 1
    BY <1>2, <1>3, <1>7
  <2>. QED  BY <1>10, <2>2, <2>3, <2>4
<1>12. ASSUME NEW d \in Active
       PROVE  /\ pc'[d] \in {"count", "counting"} => outcome'[d] = "rejected"
              /\ outcome'[d] = "rejected" => pc'[d] \in {"count", "counting", "leaving", "returned"}
              /\ todo'[d] \subseteq issues'[d] \cup {Total}
  <2>1. /\ pc[d] \in {"count", "counting"} => outcome[d] = "rejected"
        /\ outcome[d] = "rejected" => pc[d] \in {"count", "counting", "leaving", "returned"}
        /\ todo[d] \subseteq issues[d] \cup {Total}
    BY DEF CountInv
  <2>. QED  BY <1>3, <1>6, <1>7, <2>1
<1>13. ASSUME NEW d \in Active, pc'[d] = "counting"
       PROVE  /\ held'[d].key \in todo'[d] /\ held'[d].value \in Nat
              /\ \A k \in Keys :
                   k = held'[d].key => held'[d].value \leq Cardinality(Counted(JobOf[d], k)')
  <2>1. d # c /\ pc[d] = "counting" /\ held'[d] = held[d] /\ todo'[d] = todo[d]
    BY <1>3, <1>7, <1>13
  <2>2. /\ held[d].key \in todo[d] /\ held[d].value \in Nat
        /\ \A k \in Keys :
             k = held[d].key => held[d].value \leq Cardinality(Counted(JobOf[d], k))
    BY <2>1 DEF CountInv
  <2>3. JobOf[d] \in Jobs
    BY ActiveCalls DEF CallsTypeOK
  <2>. QED  BY <1>9, <2>1, <2>2, <2>3
<1>. QED  BY <1>1, <1>11, <1>12, <1>13 DEF CountInv

LEMMA CountsReported ==
  ASSUME CallsTypeOK, CountInv, NEW c \in Active, ReportCounts(c)
  PROVE  CountInv'
<1>1. CallsTypeOK' /\ request' = request /\ Active' = Active
  BY CallTyped DEF CallAction, CallStep, ReportCounts, Active
<1>2. JobOf[c] \in Jobs
  BY ActiveCalls DEF CallsTypeOK
<1>3. report \in [Active -> [Keys -> Nat]] /\ pc \in [Active -> Steps]
      /\ counts \in [Jobs -> [Keys -> Nat]]
  BY DEF CallsTypeOK
<1>4. ASSUME NEW d \in Active, NEW k \in Keys
      PROVE  \/ report'[d][k] = report[d][k]
             \/ d = c /\ report'[d][k] = counts[JobOf[c]][k]
  BY <1>3 DEF ReportCounts
<1>5. \A j \in Jobs, k \in Keys : Counted(j, k)' = Counted(j, k)
  BY <1>1 DEF Counted, RejectedFor, ReportCounts
<1>6. ASSUME NEW j \in Jobs, NEW k \in Keys
      PROVE  /\ counts'[j][k] \leq Cardinality(Counted(j, k)')
             /\ \A d \in Active : JobOf[d] = j => report'[d][k] \leq Cardinality(Counted(j, k)')
  <2>1. /\ counts[j][k] \leq Cardinality(Counted(j, k))
        /\ \A d \in Active : JobOf[d] = j => report[d][k] \leq Cardinality(Counted(j, k))
    BY DEF CountInv
  <2>2. Counted(j, k)' = Counted(j, k) /\ counts' = counts
    BY <1>5 DEF ReportCounts
  <2>. QED  BY <1>4, <2>1, <2>2
<1>7. ASSUME NEW d \in Active
      PROVE  /\ pc'[d] \in {"count", "counting"} => outcome'[d] = "rejected"
             /\ outcome'[d] = "rejected" => pc'[d] \in {"count", "counting", "leaving", "returned"}
             /\ todo'[d] \subseteq issues'[d] \cup {Total}
             /\ pc'[d] = "counting" =>
                  /\ held'[d].key \in todo'[d] /\ held'[d].value \in Nat
                  /\ \A k \in Keys : k = held'[d].key =>
                       held'[d].value \leq Cardinality(Counted(JobOf[d], k)')
  <2>1. /\ pc' = [pc EXCEPT ![c] = "leaving"] /\ UNCHANGED <<outcome, issues, todo, held>>
    BY DEF ReportCounts, Goto
  <2>2. \A k \in Keys : Counted(JobOf[d], k)' = Counted(JobOf[d], k)
    BY <1>5, ActiveCalls DEF CallsTypeOK
  <2>. QED  BY <1>3, <2>1, <2>2 DEF CountInv
<1>. QED  BY <1>1, <1>6, <1>7 DEF CountInv

LEMMA CountStays ==
  ASSUME CallsTypeOK, CountInv, NEW c \in Active, CallAction(c)
  PROVE  CountInv'
<1>. USE DEF Goto, Ends
<1>1. CallsTypeOK' /\ request' = request
  BY CallTyped, CallRequest
<1>2. /\ pc \in [Active -> Steps] /\ outcome \in [Active -> Outcomes]
      /\ issues \in [Active -> SUBSET Fields] /\ todo \in [Active -> SUBSET Keys]
      /\ held \in [Active -> [key : Keys, value : Nat \cup {-1}]]
  BY DEF CallsTypeOK
<1>3. \A d \in Active :
        /\ pc[d] \in {"count", "counting"} => outcome[d] = "rejected"
        /\ outcome[d] = "rejected" => pc[d] \in {"count", "counting", "leaving", "returned"}
        /\ todo[d] \subseteq issues[d] \cup {Total}
  BY DEF CountInv
<1>4. ASSUME UNCHANGED countVars,
             \A d \in Active \ {c} : pc'[d] = pc[d] /\ outcome'[d] = outcome[d],
             pc'[c] \notin {"count", "counting"},
             \/ outcome[c] # "rejected" /\ outcome'[c] # "rejected"
             \/ outcome'[c] = outcome[c] /\ pc'[c] \in {"leaving", "returned"}
      PROVE  CountInv'
  <2>1. Grows
    BY <1>4 DEF Grows, countVars
  <2>. QED  BY <1>1, <1>3, <1>4, <2>1, CountKept DEF countVars
<1>5. CASE CallCancelled(c) \/ CallStarts(c) \/ SaveContext(c) \/ SetContext(c)
           \/ PutContextBack(c) \/ Admit(c) \/ RunTool(c)
  BY <1>2, <1>3, <1>4, <1>5 DEF CallCancelled, CallStarts, SaveContext, SetContext,
     PutContextBack, Admit, RunTool
<1>6. CASE StartProcess(c) \/ StopProcess(c) \/ TimeOut(c) \/ Wait(c) \/ Communicate(c)
           \/ CollectOutput(c) \/ GiveUpOutput(c)
  BY <1>2, <1>3, <1>4, <1>6 DEF StartProcess, StopProcess, TimeOut, Wait, Communicate,
     CollectOutput, GiveUpOutput, GivesUp
<1>7. CASE Reject(c)
  <2>1. outcome[c] # "rejected"
    BY <1>3, <1>7 DEF Reject
  <2>2. Grows
    BY <1>2, <1>7, <2>1 DEF Reject, Grows
  <2>3. \A d \in Active :
          /\ pc'[d] \in {"count", "counting"} => outcome'[d] = "rejected"
          /\ outcome'[d] = "rejected" => pc'[d] \in {"count", "counting", "leaving", "returned"}
          /\ todo'[d] \subseteq issues'[d] \cup {Total}
          /\ pc'[d] = "counting" => pc[d] = "counting" /\ held'[d] = held[d] /\ todo'[d] = todo[d]
    BY <1>2, <1>3, <1>7 DEF Reject
  <2>. QED  BY <1>1, <1>7, <2>2, <2>3, CountKept DEF Reject
<1>8. ASSUME NEW k \in Keys, ReadCount(c, k) PROVE CountInv'
  <2>1. Grows
    BY <1>8 DEF ReadCount, Grows
  <2>2. \A d \in Active :
          /\ pc'[d] \in {"count", "counting"} => outcome'[d] = "rejected"
          /\ outcome'[d] = "rejected" => pc'[d] \in {"count", "counting", "leaving", "returned"}
          /\ todo'[d] \subseteq issues'[d] \cup {Total}
    BY <1>2, <1>3, <1>8 DEF ReadCount
  <2>3. \A d \in Active \ {c} :
          pc'[d] = "counting" => pc[d] = "counting" /\ held'[d] = held[d] /\ todo'[d] = todo[d]
    BY <1>2, <1>8 DEF ReadCount
  <2>4. /\ held'[c].key \in todo'[c] /\ held'[c].key \in Keys
        /\ held'[c].value = counts[JobOf[c]][held'[c].key]
    BY <1>2, <1>8 DEF ReadCount
  <2>. QED  BY <1>1, <1>8, <2>1, <2>2, <2>3, <2>4, CountKept DEF ReadCount
<1>. QED
  BY <1>5, <1>6, <1>7, <1>8, CountsWritten, CountsReported DEF CallAction, CallStep

LEMMA CountStable ==
  ASSUME CountInv, UNCHANGED <<request, pc, outcome, countVars>>
  PROVE  CountInv'
<1>1. /\ Active' = Active
      /\ pc' = pc /\ outcome' = outcome /\ issues' = issues /\ counts' = counts
      /\ todo' = todo /\ held' = held /\ report' = report
  BY DEF Active, countVars
<1>2. \A j \in Jobs, k \in Keys : Counted(j, k)' = Counted(j, k)
  BY <1>1 DEF Counted, RejectedFor
<1>3. \A c \in Active, k \in Keys : Counted(JobOf[c], k)' = Counted(JobOf[c], k)
  BY <1>1 DEF Counted, RejectedFor
<1>. QED  BY <1>1, <1>2, <1>3 DEF CountInv

LEMMA CountInvariant == TypeOK /\ CountInv /\ [Next]_vars => CountInv'
<1>. SUFFICES ASSUME CallsTypeOK, CountInv, [Next]_vars PROVE CountInv'
  BY TypeParts
<1>1. CASE AroundStep
  BY <1>1, CountStable DEF AroundStep, ProcessStep, TimeUp, StopJob, procVars
<1>2. ASSUME UNCHANGED callVars PROVE CountInv'
  BY <1>2, CountStable DEF callVars
<1>. QED
  BY <1>1, <1>2, CallsOrRecord, CountStays DEF vars

LEMMA CountInit == Init => CountInv
<1>. SUFFICES ASSUME Init PROVE CountInv
  OBVIOUS
<1>1. /\ \A c \in Active : pc[c] = "new" /\ outcome[c] = "none" /\ todo[c] = {}
      /\ \A j \in Jobs, k \in Keys : counts[j][k] = 0 /\ \A c \in Active : report[c][k] = 0
  BY DEF Init, CallsInit, NoCounts, Active
<1>2. CallsTypeOK
  BY TypeInit DEF TypeOK
<1>3. \A j \in Jobs, k \in Keys : Cardinality(Counted(j, k)) \in Nat
  BY <1>2, CountedRejected
<1>. QED  BY <1>1, <1>3 DEF CountInv

\* No counter, and no count a result shows, exceeds the calls that were rejected,
\* however the threads of a wave read and write it, for any calls and schemas.
THEOREM CountsBounded == Spec => []CountsNeverOvershoot
<1>1. TypeOK /\ CountInv => CountsNeverOvershoot
  <2>. SUFFICES ASSUME CallsTypeOK, CountInv, NEW j \in Jobs, NEW k \in Keys
                PROVE  /\ counts[j][k] \leq Cardinality(RejectedFor(j, k))
                       /\ \A c \in Active :
                            JobOf[c] = j => report[c][k] \leq Cardinality(RejectedFor(j, k))
    BY TypeParts DEF CountsNeverOvershoot
  <2>1. /\ counts[j][k] \leq Cardinality(Counted(j, k))
        /\ \A c \in Active : JobOf[c] = j => report[c][k] \leq Cardinality(Counted(j, k))
        /\ counts[j][k] \in Nat /\ \A c \in Active : report[c][k] \in Nat
    BY DEF CountInv, CallsTypeOK
  <2>. QED  BY <2>1, CountedRejected
<1>. QED  BY <1>1, CountInit, CountInvariant, CallsTypeCorrect, PTL DEF Spec

-----------------------------------------------------------------------------
(* The record of a run.                                                    *)

\* A value is added to a sequence at its end.
LEMMA PlacesAppended ==
  ASSUME NEW S, NEW s \in Seq(S), NEW v \in S, NEW w
  PROVE  /\ Places(s, w) \subseteq 1..Len(s)
         /\ DOMAIN Append(s, v) = 1..(Len(s) + 1)
         /\ v # w => Places(Append(s, v), w) = Places(s, w)
         /\ v = w => Places(Append(s, v), w) = Places(s, w) \cup {Len(s) + 1}
<1>1. /\ DOMAIN s = 1..Len(s) /\ Len(s) \in Nat
      /\ DOMAIN Append(s, v) = 1..(Len(s) + 1)
      /\ \A i \in 1..Len(s) : Append(s, v)[i] = s[i]
      /\ Append(s, v)[Len(s) + 1] = v
  BY AppendProperties, LenProperties
<1>. QED  BY <1>1 DEF Places

Said(c, what) == Places(events[JobOf[c]], [what |-> what, call |-> c])

\* How far the record of a call is at each step of its thread.
LogInv ==
  \A c \in Active :
    /\ rec[c] \in {"new", "executing"} => Places(log[JobOf[c]], c) = {}
    /\ rec[c] \in {"appended", "dumped", "opened", "logged", "done"} =>
         \E i \in DOMAIN log[JobOf[c]] : Places(log[JobOf[c]], c) = {i}

TraceInv ==
  \A c \in Active :
    /\ trace[c] \leq numbers[JobOf[c]]
    /\ rec[c] \in {"appended", "dumped", "opened", "logged", "done"} => trace[c] # 0
    /\ \A d \in Active \ {c} :
         JobOf[d] = JobOf[c] /\ trace[c] # 0 => trace[d] # trace[c]

EventInv ==
  \A c \in Active :
    /\ rec[c] = "new" => Said(c, "call") = {}
    /\ rec[c] # "done" => Said(c, "result") = {}
    /\ rec[c] # "new" => \E i \in DOMAIN events[JobOf[c]] : Said(c, "call") = {i}
    /\ rec[c] = "done" =>
         \E i, k \in DOMAIN events[JobOf[c]] :
           i < k /\ Said(c, "call") = {i} /\ Said(c, "result") = {k}

\* While a run ends no thread of it writes, and its log is in the file once written.
SavedInv ==
  \A j \in Jobs : ending[j] # "running" =>
    /\ LogIsSaved(j)
    /\ \A c \in CallsOf(j) : rec[c] \in {"done", "raised"}

EntryInv == LogInv /\ TraceInv /\ EventInv /\ SavedInv

LEMMA EntryStable ==
  ASSUME EntryInv, UNCHANGED <<request, recordVars>>
  PROVE  EntryInv'
<1>1. Active' = Active /\ \A c, kind : Said(c, kind)' = Said(c, kind)
  BY DEF Active, Said, recordVars, sessionVars
<1>2. LogInv' /\ TraceInv'
  BY <1>1 DEF EntryInv, LogInv, TraceInv, Active, recordVars, sessionVars
<1>3. EventInv'
  BY <1>1 DEF EntryInv, EventInv, recordVars, sessionVars
<1>4. SavedInv'
  BY <1>1 DEF EntryInv, SavedInv, LogIsSaved, CallsOf, Active, recordVars, sessionVars
<1>. QED
  BY <1>2, <1>3, <1>4 DEF EntryInv

\* The log after an action that appends nothing to it.
LEMMA LogKept ==
  ASSUME LogInv, request' = request, log' = log,
         \A d \in Active : \/ rec'[d] = "raised" \/ rec'[d] = rec[d]
                           \/ rec[d] = "new" /\ rec'[d] = "executing"
                           \/ /\ rec[d] \in {"appended", "dumped", "opened", "logged", "done"}
                              /\ rec'[d] \in {"appended", "dumped", "opened", "logged", "done"}
  PROVE  LogInv'
BY DEF LogInv, Active

LEMMA TraceKept ==
  ASSUME TypeOK, TraceInv, request' = request, trace' = trace,
         \A j \in Jobs : numbers'[j] \in Nat /\ numbers[j] \leq numbers'[j],
         \A d \in Active : \/ rec'[d] \in {"raised", "executing"} \/ rec'[d] = rec[d]
                           \/ rec[d] \in {"appended", "dumped", "opened", "logged", "done"}
  PROVE  TraceInv'
<1>1. \A d \in Active : JobOf[d] \in Jobs
  BY ActiveCalls DEF TypeOK, CallsTypeOK
<1>2. numbers \in [Jobs -> Nat] /\ trace \in [Active -> Nat]
  BY DEF TypeOK
<1>3. \A d \in Active : trace[d] \leq numbers[JobOf[d]] /\ numbers[JobOf[d]] \leq numbers'[JobOf[d]]
                        /\ trace[d] \in Nat /\ numbers[JobOf[d]] \in Nat
                        /\ numbers'[JobOf[d]] \in Nat
  BY <1>1, <1>2 DEF TraceInv
<1>4. \A d \in Active : trace[d] \leq numbers'[JobOf[d]]
  BY <1>3
<1>. QED  BY <1>4 DEF TraceInv, Active

\* The events after an action that announces nothing.
LEMMA EventsKept ==
  ASSUME EventInv, request' = request, events' = events,
         \A d \in Active : \/ rec'[d] = rec[d]
                           \/ rec[d] \notin {"new", "done"} /\ rec'[d] \notin {"new", "done"}
  PROVE  EventInv'
BY DEF EventInv, Said, Active

\* A run does not end while a call of it is being recorded.
LEMMA SavedKept ==
  ASSUME CallsTypeOK, SavedInv, request' = request, NEW c \in Active,
         rec[c] \notin {"done", "raised"}, ending' = ending,
         \A d \in Active \ {c} : rec'[d] = rec[d],
         \A j \in Jobs \ {JobOf[c]} : log'[j] = log[j] /\ logFile'[j] = logFile[j]
  PROVE  SavedInv'
<1>1. c \in CallsOf(JobOf[c]) /\ JobOf[c] \in Jobs
  BY ActiveCalls DEF CallsOf, CallsTypeOK
<1>2. ending[JobOf[c]] = "running"
  BY <1>1 DEF SavedInv
<1>3. \A j \in Jobs \ {JobOf[c]} : c \notin CallsOf(j) /\ CallsOf(j)' = CallsOf(j)
  BY DEF CallsOf, Active
<1>4. \A j \in Jobs : CallsOf(j) \subseteq Active
  BY DEF CallsOf
<1>. QED  BY <1>2, <1>3, <1>4 DEF SavedInv, LogIsSaved

LEMMA CallLogged ==
  ASSUME TypeOK, EntryInv, NEW c \in Active, LogCall(c)
  PROVE  LogInv' /\ TraceInv' /\ EventInv'
<1>1. /\ \A d \in Active : JobOf[d] \in Jobs /\ d \in Calls
      /\ rec \in [Active -> RecSteps] /\ trace \in [Active -> Nat] /\ numbers \in [Jobs -> Nat]
      /\ log \in [Jobs -> Seq(Entries)]
  BY ActiveCalls DEF TypeOK, CallsTypeOK
<1>2. Active' = Active
  BY DEF LogCall, callVars, Active
<1>3. /\ rec[c] = "executing" /\ rec' = [rec EXCEPT ![c] = "appended"]
      /\ numbers' = [numbers EXCEPT ![JobOf[c]] = @ + 1]
      /\ trace' = [trace EXCEPT ![c] = numbers[JobOf[c]] + 1]
      /\ log' = [log EXCEPT ![JobOf[c]] = Append(@, c)] /\ UNCHANGED events
  BY DEF LogCall, Records
<1>4. ASSUME NEW d \in Active
      PROVE  /\ rec'[d] \in {"new", "executing"} => Places(log'[JobOf[d]], d) = {}
             /\ rec'[d] \in {"appended", "dumped", "opened", "logged", "done"} =>
                  \E i \in DOMAIN log'[JobOf[d]] : Places(log'[JobOf[d]], d) = {i}
  <2>. DEFINE old == log[JobOf[c]]
  <2>1. /\ rec[d] \in {"new", "executing"} => Places(log[JobOf[d]], d) = {}
        /\ rec[d] \in {"appended", "dumped", "opened", "logged", "done"} =>
             \E i \in DOMAIN log[JobOf[d]] : Places(log[JobOf[d]], d) = {i}
    BY DEF EntryInv, LogInv
  <2>2. old \in Seq(Entries) /\ c \in Entries
    BY <1>1 DEF Entries
  <2>3. /\ DOMAIN Append(old, c) = 1..(Len(old) + 1) /\ Places(old, d) \subseteq 1..Len(old)
        /\ c # d => Places(Append(old, c), d) = Places(old, d)
        /\ c = d => Places(Append(old, c), d) = Places(old, d) \cup {Len(old) + 1}
        /\ DOMAIN old = 1..Len(old) /\ Len(old) \in Nat
    <3>1. \A S : \A s \in Seq(S) : DOMAIN s = 1..Len(s) /\ Len(s) \in Nat
      BY LenProperties
    <3>. QED  BY <2>2, <3>1, PlacesAppended
  <2>4. CASE JobOf[d] # JobOf[c]
    BY <1>1, <1>3, <2>1, <2>4
  <2>5. CASE JobOf[d] = JobOf[c]
    <3>1. log'[JobOf[d]] = Append(old, c)
      BY <1>1, <1>3, <2>5
    <3>. HIDE DEF old
    <3>2. CASE d = c
      <4>1. Places(old, d) = {}
        BY <1>3, <2>1, <3>2 DEF old
      <4>2. Places(log'[JobOf[d]], d) = {Len(old) + 1} /\ Len(old) + 1 \in DOMAIN log'[JobOf[d]]
        BY <2>3, <3>1, <3>2, <4>1
      <4>3. rec'[d] = "appended"
        BY <1>1, <1>3, <3>2
      <4>. QED  BY <4>2, <4>3
    <3>3. CASE d # c
      <4>1. rec'[d] = rec[d] /\ Places(log'[JobOf[d]], d) = Places(old, d)
        BY <1>1, <1>3, <2>3, <3>1, <3>3
      <4>2. DOMAIN old \subseteq DOMAIN log'[JobOf[d]]
        BY <2>3, <3>1
      <4>3. old = log[JobOf[d]]
        BY <2>5 DEF old
      <4>. QED  BY <2>1, <4>1, <4>2, <4>3
    <3>. QED  BY <3>2, <3>3
  <2>. QED  BY <2>4, <2>5
<1>5. LogInv'
  BY <1>2, <1>4 DEF LogInv
<1>6. TraceInv'
  <2>1. \A d \in Active :
          /\ trace[d] \leq numbers[JobOf[d]] /\ trace[d] \in Nat /\ numbers[JobOf[d]] \in Nat
          /\ rec[d] \in {"appended", "dumped", "opened", "logged", "done"} => trace[d] # 0
          /\ \A e \in Active \ {d} :
               JobOf[e] = JobOf[d] /\ trace[d] # 0 => trace[e] # trace[d]
    BY <1>1 DEF EntryInv, TraceInv
  <2>2. \A d \in Active \ {c} : trace'[d] = trace[d] /\ rec'[d] = rec[d]
    BY <1>1, <1>3
  <2>3. /\ trace'[c] = numbers[JobOf[c]] + 1 /\ numbers'[JobOf[c]] = numbers[JobOf[c]] + 1
        /\ \A d \in Active : JobOf[d] # JobOf[c] => numbers'[JobOf[d]] = numbers[JobOf[d]]
        /\ \A d \in Active : JobOf[d] = JobOf[c] => numbers'[JobOf[d]] = numbers[JobOf[c]] + 1
    BY <1>1, <1>3
  <2>4. \A d \in Active : trace'[d] \leq numbers'[JobOf[d]]
    BY <2>1, <2>2, <2>3
  <2>5. \A d \in Active \ {c} : JobOf[d] = JobOf[c] => trace'[d] # trace'[c]
    BY <2>1, <2>2, <2>3
  <2>6. ASSUME NEW d \in Active, NEW e \in Active \ {d}, JobOf[e] = JobOf[d], trace'[d] # 0
        PROVE  trace'[e] # trace'[d]
    BY <2>1, <2>2, <2>5, <2>6
  <2>7. \A d \in Active :
          rec'[d] \in {"appended", "dumped", "opened", "logged", "done"} => trace'[d] # 0
    BY <2>1, <2>2, <2>3
  <2>. QED  BY <1>2, <2>4, <2>6, <2>7 DEF TraceInv
<1>7. EventInv'
  <2>1. request' = request
    BY DEF LogCall, callVars
  <2>2. \A d \in Active : \/ rec'[d] = rec[d]
                          \/ rec[d] \notin {"new", "done"} /\ rec'[d] \notin {"new", "done"}
    BY <1>1, <1>3
  <2>. QED  BY <1>3, <2>1, <2>2, EventsKept DEF EntryInv
<1>. QED  BY <1>5, <1>6, <1>7

\* Announcing a call, and its result.
LEMMA EventAnnounced ==
  ASSUME TypeOK, EventInv, NEW c \in Active, request' = request,
         NEW what \in {"call", "result"}, Emit(JobOf[c], what, c),
         \/ what = "call" /\ rec[c] = "new" /\ rec' = [rec EXCEPT ![c] = "executing"]
         \/ what = "result" /\ rec[c] = "logged" /\ rec' = [rec EXCEPT ![c] = "done"]
  PROVE  EventInv'
<1>1. /\ \A d \in Active : JobOf[d] \in Jobs /\ d \in Calls
      /\ rec \in [Active -> RecSteps]
      /\ events \in [Jobs -> Seq([what : {"call", "result"}, call : Calls])]
  BY ActiveCalls DEF TypeOK, CallsTypeOK
<1>. DEFINE old == events[JobOf[c]]
            item == [what |-> what, call |-> c]
<1>2. /\ old \in Seq([what : {"call", "result"}, call : Calls])
      /\ item \in [what : {"call", "result"}, call : Calls]
  BY <1>1
<1>3. /\ DOMAIN old = 1..Len(old) /\ Len(old) \in Nat
      /\ DOMAIN Append(old, item) = 1..(Len(old) + 1)
  <2>1. \A S : \A s \in Seq(S) : DOMAIN s = 1..Len(s) /\ Len(s) \in Nat
    BY LenProperties
  <2>. QED  BY <1>2, <2>1, PlacesAppended
<1>4. \A w : /\ Places(old, w) \subseteq 1..Len(old)
             /\ item # w => Places(Append(old, item), w) = Places(old, w)
             /\ item = w => Places(Append(old, item), w) = Places(old, w) \cup {Len(old) + 1}
  <2>. DEFINE S == [what : {"call", "result"}, call : Calls]
  <2>. HIDE DEF S, old, item
  <2>1. old \in Seq(S) /\ item \in S
    BY <1>2 DEF S
  <2>. QED  BY <2>1, PlacesAppended
<1>5. /\ events'[JobOf[c]] = Append(old, item)
      /\ \A d \in Active : JobOf[d] # JobOf[c] => events'[JobOf[d]] = events[JobOf[d]]
  BY <1>1 DEF Emit
<1>6. ASSUME NEW d \in Active
      PROVE  /\ rec'[d] = "new" => Said(d, "call")' = {}
             /\ rec'[d] # "done" => Said(d, "result")' = {}
             /\ rec'[d] # "new" => \E i \in DOMAIN events'[JobOf[d]] : Said(d, "call")' = {i}
             /\ rec'[d] = "done" =>
                  \E i, k \in DOMAIN events'[JobOf[d]] :
                    i < k /\ Said(d, "call")' = {i} /\ Said(d, "result")' = {k}
  <2>1. /\ rec[d] = "new" => Said(d, "call") = {}
        /\ rec[d] # "done" => Said(d, "result") = {}
        /\ rec[d] # "new" => \E i \in DOMAIN events[JobOf[d]] : Said(d, "call") = {i}
        /\ rec[d] = "done" =>
             \E i, k \in DOMAIN events[JobOf[d]] :
               i < k /\ Said(d, "call") = {i} /\ Said(d, "result") = {k}
    BY DEF EventInv
  <2>2. CASE JobOf[d] # JobOf[c]
    <3>1. events'[JobOf[d]] = events[JobOf[d]] /\ rec'[d] = rec[d]
      BY <1>1, <1>5, <2>2
    <3>2. Said(d, "call")' = Said(d, "call") /\ Said(d, "result")' = Said(d, "result")
      BY <3>1 DEF Said
    <3>. QED  BY <2>1, <3>1, <3>2
  <2>3. CASE JobOf[d] = JobOf[c] /\ d # c
    <3>1. item # [what |-> "call", call |-> d] /\ item # [what |-> "result", call |-> d]
      BY <2>3
    <3>2. Said(d, "call")' = Said(d, "call") /\ Said(d, "result")' = Said(d, "result")
      BY <1>4, <1>5, <2>3, <3>1 DEF Said
    <3>3. rec'[d] = rec[d] /\ DOMAIN events[JobOf[d]] \subseteq DOMAIN events'[JobOf[d]]
      BY <1>1, <1>3, <1>5, <2>3
    <3>. QED  BY <2>1, <3>2, <3>3
  <2>4. CASE d = c
    <3>1. CASE what = "call" /\ rec[c] = "new" /\ rec' = [rec EXCEPT ![c] = "executing"]
      <4>1. rec'[c] = "executing" /\ item # [what |-> "result", call |-> c]
        BY <1>1, <3>1
      <4>2. Said(c, "result")' = {}
        BY <1>4, <1>5, <2>1, <2>4, <3>1, <4>1 DEF Said
      <4>3. Said(c, "call")' = {Len(old) + 1}
        BY <1>4, <1>5, <2>1, <2>4, <3>1 DEF Said
      <4>4. Len(old) + 1 \in DOMAIN events'[JobOf[c]]
        BY <1>3, <1>5
      <4>. QED  BY <2>4, <4>1, <4>2, <4>3, <4>4
    <3>2. CASE what = "result" /\ rec[c] = "logged" /\ rec' = [rec EXCEPT ![c] = "done"]
      <4>1. rec'[c] = "done" /\ item # [what |-> "call", call |-> c]
        BY <1>1, <3>2
      <4>2. PICK i \in DOMAIN old : Said(c, "call") = {i}
        BY <2>1, <2>4, <3>2
      <4>3. Said(c, "call")' = {i}
        BY <1>4, <1>5, <4>1, <4>2 DEF Said
      <4>4. Said(c, "result")' = {Len(old) + 1}
        BY <1>4, <1>5, <2>1, <2>4, <3>2 DEF Said
      <4>5. i \in DOMAIN events'[JobOf[c]] /\ Len(old) + 1 \in DOMAIN events'[JobOf[c]]
            /\ i < Len(old) + 1
        BY <1>3, <1>5, <4>2
      <4>. QED  BY <2>4, <4>1, <4>3, <4>4, <4>5
    <3>. QED  BY <3>1, <3>2
  <2>. QED  BY <2>2, <2>3, <2>4
<1>7. Active' = Active
  BY DEF Active
<1>. QED  BY <1>6, <1>7 DEF EventInv

LEMMA RecordKept ==
  ASSUME TypeOK, EntryInv, NEW c \in Active, Record(c)
  PROVE  EntryInv'
<1>. USE DEF Records
<1>1. /\ \A d \in Active : JobOf[d] \in Jobs
      /\ rec \in [Active -> RecSteps] /\ numbers \in [Jobs -> Nat]
      /\ log \in [Jobs -> Seq(Entries)] /\ CallsTypeOK
      /\ logFile \in [Jobs -> Seq(Entries) \cup {Torn, Empty}]
  BY ActiveCalls DEF TypeOK, CallsTypeOK
<1>2. request' = request /\ ending' = ending
  BY DEF Record, Announce, LogCall, DumpLog, OpenLog, WriteLog, WriteFails, AnnounceResult,
         callVars, sessionVars
<1>3. /\ rec[c] \notin {"done", "raised"}
      /\ \A d \in Active \ {c} : rec'[d] = rec[d]
      /\ \A j \in Jobs \ {JobOf[c]} : log'[j] = log[j] /\ logFile'[j] = logFile[j]
  BY <1>1 DEF Record, Announce, LogCall, DumpLog, OpenLog, WriteLog, WriteFails, AnnounceResult,
              sessionVars
<1>4. SavedInv'
  BY <1>1, <1>2, <1>3, SavedKept DEF EntryInv
<1>5. \A j \in Jobs : numbers[j] \in Nat /\ numbers[j] \leq numbers[j]
  BY <1>1
<1>6. CASE Announce(c)
  <2>1. rec[c] = "new" /\ rec' = [rec EXCEPT ![c] = "executing"]
        /\ UNCHANGED <<log, trace, numbers>>
    BY <1>6 DEF Announce, sessionVars
  <2>2. LogInv' /\ TraceInv'
    BY <1>1, <1>2, <1>5, <2>1, LogKept, TraceKept DEF EntryInv
  <2>3. EventInv'
    BY <1>2, <1>6, <2>1, EventAnnounced DEF Announce, EntryInv
  <2>. QED  BY <1>4, <2>2, <2>3 DEF EntryInv
<1>7. CASE LogCall(c)
  BY <1>4, <1>7, CallLogged DEF EntryInv
<1>8. CASE DumpLog(c) \/ OpenLog(c) \/ WriteLog(c)
  <2>1. /\ UNCHANGED <<log, trace, numbers, events>>
        /\ \A d \in Active :
             \/ rec'[d] = rec[d]
             \/ /\ rec[d] \in {"appended", "dumped", "opened"}
                /\ rec'[d] \in {"appended", "dumped", "opened", "logged"}
    BY <1>1, <1>8 DEF DumpLog, OpenLog, WriteLog
  <2>. QED
    BY <1>2, <1>4, <1>5, <2>1, LogKept, TraceKept, EventsKept DEF EntryInv
<1>9. CASE WriteFails(c)
  <2>1. /\ UNCHANGED <<log, trace, events>>
        /\ \A d \in Active :
             \/ rec'[d] = rec[d]
             \/ rec[d] \in {"executing", "dumped", "opened"} /\ rec'[d] = "raised"
    <3>1. /\ UNCHANGED <<log, trace, events>>
          /\ rec[c] \in {"executing", "dumped", "opened"} /\ rec' = [rec EXCEPT ![c] = "raised"]
      BY <1>9 DEF WriteFails
    <3>. QED  BY <1>1, <3>1
  <2>2. \A j \in Jobs : numbers'[j] \in Nat /\ numbers[j] \leq numbers'[j]
    <3>1. numbers' = numbers \/ numbers' = [numbers EXCEPT ![JobOf[c]] = @ + 1]
      BY <1>9 DEF WriteFails
    <3>. QED  BY <1>1, <3>1
  <2>. QED
    BY <1>2, <1>4, <2>1, <2>2, LogKept, TraceKept, EventsKept DEF EntryInv
<1>10. CASE AnnounceResult(c)
  <2>1. rec[c] = "logged" /\ rec' = [rec EXCEPT ![c] = "done"]
        /\ UNCHANGED <<log, trace, numbers>>
    BY <1>10 DEF AnnounceResult, sessionVars
  <2>2. \A d \in Active :
          rec'[d] = rec[d] \/ (rec[d] = "logged" /\ rec'[d] = "done")
    BY <1>1, <2>1
  <2>3. LogInv' /\ TraceInv'
    BY <1>2, <1>5, <2>1, <2>2, LogKept, TraceKept DEF EntryInv
  <2>4. EventInv'
    BY <1>2, <1>10, <2>1, EventAnnounced DEF AnnounceResult, EntryInv
  <2>. QED  BY <1>4, <2>3, <2>4 DEF EntryInv
<1>. QED  BY <1>6, <1>7, <1>8, <1>9, <1>10 DEF Record

LEMMA FinishKept ==
  ASSUME TypeOK, EntryInv, NEW j \in Running, Finish(j)
  PROVE  EntryInv'
<1>1. /\ j \in Jobs /\ log \in [Jobs -> Seq(Entries)] /\ \A d \in Active : d \in Calls
      /\ logFile \in [Jobs -> Seq(Entries) \cup {Torn, Empty}] /\ ending \in [Jobs -> EndSteps]
      /\ \A d \in Active : JobOf[d] \in Jobs
  BY RunningJobs, ActiveCalls DEF TypeOK, CallsTypeOK
<1>2. /\ request' = request /\ Active' = Active
      /\ UNCHANGED <<rec, events, trace, numbers>>
  BY <1>1, FinishFrame DEF callVars, Active, TypeOK, FilesTyped
<1>3. log' = log \/ log' = [log EXCEPT ![j] = Append(@, Closing)]
  BY <1>1, FinishFrame DEF TypeOK, FilesTyped
<1>4. TraceInv' /\ EventInv'
  BY <1>2 DEF EntryInv, TraceInv, EventInv, Said
<1>5. SavedInv'
  <2>1. \A i \in Jobs : CallsOf(i)' = CallsOf(i) /\ CallsOf(i) \subseteq Active
    BY <1>2 DEF CallsOf
  <2>2. \A c \in CallsOf(j) : rec[c] \in {"done", "raised"}
    BY <1>1 DEF Finish, WriteAnswer, CloseSession, SaveLog, EndFails, CallsOver, EntryInv, SavedInv
  <2>3. \A i \in Jobs \ {j} : ending'[i] = ending[i] /\ log'[i] = log[i] /\ logFile'[i] = logFile[i]
    <3>1. PICK step \in EndSteps : ending' = [ending EXCEPT ![j] = step]
      BY <1>1, FinishFrame DEF TypeOK, FilesTyped
    <3>2. PICK left \in {logFile[j], log[j], Empty, Torn} : logFile' = [logFile EXCEPT ![j] = left]
      BY <1>1, FinishFrame DEF TypeOK, FilesTyped
    <3>. QED  BY <1>1, <1>3, <3>1, <3>2
  <2>4. LogIsSaved(j)'
    BY <1>1 DEF LogIsSaved, Finish, WriteAnswer, CloseSession, SaveLog, EndFails, Saved, Ending
  <2>. QED  BY <1>2, <2>1, <2>2, <2>3, <2>4 DEF EntryInv, SavedInv, LogIsSaved
<1>6. ASSUME NEW d \in Active
      PROVE  /\ rec[d] \in {"new", "executing"} => Places(log'[JobOf[d]], d) = {}
             /\ rec[d] \in {"appended", "dumped", "opened", "logged", "done"} =>
                  \E i \in DOMAIN log'[JobOf[d]] : Places(log'[JobOf[d]], d) = {i}
  <2>1. /\ rec[d] \in {"new", "executing"} => Places(log[JobOf[d]], d) = {}
        /\ rec[d] \in {"appended", "dumped", "opened", "logged", "done"} =>
             \E i \in DOMAIN log[JobOf[d]] : Places(log[JobOf[d]], d) = {i}
    BY DEF EntryInv, LogInv
  <2>2. CASE JobOf[d] # j \/ log' = log
    BY <1>1, <1>3, <2>1, <2>2
  <2>3. CASE JobOf[d] = j /\ log' = [log EXCEPT ![j] = Append(@, Closing)]
    <3>. DEFINE old == log[j]
    <3>1. old \in Seq(Entries) /\ Closing \in Entries /\ Closing # d
      BY <1>1, EntriesAssumption DEF Entries
    <3>2. log'[JobOf[d]] = Append(old, Closing)
      BY <1>1, <1>3, <2>3
    <3>3. \A S : \A s \in Seq(S) : DOMAIN s = 1..Len(s) /\ Len(s) \in Nat
      BY LenProperties
    <3>. HIDE DEF old
    <3>4. /\ Places(Append(old, Closing), d) = Places(old, d)
          /\ DOMAIN Append(old, Closing) = 1..(Len(old) + 1)
          /\ DOMAIN old = 1..Len(old) /\ Len(old) \in Nat
      BY <3>1, <3>3, PlacesAppended
    <3>5. old = log[JobOf[d]]
      BY <2>3 DEF old
    <3>6. Places(log'[JobOf[d]], d) = Places(log[JobOf[d]], d)
          /\ DOMAIN log[JobOf[d]] \subseteq DOMAIN log'[JobOf[d]]
      BY <3>2, <3>4, <3>5
    <3>. QED  BY <2>1, <3>6
  <2>. QED  BY <1>3, <2>2, <2>3
<1>7. LogInv'
  BY <1>2, <1>6 DEF LogInv
<1>. QED  BY <1>4, <1>5, <1>7 DEF EntryInv

LEMMA EntryInvariant == TypeOK /\ EntryInv /\ [Next]_vars => EntryInv'
<1>. SUFFICES ASSUME TypeOK, EntryInv, [Next]_vars PROVE EntryInv'
  OBVIOUS
<1>. QED
  BY CallsOrRecord, RequestsStay, EntryStable, RecordKept, FinishKept DEF vars

LEMMA EntryInit == Init => EntryInv
<1>. SUFFICES ASSUME Init PROVE EntryInv
  OBVIOUS
<1>1. TypeOK
  BY TypeInit
<1>2. /\ \A c \in Active : c \in Calls /\ JobOf[c] \in Jobs
      /\ \A c \in Active : rec[c] = "new" /\ trace[c] = 0
      /\ \A j \in Jobs : numbers[j] = 0 /\ events[j] = << >> /\ ending[j] = "running"
  BY <1>1, ActiveCalls DEF Init, TypeOK, CallsTypeOK
<1>3. PICK found \in Opened : log = [j \in Jobs |-> found.entries]
  BY DEF Init
<1>4. \A i \in DOMAIN found.entries : found.entries[i] = Earlier
  <2>1. found.entries = << >> \/ found.entries \in Seq({Earlier})
    BY FoundAssumption DEF Opened
  <2>. QED  BY <2>1
<1>5. \A c \in Active : Places(log[JobOf[c]], c) = {}
  BY <1>2, <1>3, <1>4, EntriesAssumption DEF Places
<1>6. \A c \in Active : Said(c, "call") = {} /\ Said(c, "result") = {}
  BY <1>2 DEF Said, Places
<1>7. LogInv /\ EventInv
  BY <1>2, <1>5, <1>6 DEF LogInv, EventInv
<1>8. TraceInv /\ SavedInv
  BY <1>2 DEF TraceInv, SavedInv
<1>. QED  BY <1>7, <1>8 DEF EntryInv

LEMMA SevenTests ==
  ASSUME NEW a \in BOOLEAN, NEW b \in BOOLEAN, NEW c \in BOOLEAN, NEW d \in BOOLEAN,
         NEW e \in BOOLEAN, NEW f \in BOOLEAN, NEW g \in BOOLEAN,
         NEW t, t = <<a, b, c, d, e, f, g>>
  PROVE  /\ t \in [1..7 -> BOOLEAN] /\ Len(t) = 7
         /\ t[1] = a /\ t[2] = b /\ t[3] = c /\ t[4] = d /\ t[5] = e /\ t[6] = f /\ t[7] = g
<1>1. t \in Seq(BOOLEAN) /\ Len(t) = 7 /\ DOMAIN t = 1..7
  OBVIOUS
<1>2. \A i \in 1..7 : t[i] \in BOOLEAN
  BY <1>1, ElementOfSeq
<1>3. t \in [1..7 -> BOOLEAN]
  BY <1>1, LenProperties
<1>4. t[1] = a /\ t[2] = b /\ t[3] = c /\ t[4] = d /\ t[5] = e /\ t[6] = f /\ t[7] = g
  OBVIOUS
<1>. QED  BY <1>1, <1>3, <1>4

\* The files of the engine rank behind every product and output.
LEMMA RecordsRankLast ==
  ASSUME NEW f, Wanted(f), NEW g \in EngineFiles, NEW required \in {"none", "html", "md"}
  PROVE  Bucket(f, required) < Bucket(g, required)
<1>. DEFINE First(b, t) == b \in 1..8 /\ (b \leq 7 => t[b]) /\ \A lower \in 1..(b - 1) : ~t[lower]
<1>1. \A t \in [1..7 -> BOOLEAN] : \E b \in 1..8 : First(b, t)
  <2>. SUFFICES ASSUME NEW t \in [1..7 -> BOOLEAN] PROVE \E b \in 1..8 : First(b, t)
    OBVIOUS
  <2>1. CASE t[1]
    <3>1. First(1, t)
      BY <2>1
    <3>. QED  BY <3>1
  <2>2. CASE ~t[1] /\ t[2]
    <3>1. First(2, t)
      BY <2>2
    <3>. QED  BY <3>1
  <2>3. CASE ~t[1] /\ ~t[2] /\ t[3]
    <3>1. First(3, t)
      BY <2>3
    <3>. QED  BY <3>1
  <2>4. CASE ~t[1] /\ ~t[2] /\ ~t[3] /\ t[4]
    <3>1. First(4, t)
      BY <2>4
    <3>. QED  BY <3>1
  <2>5. CASE ~t[1] /\ ~t[2] /\ ~t[3] /\ ~t[4] /\ t[5]
    <3>1. First(5, t)
      BY <2>5
    <3>. QED  BY <3>1
  <2>6. CASE ~t[1] /\ ~t[2] /\ ~t[3] /\ ~t[4] /\ ~t[5] /\ t[6]
    <3>1. First(6, t)
      BY <2>6
    <3>. QED  BY <3>1
  <2>7. CASE ~t[1] /\ ~t[2] /\ ~t[3] /\ ~t[4] /\ ~t[5] /\ ~t[6] /\ t[7]
    <3>1. First(7, t)
      BY <2>7
    <3>. QED  BY <3>1
  <2>8. CASE ~t[1] /\ ~t[2] /\ ~t[3] /\ ~t[4] /\ ~t[5] /\ ~t[6] /\ ~t[7]
    <3>1. First(8, t)
      BY <2>8
    <3>. QED  BY <3>1
  <2>. QED  BY <2>1, <2>2, <2>3, <2>4, <2>5, <2>6, <2>7, <2>8
<1>2. ASSUME NEW h PROVE First(Bucket(h, required), Buckets(h, required))
  <2>. DEFINE t == Buckets(h, required)
  <2>1. t \in [1..7 -> BOOLEAN] /\ Len(t) = 7
    <3>1. PICK t1 \in BOOLEAN, t2 \in BOOLEAN, t3 \in BOOLEAN, t4 \in BOOLEAN, t5 \in BOOLEAN,
               t6 \in BOOLEAN, t7 \in BOOLEAN :
            /\ t1 = (h.type = required) /\ t2 = (h.name = "answer") /\ t3 = (h.name = "final_output")
            /\ t4 = (h.cat = "product") /\ t5 = (h.cat = "output") /\ t6 = (h.type = "html")
            /\ t7 = (h.type = "png")
      OBVIOUS
    <3>2. t = <<t1, t2, t3, t4, t5, t6, t7>>
      BY <3>1 DEF Buckets
    <3>. QED  BY <3>2, SevenTests
  <2>. HIDE DEF t
  <2>2. PICK b \in 1..8 : First(b, t)
    BY <1>1, <2>1
  <2>3. Bucket(h, required) = CHOOSE a \in 1..(7 + 1) :
           /\ a \leq 7 => t[a]
           /\ \A lower \in 1..(a - 1) : ~t[lower]
    BY <2>1 DEF Bucket, t
  <2>. QED  BY <2>2, <2>3 DEF t
<1>3. Buckets(f, required)[4] \/ Buckets(f, required)[5]
  BY DEF Buckets, Wanted
<1>4. \A i \in 1..7 : ~Buckets(g, required)[i]
  <2>. DEFINE t == Buckets(g, required)
  <2>1. /\ g.cat = "system" /\ g.name = "events" /\ g.type = "json"
    BY DEF EngineFiles
  <2>2. ~t[1] /\ ~t[2] /\ ~t[3] /\ ~t[4] /\ ~t[5] /\ ~t[6] /\ ~t[7]
    BY <2>1, SevenTests DEF Buckets
  <2>. HIDE DEF t
  <2>3. \A i \in 1..7 : i = 1 \/ i = 2 \/ i = 3 \/ i = 4 \/ i = 5 \/ i = 6 \/ i = 7
    OBVIOUS
  <2>4. \A i \in 1..7 : ~t[i]
    BY <2>2, <2>3
  <2>. QED  BY <2>4 DEF t
<1>. QED  BY <1>2, <1>3, <1>4

\* Whatever the threads of a wave do at one time and whichever writes fail, the
\* record of a run that ended without an error is complete and saved, each call that
\* ended is in its log, and the record is not what a user is shown as the output, for
\* any calls, requests and files they write (session_manager.py:53-68 and 145-150,
\* parallel_executor.py:200-263, artifacts.py:285-347).
THEOREM RecordComplete == Spec => []RecordIsComplete
<1>1. EntryInv => \A c \in Active : CallIsRecorded(c)
  <2>. SUFFICES ASSUME EntryInv, NEW c \in Active, rec[c] = "done"
                PROVE  CallIsRecorded(c)
    BY DEF CallIsRecorded
  <2>1. \E i \in DOMAIN log[JobOf[c]] : Places(log[JobOf[c]], c) = {i}
    BY DEF EntryInv, LogInv
  <2>2. trace[c] # 0 /\ \A d \in CallsOf(JobOf[c]) \ {c} : trace[d] # trace[c]
    BY DEF EntryInv, TraceInv, CallsOf
  <2>3. \E i, k \in DOMAIN events[JobOf[c]] :
          i < k /\ Said(c, "call") = {i} /\ Said(c, "result") = {k}
    BY DEF EntryInv, EventInv
  <2>. QED  BY <2>1, <2>2, <2>3 DEF CallIsRecorded, Said
<1>2. EntryInv => \A j \in Jobs : LogIsSaved(j)
  BY DEF EntryInv, SavedInv, LogIsSaved
<1>3. \A j \in Jobs : PrimaryIsNoRecord(j)
  BY RecordsRankLast DEF PrimaryIsNoRecord, PrimaryOutputs, RanksBelow
<1>4. EntryInv => RecordIsComplete
  BY <1>1, <1>2, <1>3 DEF RecordIsComplete
<1>. QED  BY <1>4, EntryInit, EntryInvariant, CallsTypeCorrect, PTL DEF Spec
=============================================================================
