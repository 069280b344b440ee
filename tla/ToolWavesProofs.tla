-------------------------- MODULE ToolWavesProofs --------------------------
(***************************************************************************)
(* Proofs about ToolWaves for batches, pools and tools of any size.        *)
(*                                                                         *)
(* The argument has two parts.  PlanInv is about the greedy partition: two *)
(* calls of one wave do not conflict, no wave below a used one is empty,   *)
(* and a serial call is in a later wave than every call before it.         *)
(* RunInv is about the executor: whatever is below the wave in progress    *)
(* has ended, and whatever is above it has not begun.  Calls in progress   *)
(* are therefore of one wave, which gives the three properties.            *)
(*                                                                         *)
(* The last section shows the safety half of termination: some step is     *)
(* possible until execute_all returns, and every step adds to the work     *)
(* done, which is a subset of a finite set.                                *)
(***************************************************************************)
EXTENDS ToolWaves, TLAPS, FiniteSetTheorems, WellFoundedInduction

WavesApart ==
  \A c, d \in Calls : c # d /\ wave[c] # 0 /\ wave[c] = wave[d] =>
    ~Conflicts(batch[c], batch[d])

NoEmptyWave == \A c \in Calls : \A v \in 1..(wave[c] - 1) : \E d \in Calls : wave[d] = v

SerialLater ==
  \A c, d \in Calls : Serial(c) /\ d < c /\ wave[c] # 0 => wave[d] < wave[c]

PlacedInOrder == \A c, d \in Calls : d < c /\ wave[c] # 0 => wave[d] # 0

PlanInv == WavesApart /\ NoEmptyWave /\ SerialLater /\ PlacedInOrder

PlanBeforeRun ==
  IF phase = "partition" THEN opened = 0 /\ \A c \in Calls : pc[c] = "new"
                         ELSE \A c \in Calls : wave[c] # 0

RunInv ==
  /\ PlanBeforeRun
  /\ \A c \in Calls : wave[c] # 0 /\ wave[c] < opened => pc[c] = "done"
  /\ \A c \in Calls : wave[c] > opened => pc[c] = "new"

-----------------------------------------------------------------------------


LEMMA CallsAreIndices ==
  ASSUME TypeOK PROVE Len(batch) \in Nat /\ Calls = 1..Len(batch)
BY DEF TypeOK, Calls

LEMMA PlanTyped == ASSUME TypeOK, NEW c \in Calls, Place(c) PROVE TypeOK'
<1>1. PICK v \in 1..c : wave' = [wave EXCEPT ![c] = v]
  BY DEF Place
<1>2. v \in 0..Len(batch)
  BY CallsAreIndices
<1>. QED
  BY <1>1, <1>2 DEF TypeOK, Place, Calls, callVars, stopVars

LEMMA OpenTyped == ASSUME TypeOK, OpenWave PROVE TypeOK'
<1>1. PICK c \in Calls : wave[c] > opened
  BY DEF OpenWave, MoreWaves
<1>2. wave[c] \in 0..Len(batch) /\ opened \in 0..Len(batch) /\ Len(batch) \in Nat
  BY CallsAreIndices DEF TypeOK
<1>3. opened + 1 \in 0..Len(batch)
  BY <1>1, <1>2
<1>. QED
  BY <1>3 DEF TypeOK, OpenWave, Calls, planVars, callVars, stopVars

LEMMA CallTyped ==
  ASSUME TypeOK, NEW c \in Calls, CallStart(c) \/ CallStep(c) PROVE TypeOK'
<1>. USE DEF TypeOK, Calls, BusySteps, Contexts, planVars, stopVars
<1>1. CASE CallStart(c)
  BY <1>1 DEF CallStart
<1>2. CASE CallCheck(c)
  BY <1>2 DEF CallCheck
<1>3. CASE CallSave(c)
  BY <1>3 DEF CallSave
<1>4. CASE CallEnter(c)
  BY <1>4 DEF CallEnter, Exported
<1>5. CASE CallExit(c)
  BY <1>5 DEF CallExit
<1>6. CASE CallLog(c)
  BY <1>6 DEF CallLog
<1>7. CASE CallRaise(c)
  BY <1>7 DEF CallRaise
<1>. QED
  BY <1>1, <1>2, <1>3, <1>4, <1>5, <1>6, <1>7 DEF CallStep

LEMMA NextTyped == ASSUME TypeOK, [Next]_vars PROVE TypeOK'
<1>. USE DEF TypeOK, Calls, planVars, callVars, stopVars
<1>1. CASE Partitioned
  BY <1>1 DEF Partitioned
<1>2. CASE Return
  BY <1>2 DEF Return, Cancelled
<1>3. CASE Stop
  BY <1>3 DEF Stop
<1>4. CASE UNCHANGED vars
  BY <1>4 DEF vars
<1>. QED
  BY <1>1, <1>2, <1>3, <1>4, PlanTyped, OpenTyped, CallTyped DEF Next, ExecutorStep

\* Every variable keeps its type, and neither a wave nor the number of waves
\* begun exceeds the number of calls, for batches of any length.
THEOREM WavesTypeCorrect == Spec => []TypeOK
<1>1. Init => TypeOK
  <2>. SUFFICES ASSUME Init PROVE TypeOK
    OBVIOUS
  <2>1. PICK n \in 0..MaxCalls : batch \in [1..n -> CallKinds]
    BY DEF Init
  <2>2. n \in Nat
    BY MaxCallsAssumption
  <2>3. batch \in Seq(CallKinds) /\ Len(batch) = n
    BY <2>1, <2>2
  <2>4. 0 \in 0..Len(batch)
    BY <2>2, <2>3
  <2>. QED
    BY <2>3, <2>4 DEF Init, TypeOK, Contexts
<1>2. TypeOK /\ [Next]_vars => TypeOK'
  BY NextTyped
<1>. QED
  BY <1>1, <1>2, PTL DEF Spec

-----------------------------------------------------------------------------
(* The plan.                                                               *)

LEMMA ConflictsSymmetric ==
  ASSUME NEW a, NEW b PROVE Conflicts(a, b) <=> Conflicts(b, a)
BY DEF Conflicts

\* The greedy choice: the wave is new to the conflicting calls, the waves below
\* it are in use, and a serial call gets a wave above all.
LEMMA PlaceKeepsPlan ==
  ASSUME TypeOK, PlanInv, NEW c \in Calls, Place(c) PROVE PlanInv'
<1>1. PICK v \in 1..c : /\ Fits(c, v) /\ \A u \in 1..(v - 1) : ~Fits(c, u)
                        /\ wave' = [wave EXCEPT ![c] = v]
  BY DEF Place
<1>2. /\ Calls = 1..Len(batch) /\ Len(batch) \in Nat /\ batch' = batch
      /\ wave \in [Calls -> Nat] /\ wave[c] = 0 /\ \A d \in 1..(c - 1) : wave[d] # 0
  BY CallsAreIndices DEF TypeOK, Place
<1>3. /\ Calls' = Calls /\ wave'[c] = v /\ v \in Nat \ {0}
      /\ \A d \in Calls \ {c} : wave'[d] = wave[d]
  BY <1>1, <1>2 DEF Calls
<1>4. \A d \in Calls : d > c => wave[d] = 0
  BY <1>2 DEF PlanInv, PlacedInOrder
<1>5. WavesApart'
  <2>. SUFFICES ASSUME NEW i \in Calls, NEW k \in Calls, i # k,
                       wave'[i] # 0, wave'[i] = wave'[k]
                PROVE  ~Conflicts(batch[i], batch[k])
    BY <1>2, <1>3 DEF WavesApart
  <2>1. \A d \in Calls \ {c} : wave'[d] = v => ~Conflicts(batch[c], batch[d])
    <3>. SUFFICES ASSUME NEW d \in Calls \ {c}, wave[d] = v
                  PROVE  ~Conflicts(batch[c], batch[d])
      BY <1>3
    <3>1. d \in 1..(c - 1)
      BY <1>2, <1>3, <1>4
    <3>. QED
      BY <3>1, <1>1 DEF Fits
  <2>. QED
    BY <2>1, <1>3, ConflictsSymmetric DEF PlanInv, WavesApart
<1>6. NoEmptyWave'
  <2>. SUFFICES ASSUME NEW i \in Calls, NEW u \in 1..(wave'[i] - 1)
                PROVE  \E d \in Calls : wave'[d] = u
    BY <1>3 DEF NoEmptyWave
  <2>1. CASE i = c
    <3>1. u \in 1..(v - 1)
      BY <2>1, <1>3
    <3>2. PICK d \in 1..(c - 1) : wave[d] = u
      BY <3>1, <1>1 DEF Fits
    <3>. QED
      BY <3>2, <1>2, <1>3
  <2>2. CASE i # c
    <3>1. u \in 1..(wave[i] - 1) /\ u # 0
      BY <2>2, <1>2, <1>3
    <3>2. PICK d \in Calls : wave[d] = u
      BY <3>1 DEF PlanInv, NoEmptyWave
    <3>. QED
      BY <3>1, <3>2, <1>2, <1>3
  <2>. QED
    BY <2>1, <2>2
<1>7. SerialLater'
  <2>. SUFFICES ASSUME NEW i \in Calls, NEW d \in Calls, Serial(i), d < i, wave'[i] # 0
                PROVE  wave'[d] < wave'[i]
    BY <1>2, <1>3 DEF SerialLater, Serial
  <2>1. CASE i = c
    <3>1. d \in 1..(c - 1) /\ wave'[d] = wave[d] /\ wave[d] \in Nat
      BY <2>1, <1>2, <1>3
    <3>2. \A e \in 1..(c - 1) : wave[e] # v
      BY <2>1, <1>1 DEF Fits, Conflicts, Serial
    <3>3. ~(v < wave[d])
      <4>. SUFFICES ASSUME v < wave[d] PROVE FALSE
        OBVIOUS
      <4>1. v \in 1..(wave[d] - 1)
        BY <1>3, <3>1
      <4>2. PICK e \in Calls : wave[e] = v
        BY <4>1, <3>1, <1>2 DEF PlanInv, NoEmptyWave
      <4>3. e \in 1..(c - 1)
        BY <4>2, <1>2, <1>3, <1>4
      <4>. QED
        BY <4>2, <4>3, <3>2
    <3>. QED
      BY <2>1, <3>1, <3>2, <3>3, <1>3
  <2>2. CASE d = c
    BY <2>2, <1>2, <1>3, <1>4
  <2>3. CASE i # c /\ d # c
    BY <2>3, <1>3 DEF PlanInv, SerialLater
  <2>. QED
    BY <2>1, <2>2, <2>3
<1>8. PlacedInOrder'
  BY <1>2, <1>3, <1>4 DEF PlanInv, PlacedInOrder
<1>. QED
  BY <1>5, <1>6, <1>7, <1>8 DEF PlanInv

LEMMA PlanKept == ASSUME UNCHANGED planVars, PlanInv PROVE PlanInv'
BY DEF planVars, PlanInv, WavesApart, NoEmptyWave, SerialLater, PlacedInOrder,
       Calls, Serial

LEMMA NextKeepsPlan == ASSUME TypeOK, PlanInv, [Next]_vars PROVE PlanInv'
<1>1. CASE \E c \in Calls : Place(c)
  BY <1>1, PlaceKeepsPlan
<1>2. CASE UNCHANGED planVars
  BY <1>2, PlanKept
<1>3. CASE \E c \in Calls : CallStart(c) \/ CallStep(c)
  BY <1>2, <1>3 DEF CallStart, CallStep, CallCheck, CallSave, CallEnter, CallExit,
     CallLog, CallRaise
<1>. QED
  BY <1>1, <1>2, <1>3 DEF Next, ExecutorStep, Partitioned, OpenWave, Return, Stop, vars
-----------------------------------------------------------------------------
(* The run.                                                                *)

LEMMA CallKeepsRun ==
  ASSUME TypeOK, RunInv, NEW c \in Calls, CallStart(c) \/ CallStep(c)
  PROVE  RunInv'
<1>1. /\ UNCHANGED <<batch, wave, opened>> /\ phase # "partition"
      /\ phase' = "partition" <=> phase = "partition"
  <2>1. pc[c] # "new" \/ phase = "run"
    BY DEF CallStart, CallStep, CallCheck, CallSave, CallEnter, CallExit, CallLog, CallRaise
  <2>2. phase # "partition"
    BY <2>1, Zenon DEF RunInv, PlanBeforeRun, CallStart, CallStep, CallCheck, CallSave,
       CallEnter, CallExit, CallLog, CallRaise
  <2>. QED
    BY <2>2 DEF CallStart, CallStep, CallCheck, CallSave, CallEnter, CallExit, CallLog,
       CallRaise, planVars
<1>2. /\ pc \in [Calls -> {"new", "done"} \cup BusySteps]
      /\ wave[c] \in Nat /\ opened \in Nat /\ Calls' = Calls
  BY <1>1, CallsAreIndices DEF TypeOK, Calls
<1>3. wave[c] # 0
  BY <1>1 DEF RunInv, PlanBeforeRun
<1>4. wave[c] = opened
  <2>1. CASE CallStart(c)
    BY <2>1 DEF CallStart
  <2>2. CASE CallStep(c)
    <3>1. pc[c] \notin {"new", "done"}
      BY <2>2 DEF CallStep, CallCheck, CallSave, CallEnter, CallExit, CallLog, CallRaise
    <3>. QED
      BY <3>1, <1>2, <1>3 DEF RunInv
  <2>. QED
    BY <2>1, <2>2
<1>5. \A d \in Calls \ {c} : pc'[d] = pc[d]
  BY <1>2 DEF CallStart, CallStep, CallCheck, CallSave, CallEnter, CallExit, CallLog,
     CallRaise
<1>. QED
  BY <1>1, <1>2, <1>4, <1>5 DEF RunInv, PlanBeforeRun

LEMMA ExecutorKeepsRun ==
  ASSUME TypeOK, RunInv, Partitioned \/ OpenWave \/ Return \/ (\E c \in Calls : Place(c))
  PROVE  RunInv'
<1>. USE DEF RunInv, PlanBeforeRun
<1>1. /\ Calls' = Calls /\ wave \in [Calls -> Nat] /\ opened \in Nat /\ pc' = pc
  BY CallsAreIndices DEF TypeOK, Calls, Partitioned, OpenWave, Return, Place, planVars,
     callVars
<1>2. CASE \E c \in Calls : Place(c)
  BY <1>1, <1>2 DEF Place
<1>3. CASE Partitioned
  BY <1>1, <1>3 DEF Partitioned, planVars
<1>4. CASE OpenWave
  BY <1>1, <1>4 DEF OpenWave, WaveOver, planVars
<1>5. CASE Return
  BY <1>1, <1>5 DEF Return, planVars
<1>. QED
  BY <1>2, <1>3, <1>4, <1>5

LEMMA NextKeepsRun == ASSUME TypeOK, RunInv, [Next]_vars PROVE RunInv'
<1>1. CASE Stop \/ UNCHANGED vars
  BY <1>1 DEF RunInv, PlanBeforeRun, Stop, Calls, vars, planVars, callVars
<1>. QED
  BY <1>1, CallKeepsRun, ExecutorKeepsRun DEF Next, ExecutorStep

\* Until its last wave a batch is planned, then run wave by wave.
WavesInv == TypeOK /\ PlanInv /\ RunInv

LEMMA WavesInvariant == Spec => []WavesInv
<1>1. Init => PlanInv /\ RunInv
  BY DEF Init, PlanInv, WavesApart, NoEmptyWave, SerialLater, PlacedInOrder, RunInv,
     PlanBeforeRun
<1>2. WavesInv /\ [Next]_vars => PlanInv' /\ RunInv'
  BY NextKeepsPlan, NextKeepsRun DEF WavesInv
<1>. QED
  BY <1>1, <1>2, WavesTypeCorrect, PTL DEF Spec, WavesInv

LEMMA BusyCallsShareWave ==
  ASSUME WavesInv, NEW c \in Calls, pc[c] \notin {"new", "done"}
  PROVE  wave[c] = opened /\ wave[c] # 0
<1>1. phase # "partition"
  BY DEF WavesInv, RunInv, PlanBeforeRun
<1>2. wave[c] # 0 /\ wave[c] \in Nat /\ opened \in Nat
  BY <1>1, CallsAreIndices DEF WavesInv, RunInv, PlanBeforeRun, TypeOK
<1>. QED
  BY <1>2 DEF WavesInv, RunInv

LEMMA BusyCallsApart == WavesInv => ConflictsNeverOverlap
<1>. SUFFICES ASSUME WavesInv, NEW c \in Calls, NEW d \in Calls,
                     c # d, Busy(c), Busy(d)
              PROVE  ~Conflicts(batch[c], batch[d])
  BY DEF ConflictsNeverOverlap, Conflicts, Serial
<1>1. wave[c] = wave[d] /\ wave[c] # 0
  BY BusyCallsShareWave DEF Busy, BusySteps
<1>. QED
  BY <1>1 DEF WavesInv, PlanInv, WavesApart

\* Calls that run together never interfere, in batches of any length, over any
\* tools and paths and with a pool of any size.
THEOREM NothingOverlaps == Spec => []ConflictsNeverOverlap
BY WavesInvariant, BusyCallsApart, PTL

\* A serial call waits for all that was asked for before it, whatever the batch.
THEOREM SerialWaits == Spec => []SerialAfterEarlier
<1>1. WavesInv => SerialAfterEarlier
  <2>. SUFFICES ASSUME WavesInv, NEW c \in Calls, Serial(c), pc[c] # "new",
                       NEW d \in 1..(c - 1)
                PROVE  pc[d] = "done"
    BY DEF SerialAfterEarlier
  <2>1. c \in Nat /\ d \in Calls /\ d < c /\ wave \in [Calls -> Nat] /\ opened \in Nat
    BY CallsAreIndices DEF WavesInv, TypeOK
  <2>2. wave[c] # 0 /\ wave[d] # 0
    BY <2>1 DEF WavesInv, RunInv, PlanBeforeRun
  <2>3. wave[d] < wave[c]
    BY <2>1, <2>2 DEF WavesInv, PlanInv, SerialLater
  <2>4. ~(wave[c] > opened)
    BY DEF WavesInv, RunInv
  <2>. QED
    BY <2>1, <2>2, <2>3, <2>4 DEF WavesInv, RunInv
<1>. QED
  BY <1>1, WavesInvariant, PTL
LEMMA NextKeepsContext ==
  ASSUME WavesInv, SerialSeesContext, [Next]_vars
  PROVE  SerialSeesContext'
<1>. SUFFICES ASSUME NEW c \in Calls, Serial(c), pc'[c] = "running"
              PROVE  env' = "job"
  <2>1. UNCHANGED batch
    BY DEF Next, ExecutorStep, CallStep, Place, Partitioned, OpenWave, Return, CallStart,
       CallCheck, CallSave, CallEnter, CallExit, CallLog, CallRaise, Stop, vars, planVars
  <2>. QED
    BY <2>1 DEF SerialSeesContext, Calls, Serial
<1>1. pc \in [Calls -> {"new", "done"} \cup BusySteps]
  BY DEF WavesInv, TypeOK
<1>2. CASE CallEnter(c)
  BY <1>2 DEF CallEnter, Exported
<1>3. CASE \E d \in Calls \ {c} : CallStep(d)
  <2>. PICK d \in Calls \ {c} : CallStep(d)
    BY <1>3
  <2>1. pc[c] = "running" /\ env = "job"
    BY <1>1 DEF SerialSeesContext, CallStep, CallCheck, CallSave, CallEnter, CallExit,
       CallLog, CallRaise
  <2>2. pc[d] # "running"
    BY <2>1, BusyCallsApart DEF ConflictsNeverOverlap, Busy, BusySteps
  <2>. QED
    BY <2>1, <2>2 DEF CallStep, CallCheck, CallSave, CallEnter, CallExit, CallLog,
       CallRaise, Exported
<1>4. CASE CallStep(c) /\ ~CallEnter(c)
  BY <1>1, <1>4 DEF CallStep, CallCheck, CallSave, CallExit, CallLog, CallRaise
<1>5. CASE (\E d \in Calls : CallStart(d))
  BY <1>1, <1>5 DEF SerialSeesContext, CallStart
<1>6. CASE pc' = pc /\ env' = env
  BY <1>6 DEF SerialSeesContext
<1>. QED
  BY <1>2, <1>3, <1>4, <1>5, <1>6
  DEF Next, ExecutorStep, Place, Partitioned, OpenWave, Return, Stop, vars, callVars

\* Whatever the waves before left in the environment of the process, and with
\* any tools, a serial tool runs with the context of its own job.
THEOREM SerialContext == Spec => []SerialSeesContext
<1>1. Init => SerialSeesContext
  BY DEF Init, SerialSeesContext
<1>. QED
  BY <1>1, NextKeepsContext, WavesInvariant, PTL DEF Spec

-----------------------------------------------------------------------------
(* The results.                                                            *)

\* A call has an outcome once its tool is over, none before that, and none is
\* cancelled in a job that was not stopped.
OutcomeInv ==
  /\ \A c \in Calls : pc[c] \in {"ran", "done"} => outcome[c] # "none"
  /\ phase # "returned" =>
       \A c \in Calls : pc[c] \notin {"ran", "done"} => outcome[c] = "none"
  /\ \A c \in Calls : outcome[c] = "cancelled" => stopEvent
  /\ stopFile => stopEvent
  /\ EveryCallAnswered

LEMMA CallKeepsOutcome ==
  ASSUME WavesInv, OutcomeInv, NEW c \in Calls, CallStart(c) \/ CallStep(c)
  PROVE  OutcomeInv'
<1>1. /\ pc \in [Calls -> {"new", "done"} \cup BusySteps]
      /\ outcome \in [Calls -> {"none", "ok", "error", "cancelled"}]
  BY DEF WavesInv, TypeOK
<1>2. phase # "returned" /\ phase' # "returned"
  <2>1. phase = "run" \/ Busy(c)
    BY DEF CallStart, CallStep, CallCheck, CallSave, CallEnter, CallExit, CallLog,
       CallRaise, Busy, BusySteps
  <2>2. phase # "returned"
    BY <2>1 DEF OutcomeInv, EveryCallAnswered
  <2>. QED
    BY <2>2 DEF CallStart, CallStep, CallCheck, CallSave, CallEnter, CallExit, CallLog,
       CallRaise
<1>3. UNCHANGED <<batch, stopVars>>
  BY DEF CallStart, CallStep, CallCheck, CallSave, CallEnter, CallExit, CallLog,
     CallRaise, planVars
<1>4. \A d \in Calls \ {c} : pc'[d] = pc[d] /\ outcome'[d] = outcome[d]
  BY <1>1 DEF CallStart, CallStep, CallCheck, CallSave, CallEnter, CallExit, CallLog,
     CallRaise
<1>5. /\ pc'[c] \in {"ran", "done"} => outcome'[c] # "none"
      /\ pc'[c] \notin {"ran", "done"} => outcome'[c] = "none"
      /\ outcome'[c] = "cancelled" => stopEvent
  BY <1>1, <1>2 DEF OutcomeInv, CallStart, CallStep, CallCheck, CallSave, CallEnter,
     CallExit, CallLog, CallRaise
<1>. QED
  BY <1>2, <1>3, <1>4, <1>5 DEF OutcomeInv, EveryCallAnswered, Calls, stopVars

LEMMA ReturnKeepsOutcome ==
  ASSUME WavesInv, OutcomeInv, Return PROVE OutcomeInv'
<1>1. /\ Calls' = Calls /\ pc' = pc /\ UNCHANGED stopVars /\ phase = "run"
      /\ \A c \in Calls : outcome'[c] = Cancelled[c]
  BY DEF Return, planVars, Calls, Cancelled
<1>2. \A c \in Calls : pc[c] = "done" \/ (pc[c] = "new" /\ outcome[c] = "none" /\ stopEvent)
  <2>. SUFFICES ASSUME NEW c \in Calls, pc[c] # "done"
                PROVE  pc[c] = "new" /\ outcome[c] = "none" /\ stopEvent
    OBVIOUS
  <2>1. wave[c] > opened
    BY CallsAreIndices DEF Return, WaveOver, WavesInv, TypeOK
  <2>2. pc[c] = "new" /\ stopEvent
    BY <2>1 DEF WavesInv, RunInv, Return, LoopOver, MoreWaves
  <2>. QED
    BY <2>2, <1>1 DEF OutcomeInv
<1>. QED
  BY <1>1, <1>2 DEF OutcomeInv, EveryCallAnswered, Cancelled, Busy, BusySteps, Return,
     stopVars

LEMMA NextKeepsOutcome ==
  ASSUME WavesInv, OutcomeInv, [Next]_vars PROVE OutcomeInv'
<1>. USE DEF OutcomeInv, EveryCallAnswered, Calls, planVars, callVars, stopVars, Busy
<1>1. CASE \E c \in Calls : Place(c)
  BY <1>1 DEF Place
<1>2. CASE Partitioned \/ OpenWave
  BY <1>2 DEF Partitioned, OpenWave
<1>3. CASE Stop
  BY <1>3 DEF Stop
<1>4. CASE UNCHANGED vars
  BY <1>4 DEF vars
<1>. QED
  BY <1>1, <1>2, <1>3, <1>4, CallKeepsOutcome, ReturnKeepsOutcome DEF Next, ExecutorStep

\* Whatever the batch, and whenever the STOP comes, execute_all returns one
\* result per call: the call's own if it was started, "cancelled" if it was not.
THEOREM CallsAnswered == Spec => []EveryCallAnswered
<1>1. Init => OutcomeInv
  BY DEF Init, OutcomeInv, EveryCallAnswered
<1>2. WavesInv /\ OutcomeInv /\ [Next]_vars => OutcomeInv'
  BY NextKeepsOutcome
<1>3. OutcomeInv => EveryCallAnswered
  BY DEF OutcomeInv
<1>. QED
  BY <1>1, <1>2, <1>3, WavesInvariant, PTL DEF Spec

-----------------------------------------------------------------------------
(* A batch comes to an end: some thread can always go on, and whatever it  *)
(* does is work that need not be done again.                               *)

\* Whose turn it is: the next call can be placed in a wave, ...
CanPlace ==
  \E c \in Calls : \E v \in 1..c :
    /\ wave[c] = 0 /\ \A d \in 1..(c - 1) : wave[d] # 0
    /\ Fits(c, v) /\ \A u \in 1..(v - 1) : ~Fits(c, u)

\* ... or a thread of the pool can take the oldest call of the wave, ...
CanStart ==
  \E c \in Calls :
    /\ pc[c] = "new" /\ wave[c] = opened
    /\ \A d \in 1..(c - 1) : wave[d] = opened => pc[d] # "new"
    /\ Cardinality({d \in Calls : Busy(d)}) < MaxWorkers

\* ... or is in a call.
CanContinue == \E c \in Calls : Busy(c)

\* Nobody waits in vain: if none of these can be done, the waves are complete, or
\* the one in progress is over and execute_all goes on to the next or returns.
NeverStuck ==
  /\ phase = "partition" => CanPlace \/ \A c \in Calls : wave[c] # 0
  /\ phase = "run" => CanStart \/ CanContinue \/ WaveOver

\* The steps a call is past.
Past(p) ==
  CASE p = "new" -> {}
    [] p = "called" -> {"called"}
    [] p = "checked" -> {"called", "checked"}
    [] p = "saved" -> {"called", "checked", "saved"}
    [] p = "running" -> {"called", "checked", "saved", "running"}
    [] p = "ran" -> BusySteps
    [] p = "done" -> BusySteps \cup {"done"}

Marks == BusySteps \cup {"done", "placed", "opened", "run", "over"}

\* What was done: waves opened, calls placed, steps of calls.
Did(c, s) ==
  CASE s = "run" -> c = 0 /\ phase # "partition"
    [] s = "over" -> c = 0 /\ phase \in {"returned", "raised"}
    [] s = "opened" -> c \in 1..opened
    [] s = "placed" -> c \in Calls /\ wave[c] # 0
    [] OTHER -> c \in Calls /\ s \in Past(pc[c])

Work == {x \in (0..Len(batch)) \X Marks : Did(x[1], x[2])}

\* Every step of the executor and of its calls does something that was not done
\* and undoes nothing.
WorkGrows ==
  [][ExecutorStep \/ (\E c \in Calls : CallStep(c)) => Work \subseteq Work' /\ Work # Work']_vars

\* Every set of naturals that is not empty has a least element.
LEMMA LeastNatural ==
  ASSUME NEW T \in SUBSET Nat, T # {}
  PROVE  \E x \in T : \A y \in T : x <= y
<1>. DEFINE Below(n) == {m \in Nat : m < n}
            Initial == {Below(n) : n \in T}
<1>1. \A n \in T : Below(n) \in FiniteSubsetsOf(Nat)
  <2>. SUFFICES ASSUME NEW n \in T
                PROVE  Below(n) \in FiniteSubsetsOf(Nat)
    OBVIOUS
  <2>1. \A m \in Below(n) : m <= n
    OBVIOUS
  <2>2. IsFiniteSet(Below(n))
    BY <2>1, FS_BoundedSetOfNaturals
  <2>. QED
    BY <2>2 DEF FiniteSubsetsOf
<1>2. \E b \in Initial : \A c \in Initial : <<c, b>> \notin StrictSubsetOrdering(Nat)
  <2>1. Initial \subseteq FiniteSubsetsOf(Nat) /\ Initial # {}
    BY <1>1
  <2>. QED
    BY <2>1, FS_StrictSubsetOrderingWellFounded, WFMin
<1>3. PICK x \in T : \A y \in T : <<Below(y), Below(x)>> \notin StrictSubsetOrdering(Nat)
  BY <1>2
<1>4. ASSUME NEW y \in T, y < x
      PROVE  FALSE
  <2>1. /\ Below(y) \in SUBSET Nat /\ Below(x) \in SUBSET Nat
        /\ Below(y) \subseteq Below(x) /\ Below(y) # Below(x)
    <3>1. y \in Below(x) /\ y \notin Below(y)
      BY <1>4
    <3>2. Below(y) \subseteq Below(x)
      BY <1>4
    <3>. QED
      BY <3>1, <3>2
  <2>2. <<Below(y), Below(x)>> \in StrictSubsetOrdering(Nat)
    <3>. HIDE DEF Below
    <3>. QED BY <2>1 DEF StrictSubsetOrdering
  <2>. QED
    BY <1>3, <2>2
<1>. QED
  BY <1>3, <1>4

\* A call is placed in no wave beyond those its predecessors could fill.
WavesLow == \A c \in Calls : wave[c] \leq c

LEMMA WavesStayLow == Spec => []WavesLow
<1>1. Init => WavesLow
  <2>. SUFFICES ASSUME Init PROVE WavesLow
    OBVIOUS
  <2>1. PICK n \in 0..MaxCalls : batch \in [1..n -> CallKinds]
    BY DEF Init
  <2>. QED
    BY <2>1, MaxCallsAssumption DEF Init, WavesLow, Calls
<1>2. TypeOK /\ WavesLow /\ [Next]_vars => WavesLow'
  <2>. SUFFICES ASSUME TypeOK, WavesLow, [Next]_vars PROVE WavesLow'
    OBVIOUS
  <2>1. CASE UNCHANGED planVars
    BY <2>1 DEF WavesLow, Calls, planVars
  <2>2. ASSUME NEW c \in Calls, Place(c) PROVE WavesLow'
    <3>1. PICK v \in 1..c : wave' = [wave EXCEPT ![c] = v]
      BY <2>2 DEF Place
    <3>. QED
      BY <2>2, <3>1, CallsAreIndices DEF WavesLow, Calls, Place, TypeOK
  <2>3. CASE \E c \in Calls : CallStart(c) \/ CallStep(c)
    BY <2>1, <2>3 DEF CallStart, CallStep, CallCheck, CallSave, CallEnter, CallExit,
       CallLog, CallRaise
  <2>. QED
    BY <2>1, <2>2, <2>3 DEF Next, ExecutorStep, Partitioned, OpenWave, Return, Stop, vars
<1>. QED
  BY <1>1, <1>2, WavesTypeCorrect, PTL DEF Spec

\* The first call without a wave fits in one: none of its predecessors can be in
\* the wave that has its own number.
LEMMA SomeCallFits ==
  ASSUME TypeOK, WavesLow, NEW b \in Calls, wave[b] = 0
  PROVE  CanPlace
<1>1. /\ Len(batch) \in Nat /\ Calls = 1..Len(batch) /\ wave \in [Calls -> Nat]
  BY CallsAreIndices DEF TypeOK
<1>. DEFINE Left == {c \in Calls : wave[c] = 0}
<1>2. PICK c \in Left : \A d \in Left : c <= d
  <2>1. Left \in SUBSET Nat /\ Left # {}
    BY <1>1
  <2>. HIDE DEF Left
  <2>. QED
    BY <2>1, LeastNatural
<1>3. /\ c \in Calls /\ wave[c] = 0 /\ c \in Nat \ {0}
      /\ \A d \in 1..(c - 1) : d \in Calls /\ wave[d] # 0
  BY <1>1, <1>2
<1>. DEFINE Open == {v \in Nat \ {0} : Fits(c, v)}
<1>4. c \in Open
  <2>1. \A d \in 1..(c - 1) : wave[d] # c
    BY <1>1, <1>3 DEF WavesLow
  <2>. QED
    BY <1>3, <2>1 DEF Fits
<1>5. PICK v \in Open : \A u \in Open : v <= u
  <2>1. Open \in SUBSET Nat /\ Open # {}
    BY <1>4
  <2>. HIDE DEF Open
  <2>. QED
    BY <2>1, LeastNatural
<1>6. v \in 1..c /\ Fits(c, v)
  BY <1>4, <1>5
<1>7. \A u \in 1..(v - 1) : ~Fits(c, u)
  BY <1>5, <1>6
<1>. QED
  BY <1>3, <1>6, <1>7 DEF CanPlace

\* In a wave that is not over a call is in progress, or the pool is free.
LEMMA SomeCallGoesOn ==
  ASSUME WavesInv, phase = "run", ~WaveOver, ~CanContinue
  PROVE  CanStart
<1>1. /\ Len(batch) \in Nat /\ Calls = 1..Len(batch) /\ wave \in [Calls -> Nat]
      /\ opened \in Nat /\ pc \in [Calls -> {"new", "done"} \cup BusySteps]
  BY CallsAreIndices DEF WavesInv, TypeOK
<1>. DEFINE Waiting == {c \in Calls : pc[c] = "new" /\ wave[c] = opened}
<1>2. Waiting # {}
  <2>1. PICK c \in Calls : wave[c] \leq opened /\ pc[c] # "done"
    BY DEF WaveOver
  <2>2. pc[c] = "new" /\ wave[c] # 0
    BY <1>1, <2>1 DEF CanContinue, Busy, WavesInv, RunInv, PlanBeforeRun
  <2>3. wave[c] = opened
    BY <1>1, <2>1, <2>2 DEF WavesInv, RunInv
  <2>. QED
    BY <2>2, <2>3
<1>3. PICK c \in Waiting : \A d \in Waiting : c <= d
  <2>1. Waiting \in SUBSET Nat
    BY <1>1
  <2>. HIDE DEF Waiting
  <2>. QED
    BY <1>2, <2>1, LeastNatural
<1>4. \A d \in 1..(c - 1) : wave[d] = opened => pc[d] # "new"
  BY <1>1, <1>3
<1>5. {d \in Calls : Busy(d)} = {}
  BY DEF CanContinue
<1>6. Cardinality({d \in Calls : Busy(d)}) < MaxWorkers
  BY <1>5, FS_EmptySet, MaxWorkersAssumption
<1>. QED
  BY <1>3, <1>4, <1>6 DEF CanStart

\* For any batch, tools and pool the executor waits for something that will
\* come: no call stays unplaced, and no wave waits for a thread it cannot get.
THEOREM ExecutorNeverStuck == Spec => []NeverStuck
<1>1. WavesInv /\ WavesLow => NeverStuck
  BY SomeCallFits, SomeCallGoesOn DEF NeverStuck, WavesInv
<1>. QED
  BY <1>1, WavesInvariant, WavesStayLow, PTL

-----------------------------------------------------------------------------

LEMMA NewWork ==
  ASSUME TypeOK, batch' = batch, NEW c \in 0..Len(batch), NEW s \in Marks,
         ~Did(c, s), Did(c, s)',
         \A d \in 0..Len(batch), t \in Marks : Did(d, t) => Did(d, t)'
  PROVE  Work \subseteq Work' /\ Work # Work'
<1>1. <<c, s>> \in Work' /\ <<c, s>> \notin Work
  BY DEF Work
<1>2. Work \subseteq Work'
  BY DEF Work
<1>. QED
  BY <1>1, <1>2

LEMMA CallWorks ==
  ASSUME TypeOK, NEW c \in Calls, CallStart(c) \/ CallStep(c)
  PROVE  Work \subseteq Work' /\ Work # Work'
<1>1. /\ Len(batch) \in Nat /\ Calls = 1..Len(batch) /\ c \in 0..Len(batch)
      /\ pc \in [Calls -> {"new", "done"} \cup BusySteps]
  BY CallsAreIndices DEF TypeOK
<1>2. /\ UNCHANGED <<batch, wave, opened>> /\ Calls' = Calls
      /\ phase' \in {phase, "raised"}
      /\ \A d \in Calls \ {c} : pc'[d] = pc[d]
  BY <1>1 DEF CallStart, CallStep, CallCheck, CallSave, CallEnter, CallExit, CallLog,
     CallRaise, planVars, Calls
<1>3. PICK s \in BusySteps \cup {"done"} :
        /\ s \notin Past(pc[c]) /\ s \in Past(pc'[c]) /\ Past(pc[c]) \subseteq Past(pc'[c])
  <2>. USE <1>1 DEF Past, BusySteps
  <2>1. CASE CallStart(c)
    BY <2>1 DEF CallStart
  <2>2. CASE CallCheck(c)
    BY <2>2 DEF CallCheck
  <2>3. CASE CallSave(c)
    BY <2>3 DEF CallSave
  <2>4. CASE CallEnter(c)
    BY <2>4 DEF CallEnter
  <2>5. CASE CallExit(c)
    BY <2>5 DEF CallExit
  <2>6. CASE CallLog(c) \/ CallRaise(c)
    BY <2>6 DEF CallLog, CallRaise
  <2>. QED
    BY <2>1, <2>2, <2>3, <2>4, <2>5, <2>6 DEF CallStep
<1>4. ~Did(c, s) /\ Did(c, s)' /\ s \in Marks
  BY <1>2, <1>3 DEF Did, Marks, BusySteps
<1>5. \A d \in 0..Len(batch), t \in Marks : Did(d, t) => Did(d, t)'
  BY <1>2, <1>3 DEF Did
<1>. QED
  BY <1>1, <1>2, <1>4, <1>5, NewWork

LEMMA PlanWorks ==
  ASSUME TypeOK, Partitioned \/ OpenWave \/ Return \/ (\E c \in Calls : Place(c))
  PROVE  Work \subseteq Work' /\ Work # Work'
<1>1. /\ Len(batch) \in Nat /\ Calls = 1..Len(batch) /\ opened \in Nat
      /\ wave \in [Calls -> Nat]
  BY CallsAreIndices DEF TypeOK
<1>2. batch' = batch /\ Calls' = Calls /\ pc' = pc
  BY DEF Partitioned, OpenWave, Return, Place, planVars, callVars, Calls
<1>3. CASE Partitioned
  <2>1. ~Did(0, "run") /\ Did(0, "run")'
    BY <1>3 DEF Partitioned, Did
  <2>2. \A d \in 0..Len(batch), t \in Marks : Did(d, t) => Did(d, t)'
    BY <1>2, <1>3 DEF Partitioned, Did, planVars
  <2>. QED
    BY <1>1, <1>2, <2>1, <2>2, NewWork DEF Marks
<1>4. CASE OpenWave
  <2>1. PICK n \in 1..Len(batch) : n = opened + 1
    BY <1>1, <1>2, <1>4, OpenTyped DEF TypeOK, OpenWave
  <2>2. ~Did(n, "opened") /\ Did(n, "opened")'
    BY <1>1, <1>4, <2>1 DEF OpenWave, Did
  <2>3. \A d \in 0..Len(batch), t \in Marks : Did(d, t) => Did(d, t)'
    BY <1>1, <1>2, <1>4 DEF OpenWave, Did, planVars
  <2>. QED
    BY <1>1, <1>2, <2>1, <2>2, <2>3, NewWork DEF Marks
<1>5. CASE Return
  <2>1. ~Did(0, "over") /\ Did(0, "over")'
    BY <1>5 DEF Return, Did
  <2>2. \A d \in 0..Len(batch), t \in Marks : Did(d, t) => Did(d, t)'
    BY <1>2, <1>5 DEF Return, Did, planVars
  <2>. QED
    BY <1>1, <1>2, <2>1, <2>2, NewWork DEF Marks
<1>6. ASSUME NEW c \in Calls, Place(c)
      PROVE  Work \subseteq Work' /\ Work # Work'
  <2>1. PICK v \in 1..c : wave' = [wave EXCEPT ![c] = v]
    BY <1>6 DEF Place
  <2>2. ~Did(c, "placed") /\ Did(c, "placed")'
    BY <1>1, <1>2, <1>6, <2>1 DEF Place, Did
  <2>3. \A d \in 0..Len(batch), t \in Marks : Did(d, t) => Did(d, t)'
    BY <1>1, <1>2, <1>6, <2>1 DEF Place, Did
  <2>. QED
    BY <1>1, <1>2, <2>2, <2>3, NewWork DEF Marks
<1>. QED
  BY <1>3, <1>4, <1>5, <1>6

\* However the calls of a batch interleave, fail or are stopped, execute_all and
\* its threads take no more steps than there is work: each does some that was
\* not done.  Never stuck and never at the same work twice, a batch ends.
THEOREM BatchesEnd == Spec => WorkGrows
<1>1. TypeOK /\ [Next]_vars =>
        [ExecutorStep \/ (\E c \in Calls : CallStep(c))
           => Work \subseteq Work' /\ Work # Work']_vars
  BY CallWorks, PlanWorks DEF ExecutorStep
<1>. QED
  BY <1>1, WavesTypeCorrect, PTL DEF Spec, WorkGrows
=============================================================================
