------------------------- MODULE RunnerLoopProofs --------------------------
(***************************************************************************)
(* Proofs about RunnerLoop for every policy, every set of answers and      *)
(* tools, and every number of turns.                                       *)
(*                                                                         *)
(* The strengthening is VerdictInv: before its last step a run has no      *)
(* verdict but the initial one, and a run whose providers failed it        *)
(* (pc = "after") has a reason, or was told to stop during the wait and    *)
(* will be failed for that.  OutputInv says that only a run with a         *)
(* required file is sent back for it.                                      *)
(*                                                                         *)
(* The last section bounds the length of a run by a variant.               *)
(***************************************************************************)
EXTENDS RunnerLoop, TLAPS, FiniteSetTheorems

AtWork == {"top", "call", "wait", "tools", "results", "checked"}

NoVerdict == status = "max_loops_reached" /\ mode = "no_effect_fail" /\ reason = "none"

VerdictInv ==
  /\ pc \in AtWork => NoVerdict
  /\ pc = "after" =>
       /\ mode = "no_effect_fail"
       /\ \/ status = "max_loops_reached"
          \/ status = "failed" /\ reason # "none"
          \/ status = "cancelled" /\ stop
  /\ VerdictConsistent

OutputInv == conf.required \/ outputRetries = 0

Inv == TypeOK /\ VerdictInv /\ OutputInv /\ CompletedWithEvidence

-----------------------------------------------------------------------------

LEMMA TurnsPositive == ASSUME conf \in Configs PROVE Turns \in Nat \ {0}
BY ConfigsAssumption, BoundsAssumption DEF Turns

\* Leaving the loop with a failure and a reason for it.
LEMMA EndVerdict ==
  ASSUME NEW r \in Reasons \ {"none"},
         NEW m \in {"no_effect_fail", "empty_response_fail"},
         End("failed", m, r)
  PROVE  /\ pc' = "ended" /\ status' = "failed" /\ mode' = m /\ reason' = r
BY DEF End, FinalReason

\* Leaving it with the initial verdict.
LEMMA EndOfTurns ==
  ASSUME status = "max_loops_reached", reason \in Reasons, End(status, mode, reason)
  PROVE  /\ pc' = "ended" /\ status' = "failed" /\ mode' = mode
         /\ reason' \in Reasons \ {"none"}
BY DEF End, FinalReason, Reasons

LEMMA FailsVerdict ==
  ASSUME NEW r \in Reasons \ {"none"}, Fails(r)
  PROVE  /\ pc' = "ended" /\ status' = "failed" /\ mode' = "no_effect_fail" /\ reason' = r
BY EndVerdict DEF Fails

LEMMA StoppedVerdict ==
  ASSUME Stopped
  PROVE  /\ pc' = "ended" /\ status' = "failed" /\ mode' = "no_effect_fail"
         /\ reason' = "stopped_by_user"
BY FailsVerdict DEF Stopped, Reasons

-----------------------------------------------------------------------------
(* One lemma per action.                                                   *)

LEMMA InitInv == Init => Inv
<1>1. SUFFICES ASSUME Init PROVE Inv
  OBVIOUS
<1>2. 0 \in 0..Turns /\ 0 \in 0..MaxNoToolRetries
  BY <1>1, BoundsAssumption, TurnsPositive DEF Init
<1>3. answer \in Answers \cup {{}} /\ lastFailed \in ToolCalls \cup {NoCall}
  BY <1>1 DEF Init
<1>4. tools \subseteq {c.tool : c \in ToolCalls} /\ batch \subseteq ToolCalls
  BY <1>1 DEF Init
<1>5. TypeOK
  <2>1. loop \in 0..Turns /\ noToolRetries \in 0..MaxNoToolRetries /\ outputRetries \in 0..2
    BY <1>1, <1>2 DEF Init
  <2>2. reason \in Reasons
    BY <1>1 DEF Init, Reasons
  <2>. QED  BY <1>1, <1>3, <1>4, <2>1, <2>2 DEF Init, TypeOK
<1>. QED
  BY <1>1, <1>5 DEF Init, Inv, VerdictInv, AtWork, NoVerdict, OutputInv, VerdictConsistent,
                    CompletedWithEvidence

LEMMA TopInv == ASSUME Inv, Top PROVE Inv'
<1>. USE DEF Inv, TypeOK, VerdictInv, AtWork, NoVerdict, OutputInv, VerdictConsistent,
             CompletedWithEvidence, retries, evidence, writes, turn, Turns
<1>1. CASE loop = Turns /\ End(status, mode, reason) /\ UNCHANGED loop
  <2>1. status' = "failed" /\ pc' = "ended" /\ mode' = mode /\ reason' \in Reasons \ {"none"}
    BY <1>1, EndOfTurns DEF Top
  <2>. QED  BY <1>1, <2>1 DEF Top
<1>2. CASE loop < Turns /\ Told /\ Stopped /\ UNCHANGED loop
  BY <1>2, StoppedVerdict DEF Top, Reasons
<1>3. CASE loop < Turns /\ ~Told /\ Goto("call") /\ loop' = NextLoop
  <2>1. loop + 1 \in 0..Turns
    BY <1>3, TurnsPositive
  <2>. QED  BY <1>3, <2>1 DEF Top, Goto, NextLoop, verdict
<1>. QED  BY <1>1, <1>2, <1>3 DEF Top

LEMMA ProviderInv ==
  ASSUME Inv, Limited \/ Wake \/ ProviderError \/ NoResponse \/ StoppedInCall \/ EmptyResponse
  PROVE  Inv'
<1>. USE DEF Inv, TypeOK, VerdictInv, AtWork, NoVerdict, OutputInv, VerdictConsistent,
             CompletedWithEvidence, Unanswered, retries, evidence, writes, turn, verdict, Turns
<1>1. CASE Limited
  BY <1>1 DEF Limited, Goto, Reasons
<1>2. CASE Wake
  BY <1>2 DEF Wake, Goto, Told, Reasons
<1>3. CASE ProviderError
  <2>1. CASE Fails("provider_call_failed")
    BY <1>3, <2>1, FailsVerdict DEF ProviderError, Reasons
  <2>. QED  BY <1>3, <2>1 DEF ProviderError, Reasons
<1>4. CASE NoResponse
  <2>1. CASE Stopped
    BY <1>4, <2>1, StoppedVerdict DEF NoResponse, Reasons
  <2>2. CASE ~Told /\ End(status, mode, reason)
    BY <1>4, <2>2 DEF NoResponse, End, FinalReason, Reasons, Told
  <2>. QED  BY <1>4, <2>1, <2>2 DEF NoResponse
<1>5. CASE StoppedInCall
  BY <1>5, StoppedVerdict DEF StoppedInCall, Reasons
<1>6. CASE EmptyResponse
  BY <1>6, EndVerdict DEF EmptyResponse, Reasons
<1>. QED  BY <1>1, <1>2, <1>3, <1>4, <1>5, <1>6

LEMMA CompleteInv == ASSUME Inv, NEW a \in Answers, Complete(a) PROVE Inv'
<1>1. /\ pc' = "ended" /\ status' = "complete" /\ reason' = "none"
      /\ mode' = (IF conf.nontrivial THEN "tool_driven" ELSE "direct_answer")
  BY DEF Complete, End, FinalReason
<1>2. answer' = a /\ UNCHANGED <<conf, loop, retries, evidence, writes, turn, output, stop>>
  BY DEF Complete
<1>3. TypeOK'
  BY <1>1, <1>2 DEF Inv, TypeOK, retries, evidence, writes, turn, Turns, Reasons
<1>4. VerdictInv'
  BY <1>1 DEF VerdictInv, AtWork, VerdictConsistent
<1>5. conf.nontrivial => effectful /\ Effective(a)
  BY DEF Complete, IsResult
<1>6. conf.required => output
  BY DEF Complete, OutputMissing
<1>7. CompletedWithEvidence'
  BY <1>2, <1>5, <1>6 DEF CompletedWithEvidence, Effective, evidence
<1>8. OutputInv'
  BY <1>2 DEF Inv, OutputInv, retries
<1>. QED  BY <1>3, <1>4, <1>7, <1>8 DEF Inv

LEMMA TextInv ==
  ASSUME Inv, NEW a \in Answers, AskForOutput(a) \/ MissingOutput(a) \/ AskForTools(a) \/ NoEffect(a)
  PROVE  Inv'
<1>. USE DEF Inv, TypeOK, VerdictInv, AtWork, NoVerdict, OutputInv, VerdictConsistent,
             CompletedWithEvidence, Unanswered, retries, evidence, writes, turn, verdict, Turns,
             Text
<1>1. CASE AskForOutput(a)
  BY <1>1 DEF AskForOutput, Goto, OutputMissing, MaySendBack
<1>2. CASE MissingOutput(a)
  BY <1>2, FailsVerdict DEF MissingOutput, Reasons
<1>3. CASE AskForTools(a)
  BY <1>3, BoundsAssumption DEF AskForTools, Goto
<1>4. CASE NoEffect(a)
  <2>1. NoEffectReason(a) \in Reasons \ {"none"}
    BY DEF NoEffectReason, Reasons
  <2>. QED  BY <1>4, <2>1, FailsVerdict DEF NoEffect
<1>. QED  BY <1>1, <1>2, <1>3, <1>4

LEMMA ResultInv ==
  ASSUME Inv, NEW c \in ToolCalls, NEW r \in {"effect", "empty", "error"}, Result(c, r)
  PROVE  Inv'
<1>1. TypeOK'
  <2>1. writeFails' \in Nat /\ lastFailed' \in ToolCalls \cup {NoCall}
    BY DEF Inv, TypeOK, Result, WritesAfter, writes
  <2>2. tools' \subseteq {d.tool : d \in ToolCalls}
    BY DEF Inv, TypeOK, Result, Credited
  <2>3. listed' \in {"nothing", "scripts", "part", "root"}
    BY DEF Inv, TypeOK, Result
  <2>. QED
    BY <2>1, <2>2, <2>3 DEF Inv, TypeOK, Result, Goto, verdict, retries, Turns
<1>2. VerdictInv'
  BY DEF Inv, VerdictInv, AtWork, NoVerdict, VerdictConsistent, Result, Goto, verdict
<1>3. OutputInv' /\ CompletedWithEvidence'
  BY DEF Inv, VerdictInv, AtWork, NoVerdict, OutputInv, CompletedWithEvidence, Result, Goto,
         verdict, retries
<1>. QED  BY <1>1, <1>2, <1>3 DEF Inv

LEMMA ToolInv ==
  ASSUME Inv, ToolResponse \/ RunTools \/ ToolsDone \/ TurnDone
  PROVE  Inv'
<1>. USE DEF Inv, TypeOK, VerdictInv, AtWork, NoVerdict, OutputInv, VerdictConsistent,
             CompletedWithEvidence, Unanswered, retries, evidence, writes, turn, verdict, Turns
<1>1. CASE ToolResponse
  BY <1>1 DEF ToolResponse, Goto
<1>2. CASE RunTools
  <2>1. CASE Stopped
    BY <1>2, <2>1, StoppedVerdict DEF RunTools, Reasons
  <2>2. CASE Goto("results") /\ output' \in BOOLEAN
    BY <1>2, <2>2 DEF RunTools, Goto
  <2>. QED  BY <1>2, <2>1, <2>2 DEF RunTools
<1>3. CASE ToolsDone
  <2>1. TypeOK' /\ VerdictInv'
    <3>1. CASE Fails("tool_failure_fail_fast") \/ Fails("repeated_failed_write_file_call")
      <4>1. /\ pc' = "ended" /\ status' = "failed" /\ mode' = "no_effect_fail"
            /\ reason' \in Reasons \ {"none"}
        BY <3>1, FailsVerdict DEF Reasons
      <4>. QED  BY <1>3, <4>1 DEF ToolsDone
    <3>2. CASE Goto("checked")
      BY <1>3, <3>2 DEF ToolsDone, Goto
    <3>. QED  BY <1>3, <3>1, <3>2 DEF ToolsDone
  <2>2. OutputInv' /\ status' # "complete"
    BY <1>3, FailsVerdict DEF ToolsDone, Goto, Reasons
  <2>. QED  BY <2>1, <2>2
<1>4. CASE TurnDone
  <2>1. CASE Stopped
    BY <1>4, <2>1, StoppedVerdict DEF TurnDone, Reasons
  <2>2. CASE Goto("top")
    BY <1>4, <2>2 DEF TurnDone, Goto
  <2>. QED  BY <1>4, <2>1, <2>2 DEF TurnDone
<1>. QED  BY <1>1, <1>2, <1>3, <1>4

LEMMA OutsideInv == ASSUME Inv, Raise \/ Stop \/ UNCHANGED vars PROVE Inv'
<1>. USE DEF Inv, TypeOK, VerdictInv, AtWork, NoVerdict, OutputInv, VerdictConsistent,
             CompletedWithEvidence, retries, evidence, writes, turn, verdict, Turns
<1>1. CASE Raise
  BY <1>1 DEF Raise, Goto, Unanswered
<1>2. CASE Stop
  BY <1>2 DEF Stop
<1>3. CASE UNCHANGED vars
  BY <1>3 DEF vars
<1>. QED  BY <1>1, <1>2, <1>3

LEMMA StepInv == Inv /\ [Next]_vars => Inv'
BY TopInv, ProviderInv, CompleteInv, TextInv, ResultInv, ToolInv, OutsideInv
DEF Next, RunnerStep, TextStep, ToolStep

LEMMA InvAlways == Spec => []Inv
BY InitInv, StepInv, PTL DEF Spec

-----------------------------------------------------------------------------

\* Every reachable state of a run is well typed: it never has more turns than its
\* limit, and never sends the model back more often than the limits allow.
THEOREM RunnerTypeCorrect == Spec => []TypeOK
<1>1. Inv => TypeOK
  BY DEF Inv
<1>. QED  BY <1>1, InvAlways, PTL

\* Every exit of the loop gives a verdict of one piece.
THEOREM VerdictsConsistent == Spec => []VerdictConsistent
<1>1. Inv => VerdictConsistent
  BY DEF Inv, VerdictInv
<1>. QED  BY <1>1, InvAlways, PTL

\* A completed run has the required file and the evidence its answer claims.
THEOREM CompletionNeedsEvidence == Spec => []CompletedWithEvidence
<1>1. Inv => CompletedWithEvidence
  BY DEF Inv
<1>. QED  BY <1>1, InvAlways, PTL

\* A run is out of turns only after max_loops turns spent on something else than
\* the required file.
THEOREM OutputRetriesFree == Spec => []OutputRetriesAreFree
<1>1. Inv => OutputRetriesAreFree
  BY ConfigsAssumption, BoundsAssumption
  DEF Inv, TypeOK, OutputInv, OutputRetriesAreFree, Turns
<1>. QED  BY <1>1, InvAlways, PTL

-----------------------------------------------------------------------------

LEMMA ThreadInit == Init => Thread!Init
BY TurnsPositive DEF Init, Thread!Init, Phase

LEMMA ThreadStep == ASSUME Inv, [Next]_vars PROVE [Thread!Next]_(Thread!vars)
<1>. USE DEF Thread!Next, Thread!vars, Phase
<1>0. loop \in Int /\ Turns \in Nat \ {0} /\ loop \leq Turns
  BY TurnsPositive DEF Inv, TypeOK
<1>1. CASE Top
  <2>1. CASE loop = Turns /\ End(status, mode, reason) /\ UNCHANGED loop
    <3>1. pc' = "ended" /\ status' = "failed"
      BY <1>1, <2>1, EndOfTurns DEF Top, Inv, TypeOK, VerdictInv, AtWork, NoVerdict
    <3>. QED  BY <1>0, <1>1, <2>1, <3>1 DEF Top, Thread!Fail
  <2>2. CASE loop < Turns /\ Told /\ Stopped /\ UNCHANGED loop
    BY <1>1, <2>2, StoppedVerdict DEF Top, Told, Thread!Begin
  <2>3. CASE loop < Turns /\ ~Told /\ Goto("call") /\ loop' = NextLoop
    BY <1>1, <2>3 DEF Top, Told, Goto, Thread!Begin
  <2>. QED  BY <1>1, <2>1, <2>2, <2>3 DEF Top
<1>2. CASE Limited
  BY <1>2 DEF Limited, Unanswered, Told, Goto, Thread!Turn
<1>3. CASE Wake
  <2>1. pc = "wait" /\ pc' \in {"call", "after"} /\ UNCHANGED stop
    BY <1>3 DEF Wake, Unanswered, Goto
  <2>2. Phase = "wait" /\ Phase' = "call"
    BY <2>1
  <2>. HIDE DEF Phase
  <2>. QED  BY <2>1, <2>2 DEF Thread!Wake
<1>4. CASE ProviderError
  BY <1>4, FailsVerdict DEF ProviderError, Unanswered, Thread!Fail, Reasons, Fails, End
<1>5. CASE NoResponse
  <2>1. status' # "complete" /\ pc' = "ended"
    BY <1>5, StoppedVerdict DEF NoResponse, Inv, VerdictInv, End
  <2>. QED  BY <1>5, <2>1 DEF NoResponse, Unanswered, Thread!Fail
<1>6. CASE StoppedInCall \/ EmptyResponse
  BY <1>6, StoppedVerdict, EndVerdict
  DEF StoppedInCall, EmptyResponse, Unanswered, Thread!Fail, Reasons
<1>7. ASSUME NEW a \in Answers, Complete(a) PROVE Thread!Turn
  BY <1>7 DEF Complete, Text, Told, End, Thread!Turn
<1>8. ASSUME NEW a \in Answers, AskForOutput(a) \/ AskForTools(a)
      PROVE  Thread!Turn \/ UNCHANGED Thread!vars
  BY <1>8 DEF AskForOutput, AskForTools, Text, Told, Goto, Turns, Thread!Turn
<1>9. ASSUME NEW a \in Answers, MissingOutput(a) \/ NoEffect(a) PROVE Thread!Fail
  <2>1. NoEffectReason(a) \in Reasons \ {"none"}
    BY DEF NoEffectReason, Reasons
  <2>. QED
    BY <1>9, <2>1, FailsVerdict DEF MissingOutput, NoEffect, Text, Unanswered, Thread!Fail, Reasons
<1>10. CASE ToolResponse
  BY <1>10 DEF ToolResponse, Goto, Unanswered
<1>11. ASSUME NEW c \in ToolCalls, NEW r \in {"effect", "empty", "error"}, Result(c, r)
       PROVE  UNCHANGED Thread!vars
  BY <1>11 DEF Result, Goto, verdict
<1>12. CASE RunTools
  BY <1>12, StoppedVerdict DEF RunTools, Goto, Thread!Fail
<1>13. CASE ToolsDone
  BY <1>13, FailsVerdict DEF ToolsDone, Goto, Thread!Fail, Reasons
<1>14. CASE TurnDone
  BY <1>14, StoppedVerdict DEF TurnDone, Told, Goto, Unanswered, Turns, Thread!Fail, Thread!Turn
<1>15. CASE Raise
  BY <1>15 DEF Raise, Goto, Unanswered, Thread!Raise
<1>16. CASE Stop
  BY <1>16 DEF Stop, verdict, Turns, Thread!Stop
<1>17. CASE UNCHANGED vars
  BY <1>17 DEF vars, verdict, Turns
<1>. QED
  BY <1>1, <1>2, <1>3, <1>4, <1>5, <1>6, <1>7, <1>8, <1>9, <1>10, <1>11, <1>12, <1>13,
     <1>14, <1>15, <1>16, <1>17
  DEF Next, RunnerStep, TextStep, ToolStep

\* The run implements the thread that the bridge waits for: once it is told to
\* stop it begins no turn, completes nothing, and waits for no provider.
THEOREM RunnerImplementsThread == Spec => ImplementsRunThread
BY ThreadInit, ThreadStep, InvAlways, PTL DEF Spec, ImplementsRunThread, Thread!Spec

-----------------------------------------------------------------------------
(* How long a run can be.                                                  *)

\* The calls of a turn are not more than the calls there are.
MaxCalls == Cardinality(ToolCalls)

\* The steps a turn has, the looks at its results among them.
TurnSteps == MaxCalls + 8

\* How many of them are left.
LeftOfTurn ==
  CASE pc = "wait" -> MaxCalls + 7
    [] pc = "call" -> MaxCalls + 6
    [] pc = "tools" -> MaxCalls + 5
    [] pc = "results" -> MaxCalls + 4 - Cardinality(batch)
    [] pc = "checked" -> 3
    [] pc = "after" -> 2
    [] pc = "top" -> 1
    [] OTHER -> 0

Budget == (Turns - loop) * TurnSteps + LeftOfTurn

\* All providers answer 429 and the run, which nobody stopped, will ask again.
SendsToWait == Limited /\ ~Told

\* Whatever the run does but to sit out a rate limit costs it some of its budget.
BudgetIsSpent == [][RunnerStep /\ ~SendsToWait => Budget' < Budget]_vars

\* The calls looked at so far are some of them.
LEMMA BatchSize ==
  ASSUME IsFiniteSet(ToolCalls), NEW S, S \subseteq ToolCalls
  PROVE  /\ IsFiniteSet(S) /\ Cardinality(S) \in Nat
         /\ Cardinality(S) \leq MaxCalls /\ MaxCalls \in Nat
BY FS_Subset, FS_CardinalityType DEF MaxCalls

\* What is left of a turn, and of the turns.
LEMMA LeftBounded ==
  ASSUME Inv, IsFiniteSet(ToolCalls)
  PROVE  /\ LeftOfTurn \in Nat /\ LeftOfTurn \leq MaxCalls + 7 /\ MaxCalls \in Nat
         /\ loop \in Nat /\ Turns \in Nat /\ loop \leq Turns
<1>1. batch \subseteq ToolCalls
  BY DEF Inv, TypeOK
<1>2. /\ Cardinality(batch) \in Nat /\ Cardinality(batch) \leq MaxCalls /\ MaxCalls \in Nat
  BY <1>1, BatchSize
<1>3. Turns \in Nat
  BY TurnsPositive DEF Inv, TypeOK
<1>. QED
  BY <1>2, <1>3 DEF LeftOfTurn, Inv, TypeOK

\* A budget is never overdrawn.
LEMMA BudgetIsNatural ==
  ASSUME Inv, IsFiniteSet(ToolCalls) PROVE Budget \in Nat
<1>1. Turns - loop \in Nat /\ TurnSteps \in Nat
  BY LeftBounded DEF TurnSteps
<1>2. (Turns - loop) * TurnSteps \in Nat
  BY <1>1
<1>. QED
  BY <1>2, LeftBounded DEF Budget

\* A turn that begins is one less to come, whatever its steps.
LEMMA NextTurnSpends ==
  ASSUME Inv, IsFiniteSet(ToolCalls), conf' = conf, loop < Turns, loop' = loop + 1,
         pc = "top", pc' = "call"
  PROVE  Budget' < Budget
<1>1. TurnSteps \in Nat /\ Turns - loop \in Nat /\ Turns' = Turns
  BY LeftBounded DEF TurnSteps, Turns
<1>2. ASSUME NEW K \in Nat, NEW n \in Nat PROVE (n - 1) * K = n * K - K
  BY <1>2
<1>3. (Turns' - loop') * TurnSteps = (Turns - loop) * TurnSteps - TurnSteps
  <2>1. Turns' - loop' = (Turns - loop) - 1
    BY <1>1, LeftBounded
  <2>. QED
    BY <1>1, <1>2, <2>1
<1>4. (Turns - loop) * TurnSteps \in Nat
  BY <1>1
<1>. QED
  BY <1>1, <1>3, <1>4, LeftBounded DEF Budget, LeftOfTurn, TurnSteps, MaxCalls

\* Within a turn it is enough that less of it is left.
LEMMA TurnSpends ==
  ASSUME Inv, IsFiniteSet(ToolCalls), conf' = conf, loop' = loop,
         LeftOfTurn' \in Int, LeftOfTurn' < LeftOfTurn
  PROVE  Budget' < Budget
<1>1. TurnSteps \in Nat /\ Turns - loop \in Nat /\ Turns' = Turns
  BY LeftBounded DEF TurnSteps, Turns
<1>2. (Turns - loop) * TurnSteps \in Nat
  BY <1>1
<1>3. LeftOfTurn \in Nat
  BY LeftBounded
<1>4. Budget' = (Turns - loop) * TurnSteps + LeftOfTurn'
  BY <1>1 DEF Budget, TurnSteps, MaxCalls
<1>. QED
  BY <1>2, <1>3, <1>4 DEF Budget

\* The head of the loop begins a turn or ends the run.
LEMMA TopSpends ==
  ASSUME Inv, IsFiniteSet(ToolCalls), Top PROVE Budget' < Budget
<1>1. CASE loop < Turns /\ ~Told /\ Goto("call") /\ loop' = NextLoop
  BY <1>1, NextTurnSpends DEF Top, Goto, NextLoop
<1>2. CASE pc' = "ended" /\ UNCHANGED loop
  BY <1>2, TurnSpends DEF Top, LeftOfTurn
<1>. QED
  BY <1>1, <1>2 DEF Top, Stopped, Fails, End

\* A result that was looked at is not looked at again.
LEMMA ResultSpends ==
  ASSUME Inv, IsFiniteSet(ToolCalls), NEW c \in ToolCalls, NEW r, Result(c, r)
  PROVE  Budget' < Budget
<1>1. /\ batch' = batch \cup {c} /\ c \notin batch /\ batch \subseteq ToolCalls
      /\ pc = "results" /\ pc' = "results" /\ conf' = conf /\ loop' = loop
  BY DEF Result, Goto, Inv, TypeOK
<1>2. IsFiniteSet(batch) /\ Cardinality(batch) \in Nat /\ MaxCalls \in Nat
  BY <1>1, BatchSize
<1>3. Cardinality(batch') = Cardinality(batch) + 1
  BY <1>1, <1>2, FS_AddElement
<1>4. LeftOfTurn' = LeftOfTurn - 1 /\ LeftOfTurn \in Int
  BY <1>1, <1>2, <1>3 DEF LeftOfTurn, MaxCalls
<1>. QED
  BY <1>1, <1>4, TurnSpends

\* Every other step goes forward in the turn.
LEMMA OtherStepSpends ==
  ASSUME Inv, IsFiniteSet(ToolCalls), loop' = loop, conf' = conf,
         \/ pc \in {"wait", "call", "tools"} /\ pc' \in {"after", "top", "ended", "raised"}
         \/ pc = "wait" /\ pc' = "call"
         \/ pc = "call" /\ pc' = "tools"
         \/ pc = "tools" /\ pc' = "results" /\ batch' = batch
         \/ pc = "results" /\ pc' \in {"checked", "ended", "raised"}
         \/ pc = "checked" /\ pc' \in {"top", "ended", "raised"}
         \/ pc \in {"after", "top"} /\ pc' \in {"ended", "raised"}
  PROVE  Budget' < Budget
<1>1. /\ Cardinality(batch) \in Nat /\ Cardinality(batch) \leq MaxCalls /\ MaxCalls \in Nat
  BY BatchSize DEF Inv, TypeOK
<1>2. LeftOfTurn' \in Int /\ LeftOfTurn' < LeftOfTurn
  BY <1>1 DEF LeftOfTurn, MaxCalls
<1>. QED
  BY <1>2, TurnSpends

\* Retries, tools, errors and results alike.
LEMMA StepSpends ==
  ASSUME Inv, IsFiniteSet(ToolCalls), RunnerStep, ~SendsToWait
  PROVE  Budget' < Budget
<1>. USE DEF Unanswered, Stopped, Fails, End, Goto
<1>1. CASE Top
  BY <1>1, TopSpends
<1>2. CASE Limited
  BY <1>2, OtherStepSpends DEF Limited, SendsToWait
<1>3. CASE Wake \/ ProviderError \/ NoResponse \/ StoppedInCall \/ EmptyResponse
  BY <1>3, OtherStepSpends DEF Wake, ProviderError, NoResponse, StoppedInCall, EmptyResponse
<1>4. CASE TextStep
  BY <1>4, OtherStepSpends DEF TextStep, Text, Complete, AskForOutput, MissingOutput,
     AskForTools, NoEffect
<1>5. CASE ToolResponse \/ RunTools \/ ToolsDone \/ TurnDone
  BY <1>5, OtherStepSpends DEF ToolResponse, RunTools, ToolsDone, TurnDone, turn
<1>6. CASE Raise
  BY <1>6, OtherStepSpends DEF Raise
<1>. QED
  BY <1>1, <1>2, <1>3, <1>4, <1>5, <1>6, ResultSpends DEF RunnerStep, ToolStep

\* However answers, retries, tools and failures are mixed (run's loop), a run has
\* a budget of steps, given by its limits alone, that each step but the one into a
\* cooldown diminishes.  A run that was told to stop goes into no cooldown: every
\* step it still takes diminishes it.
THEOREM TurnsRunOut ==
  ASSUME IsFiniteSet(ToolCalls)
  PROVE  Spec => [](Budget \in Nat) /\ BudgetIsSpent
<1>1. Inv => Budget \in Nat
  BY BudgetIsNatural
<1>2. Inv /\ [Next]_vars => [RunnerStep /\ ~SendsToWait => Budget' < Budget]_vars
  BY StepSpends
<1>. QED
  BY <1>1, <1>2, InvAlways, PTL DEF Spec, BudgetIsSpent
=============================================================================
