---------------------------- MODULE RunnerLoop -----------------------------
(***************************************************************************)
(* EngineRunner.run (engine/runner.py): the turns of one run, from the     *)
(* answers of the model and the results of its tools to the verdict        *)
(* whether the run completed.  A turn asks the providers; an answer with   *)
(* tool calls runs them, one without is taken for the result, sent back    *)
(* for a tool or for a missing file, or ends the run.  The stop event may  *)
(* be set at any time from another thread.                                 *)
(*                                                                         *)
(* An answer without tool calls is the set of the features that the        *)
(* completion guards look for in its text.                                 *)
(***************************************************************************)
EXTENDS Integers, FiniteSets

CONSTANTS
  Configs,           \* records [nontrivial, required, action, healing]
  Answers,           \* the texts a model may answer with: sets of Features
  ToolCalls,         \* the calls it may make: records [tool, params]
  MaxLoops,          \* orchestration.max_loops
  MaxNoToolRetries   \* no_tool_retries_for_nontrivial

\* The text claims a saved file, command output, the structure of the
\* repository, or its root; it hands work over, uses a wrong tool-call format,
\* reads like a final answer, or is short.
Features == {"saved", "command", "structure", "root", "handoff", "format", "final", "short"}
Actions == {"pause", "stop", "try_different_model"}
NoCall == [tool |-> "none", params |-> "none"]

ASSUME ConfigsAssumption ==
  Configs \subseteq [nontrivial : BOOLEAN, required : BOOLEAN, action : Actions, healing : BOOLEAN]
ASSUME AnswersAssumption == Answers \subseteq SUBSET Features
ASSUME CallsAssumption == NoCall \notin ToolCalls
ASSUME BoundsAssumption == MaxLoops \in Nat \ {0} /\ MaxNoToolRetries \in Nat

VARIABLES
  conf,           \* kind of prompt, required output, rate-limit action, self-healing
  pc,             \* where run() is
  loop,           \* turns begun
  status,         \* the verdict so far
  mode,           \* completion_mode
  reason,         \* failure_reason
  noToolRetries,  \* no_tool_retry_count
  outputRetries,  \* required_output_retries
  effectful,      \* had_effectful_tool_success
  tools,          \* successful_tool_names
  listed,         \* what the last list_directory showed
  writeFails,     \* repeated_write_file_failure_count
  lastFailed,     \* last_failed_write_file_signature
  batch,          \* the calls of this turn whose results have been looked at
  errors,         \* whether one of them failed
  output,         \* whether the required file exists in the session directory
  answer,         \* the answer the run ended with
  stop            \* the stop event

verdict == <<status, mode, reason>>
retries == <<noToolRetries, outputRetries>>
evidence == <<effectful, tools, listed>>
writes == <<writeFails, lastFailed>>
turn == <<batch, errors>>
vars == <<conf, pc, loop, verdict, retries, evidence, writes, turn, output, answer, stop>>

Init ==
  /\ conf \in Configs
  /\ pc = "top" /\ loop = 0
  /\ status = "max_loops_reached" /\ mode = "no_effect_fail" /\ reason = "none"
  /\ noToolRetries = 0 /\ outputRetries = 0
  /\ effectful = FALSE /\ tools = {} /\ listed = "nothing"
  /\ writeFails = 0 /\ lastFailed = NoCall
  /\ batch = {} /\ errors = FALSE
  /\ output \in BOOLEAN   \* a resumed session may hold it already
  /\ answer = {}
  /\ stop = FALSE

\* effective_max_loops
Turns == IF conf.required THEN MaxLoops + 2 ELSE MaxLoops

-----------------------------------------------------------------------------

\* MUTANT: the stop event is looked at between turns only.
ToldBetweenTurns == stop /\ pc \in {"top", "tools", "checked"}

\* self._stop_event.is_set()
Told == stop

\* MUTANT: a run out of turns gives no reason.
FinalReasonAsIs(s, r) == r

\* What follows the loop names a reason for a run out of turns that has none.
FinalReason(s, r) ==
  IF s = "max_loops_reached" /\ r = "none" THEN "no_effect_completion" ELSE r

\* MUTANT: the turns of a run that was sent back for a tool are not counted.
LoopUnlessRetried == IF noToolRetries = 0 THEN loop + 1 ELSE loop

NextLoop == loop + 1

\* The loop is left; what follows it makes of max_loops_reached a failure.
End(s, m, r) ==
  /\ pc' = "ended"
  /\ status' = IF s = "max_loops_reached" THEN "failed" ELSE s
  /\ reason' = FinalReason(s, r)
  /\ mode' = m

Fails(r) == End("failed", "no_effect_fail", r)
Stopped == Fails("stopped_by_user")
Goto(p) == pc' = p /\ UNCHANGED verdict
Unanswered == UNCHANGED <<conf, loop, retries, evidence, writes, turn, output, answer, stop>>

\* The head of the loop.
Top ==
  /\ pc = "top"
  /\ \/ loop = Turns /\ End(status, mode, reason) /\ UNCHANGED loop
     \/ loop < Turns /\ Told /\ Stopped /\ UNCHANGED loop
     \/ loop < Turns /\ ~Told /\ Goto("call") /\ loop' = NextLoop
  /\ UNCHANGED <<conf, retries, evidence, writes, turn, output, answer, stop>>

\* Every provider answers 429: wait, unless the run is to fail then or was
\* stopped.
Limited ==
  /\ pc = "call"
  /\ \/ /\ conf.action = "stop" \/ Told
        /\ pc' = "after"
        /\ status' = "failed" /\ mode' = "no_effect_fail"
        /\ reason' = "all_providers_rate_limited"
     \/ conf.action # "stop" /\ ~Told /\ Goto("wait")
  /\ Unanswered

\* _wait_interruptible returns: the run asks again, or gives up.
Wake ==
  /\ pc = "wait"
  /\ \/ ~Told /\ Goto("call")
     \/ Told /\ pc' = "after" /\ status' = "cancelled" /\ UNCHANGED <<mode, reason>>
  /\ Unanswered

\* The provider call raises.
ProviderError ==
  /\ pc = "call"
  /\ IF conf.healing
       THEN pc' = "after" /\ reason' = "provider_call_failed" /\ UNCHANGED <<status, mode>>
       ELSE Fails("provider_call_failed")
  /\ Unanswered

\* The stop check after the call, when there is no response.
NoResponse ==
  /\ pc = "after"
  /\ IF Told THEN Stopped ELSE End(status, mode, reason)
  /\ Unanswered

\* The stop check after the call, when there is one, and an empty response.
StoppedInCall == pc = "call" /\ Told /\ Stopped /\ Unanswered

EmptyResponse ==
  /\ pc = "call" /\ ~Told
  /\ End("failed", "empty_response_fail", "empty_model_response")
  /\ Unanswered

-----------------------------------------------------------------------------
(* A response without tool calls.                                          *)

\* MUTANT: claims need no evidence.
EffectiveUnchecked(a) == "handoff" \notin a /\ "format" \notin a /\ "final" \in a

\* _is_effective_nontrivial_completion
Effective(a) ==
  /\ {"handoff", "format"} \cap a = {}
  /\ "saved" \in a => "write_file" \in tools
  /\ "command" \in a => "run_command" \in tools
  /\ "structure" \in a => listed \in {"nothing", "root"}
  /\ "root" \in a => listed # "scripts"
  /\ "final" \in a

\* detect_completion, _is_trivial_direct_answer
Direct(a) == ("final" \in a /\ "handoff" \notin a) \/ "short" \in a

IsResult(a) == IF conf.nontrivial THEN effectful /\ Effective(a) ELSE Direct(a)

OutputMissing == conf.required /\ ~output

Text(a) == pc = "call" /\ ~Told /\ a \in Answers

Complete(a) ==
  /\ Text(a) /\ IsResult(a) /\ ~OutputMissing
  /\ End("complete", IF conf.nontrivial THEN "tool_driven" ELSE "direct_answer", "none")
  /\ answer' = a
  /\ UNCHANGED <<conf, loop, retries, evidence, writes, turn, output, stop>>

\* MUTANT: three times.
MaySendBackThrice == outputRetries \leq 2

MaySendBack == outputRetries < 2

\* The model is sent back for the file, twice at most.
AskForOutput(a) ==
  /\ Text(a) /\ IsResult(a) /\ OutputMissing /\ MaySendBack
  /\ outputRetries' = outputRetries + 1
  /\ Goto("top")
  /\ UNCHANGED <<conf, loop, noToolRetries, evidence, writes, turn, output, answer, stop>>

MissingOutput(a) ==
  /\ Text(a) /\ IsResult(a) /\ OutputMissing /\ ~MaySendBack
  /\ Fails("missing_required_output")
  /\ Unanswered

\* A prompt that is not trivial needs a tool call.
AskForTools(a) ==
  /\ Text(a) /\ ~IsResult(a) /\ conf.nontrivial /\ noToolRetries < MaxNoToolRetries
  /\ noToolRetries' = noToolRetries + 1
  /\ Goto("top")
  /\ UNCHANGED <<conf, loop, outputRetries, evidence, writes, turn, output, answer, stop>>

NoEffectReason(a) ==
  IF ~conf.nontrivial THEN "no_effect_completion"
  ELSE IF "command" \in a /\ "run_command" \notin tools THEN "missing_run_command_evidence"
  ELSE IF "format" \in a THEN "invalid_tool_call_format" ELSE "no_effect_completion"

NoEffect(a) ==
  /\ Text(a) /\ ~IsResult(a)
  /\ conf.nontrivial => noToolRetries \geq MaxNoToolRetries
  /\ Fails(NoEffectReason(a))
  /\ Unanswered

-----------------------------------------------------------------------------
(* A response with tool calls.                                             *)

ToolResponse == pc = "call" /\ ~Told /\ Goto("tools") /\ Unanswered

\* The stop check before execute_all, and the tools themselves: what they do to
\* the required file is their own affair.
RunTools ==
  /\ pc = "tools"
  /\ IF Told THEN Stopped /\ UNCHANGED output
             ELSE Goto("results") /\ output' \in BOOLEAN
  /\ UNCHANGED <<conf, loop, retries, evidence, writes, turn, answer, stop>>

\* The account of write_file calls that fail again and again.
WritesAfter(c, r) ==
  CASE c.tool # "write_file" -> UNCHANGED writes
    [] c.tool = "write_file" /\ r # "error" -> writeFails' = 0 /\ lastFailed' = NoCall
    [] OTHER -> /\ writeFails' = IF c = lastFailed THEN writeFails + 1 ELSE 1
                /\ lastFailed' = c

\* The tool counts as one that has succeeded.
Credited(c, r) == IF r = "error" THEN {} ELSE {c.tool}

\* The next pair of the loop over the results: the calls of a response are all
\* different, and each succeeds with or without usable output, or fails.
Result(c, r) ==
  /\ pc = "results" /\ c \in ToolCalls \ batch
  /\ batch' = batch \cup {c}
  /\ errors' = (errors \/ r = "error")
  /\ effectful' = (effectful \/ r = "effect")
  /\ tools' = tools \cup Credited(c, r)
  /\ IF c.tool = "list_directory" /\ r # "error"
       THEN listed' \in {"scripts", "part", "root", listed} ELSE UNCHANGED listed
  /\ WritesAfter(c, r)
  /\ Goto("results")
  /\ UNCHANGED <<conf, loop, retries, output, answer, stop>>

\* After the last pair: without self-healing an error ends the run; the same
\* write failing twice does so anyhow.
ToolsDone ==
  /\ pc = "results" /\ batch # {}
  /\ \/ errors /\ ~conf.healing /\ Fails("tool_failure_fail_fast")
     \/ ~(errors /\ ~conf.healing) /\ writeFails \geq 2
        /\ Fails("repeated_failed_write_file_call")
     \/ ~(errors /\ ~conf.healing) /\ writeFails < 2 /\ Goto("checked")
  /\ batch' = {} /\ errors' = FALSE
  /\ UNCHANGED <<conf, loop, retries, evidence, writes, output, answer, stop>>

\* The stop check that ends a turn.
TurnDone ==
  /\ pc = "checked"
  /\ IF Told THEN Stopped ELSE Goto("top")
  /\ Unanswered

\* A write of the session's files fails, or execute_all raises: in the set-up, at a
\* stop check, before a wait, over a response or its results; or else after the
\* verdict, in log_product_output, write_job_summary or close, and then the verdict
\* is lost with the exception, as if the loop had not come to one.
Raise ==
  /\ pc \in {"top", "call", "after", "tools", "results", "checked"}
  /\ pc = "results" => batch # {}
  /\ Goto("raised")
  /\ Unanswered

Stop ==
  /\ ~stop /\ pc \notin {"ended", "raised"}
  /\ stop' = TRUE
  /\ UNCHANGED <<conf, pc, loop, verdict, retries, evidence, writes, turn, output, answer>>

-----------------------------------------------------------------------------

TextStep ==
  \E a \in Answers :
    Complete(a) \/ AskForOutput(a) \/ MissingOutput(a) \/ AskForTools(a) \/ NoEffect(a)

ToolStep ==
  \/ ToolResponse \/ RunTools \/ ToolsDone \/ TurnDone
  \/ \E c \in ToolCalls, r \in {"effect", "empty", "error"} : Result(c, r)

RunnerStep ==
  \/ Top \/ Limited \/ Wake \/ ProviderError \/ NoResponse \/ StoppedInCall
  \/ EmptyResponse \/ TextStep \/ ToolStep \/ Raise

Next == RunnerStep \/ Stop

Spec == Init /\ [][Next]_vars

\* The thread runs: providers answer, if only 429, and tools return.
FairSpec == Spec /\ WF_vars(RunnerStep)

-----------------------------------------------------------------------------

Over == pc \in {"ended", "raised"}
Reasons ==
  {"none", "stopped_by_user", "all_providers_rate_limited", "provider_call_failed",
   "empty_model_response", "missing_required_output", "missing_run_command_evidence",
   "invalid_tool_call_format", "no_effect_completion", "tool_failure_fail_fast",
   "repeated_failed_write_file_call"}

TypeOK ==
  /\ conf \in Configs
  /\ pc \in {"top", "call", "wait", "after", "tools", "results", "checked", "ended", "raised"}
  /\ loop \in 0..Turns
  /\ status \in {"max_loops_reached", "failed", "cancelled", "complete"}
  /\ mode \in {"no_effect_fail", "empty_response_fail", "tool_driven", "direct_answer"}
  /\ reason \in Reasons
  /\ noToolRetries \in 0..MaxNoToolRetries /\ outputRetries \in 0..2
  /\ effectful \in BOOLEAN
  /\ tools \subseteq {c.tool : c \in ToolCalls}
  /\ listed \in {"nothing", "scripts", "part", "root"}
  /\ writeFails \in Nat /\ lastFailed \in ToolCalls \cup {NoCall}
  /\ batch \subseteq ToolCalls /\ errors \in BOOLEAN
  /\ output \in BOOLEAN /\ answer \in Answers \cup {{}} /\ stop \in BOOLEAN

\* Whichever of its exits a run takes, the verdict is of one piece: it is
\* "complete" or "failed", and complete exactly when there is no reason for a
\* failure and the mode is one of completion.  The bridge marks the job COMPLETED
\* on the status alone and shows the reason as its error (run_job).
VerdictConsistent ==
  pc = "ended" =>
    /\ status \in {"complete", "failed"}
    /\ status = "complete" <=> reason = "none"
    /\ status = "complete" <=> mode \in {"tool_driven", "direct_answer"}

\* A run completes only with the evidence the guards ask for: a demanding prompt
\* only when some tool had an effect and the tools named by the claims of the
\* answer succeeded at some time, and no run without the required file.
CompletedWithEvidence ==
  status = "complete" =>
    /\ conf.required => output
    /\ conf.nontrivial =>
         /\ effectful
         /\ "saved" \in answer => "write_file" \in tools
         /\ "command" \in answer => "run_command" \in tools

\* Being sent back for the required file costs the run none of its own turns: it
\* is out of turns only after max_loops turns spent on something else.
OutputRetriesAreFree == loop = Turns => loop - outputRetries \geq MaxLoops

\* The run implements the thread that the bridge waits for.
Phase ==
  CASE pc = "top" -> IF loop < Turns THEN "top" ELSE "call"
    [] pc \in {"call", "after", "tools", "results", "checked"} -> "call"
    [] pc = "wait" -> "wait"
    [] pc = "ended" -> IF status = "complete" THEN "complete" ELSE "fail"
    [] pc = "raised" -> "raise"

Thread == INSTANCE RunThread WITH phase <- Phase
ImplementsRunThread == Thread!Spec

\* A run that was told to stop ends, even if every provider answers 429 for ever.
StopIsHeard == stop ~> Over

\* A run ends unless its providers answer 429 again and again: its turns are
\* bounded, whatever mixture of answers, retries and tools fills them.
EndsUnlessLimited == <>[][~Limited]_vars => <>Over
=============================================================================
