---------------------------- MODULE MCRunnerLoop ---------------------------
(***************************************************************************)
(* Small instances of RunnerLoop for TLC: every kind of prompt, the       *)
(* most patient and the strictest policy, answers on which the guards      *)
(* disagree, and the tools they ask about.                                 *)
(***************************************************************************)
EXTENDS RunnerLoop

Patient == [nontrivial : BOOLEAN, required : BOOLEAN, action : {"pause"}, healing : {TRUE}]
Strict == [nontrivial : {TRUE}, required : BOOLEAN, action : {"stop"}, healing : {FALSE}]
BothPolicies == Patient \cup Strict

SomeAnswers ==
  {{"final"}, {"final", "saved"}, {"final", "command"}, {"final", "structure", "root"},
   {"final", "handoff"}, {"final", "format"}, {"short"}}

SomeCalls ==
  {[tool |-> "write_file", params |-> p] : p \in {"a", "b"}}
    \cup {[tool |-> t, params |-> "a"] : t \in {"run_command", "list_directory"}}
=============================================================================
