----------------------------- MODULE GatedJobs -----------------------------
(***************************************************************************)
(* What the bridge promises about jobs and their prerequisites: a job goes *)
(* one way, from its creation to its end, it ends once, and it begins to   *)
(* run at a moment when all its prerequisites are completed.  Queues,      *)
(* workers, events, runner threads and pauses are how the bridge does it.  *)
(***************************************************************************)
CONSTANTS
  Jobs,       \* the ids that may be named
  Strangers   \* those of them that no job has

VARIABLES
  phase,   \* how far a job is
  needs    \* its prerequisites

vars == <<phase, needs>>

Init ==
  /\ phase = [j \in Jobs |-> IF j \in Strangers THEN "deleted" ELSE "absent"]
  /\ needs = [j \in Jobs |-> {}]

\* A job may name any job known by then as a prerequisite, and ids of no job: such
\* a job never begins.
Create(j, dep) ==
  /\ phase[j] = "absent"
  /\ \A d \in dep : phase[d] # "absent"
  /\ phase' = [phase EXCEPT ![j] = "queued"]
  /\ needs' = [needs EXCEPT ![j] = dep]

Begin(j) ==
  /\ phase[j] = "queued"
  /\ \A d \in needs[j] : phase[d] = "completed"
  /\ phase' = [phase EXCEPT ![j] = "running"]
  /\ UNCHANGED needs

Complete(j) ==
  /\ phase[j] = "running"
  /\ phase' = [phase EXCEPT ![j] = "completed"]
  /\ UNCHANGED needs

\* Jobs fail one by one, with or without having run, or together when the server
\* goes down.
Fail(S) ==
  /\ \A j \in S : phase[j] \in {"queued", "running"}
  /\ phase' = [j \in Jobs |-> IF j \in S THEN "failed" ELSE phase[j]]
  /\ UNCHANGED needs

Next ==
  \/ \E j \in Jobs, dep \in SUBSET Jobs : Create(j, dep)
  \/ \E j \in Jobs : Begin(j) \/ Complete(j)
  \/ \E S \in SUBSET Jobs : Fail(S)

Spec == Init /\ [][Next]_vars
=============================================================================
