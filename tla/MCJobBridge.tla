---------------------------- MODULE MCJobBridge ----------------------------
(***************************************************************************)
(* Small instances of JobBridge for TLC.  The cfg files choose the jobs,   *)
(* the workers and one of the worlds below: what the clients and the       *)
(* environment may do.  Every property either holds in a world that allows *)
(* everything, or is checked in the largest worlds in which it holds; the  *)
(* worlds of the runs that end in a counterexample add the one operation   *)
(* that breaks it.                                                         *)
(***************************************************************************)
EXTENDS JobBridge, TLC

CONSTANTS Port, Soft   \* a contended resource, and the soft-exclusive domain

NoDomains == {{}}
SoftAndPort == {{Soft}, {Soft, Port}}

\* Any use of the jobs there are, double STARTs, DELETE and 429s included.
AnyClient == {"manual", "start", "requeue", "stop", "pause", "resume", "delete",
              "rate_limit"}

\* Every job enters by smart_enqueue, and no provider answers 429: here the
\* prerequisites are respected, conflicting jobs are kept apart and no wait of
\* a worker for a job lasts for ever.
SequencedJobs == {"stop", "pause", "resume", "retry", "clone", "error",
                  "server_restart"}

\* For liveness and for the stop event and its file: jobs that are enqueued when
\* they are created, any client that does not START one again, and stop files
\* that are not always written or removed.
AutoStarted == {"stop", "pause", "resume", "restart", "rate_limit", "delete",
                "file_error", "server_restart"}

\* The world of the counterexample.
StopThenStart == {"stop", "requeue"}

JobAndWorkerSymmetry == Permutations(Jobs \ Strangers) \cup Permutations(Workers)
=============================================================================
