----------------------------- MODULE MCJobStore ----------------------------
(***************************************************************************)
(* Small instances of JobStore for TLC: two runs of different jobs, a      *)
(* third id for a job that is created meanwhile.                           *)
(***************************************************************************)
EXTENDS JobStore, TLC

CONSTANTS Job1, Job2, Runner1, Runner2

OneRunPerJob == (Runner1 :> Job1) @@ (Runner2 :> Job2)

\* Either run may be called the first.
Symmetric == {(Runner1 :> Runner2) @@ (Runner2 :> Runner1) @@ (Job1 :> Job2) @@ (Job2 :> Job1)}

AnyFault == {"crash", "io_error"}
=============================================================================
