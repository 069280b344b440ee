----------------------------- MODULE RunThread -----------------------------
(***************************************************************************)
(* What a run is to the bridge that waits for it: a thread that goes from  *)
(* turn to turn, may wait out a rate limit, and ends.  The thread phases   *)
(* of JobBridge are these, with the writes of the event callback between   *)
(* them.                                                                   *)
(***************************************************************************)
VARIABLES
  phase,  \* before the stop check of a turn, in a turn, in a cooldown, over
  stop    \* the stop event of the run

vars == <<phase, stop>>

Init == phase = "top" /\ stop = FALSE

\* A turn begins only in a run that was not told to stop.
Begin == phase = "top" /\ phase' = (IF stop THEN "fail" ELSE "call") /\ UNCHANGED stop

\* Only such a run goes on to the next turn, completes, or waits.
Turn ==
  /\ phase = "call" /\ ~stop
  /\ phase' \in {"top", "complete", "wait"}
  /\ UNCHANGED stop

Fail == phase = "call" /\ phase' = "fail" /\ UNCHANGED stop

\* After a wait the turn is taken up again; of a run that was told to stop only its end
\* is left.
Wake ==
  /\ phase = "wait"
  /\ \/ phase' = "call"
     \/ stop /\ phase' = "fail"
  /\ UNCHANGED stop

\* A write of the session's files may fail anywhere, with the verdict made or not.
Raise == phase \in {"top", "call", "wait"} /\ phase' = "raise" /\ UNCHANGED stop

Stop == stop' = TRUE /\ UNCHANGED phase

Next == Begin \/ Turn \/ Fail \/ Wake \/ Raise \/ Stop

Spec == Init /\ [][Next]_vars
=============================================================================
