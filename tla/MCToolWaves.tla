---------------------------- MODULE MCToolWaves ----------------------------
(***************************************************************************)
(* Small instances of ToolWaves for TLC: every batch of up to three calls  *)
(* over a serial tool and three others, on no path or on one of two.       *)
(***************************************************************************)
EXTENDS ToolWaves

Call(tool, paths) == [tool |-> tool, paths |-> paths]

\* Enough for every rule of _conflicts to apply alone, and for a call to be
\* displaced to a later wave by a rule that spares the next one.
AllKinds ==
  {Call("write_file", {"a"}), Call("read_file", {"a"}), Call("read_file", {"b"}),
   Call("glob", {}), Call("grep", {"a"})}

Writers == {"write_file"}
=============================================================================
