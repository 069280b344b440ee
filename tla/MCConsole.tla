----------------------------- MODULE MCConsole -----------------------------
(***************************************************************************)
(* A small instance of Console for TLC: two users and two tokens, a        *)
(* provider that can be checked and one that cannot.                       *)
(***************************************************************************)
EXTENDS Console, TLC

CONSTANTS Checked, Unchecked, Model1, Model2

OneModelEach == {<<Checked, Model1>>, <<Unchecked, Model2>>}
NothingInherited == [p \in {Checked, Unchecked} |-> "nokey"]

TokenAndUserSymmetry == Permutations(Tokens) \cup Permutations(Users)
=============================================================================
