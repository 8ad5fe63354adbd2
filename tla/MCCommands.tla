----------------------------- MODULE MCCommands -----------------------------
(* Instances of CommandChain for TLC. *)
EXTENDS CommandChain, TLC

CONSTANTS c1, c2, p1

TwoCallers == {c1, c2}
OnePlan == {p1}
Interchangeable == Permutations(TwoCallers)
=============================================================================
