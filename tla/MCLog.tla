------------------------------- MODULE MCLog -------------------------------
(* Instances of Log for TLC. *)
EXTENDS Log, TLC

Symmetric == Permutations(Proc) \cup Permutations(Block)
=============================================================================
