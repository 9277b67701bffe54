------------------------------ MODULE MCBcache ------------------------------
(* Instances of Bcache for TLC: processes and contents are alike. *)
EXTENDS Bcache, TLC

Symmetry == Permutations(Proc) \cup Permutations(Data)
=============================================================================
