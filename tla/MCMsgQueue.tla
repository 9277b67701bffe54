----------------------------- MODULE MCMsgQueue -----------------------------
(* Instances of MsgQueue for TLC: the constants get their values in the cfg *)
(* files; processes nobody kills are interchangeable.                       *)
EXTENDS MsgQueue, TLC

Symmetric == Permutations(Proc \ Killable)
=============================================================================
