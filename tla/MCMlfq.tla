------------------------------- MODULE MCMlfq -------------------------------
(* Instances of Mlfq for TLC. *)
EXTENDS Mlfq

\* mlfq_quantum
QuantumDoubles == [l \in Level |-> 2^(l + 1)]
=============================================================================
