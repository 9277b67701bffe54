----------------------------- MODULE MCProcLife -----------------------------
(* Two workloads of Proc explored in one run.  "families": all slots and     *)
(* pids, so that a slot may be taken again while the children of its first   *)
(* occupant live, but no sleeping on a channel and no kill.  "kills": both   *)
(* of these, with one slot and one pid less.                                 *)
EXTENDS Proc

VARIABLE workload

Families == kills' = 0 /\ \A s \in Slot : chan'[s] \notin Chan

Kills == state'[NSlot] = "UNUSED" /\ nextPid' <= MaxPid

LifeInit == Init /\ workload \in {"families", "kills"}

LifeNext == /\ Next
            /\ UNCHANGED workload
            /\ IF workload = "families" THEN Families ELSE Kills

Life == LifeInit /\ [][LifeNext]_<<vars, workload>>
=============================================================================
