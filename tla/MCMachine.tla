----------------------------- MODULE MCMachine -----------------------------
(* Five components that share no state, each explored on its own in one run: *)
(* on says which of them works while the others stay as they began.          *)
EXTENDS VirtioDisk, Klog, Trap, Memory, Inode

CONSTANT Reader   \* bound of the run: callers of the disk driver that only read and are not killed

VARIABLE on

ByHalves == {-1, 3}

MachineInit == /\ on \in {"disk", "klog", "trap", "memory", "inode"}
               /\ DiskInit /\ KlogInit /\ TrapInit /\ MemInit /\ InodeInit

MachineNext ==
  /\ UNCHANGED on
  /\ \/ /\ on = "disk" /\ DiskNext /\ UNCHANGED <<klogVars, trapVars, memVars, inodeVars>>
        /\ \A i \in Desc : cmd'[i].of \in Reader => ~cmd'[i].write
        /\ \A c \in Reader : ~DiskKill(c)
     \/ on = "klog" /\ KlogNext /\ UNCHANGED <<diskVars, trapVars, memVars, inodeVars>>
     \/ on = "trap" /\ TrapNext /\ UNCHANGED <<diskVars, klogVars, memVars, inodeVars>>
     \/ on = "memory" /\ MemNext /\ UNCHANGED <<diskVars, klogVars, trapVars, inodeVars>>
     \/ on = "inode" /\ InodeNext /\ UNCHANGED <<diskVars, klogVars, trapVars, memVars>>

Machine == /\ MachineInit
           /\ [][MachineNext]_<<diskVars, klogVars, trapVars, memVars, inodeVars>>
           /\ DiskFairness

(* Every variable of the five components keeps its type. *)
TypesOK == DiskTypeOK /\ KlogTypeOK /\ TrapTypeOK /\ MemTypeOK /\ InodeTypeOK
=============================================================================
