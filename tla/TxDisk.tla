------------------------------- MODULE TxDisk -------------------------------
(***************************************************************************)
(* What the log promises the file system: a disk whose updates come in     *)
(* transactions.  Operations that overlap form one transaction; when the   *)
(* last of them ends, everything they wrote becomes durable at once, and   *)
(* that last operation returns only then.  A crash loses the transaction   *)
(* in progress and nothing else.  Log (kernel/fs/log.c) is shown to        *)
(* implement this specification.                                           *)
(***************************************************************************)
CONSTANTS Proc, Block, Data, Data0

VARIABLES durable,  \* what a crash leaves of each block
          current,  \* what a reader sees now
          phase     \* each process: "out", "in" an operation, or in "sync"

vars == <<durable, current, phase>>

Init == /\ durable = [b \in Block |-> Data0]
        /\ current = durable
        /\ phase = [p \in Proc |-> "out"]

Begin(p) == /\ phase[p] = "out"
            /\ \A q \in Proc : phase[q] # "sync"
            /\ phase' = [phase EXCEPT ![p] = "in"]
            /\ UNCHANGED <<durable, current>>

Write(p, b, d) == /\ phase[p] = "in"
                  /\ current' = [current EXCEPT ![b] = d]
                  /\ UNCHANGED <<durable, phase>>

\* An operation ends: the last one of its transaction has to make it durable.
End(p) == /\ phase[p] = "in"
          /\ phase' = [phase EXCEPT ![p] =
                         IF \E q \in Proc \ {p} : phase[q] = "in"
                         THEN "out" ELSE "sync"]
          /\ UNCHANGED <<durable, current>>

Commit == /\ \E p \in Proc : phase[p] = "sync"
          /\ \A p \in Proc : phase[p] # "in"
          /\ durable' = current
          /\ UNCHANGED <<current, phase>>

Return(p) == /\ phase[p] = "sync"
             /\ durable = current
             /\ phase' = [phase EXCEPT ![p] = "out"]
             /\ UNCHANGED <<durable, current>>

Crash == /\ current' = durable
         /\ phase' = [p \in Proc |-> "out"]
         /\ UNCHANGED durable

Next == \/ \E p \in Proc : \/ Begin(p) \/ End(p) \/ Return(p)
                           \/ \E b \in Block, d \in Data : Write(p, b, d)
        \/ Commit
        \/ Crash

Spec == Init /\ [][Next]_vars
=============================================================================
