----------------------------- MODULE MCMsgFifo ------------------------------
(* Two workloads of MsgQueue explored in one run.  "messages": all processes *)
(* send to and receive from one queue, which one of them opens.  "keys": all *)
(* of them call msg_get, with any keys.                                      *)
EXTENDS MCMsgQueue

VARIABLE workload

Calls(p) ==
  IF workload = "keys"
  THEN {c \in Call : c.op \in {"user", "exited", "find", "alloc"}}
  ELSE {c \in Call : /\ c.op \in {"find", "alloc"} => c.key = Zero /\ p \in Killable
                     /\ c.op \in {"send", "recv"} => c.qid = 0}

FifoInit == Init /\ workload \in {"messages", "keys"}

FifoNext == /\ Next
            /\ UNCHANGED workload
            /\ \A p \in Proc : call'[p] \in Calls(p)

Fifo == FifoInit /\ [][FifoNext]_<<vars, workload>>
=============================================================================
