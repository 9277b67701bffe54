------------------------------ MODULE BlockStore ------------------------------
(***************************************************************************)
(* What the buffer cache promises its callers (kernel/fs/bio.c): every     *)
(* block has one content, and a process that has a block has it alone      *)
(* until it gives it back.                                                 *)
(***************************************************************************)
CONSTANTS Proc, Block, Data,
          NoProc   \* nobody

VARIABLES content,  \* of each block
          owner     \* the process that has the block, or NoProc

vars == <<content, owner>>

Init == /\ content \in [Block -> Data]
        /\ owner = [b \in Block |-> NoProc]

\* bread returns.
Take(p, b) == /\ owner[b] = NoProc
              /\ owner' = [owner EXCEPT ![b] = p]
              /\ UNCHANGED content

Change(p, b) == /\ owner[b] = p
                /\ \E v \in Data : content' = [content EXCEPT ![b] = v]
                /\ UNCHANGED owner

\* brelse is called.
Give(p, b) == /\ owner[b] = p
              /\ owner' = [owner EXCEPT ![b] = NoProc]
              /\ UNCHANGED content

Next == \E p \in Proc, b \in Block : Take(p, b) \/ Change(p, b) \/ Give(p, b)

Spec == Init /\ [][Next]_vars
=============================================================================
