----------------------------- MODULE MsgService -----------------------------
(***************************************************************************)
(* What the message queues promise their callers: a set of bounded FIFO    *)
(* boxes.  A box is opened once, under a key, and stays open; a message    *)
(* accepted by a box is handed to exactly one receiver, in the order the   *)
(* box accepted it.  MsgQueue (kernel/ipc/msg.c) is shown to implement     *)
(* this specification.                                                     *)
(***************************************************************************)
EXTENDS Integers, Sequences

CONSTANTS Proc,     \* processes
          BoxId,    \* names of boxes
          Key,      \* keys a box may be opened under
          Body,     \* contents of messages, told apart but not inspected
          MaxSize,  \* longest message
          Capacity, \* messages a box holds
          Closed,   \* "key" of a box not opened yet
          Nothing   \* no message received yet

VARIABLES keyOf,    \* the key each box was opened under
          box,      \* the messages waiting in each box, oldest first
          got       \* the last message received, for whom, into a buffer of what size

vars == <<keyOf, box, got>>

Message == [body : Body, len : 0..MaxSize]

Init == /\ keyOf = [b \in BoxId |-> Closed]
        /\ box = [b \in BoxId |-> <<>>]
        /\ got = Nothing

Open(b, k) == /\ keyOf[b] = Closed
              /\ keyOf' = [keyOf EXCEPT ![b] = k]
              /\ UNCHANGED <<box, got>>

Accept(b, m) == /\ keyOf[b] # Closed
                /\ Len(box[b]) < Capacity
                /\ box' = [box EXCEPT ![b] = Append(@, m)]
                /\ UNCHANGED <<keyOf, got>>

\* The receiver takes the oldest message; a short buffer truncates it.
Deliver(p, b, max) ==
  /\ box[b] # <<>>
  /\ LET m == Head(box[b])
         n == IF m.len > max THEN max ELSE m.len
     IN  got' = [to |-> p, max |-> max, msg |-> [body |-> m.body, len |-> n]]
  /\ box' = [box EXCEPT ![b] = Tail(@)]
  /\ UNCHANGED keyOf

Next == \E b \in BoxId :
          \/ \E k \in Key : Open(b, k)
          \/ \E m \in Message : Accept(b, m)
          \/ \E p \in Proc, max \in 1..MaxSize : Deliver(p, b, max)

Spec == Init /\ [][Next]_vars
=============================================================================
