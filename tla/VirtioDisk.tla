------------------------------ MODULE VirtioDisk ------------------------------
(***************************************************************************)
(* The disk driver, kernel/dev/virtio_disk.c, with the device it drives.   *)
(*                                                                         *)
(* A caller of virtio_disk_rw has one buffer and one block of its own: the *)
(* sleep locks of the buffer cache see to that.  What is done under        *)
(* disk.lock is one step, except for the interrupt handler: the device     *)
(* works on while it runs, so its acknowledgement and its look at the used *)
(* ring are two steps, and the lock is taken between them.                 *)
(*                                                                         *)
(* A ring is the sequence of its entries that have been put in and not     *)
(* taken out: RequestsInOnePlace bounds it, so no entry is overwritten.    *)
(*                                                                         *)
(* While the kernel boots there is no process, and the one caller polls.   *)
(***************************************************************************)
EXTENDS Integers, FiniteSets, Sequences

CONSTANTS Caller,
          NoCaller,  \* a null info->b
          NDesc      \* VIRTIO_DESC_NUM

Desc == 0..(NDesc - 1)
NoDesc == -1

ASSUME DiskAssumption == /\ NDesc \in Nat /\ NDesc >= 3
                         /\ NoCaller \notin Caller

VARIABLES free,      \* disk.free
          chain,     \* desc[i].next where VRING_DESC_F_NEXT is set, or NoDesc
          target,    \* whose buffer desc[i].addr points to, or NoCaller
          info,      \* info[i].b, or NoCaller
          cmd,       \* info[i].cmd: whose block, and whether to write it
          avail,     \* the ring the driver fills
          used,      \* the ring the device fills, from disk.used_idx on
          working,   \* the heads of the requests the device works on
          irq,       \* the interrupt is pending
          acked,     \* the handler has acknowledged it and holds disk.lock
          call,      \* where each caller is
          busy,      \* b->disk
          buffer, platter,  \* the caller's buffer and block
          boot       \* there is no process yet

ringVars == <<avail, used, working>>
descVars == <<free, chain, target, info, cmd>>
diskVars == <<ringVars, descVars, irq, acked, call, busy, buffer, platter, boot>>

DiskTypeOK ==
  /\ free \in [Desc -> BOOLEAN]
  /\ chain \in [Desc -> Desc \cup {NoDesc}]
  /\ target \in [Desc -> Caller \cup {NoCaller}]
  /\ info \in [Desc -> Caller \cup {NoCaller}]
  /\ cmd \in [Desc -> [of : Caller \cup {NoCaller}, write : BOOLEAN]]
  /\ avail \in Seq(Desc) /\ used \in Seq(Desc)
  /\ working \subseteq Desc
  /\ {irq, acked, boot} \subseteq BOOLEAN
  /\ call \in [Caller -> {"idle", "alloc", "nodesc", "asleep", "awake"}]
  /\ busy \in [Caller -> BOOLEAN]
  /\ buffer \in [Caller -> {"mem", "disk"}] /\ platter \in [Caller -> {"mem", "disk"}]

DiskInit ==
  /\ free = [i \in Desc |-> TRUE]
  /\ chain = [i \in Desc |-> NoDesc]
  /\ target = [i \in Desc |-> NoCaller]
  /\ info = [i \in Desc |-> NoCaller]
  /\ cmd = [i \in Desc |-> [of |-> NoCaller, write |-> FALSE]]
  /\ avail = <<>> /\ used = <<>>
  /\ working = {}
  /\ irq = FALSE /\ acked = FALSE /\ boot = TRUE
  /\ call = [c \in Caller |-> "idle"]
  /\ busy = [c \in Caller |-> FALSE]
  /\ buffer = [c \in Caller |-> "mem"] /\ platter = [c \in Caller |-> "mem"]

Moves(c, from, to) == call[c] = from /\ call' = [call EXCEPT ![c] = to]

\* bread and bwrite.  The two contents, in the buffer and on the disk, are named
\* anew for each request: those of earlier ones matter no more.
Request(c) ==
  /\ boot => \A d \in Caller : call[d] = "idle"
  /\ Moves(c, "idle", "alloc")
  /\ buffer' = [buffer EXCEPT ![c] = "mem"]
  /\ platter' = [platter EXCEPT ![c] = "disk"]
  /\ UNCHANGED <<ringVars, descVars, irq, acked, busy, boot>>

-----------------------------------------------------------------------------
(* virtio_disk_rw *)

FreeDescs == {i \in Desc : free[i]}

\* Mutant: the last descriptor is taken without a look at disk.free.
ThreeSharing(i, j, k) == i < j /\ j < k /\ k = NDesc - 1 /\ {i, j} \subseteq FreeDescs

\* alloc_desc, three times: the first three that are free.
Three(i, j, k) == /\ i < j /\ j < k /\ {i, j, k} \subseteq FreeDescs
                  /\ \A d \in FreeDescs : d < k => d \in {i, j}

\* The caller sleeps on its buffer; one that polls does not sleep.
Submit(c, write) ==
  /\ ~acked
  /\ Moves(c, "alloc", IF boot THEN "awake" ELSE "asleep")
  /\ \E i, j, k \in Desc :
       /\ Three(i, j, k)
       /\ free' = [d \in Desc |-> free[d] /\ d \notin {i, j, k}]
       /\ chain' = [chain EXCEPT ![i] = j, ![j] = k, ![k] = NoDesc]
       /\ target' = [target EXCEPT ![j] = c]
       /\ info' = [info EXCEPT ![i] = c]
       /\ cmd' = [cmd EXCEPT ![i] = [of |-> c, write |-> write]]
       /\ avail' = Append(avail, i)
  /\ busy' = [busy EXCEPT ![c] = TRUE]
  /\ UNCHANGED <<used, working, irq, acked, buffer, platter, boot>>

\* wakeup(disk.free), called by free_desc.
DescWaiters(c) == {d \in Caller \ {c} : call[d] = "nodesc"}

\* alloc3_desc gives back what it got, which wakes the others who wait.
NoThree(c) ==
  /\ ~acked /\ call[c] = "alloc" /\ Cardinality(FreeDescs) < 3
  /\ call' = [d \in Caller |-> IF d = c THEN "nodesc"
                ELSE IF d \in DescWaiters(c) /\ FreeDescs # {} THEN "alloc" ELSE call[d]]
  /\ UNCHANGED <<ringVars, descVars, irq, acked, busy, buffer, platter, boot>>

\* kill_process wakes the caller; both loops look again.
DiskKill(c) == /\ Moves(c, "nodesc", "alloc") \/ Moves(c, "asleep", "awake")
               /\ UNCHANGED <<ringVars, descVars, irq, acked, busy, buffer, platter, boot>>

\* free_chain: the head, and what the descriptors lead to.
Chain(i) == {i, chain[i], chain[chain[i]]}

HeadOf(c) == CHOOSE i \in Desc : info[i] = c

\* Mutant: a caller that is woken returns.
StaysNot(c) == FALSE

Stays(c) == busy[c]

Return(c) ==
  /\ ~acked /\ call[c] = "awake" /\ ~Stays(c)
  /\ info' = [info EXCEPT ![HeadOf(c)] = NoCaller]
  /\ free' = [d \in Desc |-> free[d] \/ d \in Chain(HeadOf(c))]
  /\ call' = [d \in Caller |-> IF d = c THEN "idle"
                ELSE IF d \in DescWaiters(c) THEN "alloc" ELSE call[d]]
  /\ UNCHANGED <<ringVars, chain, target, cmd, irq, acked, busy, buffer, platter, boot>>

SleepAgain(c) == /\ ~acked /\ ~boot /\ Stays(c)
                 /\ Moves(c, "awake", "asleep")
                 /\ UNCHANGED <<ringVars, descVars, irq, acked, busy, buffer, platter, boot>>

-----------------------------------------------------------------------------
(* virtio_process_used: every entry from disk.used_idx to the device's idx *)

Entries == {used[n] : n \in 1..Len(used)}

Completed == {info[i] : i \in Entries} \ {NoCaller}

\* Mutant: one entry is looked at, not all there are.
ProcessUsedOnce ==
  LET done == IF used = <<>> THEN {} ELSE {info[Head(used)]} IN
  /\ busy' = [c \in Caller |-> busy[c] /\ c \notin done]
  /\ call' = [c \in Caller |-> IF c \in done /\ call[c] = "asleep" THEN "awake" ELSE call[c]]
  /\ used' = IF used = <<>> THEN <<>> ELSE Tail(used)

ProcessUsed ==
  /\ busy' = [c \in Caller |-> busy[c] /\ c \notin Completed]
  /\ call' = [c \in Caller |-> IF c \in Completed /\ call[c] = "asleep" THEN "awake" ELSE call[c]]
  /\ used' = <<>>

Poll(c) == /\ boot /\ call[c] = "awake" /\ busy[c]
           /\ ProcessUsed
           /\ UNCHANGED <<avail, working,
                          descVars, irq, acked, buffer, platter, boot>>

\* A caller that polls keeps disk.lock, and the handler cannot start.
Locked == boot /\ \E c \in Caller : call[c] # "idle"

\* virtio_disk_intr
Ack == /\ irq /\ ~acked /\ ~Locked
       /\ irq' = FALSE
       /\ acked' = TRUE
       /\ UNCHANGED <<ringVars, descVars, call, busy, buffer, platter, boot>>

Scan == /\ acked
        /\ acked' = FALSE
        /\ ProcessUsed
        /\ UNCHANGED <<avail, working,
                       descVars, irq, buffer, platter, boot>>

-----------------------------------------------------------------------------
(* The device: it fetches the requests in order and ends them in any order *)

Fetch == /\ avail # <<>>
         /\ working' = working \cup {Head(avail)}
         /\ avail' = Tail(avail)
         /\ UNCHANGED <<used, descVars, irq, acked, call, busy, buffer, platter, boot>>

\* The sector is that of the caller the command was made for; the data goes to
\* or comes from where the second descriptor points to.
Finish(i) ==
  LET c == cmd[i].of  t == target[chain[i]] IN
  /\ i \in working
  /\ working' = working \ {i}
  /\ IF cmd[i].write
     THEN platter' = [platter EXCEPT ![c] = buffer[t]] /\ UNCHANGED buffer
     ELSE buffer' = [buffer EXCEPT ![t] = platter[c]] /\ UNCHANGED platter
  /\ used' = Append(used, i)
  /\ irq' = TRUE
  /\ UNCHANGED <<avail, descVars, acked, call, busy, boot>>

\* The first process starts.
EndBoot == /\ boot /\ ~Locked
           /\ boot' = FALSE
           /\ UNCHANGED <<ringVars, descVars, irq, acked, call, busy, buffer, platter>>

InCall(c) == \/ \E w \in BOOLEAN : Submit(c, w)
             \/ NoThree(c) \/ Return(c) \/ SleepAgain(c) \/ Poll(c)

DeviceOrHandler == Ack \/ Scan \/ Fetch \/ \E i \in Desc : Finish(i)

DiskNext == \/ \E c \in Caller : Request(c) \/ InCall(c) \/ DiskKill(c)
            \/ DeviceOrHandler \/ EndBoot

\* The device works on, the interrupt is delivered, and a caller that polls goes on.
DiskFairness == /\ WF_diskVars(Fetch) /\ WF_diskVars(Ack \/ Scan)
                /\ \A i \in Desc : WF_diskVars(Finish(i))
                /\ WF_diskVars(\E c \in Caller : Poll(c))

DiskSpec == DiskInit /\ [][DiskNext]_diskVars /\ DiskFairness

-----------------------------------------------------------------------------
(* Properties *)

InDisk == {c \in Caller : call[c] \in {"asleep", "awake"}}

\* The descriptors in use are three for each request, and no two requests share
\* one: free_chain never frees a descriptor twice, nor one the device still has.
ChainsApart ==
  /\ Cardinality(Desc \ FreeDescs) = 3 * Cardinality(InDisk)
  /\ UNION {Chain(HeadOf(c)) : c \in InDisk} = Desc \ FreeDescs

\* A request that is not done is in one place: the avail ring, the device or the
\* used ring, and nothing else is; neither ring is ever overrun.
RequestsInOnePlace ==
  /\ {info[i] : i \in working \cup Entries \cup {avail[n] : n \in 1..Len(avail)}}
       = {c \in Caller : busy[c]}
  /\ Cardinality({c \in Caller : busy[c]}) = Len(avail) + Cardinality(working) + Len(used)
  /\ Len(avail) <= NDesc /\ Len(used) <= NDesc

\* Nobody sleeps for good: an end of a request that was not noticed will be; one
\* who waits for descriptors waits for a request in progress.
DiskSleepersHaveWaker ==
  /\ \A c \in Caller : call[c] = "asleep" => busy[c]
  /\ ~boot /\ Entries # {} => irq \/ acked
  /\ \A c \in Caller : call[c] = "nodesc" => InDisk # {}

\* The descriptors, the rings and the sleepers of every request fit together.
RequestsAccounted == ChainsApart /\ RequestsInOnePlace /\ DiskSleepersHaveWaker

Transfers(c) == \/ c \in InDisk /\ busy[c]
                \/ call[c] = "idle" /\ call'[c] = "alloc"

\* When virtio_disk_rw returns, the block and the buffer agree, and the device
\* touches neither before nor after the request.
TransferInTime ==
  /\ [](\A c \in Caller : call[c] = "awake" /\ ~busy[c] => buffer[c] = platter[c])
  /\ [][\A c \in Caller : buffer'[c] # buffer[c] \/ platter'[c] # platter[c] => Transfers(c)]_diskVars

\* A request that was made is ended, and its caller awake, in whatever order the
\* device works and however its interrupts and the handler fall together.
RequestEnds == \A c \in Caller : busy[c] ~> ~busy[c] /\ call[c] # "asleep"
=============================================================================
