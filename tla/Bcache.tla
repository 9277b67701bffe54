-------------------------------- MODULE Bcache --------------------------------
(***************************************************************************)
(* The buffer cache: kernel/fs/bio.c, its sleep locks                      *)
(* (kernel/lib/sleeplock.c), and the references the log keeps              *)
(* (kernel/fs/log.c: log_write pins a block, install_trans unpins it).     *)
(*                                                                         *)
(* What is done under one spinlock is one step.  A request to the disk is  *)
(* two: the process sleeps until it is done.  A process that has two       *)
(* blocks at a time is two members of Proc.                                *)
(***************************************************************************)
EXTENDS Integers, FiniteSets, Functions

CONSTANTS Proc,
          NBuf,     \* NBUF
          Block,    \* the blocks that are read; block 0 never is
          Data,     \* what a block can hold
          MaxLogged,\* LOGSIZE: the blocks of the log's header
          MaxPins,  \* bound: how many pins there are
          NoProc    \* nobody

Buf == 1..NBuf

ASSUME BcacheAssumption ==
  /\ NBuf \in Nat \ {0} /\ MaxLogged \in Nat /\ MaxPins \in Nat
  /\ Block \subseteq Nat \ {0}
  /\ IsFiniteSet(Proc) /\ NoProc \notin Proc

VARIABLES blockno, valid, refcnt, data,  \* struct buf
          holder,   \* who has the buffer's sleep lock (locked and pid)
          order,    \* the list from head.next on: given back last, first
          disk,     \* the blocks on the disk
          logged,   \* the blocks of the log's header
          pins,     \* the references the log has to each block
          pc,       \* where each process is
          blk, buf, \* the block it asked for, the buffer it was given; or 0
          panicked  \* the kernel has stopped

bufVars  == <<blockno, valid, refcnt, data, holder, order>>
procVars == <<pc, blk, buf>>
logVars == <<logged, pins>>
vars == <<bufVars, disk, logVars, procVars, panicked>>

\* user    outside bio.c            lock  in bget, the buffer is counted
\* sleep   in sleeplock_acquire     read  in bread, the disk is reading
\* held    bread has returned       changed the caller has written into b->data
\* write   the disk is writing      unpin bwrite has returned to install_trans
\* done    logged, or written       drop  in brelse, the lock is given back
Where == {"user", "lock", "sleep", "read", "held", "changed", "write",
          "unpin", "done", "drop"}

TypeOK == /\ blockno \in [Buf -> Block \cup {0}]
          /\ valid \in [Buf -> BOOLEAN]
          /\ refcnt \in [Buf -> Nat]
          /\ data \in [Buf -> Data]
          /\ holder \in [Buf -> Proc \cup {NoProc}]
          /\ order \in [Buf -> Buf] /\ \A i \in Buf : \E k \in Buf : order[k] = i
          /\ disk \in [Block -> Data]
          /\ logged \in SUBSET Block
          /\ pins \in [Block -> Nat]
          /\ pc \in [Proc -> Where]
          /\ blk \in [Proc -> Block \cup {0}]
          /\ buf \in [Proc -> Buf \cup {0}]
          /\ panicked \in BOOLEAN

Init == /\ blockno = [i \in Buf |-> 0]
        /\ valid = [i \in Buf |-> FALSE]
        /\ refcnt = [i \in Buf |-> 0]
        /\ \E v \in Data : data = [i \in Buf |-> v]
        /\ holder = [i \in Buf |-> NoProc]
        /\ order = [k \in Buf |-> NBuf + 1 - k]
        /\ \E v \in Data : disk = [b \in Block |-> v]
        /\ logged = {}
        /\ pins = [b \in Block |-> 0]
        /\ pc = [p \in Proc |-> "user"]
        /\ blk = [p \in Proc |-> 0]
        /\ buf = [p \in Proc |-> 0]
        /\ panicked = FALSE

At(p, w) == pc[p] = w /\ ~panicked

Goes(p, w) == pc' = [pc EXCEPT ![p] = w]

-----------------------------------------------------------------------------
(* bget *)

\* Mutant: a buffer nobody has locked counts as unused.
UnusedUnlocked == {k \in Buf : holder[order[k]] = NoProc}

Unused == {k \in Buf : refcnt[order[k]] = 0}

\* The list is searched from head.next for the block, from head.prev for room.
FirstOf(S) == order[CHOOSE k \in S : \A j \in S : k <= j]
LastOf(S)  == order[CHOOSE k \in S : \A j \in S : j <= k]

Cached(b) == {k \in Buf : blockno[order[k]] = b}

Hit(p, b) ==
  LET i == FirstOf(Cached(b)) IN
  /\ Cached(b) # {}
  /\ refcnt' = [refcnt EXCEPT ![i] = @ + 1]
  /\ buf' = [buf EXCEPT ![p] = i]
  /\ UNCHANGED <<blockno, valid>>

\* Mutant: the buffer stays valid.
StillValid(i) == UNCHANGED valid

Invalid(i) == valid' = [valid EXCEPT ![i] = FALSE]

Miss(p, b) ==
  LET i == LastOf(Unused) IN
  /\ Cached(b) = {} /\ Unused # {}
  /\ blockno' = [blockno EXCEPT ![i] = b]
  /\ Invalid(i)
  /\ refcnt' = [refcnt EXCEPT ![i] = 1]
  /\ buf' = [buf EXCEPT ![p] = i]

Bget(p, b) ==
  /\ At(p, "user")
  /\ blk' = [blk EXCEPT ![p] = b]
  /\ \/ (Hit(p, b) \/ Miss(p, b)) /\ Goes(p, "lock") /\ UNCHANGED panicked
     \/ /\ Cached(b) = {} /\ Unused = {}
        /\ panicked' = TRUE
        /\ UNCHANGED <<blockno, valid, refcnt, buf, pc>>
  /\ UNCHANGED <<data, holder, order, disk, logVars>>

-----------------------------------------------------------------------------
(* Sleep locks *)

Acquire(p) ==
  /\ At(p, "lock")
  /\ IF holder[buf[p]] = NoProc
     THEN /\ holder' = [holder EXCEPT ![buf[p]] = p]
          /\ Goes(p, IF valid[buf[p]] THEN "held" ELSE "read")
     ELSE Goes(p, "sleep") /\ UNCHANGED holder
  /\ UNCHANGED <<blockno, valid, refcnt, data, order, disk, logVars, blk, buf, panicked>>

\* kill_process wakes a sleeper; the loop of sleeplock_acquire looks again.
Kill(p) == /\ At(p, "sleep")
           /\ Goes(p, "lock")
           /\ UNCHANGED <<bufVars, disk, logVars, blk, buf, panicked>>

\* Mutant: sleeplock_release wakes one of the sleepers.
WokenOne(q, i) == /\ pc[q] = "sleep" /\ buf[q] = i
                  /\ q = CHOOSE r \in Proc : pc[r] = "sleep" /\ buf[r] = i

Woken(q, i) == pc[q] = "sleep" /\ buf[q] = i

\* sleeplock_release
Released(p) == LET i == buf[p] IN
               /\ holder' = [holder EXCEPT ![i] = NoProc]
               /\ pc' = [q \in Proc |-> IF q = p THEN "drop"
                                        ELSE IF Woken(q, i) THEN "lock" ELSE pc[q]]

-----------------------------------------------------------------------------
(* bread: whether the buffer is valid only its lock's holder changes, so it *)
(* is looked at as the lock is taken                                        *)

ReadDone(p) == LET i == buf[p] IN
  /\ At(p, "read")
  /\ data' = [data EXCEPT ![i] = disk[blockno[i]]]
  /\ valid' = [valid EXCEPT ![i] = TRUE]
  /\ Goes(p, "held")
  /\ UNCHANGED <<blockno, refcnt, holder, order, disk, logVars, blk, buf, panicked>>

-----------------------------------------------------------------------------
(* The callers: what was changed is logged or written before it is given   *)
(* back (kernel/fs/fs.c, kernel/fs/log.c)                                  *)

Change(p, v) == /\ At(p, "held")
                /\ data' = [data EXCEPT ![buf[p]] = v]
                /\ Goes(p, "changed")
                /\ UNCHANGED <<blockno, valid, refcnt, holder, order, disk, logVars, blk, buf, panicked>>

\* log_write pins the block even when it is in the header; install_trans will
\* unpin it once.
LogWrite(p) ==
  /\ At(p, "changed")
  /\ blk[p] \in logged \/ Cardinality(logged) < MaxLogged
  /\ FoldFunction(+, 0, pins) < MaxPins
  /\ logged' = logged \cup {blk[p]}
  /\ pins' = [pins EXCEPT ![blk[p]] = @ + 1]
  /\ refcnt' = [refcnt EXCEPT ![buf[p]] = @ + 1]
  /\ Goes(p, "done")
  /\ UNCHANGED <<blockno, valid, data, holder, order, disk, blk, buf, panicked>>

\* bwrite
Write(p) == /\ At(p, "held") \/ At(p, "changed")
            /\ Goes(p, "write")
            /\ UNCHANGED <<bufVars, disk, logVars, blk, buf, panicked>>

WriteDone(p) ==
  /\ At(p, "write")
  /\ disk' = [disk EXCEPT ![blockno[buf[p]]] = data[buf[p]]]
  /\ Goes(p, IF blk[p] \in logged THEN "unpin" ELSE "done")
  /\ UNCHANGED <<bufVars, logVars, blk, buf, panicked>>

\* install_trans, and bunpin, which leaves the buffer where it is in the list.
Unpin(p) == /\ At(p, "unpin")
            /\ logged' = logged \ {blk[p]}
            /\ pins' = [pins EXCEPT ![blk[p]] = @ - 1]
            /\ refcnt' = [refcnt EXCEPT ![buf[p]] = @ - 1]
            /\ Goes(p, "done")
            /\ UNCHANGED <<blockno, valid, data, holder, order, disk, blk, buf, panicked>>

-----------------------------------------------------------------------------
(* brelse *)

Brelse(p) == /\ At(p, "held") \/ At(p, "done")
             /\ IF holder[buf[p]] = p
                THEN Released(p) /\ UNCHANGED panicked
                ELSE panicked' = TRUE /\ UNCHANGED <<holder, pc>>
             /\ UNCHANGED <<blockno, valid, refcnt, data, order, disk, logVars, blk, buf>>

\* Mutant: the buffer is not taken out of the list first.
ToFrontToo(i) == [j \in Buf |-> IF j = 1 THEN i ELSE order[j - 1]]

Position(i) == CHOOSE k \in Buf : order[k] = i

ToFront(i) == [j \in Buf |-> IF j = 1 THEN i
                             ELSE IF j <= Position(i) THEN order[j - 1] ELSE order[j]]

Drop(p) == LET i == buf[p] IN
  /\ At(p, "drop")
  /\ refcnt' = [refcnt EXCEPT ![i] = @ - 1]
  /\ order' = IF refcnt[i] = 1 THEN ToFront(i) ELSE order
  /\ Goes(p, "user")
  /\ blk' = [blk EXCEPT ![p] = 0]
  /\ buf' = [buf EXCEPT ![p] = 0]
  /\ UNCHANGED <<blockno, valid, data, holder, disk, logVars, panicked>>

Next == \E p \in Proc :
          \/ \E b \in Block : Bget(p, b)
          \/ Acquire(p) \/ Kill(p) \/ ReadDone(p)
          \/ \E v \in Data : Change(p, v)
          \/ LogWrite(p) \/ Write(p) \/ WriteDone(p) \/ Unpin(p)
          \/ Brelse(p) \/ Drop(p)

Spec == Init /\ [][Next]_vars

-----------------------------------------------------------------------------
(* Properties *)

InBio(p) == pc[p] # "user"

Users(i) == {p \in Proc : InBio(p) /\ buf[p] = i}

Locks == {"read", "held", "changed", "write", "unpin", "done"}

\* A buffer's references are the processes between bget and the end of brelse,
\* and as many as log_write has taken for its block and install_trans has not
\* given back.
RefsAddUp ==
  \A i \in Buf : refcnt[i] = Cardinality(Users(i))
                             + (IF blockno[i] \in Block THEN pins[blockno[i]] ELSE 0)

\* No block is in two buffers, whoever misses it at the same time; and a block
\* of the log's header stays in its buffer until it has been installed.
OneCopy == /\ \A i, j \in Buf : blockno[i] = blockno[j] /\ i # j => blockno[i] = 0
           /\ \A b \in logged : \E i \in Buf : blockno[i] = b /\ valid[i]

\* A buffer is not used for another block while a process waits for its lock,
\* holds it, or is about to give its reference back.
NotRecycled == \A p \in Proc : InBio(p) => blockno[buf[p]] = blk[p]

\* Who sleeps for a buffer sleeps while somebody has it: no wakeup is lost; and
\* who has it is a process that has not reached the end of brelse.
SleepersBlocked ==
  /\ \A p \in Proc : pc[p] = "sleep" => holder[buf[p]] # NoProc
  /\ \A i \in Buf, p \in Proc : holder[i] = p <=> pc[p] \in Locks /\ buf[p] = i

Wanted == {b \in Block : pins[b] > 0 \/ \E p \in Proc : blk[p] = b}

\* bget gives up only when processes and the pins of the log need more than
\* NBUF blocks at the same time, and brelse is never called without the lock.
PanicsOnlyWhenFull ==
  panicked => Cardinality(Wanted) > NBuf

\* Together: a block has one copy, and whoever counts on it keeps it.
CacheCoherent == RefsAddUp /\ OneCopy /\ NotRecycled /\ PanicsOnlyWhenFull

\* The content of a block is what its buffer holds, and without one the disk.
Copies(b) == {i \in Buf : blockno[i] = b /\ valid[i]}

Content(b) == IF Copies(b) = {} THEN disk[b] ELSE data[CHOOSE i \in Copies(b) : TRUE]

\* Who has a block is between the return of bread and the call of brelse.
Owners(b) == {p \in Proc : pc[p] \in Locks \ {"read"} /\ blk[p] = b}

Owner(b) == IF Owners(b) = {} THEN NoProc ELSE CHOOSE p \in Owners(b) : TRUE

Store == INSTANCE BlockStore WITH content <- [b \in Block |-> Content(b)],
                                  owner <- [b \in Block |-> Owner(b)]

\* The cache is a store of blocks that are had by one process at a time:
\* filling, recycling, writing and pinning buffers never changes what a block
\* holds, and only who has a block changes it.
ImplementsBlockStore == Store!Spec
=============================================================================
