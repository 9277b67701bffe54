-------------------------------- MODULE Log --------------------------------
(***************************************************************************)
(* The write-ahead log of the file system: kernel/fs/log.c.                *)
(*                                                                         *)
(* A file-system call brackets its updates with begin_op and end_op and    *)
(* hands every buffer it changes to log_write.  The end_op that leaves no  *)
(* operation outstanding commits: it copies the logged blocks to the log   *)
(* area, writes the log header (the commit point), installs the blocks at  *)
(* their home locations and clears the header.  log_init replays a header  *)
(* it finds on the disk.                                                   *)
(*                                                                         *)
(* A section under log_state.lock is one step, and so is each write of a   *)
(* block to the disk; the machine may stop between any two steps.  A block *)
(* is written whole or not at all.  Of the buffer cache the model keeps    *)
(* what the log relies on: the contents of the buffers, how often each is  *)
(* pinned, and that a buffer nobody refers to may be recycled.             *)
(***************************************************************************)
EXTENDS Integers, Sequences, FiniteSets, Functions

CONSTANTS Proc,      \* processes that call the file system
          Block,     \* home blocks: inodes, bitmap, data
          Data,      \* contents of a block
          Data0,     \* contents of every block at first
          LogSize,   \* log_state.size (superblock nlog): a header and log blocks
          MaxOp,     \* MAXOPBLOCKS
          NBuf,      \* NBUF, buffers in the cache
          MaxPin,    \* bound of the model: pins counted per buffer
          MaxCrash   \* bound of the model: crashes in a behaviour

\* log_init refuses fewer than two log blocks.
ASSUME LogAssumption == /\ LogSize \in Nat /\ LogSize >= 2
                        /\ MaxOp \in Nat \ {0}
                        /\ NBuf \in Nat /\ NBuf >= LogSize
                        /\ MaxPin \in Nat /\ MaxCrash \in Nat
                        /\ Data0 \in Data
                        /\ IsFiniteSet(Proc)

VARIABLES
  home,        \* disk: the blocks at their home locations
  logd,        \* disk: the blocks of the log area after the header
  head,        \* disk: the block numbers in the log header (lh->n is its length)
  cache,       \* memory: contents of the buffer of each home block
  pins,        \* memory: references log_write holds on each buffer
  lh,          \* log_state.lh
  outstanding, \* log_state.outstanding
  committing,  \* log_state.committing
  pc,          \* where each process is in the operations of this module
  asleep,      \* processes sleeping on &log_state
  wrote,       \* the blocks each operation has logged so far
  k,           \* blocks the loop of the commit, or of the recovery, has done
  boot,        \* log_init: where the recovery is, "up" afterwards
  panicked,    \* the message of a panic that stopped the kernel
  crashes      \* crashes so far

disk == <<home, logd, head>>
vars == <<home, logd, head, cache, pins, lh, outstanding, committing, pc,
          asleep, wrote, k, boot, panicked, crashes>>

Slot == 1..(LogSize - 1)
CommitPc == {"write_log", "install", "clear"}

TypeOK ==
  /\ home \in [Block -> Data]
  /\ logd \in [Slot -> Data]
  /\ head \in Seq(Block) /\ Len(head) <= LogSize - 1
  /\ cache \in [Block -> Data]
  /\ pins \in [Block -> Nat]
  /\ lh \in Seq(Block) /\ Len(lh) <= LogSize - 1
  /\ outstanding \in Nat
  /\ committing \in BOOLEAN
  /\ pc \in [Proc -> {"idle", "begin", "op"} \cup CommitPc]
  /\ asleep \subseteq Proc
  /\ wrote \in [Proc -> SUBSET Block]
  /\ k \in Nat
  /\ boot \in {"read_head", "install", "up"}
  /\ panicked \in {"", "log_write: log full", "bget: no buffers"}
  /\ crashes \in Nat

Init == /\ home = [b \in Block |-> Data0]
        /\ logd = [i \in Slot |-> Data0]
        /\ head = <<>>
        /\ cache = home
        /\ pins = [b \in Block |-> 0]
        /\ lh = <<>>
        /\ outstanding = 0
        /\ committing = FALSE
        /\ pc = [p \in Proc |-> "idle"]
        /\ asleep = {}
        /\ wrote = [p \in Proc |-> {}]
        /\ k = 0
        /\ boot = "read_head"
        /\ panicked = ""
        /\ crashes = 0

Up == boot = "up" /\ panicked = ""

-----------------------------------------------------------------------------
(* begin_op                                                                *)
\* Mutant: the operation that asks does not count itself.
NoRoomForMe == Len(lh) + outstanding * MaxOp > LogSize - 1

NoRoom == Len(lh) + (outstanding + 1) * MaxOp > LogSize - 1

\* Mutant: begin_op does not look at log_state.committing.
WaitForRoom == NoRoom

MustWait == committing \/ NoRoom

StartOp(p) ==
  /\ Up /\ pc[p] = "idle"
  /\ pc' = [pc EXCEPT ![p] = "begin"]
  /\ UNCHANGED <<disk, cache, pins, lh, outstanding, committing, asleep,
                 wrote, k, boot, panicked, crashes>>

BeginSleep(p) ==
  /\ Up /\ pc[p] = "begin" /\ p \notin asleep
  /\ MustWait
  /\ asleep' = asleep \cup {p}
  /\ UNCHANGED <<disk, cache, pins, lh, outstanding, committing, pc,
                 wrote, k, boot, panicked, crashes>>

BeginOp(p) ==
  /\ Up /\ pc[p] = "begin" /\ p \notin asleep
  /\ ~MustWait
  /\ outstanding' = outstanding + 1
  /\ pc' = [pc EXCEPT ![p] = "op"]
  /\ wrote' = [wrote EXCEPT ![p] = {}]
  /\ UNCHANGED <<disk, cache, pins, lh, committing, asleep, k, boot,
                 panicked, crashes>>

-----------------------------------------------------------------------------
(* An operation reads a buffer, changes it and calls log_write.  It keeps   *)
(* to MAXOPBLOCKS blocks, each of which it may log more than once.          *)
Pinned == {b \in Block : pins[b] > 0}

\* bget finds the block's buffer, or one nobody refers to.
BufferLeft == Cardinality(Pinned) < NBuf
HasBuffer(b) == b \in Pinned \/ BufferLeft

WithinQuota(p, b) == b \in wrote[p] \/ Cardinality(wrote[p]) < MaxOp

LogFull == Len(lh) >= LogSize - 1

Absorb(s, b) == IF b \in Range(s) THEN s ELSE Append(s, b)

\* Mutant: log_write keeps no reference on the buffer.
NoPin(b) == pins

Pin(b) == [pins EXCEPT ![b] = @ + 1]

LogWrite(p, b, d) ==
  /\ Up /\ pc[p] = "op"
  /\ WithinQuota(p, b) /\ pins[b] < MaxPin
  /\ HasBuffer(b) /\ ~LogFull
  /\ cache' = [cache EXCEPT ![b] = d]
  /\ lh' = Absorb(lh, b)
  /\ pins' = Pin(b)
  /\ wrote' = [wrote EXCEPT ![p] = @ \cup {b}]
  /\ UNCHANGED <<disk, outstanding, committing, pc, asleep, k, boot,
                 panicked, crashes>>

\* The two ways a call of bread and log_write stops the kernel.
WritePanic(p, b) ==
  /\ Up /\ pc[p] = "op"
  /\ WithinQuota(p, b)
  /\ \/ ~HasBuffer(b) /\ panicked' = "bget: no buffers"
     \/ HasBuffer(b) /\ LogFull /\ panicked' = "log_write: log full"
  /\ UNCHANGED <<disk, cache, pins, lh, outstanding, committing, pc, asleep,
                 wrote, k, boot, crashes>>

\* The cache recycles a buffer without references; bread reads it again.
Evict(b) ==
  /\ Up /\ pins[b] = 0
  /\ cache' = [cache EXCEPT ![b] = home[b]]
  /\ UNCHANGED <<disk, pins, lh, outstanding, committing, pc, asleep, wrote,
                 k, boot, panicked, crashes>>

-----------------------------------------------------------------------------
(* end_op                                                                  *)
Last == outstanding = 1

EndOp(p) ==
  /\ Up /\ pc[p] = "op"
  /\ outstanding' = outstanding - 1
  /\ pc' = [pc EXCEPT ![p] = IF Last THEN "write_log" ELSE "idle"]
  /\ committing' = Last
  /\ asleep' = IF Last THEN asleep ELSE {}
  /\ k' = 0
  /\ UNCHANGED <<disk, cache, pins, lh, wrote, boot, panicked, crashes>>

(* commit, called without log_state.lock                                   *)
WriteLog(p) ==
  /\ Up /\ pc[p] = "write_log" /\ k < Len(lh) /\ BufferLeft
  /\ logd' = [logd EXCEPT ![k + 1] = cache[lh[k + 1]]]
  /\ k' = k + 1
  /\ UNCHANGED <<home, head, cache, pins, lh, outstanding, committing, pc,
                 asleep, wrote, boot, panicked, crashes>>

\* bread of a log block while every buffer is pinned.
CommitPanic(p) ==
  /\ Up /\ pc[p] = "write_log" /\ k < Len(lh) /\ ~BufferLeft
  /\ panicked' = "bget: no buffers"
  /\ UNCHANGED <<disk, cache, pins, lh, outstanding, committing, pc, asleep,
                 wrote, k, boot, crashes>>

\* Mutant: the header is written before the copies in the log are complete.
WriteHeadEarly(p) ==
  /\ Up /\ pc[p] = "write_log" /\ lh # <<>>
  /\ head' = lh
  /\ pc' = [pc EXCEPT ![p] = "install"]
  /\ k' = 0
  /\ UNCHANGED <<home, logd, cache, pins, lh, outstanding, committing, asleep,
                 wrote, boot, panicked, crashes>>

\* Mutant: the blocks are installed without a header on the disk.
WriteHeadNever(p) ==
  /\ Up /\ pc[p] = "write_log" /\ k = Len(lh) /\ lh # <<>>
  /\ pc' = [pc EXCEPT ![p] = "install"]
  /\ k' = 0
  /\ UNCHANGED <<disk, cache, pins, lh, outstanding, committing, asleep,
                 wrote, boot, panicked, crashes>>

\* write_head: the commit point.
WriteHead(p) ==
  /\ Up /\ pc[p] = "write_log" /\ k = Len(lh) /\ lh # <<>>
  /\ head' = lh
  /\ pc' = [pc EXCEPT ![p] = "install"]
  /\ k' = 0
  /\ UNCHANGED <<home, logd, cache, pins, lh, outstanding, committing, asleep,
                 wrote, boot, panicked, crashes>>

Installed(f, i) == [f EXCEPT ![lh[i]] = logd[i]]

Install(p) ==
  /\ Up /\ pc[p] = "install" /\ k < Len(lh)
  /\ home' = Installed(home, k + 1)
  /\ cache' = Installed(cache, k + 1)
  /\ pins' = [pins EXCEPT ![lh[k + 1]] = @ - 1]
  /\ k' = k + 1
  /\ UNCHANGED <<logd, head, lh, outstanding, committing, pc, asleep, wrote,
                 boot, panicked, crashes>>

ClearHead(p) ==
  /\ Up /\ pc[p] = "install" /\ k = Len(lh)
  /\ lh' = <<>>
  /\ head' = <<>>
  /\ pc' = [pc EXCEPT ![p] = "clear"]
  /\ UNCHANGED <<home, logd, cache, pins, outstanding, committing, asleep,
                 wrote, k, boot, panicked, crashes>>

\* Mutant: the end of a commit wakes nobody.
EndCommitQuiet(p) ==
  /\ Up
  /\ \/ pc[p] = "clear"
     \/ pc[p] = "write_log" /\ lh = <<>>
  /\ committing' = FALSE
  /\ pc' = [pc EXCEPT ![p] = "idle"]
  /\ UNCHANGED <<disk, cache, pins, lh, outstanding, asleep, wrote, k, boot,
                 panicked, crashes>>

\* Mutant: committing is not reset.
EndCommitStuck(p) ==
  /\ Up
  /\ \/ pc[p] = "clear"
     \/ pc[p] = "write_log" /\ lh = <<>>
  /\ asleep' = {}
  /\ pc' = [pc EXCEPT ![p] = "idle"]
  /\ UNCHANGED <<disk, cache, pins, lh, outstanding, committing, wrote, k,
                 boot, panicked, crashes>>

\* The rest of end_op; a transaction without blocks skips the commit.
EndCommit(p) ==
  /\ Up
  /\ \/ pc[p] = "clear"
     \/ pc[p] = "write_log" /\ lh = <<>>
  /\ committing' = FALSE
  /\ asleep' = {}
  /\ pc' = [pc EXCEPT ![p] = "idle"]
  /\ UNCHANGED <<disk, cache, pins, lh, outstanding, wrote, k, boot,
                 panicked, crashes>>

-----------------------------------------------------------------------------
(* The machine stops, and starts again with what is on the disk.           *)
Crash ==
  /\ crashes < MaxCrash
  /\ crashes' = crashes + 1
  /\ cache' = home
  /\ pins' = [b \in Block |-> 0]
  /\ lh' = <<>>
  /\ outstanding' = 0
  /\ committing' = FALSE
  /\ pc' = [p \in Proc |-> "idle"]
  /\ asleep' = {}
  /\ wrote' = [p \in Proc |-> {}]
  /\ k' = 0
  /\ boot' = "read_head"
  /\ panicked' = ""
  /\ UNCHANGED disk

\* recover_from_log, called by log_init before any process runs
ReadHead ==
  /\ boot = "read_head"
  /\ lh' = head
  /\ k' = 0
  /\ boot' = "install"
  /\ UNCHANGED <<disk, cache, pins, outstanding, committing, pc, asleep,
                 wrote, panicked, crashes>>

\* Mutant: install_trans drops the pins of log_write in a recovery as well.
RecoverUnpins ==
  /\ boot = "install" /\ k < Len(lh)
  /\ home' = Installed(home, k + 1)
  /\ cache' = Installed(cache, k + 1)
  /\ pins' = [pins EXCEPT ![lh[k + 1]] = @ - 1]
  /\ k' = k + 1
  /\ UNCHANGED <<logd, head, lh, outstanding, committing, pc, asleep, wrote,
                 boot, panicked, crashes>>

RecoverInstall ==
  /\ boot = "install" /\ k < Len(lh)
  /\ home' = Installed(home, k + 1)
  /\ cache' = Installed(cache, k + 1)
  /\ k' = k + 1
  /\ UNCHANGED <<logd, head, pins, lh, outstanding, committing, pc, asleep,
                 wrote, boot, panicked, crashes>>

RecoverClear ==
  /\ boot = "install" /\ k = Len(lh)
  /\ lh' = <<>>
  /\ head' = <<>>
  /\ boot' = "up"
  /\ UNCHANGED <<home, logd, cache, pins, outstanding, committing, pc, asleep,
                 wrote, k, panicked, crashes>>

-----------------------------------------------------------------------------
CommitStep(p) == \/ WriteLog(p) \/ CommitPanic(p) \/ WriteHead(p)
                 \/ Install(p) \/ ClearHead(p) \/ EndCommit(p)

Recover == ReadHead \/ RecoverInstall \/ RecoverClear

Next == \/ \E p \in Proc :
             \/ StartOp(p) \/ BeginSleep(p) \/ BeginOp(p)
             \/ \E b \in Block : \/ \E d \in Data : LogWrite(p, b, d)
                                 \/ WritePanic(p, b)
             \/ EndOp(p) \/ CommitStep(p)
        \/ \E b \in Block : Evict(b)
        \/ Crash
        \/ Recover

Spec == Init /\ [][Next]_vars

\* A process that runs keeps running: its operation ends after finitely many
\* steps, a commit and a recovery go on until they are done.  begin_op gives
\* no process precedence, so nothing more than that is assumed of it.
FairSpec == /\ Spec
            /\ WF_vars(Recover)
            /\ \A p \in Proc : /\ WF_vars(BeginSleep(p) \/ BeginOp(p))
                               /\ WF_vars(EndOp(p))
                               /\ WF_vars(CommitStep(p))

-----------------------------------------------------------------------------
(* The blocks the header on the disk names count with their logged          *)
(* contents: that is what a recovery makes of the disk.                     *)
Durable == [b \in Block |->
              IF b \in Range(head)
              THEN logd[CHOOSE i \in DOMAIN head : head[i] = b]
              ELSE home[b]]

\* What a reader sees; before log_init is done nobody reads.
Current == IF boot = "up" THEN cache ELSE Durable

Phase == [p \in Proc |-> CASE pc[p] = "op" -> "in"
                           [] pc[p] \in CommitPc -> "sync"
                           [] OTHER -> "out"]

Tx == INSTANCE TxDisk WITH durable <- Durable, current <- Current,
                           phase <- Phase

(* A crash at any moment, the recovery included, leaves either all or none  *)
(* of what the operations committed together wrote (the log implements the  *)
(* transactional disk).                                                     *)
ImplementsTxDisk == Tx!Spec

(* A home block is overwritten only with contents that a header on the disk *)
(* has committed: the log is written ahead of the data.                     *)
WriteAhead ==
  [][\A b \in Block : home'[b] # home[b] =>
        \E i \in DOMAIN head : head[i] = b /\ logd[i] = home'[b]]_vars

(* A buffer that differs from the disk is named in the log header and       *)
(* pinned, so neither the commit nor the cache can lose it.                 *)
DirtyPinned ==
  Up => \A b \in Block : cache[b] # home[b] => b \in Range(lh) /\ pins[b] > 0

(* While the log is being copied and installed no operation is in progress: *)
(* the assertion of end_op, "log_state committing".                         *)
CommitAlone ==
  committing => outstanding = 0 /\ \A p \in Proc : pc[p] # "op"

(* Who sleeps in begin_op will be woken: an operation or a commit is still  *)
(* to end.                                                                  *)
SleepersHaveWaker == asleep # {} => outstanding > 0 \/ committing

(* begin_op reserves room for every operation it admits: the log is full    *)
(* only when every operation in progress has logged its MAXOPBLOCKS blocks. *)
(* "log_write: log full" (log.c:99) is left for an operation that logs one  *)
(* of its own blocks again in a log that is exactly full.                   *)
RoomReserved ==
  LogFull => \A p \in Proc : pc[p] = "op" => Cardinality(wrote[p]) = MaxOp

(* Whenever processes wait in begin_op, one of them or another gets in,     *)
(* unless the kernel stops.                                                 *)
SomeoneAdmitted ==
  (\E p \in Proc : pc[p] = "begin")
    ~> (\/ \E p \in Proc : pc[p] = "op"
        \/ boot # "up" \/ panicked # "")
=============================================================================
