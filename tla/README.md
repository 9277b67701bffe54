# A TLA+ model of the OSCode kernel (`扩展实验1`)

The repository is a teaching kernel for RISC-V in C. `扩展实验1` is its current
version; `whu-oslab-lab2` … `lab7` and `Report(各lab分开)` keep earlier stages of
the same kernel and are not modelled. Paths below are relative to `扩展实验1/`.

## 1. The system

### How it runs

`start.c` boots two harts. Hart 0 runs `scheduler()`; hart 1 starts, turns its
interrupts on and then only takes timer ticks and device interrupts. So at most
one process runs at any moment, and concurrency is of three kinds:

* the timer interrupt preempts the running process anywhere outside a section
  under a spinlock (`spinlock_acquire` turns interrupts off on the hart), also
  in the kernel;
* interrupt handlers on either hart change shared state (`wakeup`, `proc_age`);
* the machine may stop between two writes to the disk.

A section under a spinlock is therefore one step of every module, and a function
that takes a lock several times is several steps. This is the rule by which
actions were cut.

### Components

| part | state | operations | what is hard | what makes it correct |
|---|---|---|---|---|
| message queues `kernel/ipc/msg.c` | 8 rings with key, head, tail, count | `msg_get/send/recv` | one wait channel for two conditions; `msg_get` searches twice and unlocks in between; kill | FIFO per queue, nobody sleeps on a ring that has changed, one queue per key |
| log `kernel/fs/log.c` | header on disk and in memory, `outstanding`, `committing` | `begin_op`, `log_write`, `end_op`, `commit`, recovery | crash between any two block writes, group commit, admission, pins | all or nothing, write-ahead, never full, nobody waits for ever |
| processes `kernel/proc/proc.c` | `proc_table`, `next_pid` | create, fork, exit, wait, kill, sleep, wakeup | state changes before the switch, exit against wait, parents as raw pointers | no missed exit, reaped once, only one process runs |
| scheduler `kernel/proc/proc.c`, `kernel/trap/trap_kernel.c` | queues, slices, `wait_ticks`, boost counter | `scheduler`, `proc_tick/age/boost`, `setpriority` | preemption in the middle of the handler, aging against boost | slices kept, no starvation |
| pipes and open files `kernel/fs/pipe.c`, `file.c`, `kernel/syscall/sysfile.c` | ring, `readopen/writeopen`, `ftable`, `ofile` | `pipealloc/close/read/write`, `filealloc/dup/close`, `fdalloc` | last close against reuse of the slot, failures in the middle of `pipe()`, files of zombies | a stream, references add up, page freed when unreachable |
| buffer cache `kernel/fs/bio.c`, `lib/sleeplock.c` | buffers, reference counts, recency list, sleep locks | `bget`, `bread`, `bwrite`, `brelse`, `bpin` | two misses of one block, recycling against waiters and pins | one copy per block, had by one process |
| inodes, directories `kernel/fs/fs.c`, `dir.c` | inode cache, directory entries, link counts | `iget/iput/ilock`, `inode_create`, open, link, unlink, close | the last `iput` against create and unlink, calls outside a transaction | references, links, types and locks agree |
| virtual memory, page allocator, loader `kernel/mem`, `proc/exec.c` | page tables, free pages, `p->sz` | fork, exec, sbrk, exit, wait | partial failure, page by page beside others | each page given back once |
| disk driver `kernel/dev/virtio_disk.c` | rings, descriptors | `virtio_disk_rw`, interrupt, polling | 8 descriptors, completion out of order, interrupt against the look at the ring | each request ends once, data in time |
| kernel log `kernel/lib/klog.c` | byte ring | write, read, level | overrun between two reads | newest bytes, in order, the rest counted |
| traps, spinlocks `kernel/trap`, `lib/spinlock.c` | `sepc`, `sstatus`, `stvec`, `ncli`, `intena` | user and kernel trap, timer, `push_off/pop_off`, `swtch` | nested handlers, preemption inside a handler, state kept per hart and not per process | `sret` goes where the trap came from |
| system calls, console, boot, user programs | | | sequential | |

Interaction: system calls enter the components from `usertrap`; every component
sleeps and wakes through `sleep(chan, lock)`/`wakeup(chan)` of `proc.c`; the file
system calls bracket their block writes with `begin_op`/`end_op`; the log pins
buffers in the cache; the timer drives the scheduler. `PROJECT.json` lists every
part with its status, and every hazard at the line where it bites.

## 2. Modules

| module | models | composed with |
|---|---|---|
| `MsgService` | what the queues promise: bounded FIFO boxes | |
| `MsgQueue` | `msg.c`, with `sleep`/`wakeup`/kill as its calls see them | refines `MsgService` |
| `MsgQueueProofs` | theorems on `MsgQueue` | |
| `TxDisk` | what the log promises: a disk changed by whole transactions | |
| `Log` | `log.c` block by block, with the pins of `bio.c`, crash and recovery | refines `TxDisk` |
| `LogProofs` | theorems on `Log` | |
| `Proc` | life of a process: `proc.c` and the `killed` checks of `usertrap` | |
| `ProcProofs` | theorems on `Proc` | |
| `Mlfq` | queues, slices, aging, boost, the timer handler | |
| `MlfqProofs` | theorems on `Mlfq` | |
| `Pipe` | `pipe.c`, `file.c` and the descriptors of `sysfile.c`, fork, exit, wait | |
| `PipeProofs` | theorems on `Pipe` | |
| `BlockStore` | what the cache promises: one content per block, one owner | |
| `Bcache` | `bio.c`, `sleeplock.c`, the pins of `log.c` | refines `BlockStore` |
| `BcacheProofs` | theorems on `Bcache` | |
| `VirtioDisk` | `virtio_disk.c` and the device | in `MCMachine` |
| `StorageProofs` | theorems on `VirtioDisk` and `Inode` | |
| `Klog` | `klog.c` | in `MCMachine` |
| `Trap` | traps, locks and switches on hart 0 | in `MCMachine` |
| `MachineProofs` | theorems on `Klog`, `Trap`, `Memory`, and the types of `MCMachine` | |
| `Memory` | `pmem.c`, `vmem.c` with fork, exec, sbrk, exit, wait | in `MCMachine` |
| `Inode` | `fs.c`, `dir.c`, the path calls of `sysfile.c` | in `MCMachine` |
| `MC*` | instances for TLC | |

**MsgQueue.** `queues` is the array of rings; `call[p]` is where process `p` is in
its system call; `sleeping[p]` the channel it sleeps on. `FindStep` is one turn of
the first loop of `msg_get`, `AllocStep` one of the second: the lock of a queue is
given up between turns. `handed` remembers which queue was returned for which key,
and `call[p].known` whether that was so when the call of `p` began: `HandedStable`
says that such a call finds the queue in its first pass, whoever opens other queues
meanwhile. `MCMsgFifo` explores two workloads in one run, messages through one queue
and three callers of `msgget` with two keys. `SendSleep`/`SendMessage` and `RecvSleep`/`RecvMessage`
are the stretches of `msg_send`/`msg_recv` under the queue's lock. A message is a
body and a length: the length matters because a short buffer truncates.

**Log.** `home`, `logd`, `head` are the disk; `cache`, `pins`, `lh`,
`outstanding`, `committing` are memory. Each block write of `commit` is an action
(`WriteLog`, `WriteHead`, `Install`, `ClearHead`), so `Crash` may fall between any
two. `Recover*` is `recover_from_log`. `Evict` is `bget` recycling a buffer nobody
holds. `LogWrite` takes any block, also one the operation has logged before, as
`balloc` followed by `writei` does; when the log is exactly full, that is the panic of
`log.c:99` (`WritePanic`). Panics stop the kernel until the next start.

**Proc.** The fields of `struct proc`, `pc[p]` for where the process is, `cur`
for `c->proc`, and `leaving` for the window between the change of state in
`sleep`, `yield`, `exit_process` and the call of `swtch`, in which interrupts are
on. `creator` is a history variable. A pass of `wait_process` is one step: it
holds `proc_table_lock` throughout. `parent` is a slot, as in the code, so the children
of a process that has been waited for belong to whoever takes its slot next.
`MCProcLife` explores two workloads in one run: creation, exit and wait in four slots, so
that this happens, and sleeping and kills in three.

**Mlfq.** A tick is one step unless it ends a time slice: then `yield` leaves the
handler and `tail` remembers that the process has the rest of it (aging, boost)
still to run, which `Pick` does. Hart 1 ages but does not boost. The search of
`scheduler` is one step for each process it looks at (`LookOn`, `Pick`): it holds no
lock in between and interrupts are on, so ticks, wakeups and hart 1 change the queues
under it.

**Pipe.** `fds[p]` is `p->ofile`, `files` the file table, `pages` the pages pipes
live in. `fileclose` is three steps: `CloseRef` under `ftable.lock`, `CloseLook`,
which reads `f->writable` without a lock, and `PipeClose` under the pipe's lock;
`call[p].files` are the files a call holds and has not named or closed yet.
`ReadStep`/`WriteStep` are the loops of `piperead`/`pipewrite` from taking the lock
to returning or sleeping. `nread` and `nwrite` are counters modulo `Wrap`. `Reap`
is the part of `free_process` that closes files; it panics as the code does. In
this module any pid may be killed at any time; which process calls `kill` is a
matter of `Proc`.

**Bcache.** `order` is the list from `head.next` on; `holder` the sleep lock of a
buffer; `pins[b]` the references `log_write` has taken for block `b`. A call goes
through the places `lock`, `read`, `held`, `changed`, `write`, `unpin`, `drop` of
`pc`. `Bget`, `Acquire`, `Brelse` and `Drop` are each one section under a spinlock;
a request to the disk is two steps. A process that has two blocks at a time is two
members of `Proc`.

**VirtioDisk.** `avail` and `used` are the entries that are in the rings and not
taken out; `working` the requests the device has. `Submit`, `NoThree`, `Return` and
`SleepAgain` are the stretches of `virtio_disk_rw` under `disk.lock`; the handler is
two steps, `Ack` and `Scan`, with the device at work between them. `Fetch` and
`Finish` are the device. While `boot` holds there is no process and the one caller
polls. `buffer` and `platter` say on which side the data of a request is.

**Klog.** Bytes are numbered; `written`, `taken` and `dropped` count them.

**Trap.** `frames[s]` is the stack of activations of process or scheduler `s`;
`back` in an activation is the address it should return to, `sepc` the address the
register holds. `YieldInHandler` is `yield` in `timer_interrupt_handler`: the
activation is marked `away` and, when it is resumed, runs with interrupts on, as
`swtch` keeps no `sstatus`. `ncli`/`intena` are those of hart 0.

**Memory.** The free pages of the two regions are counted, a page table is the set
of pages it maps, sizes are in half pages. `Fork` is one step (it holds the child's
lock), `exec` and `sbrk` go page by page. The exits of `exec_process` and `sys_exec`
are `FetchFails`, `ExecFails` (label `bad`) and `Commit`.

**Inode.** One directory with plain files. A call is cut where it waits for a sleep
lock and in `iput`, which gives `icache.lock` up after its test: `IputLast`,
`FreeLock`, `FreeInode`, `FreeUnlock`, `FreeUnref`. `sys_unlink` takes the name away
and gives up the directory's lock (`UnlinkLock`) before it counts the link
(`UnlinkCount`). `NoInodes` is the panic of `ialloc`. `inOp` says who is between
`begin_op` and `end_op`. `trouble` names the path on which the code left what the
others rely on; the model stops there.

**MCMachine.** These five share no variable and no lock with one another, so their
product would multiply states and show nothing more. The run explores each on its
own: `on` chooses which of them works, in one specification with the disk's
fairness.

## 3. Runs

| run | question | bounds |
|---|---|---|
| `msg_fifo` | FIFO, truncation, blocking, the ring's invariant, a queue handed out keeps its key, refinement of `MsgService` | 3 processes (two sleepers and a waker), ring of 2 (wrap-around), 2 lengths, one killable; 3 callers of `msgget`, 2 keys, 2 queues (one caller takes a free queue between the passes of another, of its key or of the other key) |
| `msg_dup` (violated) | one queue per key | 2 callers, 1 key, 2 queues |
| `log_atomic` | atomicity, write-ahead, pins, refinement of `TxDisk` | 2 operations that may share a transaction, 4 blocks for 3 buffers (so the kernel may panic), 2 crashes (so a recovery is cut short) |
| `log_space` | admission, sleeping and waking, who may find the log full | 3 processes for 2 log blocks, 1 crash |
| `proc_life` | only one runs, no exit missed, reaped once, what wait answers | 4 slots, 5 pids (a parent's slot is used again while its child lives); with 2 kills and a channel, 3 slots, 4 pids |
| `proc_wait` | wait returns, kill reaches a computing process | 3 slots, 1 creation, 1 kill, one channel to sleep on for ever |
| `mlfq` | slices under changing priorities, no starvation | 2 processes of 2 priorities, 2 levels with the kernel's slices of 2 and 4, aging after 2, boost every 5, one call of `setpriority`, both harts, exits and forks |
| `pipe_files` | references, the page of a pipe, true ends | parent and child, 3 files, 2 descriptors each, ring of 1 |
| `pipe_stream` | a stream, nobody sleeps who could go on | parent and child, ring of 2 with counters modulo 4, writes of 2, reads of 1 and 2, one killable |
| `pipe_reap` (violated) | no panic | parent and child, one pipe |
| `bcache` | one copy, nobody's buffer recycled, no lost wakeup, refinement of `BlockStore` | 3 processes, 3 blocks, 2 buffers (so `bget` may panic), 1 block in the log's header, 2 pins |
| `machine`: disk | descriptors, rings and sleepers of a request fit; data in time; every request ends | 4 callers, 8 descriptors (`NUM`: two requests fit, and two callers that wait take and give back the two that are left, each waking the other); one caller writes, reads and may be killed, the others read (`Reader`) |
| `machine`: klog | newest bytes in order, nothing uncounted | ring of 4, records of 1 to 3, 10 bytes |
| `machine`: traps | every return goes where it should | 2 processes, 3 activations on a stack, 2 locks at once, slices of 2 |
| `machine`: memory | every page given back once | 3 processes in 6 user and 20 kernel pages: both may run out; programs of 1 and 2 pages, sbrk of -1 and 3 half pages |
| `machine`: inodes | references, links, types, locks; freed by the last reference | 2 processes, 2 inodes, 2 names, 1 descriptor each |

Bounds. In each instance a table, ring, log or cache is the smallest in which it
gets full, empty and wraps, while others wait for it; processes are the fewest
that fill the roles of the hazard (two who sleep and one who wakes, two who race,
a parent and a child whose slot is used again); every crash count allows a crash
in a recovery. Bounds named `Max…` (`MaxPid`, `MaxKill`, `MaxCrash`, `MaxPin`,
`MaxSet`, `MaxPins`,
`MaxBytes`, `MaxDepth`, `MaxLocks`, `MaxPage`) only end the exploration: they stand in the guards of the actions they
count. Symmetry is used for processes and blocks that are interchangeable and only
in runs without liveness. Deadlock is switched off in every run, since in every
module all processes may have exited, sleep for a partner that never comes, or
the kernel may have stopped.

`mlfq` needs its constants in a relation that they have in the kernel. An aged
process must climb to the first queue, wait for the end of the slice that is running
and get its turn there before the next boost returns it to the queue of its priority.
In the kernel the climb takes at most 2·16 ticks, the slice of the second queue 3 more
and the turns of the 14 others in the first queue 2 each: 63 < 64, with `NPROC` = 16.
(A tick that falls into the search adds one; hart 1, which ages too, makes the climb
half as long.) In the run it is a climb of 2 and 3 more ticks of the competitor's slice
of 4, boost every 5: the smallest period for which the property holds, with 4 TLC finds
a process that starves. A competitor that yields or sleeps inside its slice of 2 stays
in the first queue. The run has two levels, because three with slices 2, 4, 8 need an
aging threshold of 8 or more and a state space to match.

`Trap` assumes that the clock does not tick twice between the scheduler's choice of
a process and its switch to it: the window is a few instructions long, a tick
`INTERVAL` = 1000000 cycles of the clock. `MinSlice` = 2 is the kernel's
`mlfq_quantum[0]`. `MaxDepth` bounds a depth that nothing in the code bounds.

## 4. Fairness

* `Mlfq!FairSpec`: `WF` of `LookOn \/ Pick`, because `scheduler` is a loop that never
  stops and runs with nothing else on its hart; `SF` of `TimelyTick`, because
  `timer_vector` rearms the timer at every tick. `TimelyTick` allows one tick of hart 0
  while the scheduler looks for a process that can run, not two: the search takes two
  turns of the table at most, a tick is `INTERVAL` = 1000000 cycles.
* `Proc!FairSpec`: `SF` of `Schedule` per process is what `Mlfq` shows
  (`NoStarvation`); `WF` of `Tick` or `Swtch`: the timer, and a straight line of
  code with nothing to wait for; `SF` of `Return`, `ExitWake` and `WaitStep`: they
  are a few instructions long, far shorter than a time slice, so a process that is
  scheduled for ever gets through them. Nothing is assumed of system calls a
  process might make, of `kill`, or of devices.
* `VirtioDisk!DiskFairness`: `WF` of `Fetch` and of each `Finish`: a device that
  works; `WF` of `Ack \/ Scan`: a pending interrupt is delivered and its handler runs
  to its end; `WF` of `Poll`: a loop that runs alone at boot. Nothing is assumed of
  the callers: `RequestEnds` ends with the caller awake, not with its return.
* `Log!FairSpec`: `WF` of each step of the log code of each process. Such a step
  waits for nothing but a disk request. Nothing is assumed of `StartOp`,
  `LogWrite` or crashes: a process may never call the file system.

`MsgQueue`, `Pipe`, `Bcache` and the other components of `MCMachine` have no
fairness: a partner need never come.

## 5. What is proved

All proofs hold for every value of the constants under the assumption named in the
module. These ask for no more than the code has: a table, ring or log that is not
empty (`MsgAssumption`, `MlfqAssumption`, `ProcAssumption`, `LogAssumption`), a log
that fits into the cache (`LogAssumption`: `NBUF` = 3·`MAXOPBLOCKS`), at least one
request's three descriptors (`DiskAssumption`), records shorter than the ring
(`KlogAssumption`), a finite number of processes (`BcacheAssumption`: `NPROC`), a
counter whose range is a multiple of the ring's size (`PipeAssumption`: 2^32 and
512), slices of at least two ticks (`TrapAssumption`: `mlfq_quantum[0]`), memory
enough for the first process (`MemoryAssumption`: two user pages, seven of the
kernel), finitely many processes and names (`InodeAssumption`: `NPROC`, names of 14
characters).

* **LogProofs.** The inductive invariant `IInv` is `TypeOK` with five parts.
  `CountInv`: `outstanding` is the number of operations under way, and a commit is
  alone. `BootInv`: before recovery is over nothing runs. `IndexInv`: the lists are
  without doubles and the copy index stays inside. `DirtyInv`: a buffer ahead of
  its home block is in the header and pinned. `CopyInv`: how far the log area
  agrees with the buffers at each stage of the commit. `WriteAhead`, `DirtyPinned`
  and `CommitAlone` are not inductive: that the header names what is copied needs
  `CopyInv`, which needs that nobody changes a buffer during a commit (`CountInv`).
  The refinement maps the disk of `TxDisk` to what recovery would leave behind: the
  header's copies where there are some, the home blocks elsewhere. The step that
  commits is the one write of the header; every other step is a stutter.
  `SleepersWoken` assumes that one operation fits into the log
  (`MAXOPBLOCKS <= nlog - 1`, which `log_init` does not check) and adds `WaitInv`;
  `RoomForAll` adds `RoomInv`, the blocks logged plus the shares still reserved fit,
  and has no assumption beyond `LogAssumption`: blocks may be logged twice. It says how
  far the reservation of `begin_op` goes: the log is full only when every operation in
  progress has logged its `MAXOPBLOCKS` blocks, so the panic of `log.c:99` is left for
  one that logs a block of its own again.
* **MsgQueueProofs.** `TypeOK`, then `SleepersBlocked`, `HandedStable` and `RingOK`,
  each inductive together with `TypeOK`. What `RingOK` rests on is the arithmetic of
  a window modulo `Depth` (`PlacesApart`, `NextPlace`, `WindowSeq`): a slot outside
  the window may be written without changing what the window reads. The refinement
  maps the box of a key to the window of its queue: `SendMessage` is `Accept`,
  `RecvMessage` is `Deliver`, `AllocStep` that finds a free queue is `Open`, and
  everything else, sleeping and waking included, is a stutter.
* **ProcProofs.** `IInv` is `TypeOK` with `PlaceInv` (which places go with which
  state), `HartInv` (who leaves is there, and in the table), `OnlyCurrentRuns` and
  `ExitNotMissed`. The last two are inductive only with the others: a process in
  `exit` must be known to be a zombie so that it is not scheduled again, and a
  parent asleep in wait must sleep on itself for the zombie's wakeup to reach it.
  `ZombieReaped` follows from `IInv` step by step. `WaitAnswers` needs that pids are
  never given twice and that a creator is older than its child (`PidInv`), and that the
  children of a process that is still there point to its slot: so -1 means that nothing
  is left, and a foreign child can only be that of an earlier process of the slot.
* **MlfqProofs.** `SliceBounded` is inductive with `TypeOK` alone. The length is in
  `LevelOf` (every priority has a queue, by division) and in `Candidate` (the search
  stays in the table).
* **BcacheProofs.** To `TypeOK`, `SleepersBlocked` and the parts of `CacheCoherent`
  the invariant adds `PlaceInv` (what a place in the code says of the buffer),
  `PinInv` (a logged block is pinned, a pinned one is in a buffer) and `CleanInv` (a
  buffer ahead of the disk is about to be written or logged). That references add
  up makes an unreferenced buffer one that nobody is about to use, so `bget` may
  recycle it; that `bget` panics only with a full cache is a count of the blocks
  wanted against buffers (`FullCache`). The refinement gives a block the content of
  its valid buffer, or else of the disk, and the owner that is between the end of
  `bread` and the start of `brelse`.
* **PipeProofs.** The references of a file are counted twice, as the descriptors and
  as the files named in calls under way, and the two cardinalities sum to `ref`
  (`FilesAccounted`). Fork and reap move a whole row of descriptors at once
  (`RowCounts`). For pages `PageInv` says that the open files of a page, the closes under
  way and the cleared flags are two at most together, and that while no flag is cleared
  there are two files or closes. This survives when `fileclose` clears the wrong flag,
  where a flag says nothing of its own end, and gives both directions of
  `PagesAccounted`: what is reached is in use, and a page in use that nothing reaches has
  exactly one flag cleared.
  `HoldInv`: who reads or writes holds the end it uses. `SleepersBlocked` and
  `EndIsTrue` follow from these. `StreamKept` needs `RingInv` (no more bytes than the
  ring has room for) and that counters wrap at a multiple of the ring's size.
* **StorageProofs.** For the driver `ChainInv` gives each request its own three descriptors,
  `RingInv` puts each request that is not done in one of the avail ring, the device
  and the used ring, `CountInv` counts: free descriptors and three per busy caller
  are all of them. `DataInv` says on which side the data is at each point.
  For inodes, `ip->ref` is the size of two sets, the descriptors and the calls that
  hold the inode, and `nlink` of the names and of the calls between a name and its count (`Linking`:
  links about to be named, names already taken away). So
  `ref == 1 && nlink == 0`, tested by `iput` under `icache.lock`, says that nothing
  else leads to the inode, and `FreeingInv` keeps it so until the inode is free,
  though the lock is given up: no name and no descriptor can come to an inode that
  only this call has. After that `ialloc` may give it to one other call, which waits
  for the lock. `ValidInv` (what has been locked once has been read) is why the test
  cannot miss for want of `ip->valid`; the one call whose reference goes untested is
  the one that has just freed the inode.
* **MachineProofs.** `KlogConsistent` is inductive with the types: a record that
  overruns the reader moves the read position by what it drops. For `Trap` the
  invariant describes each stack from the bottom up (`StackFits`): which place may be
  interrupted by which, that a return address names the place below, and, for
  whoever is switched out, which place it will go on from (`Parked`). The registers
  of the hart are then those of the topmost activation (`HartFits`), except after a
  handler that has been away.
  For `Memory` the invariant says what a process has at each place of fork, exec and
  sbrk: an address space that fits its size, and of the one being built as much as
  has been allocated (`SpaceFits`, `ImageFits`). Pages are counted as pairs of a
  process and a page, so that a step, which changes one process, changes the count by
  what that process gains or loses (`TaskStep`). The free pages then follow, and what
  a failure gives back is what it took.
  `TypesOK` is proved of the five components side by side, as `MCMachine` runs them.
  It is more than the shape of records: that the free pages never exceed the region
  follows from the sums of pages, and that `ref` and `nlink` stay below what the
  processes can hold from the sets they are the sizes of.

Only model-checked: liveness (`NoStarvation`, `SomeoneAdmitted`, `WaitReturns`,
`KillReachesUser`, `RequestEnds`) and everything about `ENABLED`, which the prover
does not handle. The theorems hold in the model: that the operators of a module say
what the C code does is what the lines named with each definition are for.

## 6. Where code and text disagree

* `msg_dup`: two processes that call `msgget` with a new key at the same time get
  two queues, because the search and the allocation are separate passes.
* `pipe_reap`: a child that exits as the last holder of a pipe's end stops the
  kernel when its parent waits for it: `free_process` closes the file with the
  child's lock held, and `wakeup` takes it again.

Defects that no document denies, but a reader should know:

* Pins: `log_write` pins a buffer at every call, a commit unpins it once. An
  operation that logs a block twice, as `balloc` followed by `writei` does, leaves a
  pin, until `bget` finds no buffer and panics. `Bcache` counts the pins;
  `CacheCoherent` says that `bget` panics only when pins and users fill the cache.
* `log_write` looks for room before it looks whether the block is in the log already,
  and panics for an operation within its reservation when the log is exactly full
  (`Log`, `WritePanic`; `RoomReserved` says that this case is the only one).
* A process that ends leaves its children the pointer to its slot (`proc.c:204`): the
  next process of the slot waits for them, and gets pids it has never forked. One of
  them may even be its own parent: then each is waited for by the other
  (`WaitAnswers` says that no other foreign child is ever returned).
* `setpriority` starts a new time slice (`proc.c:264`): a process that sets its own
  priority at every tick is never preempted, although `Report.md:161` claims that
  boosting solves starvation (`MaxSet` bounds the number of calls).
* `fileclose` clears `f->writable` before it tells `pipeclose` which end was closed,
  so the last writer is taken for a reader, readers wait for more instead of seeing
  the end, and the page of the pipe is not given back, unless the slot has been
  reused in between (`Pipe`, `CloseLook`). So every ordinary pipe loses its page:
  `FilesAccounted` says that no page is lost in another way, and none given back early.
* `pipe()` loses a file when there is no second one (`FilesAccounted` excepts it).
* A timer handler that was preempted is resumed with interrupts on; one that comes
  between its `w_sepc` and its `sret` replaces `sepc`, and `sret` goes to the wrong
  place (`Trap`: `wild` = "preempted", which `HandlersReturn` excepts).
* `sys_close` and `free_process` call `iput` outside a transaction; the last close of
  an unlinked file panics in `log_write` (`Inode`: `trouble` = "close").
* `sys_open` without a free descriptor gives the inode back twice ("open").
* `sys_link`, when the new name exists or its directory does not, leaves the inode
  locked for good ("link").
* `ialloc` panics when the file system has no inode left (`Inode`: `trouble` = "ialloc").
* `iput` drops its reference after it has freed the inode, untested: a file that
  another process has made of that inode meanwhile, and unlinked, is never freed
  (`FreedByTheLast` excepts exactly that).
* `exec` loses the pages it has mapped of a segment when memory runs out in the
  middle of it (`MemorySafe` excepts exactly that step).

* `proc.c:626`: `wait` may sleep in `iput` with `proc_table_lock` and the zombie's
  lock held.

And in parts that are left out of the models: the driver never looks at the status
of a request (`virtio_disk.c:305`); a handler resumed with interrupts on can be
preempted again, ever deeper on a kernel stack of one page (`trap.S:11`); a file
that is open and without a name when the machine stops is never freed (`fs.c:195`);
`dirlink` stores 13 characters of a name of 14 or more and `namecmp` compares 14, so
it is not found again (`dir.c:62`); a file can be made in a directory that has just
been removed (`fs.c:335`); a log record of full length gets no newline
(`klog.c:99`); `msg_recv` loses the message when `copyout` fails (`sysmsg.c:54`);
`kill` wakes a process in `begin_op`, in a sleep lock or in `msg_recv`, which does
not look at `killed` and sleeps again.

`FilesSafe`, `TrapSafe`, `MemorySafe` and `FilesAccounted` are stated so that each
exception is one named step: everything else that could go the same way is still a
violation. The defects themselves are reached and not caught: the panics in `log_write`
and `ialloc`, the pins left over, the page of a pipe, the lost file of `pipe()`, the
preempted handler, the bad paths of `sys_open`, `sys_link` and `close`, and the pages of
a segment. No document of the repository denies them.

## 7. Not modelled, and why

`PROJECT.json` gives the reason for each part. Left out for good: the console, UART
and interrupt controller (device registers), `print.c` and `string.c` (sequential, no
state), boot and the context switch (before there is concurrency, or one instruction
of the model), system call dispatch (a table), user programs (the modules let a
process make any call at any time).

The earlier course stages, `whu-oslab-lab2` … `lab7` and `Report(各lab分开)`, hold
most of the repository's lines. They are snapshots of the same kernel before the parts
modelled here were added: what is the same code would give the same modules again,
and what differs was replaced. Their long `main.c` files are start-up tests that run
alone, one call after another.

Left out of modelled parts: reading and writing file data (`readi`, `writei`, `bmap`,
`balloc`, `bfree`), subdirectories, `chdir` and `fstat`; addresses and permissions of
pages; `copyin`/`copyout`; exceptions in the kernel; hart 1, except for its ticks.

Simplifications inside modelled functions: calls that return -1 for a bad argument
before they touch anything (`msg.c:20`, `msg.c:56`) are no steps. `read` and `write` of a
pipe transfer one chunk; the loops of `sys_read` and `sys_write` around them are further
calls of the process. `fork` that fails gives the child back before it has a descriptor
(`proc.c:338`), so nothing in `Pipe` changes. An unexpected `scause` in user mode kills
the process (`trap_kernel.c:344`), which in `Proc` is a `Kill` between two steps.
`log_write` is one step of `Bcache`, as its caller holds the buffer. In `Memory` a program
has one segment and an address space one table of the third level (2 MB).

## 8. Plan

Done: all components above, and a proof of every safety property and action property
the runs check. What is left:

1. Data blocks of inodes (`balloc`, `bfree`, `bmap`) under the transactions of
   `TxDisk`, with a crash between unlink and the last close.
