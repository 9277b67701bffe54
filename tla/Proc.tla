-------------------------------- MODULE Proc --------------------------------
(***************************************************************************)
(* The life of a process: kernel/proc/proc.c, with the checks of the       *)
(* killed flag in usertrap (kernel/trap/trap_kernel.c).                    *)
(*                                                                         *)
(* One hart schedules.  Spinlocks switch interrupts off, so what a process *)
(* does under one lock is one step; between two locks a timer tick may     *)
(* preempt it and a device interrupt may wake a sleeper.  A process that   *)
(* gives up the hart (sleep, yield, exit) first changes its state and      *)
(* then, with interrupts on again, switches to the scheduler: "leaving" is *)
(* that window.                                                            *)
(*                                                                         *)
(* A parent is a slot of the process table, as in the code (a pointer),    *)
(* and so is the channel on which a parent sleeps.                         *)
(***************************************************************************)
EXTENDS Integers

CONSTANTS NSlot,   \* NPROC, the size of proc_table
          Chan,    \* what else a process may sleep on: queues, buffers, the log
          Status,  \* arguments of exit
          MaxPid,  \* bound of the model: processes ever created
          MaxKill  \* bound of the model: calls of kill

Slot == 1..NSlot
None == 0          \* no process: a null pointer

\* main starts two processes; a channel is not a process.
ASSUME ProcAssumption == /\ NSlot \in Nat /\ NSlot >= 2
                         /\ MaxPid \in Nat /\ MaxKill \in Nat
                         /\ Status \subseteq Int
                         /\ Chan \cap (Slot \cup {None}) = {}

VARIABLES state, pid, parent, killed, chan, code,  \* struct proc
          kthread,  \* the process runs p->entry, it has no user part
          pc,       \* where the process is
          result,   \* what its last wait returned: a pid and a status
          cur,      \* c->proc of the hart that schedules
          leaving,  \* cur is about to switch to the scheduler
          nextPid,  \* next_pid
          kills,    \* calls of kill so far
          creator   \* history: pid of the process that created each process

tableVars == <<state, pid, parent, killed, chan, code, kthread, creator>>
vars == <<tableVars, pc, result, cur, leaving, nextPid, kills>>

States == {"UNUSED", "RUNNABLE", "RUNNING", "SLEEPING", "ZOMBIE"}

TypeOK ==
  /\ state \in [Slot -> States]
  /\ pid \in [Slot -> 0..(nextPid - 1)]
  /\ parent \in [Slot -> Slot \cup {None}]
  /\ killed \in [Slot -> BOOLEAN]
  /\ chan \in [Slot -> Slot \cup Chan \cup {None}]
  /\ code \in [Slot -> Int]
  /\ kthread \in [Slot -> BOOLEAN]
  /\ pc \in [Slot -> {"start", "user", "sys", "ret", "wait", "slept", "exit"}]
  /\ result \in [Slot -> Int \X Int]
  /\ cur \in Slot \cup {None}
  /\ leaving \in BOOLEAN
  /\ nextPid \in Nat \ {0}
  /\ kills \in Nat
  /\ creator \in [Slot -> Nat]

\* At the call of scheduler in main: init and the kernel thread of the tests.
Init == /\ state = [s \in Slot |-> IF s <= 2 THEN "RUNNABLE" ELSE "UNUSED"]
        /\ pid = [s \in Slot |-> IF s <= 2 THEN s ELSE 0]
        /\ parent = [s \in Slot |-> None]
        /\ killed = [s \in Slot |-> FALSE]
        /\ chan = [s \in Slot |-> None]
        /\ code = [s \in Slot |-> 0]
        /\ kthread = [s \in Slot |-> s = 2]
        /\ pc = [s \in Slot |-> IF s = 2 THEN "sys" ELSE "start"]
        /\ result = [s \in Slot |-> <<0, 0>>]
        /\ cur = None
        /\ leaving = FALSE
        /\ nextPid = 3
        /\ kills = 0
        /\ creator = [s \in Slot |-> 0]

\* p executes kernel code at l.
At(p, l) == cur = p /\ ~leaving /\ pc[p] = l

\* Where a process goes on after a call of the kernel.
Home(p) == IF kthread[p] THEN "sys" ELSE "ret"

Free == {s \in Slot : state[s] = "UNUSED"}

\* The searches of the table go from its first slot to its last.
First(s, S) == s \in S /\ \A t \in S : s <= t

-----------------------------------------------------------------------------
(* The hart changes hands                                                  *)
Schedule(p) ==
  /\ cur = None /\ state[p] = "RUNNABLE"
  /\ state' = [state EXCEPT ![p] = "RUNNING"]
  /\ cur' = p
  /\ UNCHANGED <<pid, parent, killed, chan, code, kthread, creator, pc, result,
                 leaving, nextPid, kills>>

\* Mutant: proc_tick does not ask whether the process is still running.
TickAny(p) ==
  /\ cur = p
  /\ state' = [state EXCEPT ![p] = "RUNNABLE"]
  /\ cur' = None /\ leaving' = FALSE
  /\ pc' = [pc EXCEPT ![p] = IF @ = "user" THEN "ret" ELSE @]
  /\ UNCHANGED <<pid, parent, killed, chan, code, kthread, creator, result,
                 nextPid, kills>>

\* The timer interrupts p: proc_tick finds it running and its time slice
\* used up, and yield switches before the handler returns.
Tick(p) ==
  /\ cur = p /\ state[p] = "RUNNING"
  /\ state' = [state EXCEPT ![p] = "RUNNABLE"]
  /\ cur' = None
  /\ pc' = [pc EXCEPT ![p] = IF @ = "user" THEN "ret" ELSE @]
  /\ UNCHANGED <<pid, parent, killed, chan, code, kthread, creator, result,
                 leaving, nextPid, kills>>

\* A kernel thread calls yield itself.
Yield(p) ==
  /\ At(p, "sys") /\ kthread[p]
  /\ state' = [state EXCEPT ![p] = "RUNNABLE"]
  /\ leaving' = TRUE
  /\ UNCHANGED <<pid, parent, killed, chan, code, kthread, creator, pc, result,
                 cur, nextPid, kills>>

\* swtch to the scheduler, which clears c->proc.
Swtch(p) ==
  /\ cur = p /\ leaving
  /\ cur' = None /\ leaving' = FALSE
  /\ UNCHANGED <<tableVars, pc, result, nextPid, kills>>

-----------------------------------------------------------------------------
(* usertrap: a process is told to exit when it enters a system call and    *)
(* when it is about to return to user mode.                                *)
GoTo(p, l) ==
  /\ pc' = [pc EXCEPT ![p] = l]
  /\ UNCHANGED <<tableVars, result, cur, leaving, nextPid, kills>>

\* The first half of exit_process: the process becomes a zombie.
Exit(p, s) ==
  /\ code' = [code EXCEPT ![p] = s]
  /\ state' = [state EXCEPT ![p] = "ZOMBIE"]
  /\ pc' = [pc EXCEPT ![p] = "exit"]
  /\ UNCHANGED <<pid, parent, killed, chan, kthread, creator, result, cur,
                 leaving, nextPid, kills>>

\* proc_trampoline returns to user mode without a look at the flag.
Start(p) == At(p, "start") /\ GoTo(p, "user")

Ecall(p) == At(p, "user") /\ IF killed[p] THEN Exit(p, -1) ELSE GoTo(p, "sys")

\* Mutant: only system calls look at the flag.
ReturnAnyway(p) == At(p, "ret") /\ GoTo(p, "user")

Return(p) == At(p, "ret") /\ IF killed[p] THEN Exit(p, -1) ELSE GoTo(p, "user")

-----------------------------------------------------------------------------
(* wakeup, sleep on anything but a child, exit, kill                       *)
Woken(c) ==
  [s \in Slot |-> IF state[s] = "SLEEPING" /\ chan[s] = c
                  THEN "RUNNABLE" ELSE state[s]]

Unchained(c) ==
  [s \in Slot |-> IF state[s] = "SLEEPING" /\ chan[s] = c
                  THEN None ELSE chan[s]]

\* wakeup of a channel, by the running process or by a device interrupt.
Wakeup(c) ==
  /\ \E s \in Slot : state[s] = "SLEEPING" /\ chan[s] = c
  /\ state' = Woken(c)
  /\ chan' = Unchained(c)
  /\ UNCHANGED <<pid, parent, killed, code, kthread, creator, pc, result, cur,
                 leaving, nextPid, kills>>

\* sleep, called first or again by one who finds that it must wait on.
Sleep(p, c) ==
  /\ At(p, "sys") \/ At(p, "slept")
  /\ state' = [state EXCEPT ![p] = "SLEEPING"]
  /\ chan' = [chan EXCEPT ![p] = c]
  /\ pc' = [pc EXCEPT ![p] = "slept"]
  /\ leaving' = TRUE
  /\ UNCHANGED <<pid, parent, killed, code, kthread, creator, result, cur,
                 nextPid, kills>>

Resume(p) ==
  /\ At(p, "slept")
  /\ chan' = [chan EXCEPT ![p] = None]
  /\ pc' = [pc EXCEPT ![p] = Home(p)]
  /\ UNCHANGED <<state, pid, parent, killed, code, kthread, creator, result,
                 cur, leaving, nextPid, kills>>

CallExit(p, s) == At(p, "sys") /\ Exit(p, s)

\* Mutant: a parent that waits is not woken.
ExitQuiet(p) == /\ At(p, "exit")
                /\ leaving' = TRUE
                /\ UNCHANGED <<tableVars, pc, result, cur, nextPid, kills>>

\* The rest of exit_process: the parent, who may be waiting, is woken.
ExitWake(p) ==
  /\ At(p, "exit")
  /\ leaving' = TRUE
  /\ IF parent[p] # None
     THEN state' = Woken(parent[p]) /\ chan' = Unchained(parent[p])
     ELSE UNCHANGED <<state, chan>>
  /\ UNCHANGED <<pid, parent, killed, code, kthread, creator, pc, result, cur,
                 nextPid, kills>>

\* Mutant: a process is made runnable whatever it was doing.
KilledRuns(t) == [state EXCEPT ![t] = "RUNNABLE"]

KilledState(t) ==
  [state EXCEPT ![t] = IF @ = "SLEEPING" THEN "RUNNABLE" ELSE @]

Kill(p, t) ==
  /\ At(p, "sys") /\ state[t] # "UNUSED" /\ kills < MaxKill
  /\ kills' = kills + 1
  /\ killed' = [killed EXCEPT ![t] = TRUE]
  /\ state' = KilledState(t)
  /\ pc' = [pc EXCEPT ![p] = Home(p)]
  /\ UNCHANGED <<pid, parent, chan, code, kthread, creator, result, cur,
                 leaving, nextPid>>

-----------------------------------------------------------------------------
(* create_process and fork_process                                         *)
\* alloc_process finds no slot: the call fails; so do kill and wait calls
\* that find no process.
CallFails(p) == At(p, "sys") /\ GoTo(p, Home(p))

\* Mutant: next_pid is not advanced.
PidStays == nextPid

PidAfter == nextPid + 1

NewParent(p) == p

\* No memory is left for the kernel stack, the trap frame or the copy of the
\* address space: the slot is free again, the pid is used up.
CreateFails(p) ==
  /\ At(p, "sys") /\ Free # {} /\ nextPid <= MaxPid
  /\ nextPid' = PidAfter
  /\ pc' = [pc EXCEPT ![p] = Home(p)]
  /\ UNCHANGED <<tableVars, result, cur, leaving, kills>>

Create(p) ==
  /\ At(p, "sys") /\ nextPid <= MaxPid
  /\ \E n \in Slot :
       /\ First(n, Free)
       /\ state' = [state EXCEPT ![n] = "RUNNABLE"]
       /\ pid' = [pid EXCEPT ![n] = nextPid]
       /\ parent' = [parent EXCEPT ![n] = NewParent(p)]
       /\ killed' = [killed EXCEPT ![n] = FALSE]
       /\ chan' = [chan EXCEPT ![n] = None]
       /\ code' = [code EXCEPT ![n] = 0]
       /\ kthread' = [kthread EXCEPT ![n] = kthread[p]]
       /\ creator' = [creator EXCEPT ![n] = pid[p]]
       /\ result' = [result EXCEPT ![n] = <<0, 0>>]
       /\ pc' = [pc EXCEPT ![n] = IF kthread[p] THEN "sys" ELSE "start",
                           ![p] = Home(p)]
  /\ nextPid' = PidAfter
  /\ UNCHANGED <<cur, leaving, kills>>

-----------------------------------------------------------------------------
(* wait_process: one pass over the table under proc_table_lock             *)
\* Mutant: only a zombie counts as a child (have_child set after the check).
ZombieChildren(p) == {c \in Slot : parent[c] = p /\ state[c] = "ZOMBIE"}

Children(p) == {c \in Slot : parent[c] = p}
Zombies(p) == {c \in Children(p) : state[c] = "ZOMBIE"}

CallWait(p) == At(p, "sys") /\ GoTo(p, "wait")

\* Mutant: the slot is freed before its exit code is read.
TakenLate(c) == <<pid[c], 0>>

Taken(c) == <<pid[c], code[c]>>

\* A zombie is found: free_process and return.
WaitReap(p) ==
  /\ At(p, "wait")
  /\ \E c \in Slot :
       /\ First(c, Zombies(p))
       /\ result' = [result EXCEPT ![p] = Taken(c)]
       /\ state' = [state EXCEPT ![c] = "UNUSED"]
       /\ pid' = [pid EXCEPT ![c] = 0]
       /\ parent' = [parent EXCEPT ![c] = None]
       /\ killed' = [killed EXCEPT ![c] = FALSE]
       /\ chan' = [chan EXCEPT ![c] = None, ![p] = None]
       /\ code' = [code EXCEPT ![c] = 0]
  /\ pc' = [pc EXCEPT ![p] = Home(p)]
  /\ UNCHANGED <<kthread, creator, cur, leaving, nextPid, kills>>

WaitNoChild(p) ==
  /\ At(p, "wait") /\ Children(p) = {}
  /\ pc' = [pc EXCEPT ![p] = Home(p)]
  /\ chan' = [chan EXCEPT ![p] = None]
  /\ result' = [result EXCEPT ![p] = <<-1, 0>>]
  /\ UNCHANGED <<state, pid, parent, killed, code, kthread, creator, cur,
                 leaving, nextPid, kills>>

WaitSleep(p) ==
  /\ At(p, "wait") /\ Children(p) # {} /\ Zombies(p) = {}
  /\ state' = [state EXCEPT ![p] = "SLEEPING"]
  /\ chan' = [chan EXCEPT ![p] = p]
  /\ leaving' = TRUE
  /\ UNCHANGED <<pid, parent, killed, code, kthread, creator, pc, result, cur,
                 nextPid, kills>>

-----------------------------------------------------------------------------
WaitStep(p) == WaitReap(p) \/ WaitNoChild(p) \/ WaitSleep(p)

Syscall(p) == \/ \E c \in Chan : Sleep(p, c)
              \/ Resume(p)
              \/ \E s \in Status : CallExit(p, s)
              \/ \E t \in Slot : Kill(p, t)
              \/ CallFails(p) \/ CreateFails(p) \/ Create(p)
              \/ CallWait(p)

Next == \/ \E p \in Slot :
             \/ Schedule(p) \/ Tick(p) \/ Yield(p) \/ Swtch(p)
             \/ Start(p) \/ Ecall(p) \/ Return(p)
             \/ ExitWake(p) \/ WaitStep(p) \/ Syscall(p)
        \/ \E c \in Chan : Wakeup(c)

Spec == Init /\ [][Next]_vars

\* The timer keeps ticking; the scheduler runs every runnable process again
\* and again (module Mlfq); a time slice is longer than the few instructions
\* in which an exit or a pass of wait is done.
FairSpec ==
  /\ Spec
  /\ \A p \in Slot : /\ SF_vars(Schedule(p))
                     /\ WF_vars(Tick(p) \/ Swtch(p))
                     /\ SF_vars(Return(p) \/ ExitWake(p) \/ WaitStep(p))

-----------------------------------------------------------------------------
(* The process on the hart is the only one that runs, from the moment it is *)
(* scheduled until it marks itself as leaving: no process is picked again   *)
(* while its old kernel stack is still in use.                              *)
OnlyCurrentRuns ==
  \A p \in Slot : state[p] = "RUNNING" <=> cur = p /\ ~leaving /\ pc[p] # "exit"

(* A parent sleeps in wait only while it has a child and none of its        *)
(* children is a zombie, except for the moment in which that child is about *)
(* to wake it: no exit is missed.                                           *)
ExitNotMissed ==
  \A p \in Slot :
    pc[p] = "wait" /\ state[p] = "SLEEPING" =>
      /\ Children(p) # {}
      /\ \A c \in Zombies(p) : At(c, "exit")

(* What the result of wait says.  -1: every process the caller created has  *)
(* been waited for.  A pid: that of a zombie the caller created - or, since *)
(* a parent is a slot and exit hands its children over to nobody, of one    *)
(* that an earlier occupant of the caller's slot left behind (proc.c:204).  *)
Left(p) == {c \in Slot : state[c] # "UNUSED" /\ creator[c] = pid[p]}

LeftBehind(c, p) == creator[c] < pid[p] /\ \A s \in Slot : pid[s] # creator[c]

WaitAnswers ==
  [][\A p \in Slot :
       pc[p] = "wait" /\ pc'[p] # "wait" =>
         \/ result'[p] = <<-1, 0>> /\ Left(p) = {}
         \/ \E c \in Slot : /\ state[c] = "ZOMBIE" /\ state'[c] = "UNUSED"
                            /\ result'[p] = <<pid[c], code[c]>>
                            /\ c \in Left(p) \/ LeftBehind(c, p)]_vars

(* A zombie never runs again.  Its slot is freed in a wait of the process   *)
(* its parent pointer names, and that wait returns its pid and exit code.   *)
ZombieReaped ==
  [][\A c \in Slot :
       state[c] = "ZOMBIE" /\ state'[c] # "ZOMBIE" =>
         /\ state'[c] = "UNUSED"
         /\ parent[c] = cur
         /\ result'[cur] = <<pid[c], code[c]>>]_vars

(* A wait with a zombie child returns.                                      *)
WaitReturns ==
  \A p \in Slot : (pc[p] = "wait" /\ Zombies(p) # {}) ~> (pc[p] # "wait")

(* A killed process that computes in user mode exits, without a system call *)
(* of its own.                                                              *)
KillReachesUser ==
  \A p \in Slot : (killed[p] /\ pc[p] = "user")
                    ~> (state[p] \in {"ZOMBIE", "UNUSED"} \/ pc[p] = "sys")
=============================================================================
