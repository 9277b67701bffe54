-------------------------------- MODULE Trap --------------------------------
(***************************************************************************)
(* Traps on one hart: kernel/trap/trap_kernel.c, trap.S, trampoline.S, the *)
(* interrupt state that lib/spinlock.c keeps, and the switches of          *)
(* proc/proc.c, which keep none of it.                                     *)
(*                                                                         *)
(* Each process and the scheduler has a stack of activations: its own code *)
(* below, one activation of kernel_vector for each interrupt that has not  *)
(* returned above.  An address is the stack, the depth and the place in    *)
(* the code: what sret jumps to is compared with where it should.          *)
(*                                                                         *)
(* What runs with interrupts off is one step.  A system call takes and     *)
(* gives back locks and sleeps in any order the lock rules allow.          *)
(***************************************************************************)
EXTENDS Integers, Sequences

CONSTANTS Runner,     \* the processes
          Nobody,     \* a null c->proc
          Scheduler,  \* the stack of scheduler
          MinSlice,   \* the shortest time slice, mlfq_quantum[0], which is 2
          MaxDepth,   \* bound: activations on one stack
          MaxLocks    \* bound: spinlocks held at once

ASSUME TrapAssumption == /\ MinSlice \in Nat \ {0, 1} /\ MaxDepth \in Nat \ {0} /\ MaxLocks \in Nat
                         /\ Nobody \notin Runner /\ Scheduler \notin Runner

VARIABLES onHart,           \* whose stack the hart is on
          running,          \* c->proc
          pstate, slice,    \* p->state, p->ticks_in_level
          frames,           \* the stack of activations of each
          sie, spie, spp, sepc, stvec,  \* the registers; spp: the trap came from the kernel
          ncli, intena,     \* lib/spinlock.c
          wild              \* how the hart left the code, or "no"

regs == <<sie, spie, spp, sepc, stvec>>
locks == <<ncli, intena>>
procs == <<running, pstate, slice>>
trapVars == <<onHart, procs, frames, regs, locks, wild>>

Stack == Runner \cup {Scheduler}
Place == {"user", "handler", "syscall", "critical", "switch", "usertrapret", "userret",
          "vector", "rest", "sepc_set", "sstatus_set",  \* trap_kernel_handler
          "back", "search", "picked"}                   \* scheduler
Address == Stack \X (1..MaxDepth) \X Place
Boot == <<Scheduler, 1, "back">>

\* Every variable keeps its type.
TrapTypeOK ==
  /\ onHart \in Stack /\ running \in Runner \cup {Nobody}
  /\ pstate \in [Runner -> {"runnable", "running", "sleeping"}]
  /\ slice \in [Runner -> 0..MinSlice]
  /\ \A s \in Stack : Len(frames[s]) \in 1..MaxDepth
  /\ frames \in [Stack -> Seq([pc : Place, back : Address, away : BOOLEAN])]
  /\ {sie, spie, spp, intena} \subseteq BOOLEAN
  /\ sepc \in Address /\ stvec \in {"user", "kernel"}
  /\ ncli \in 0..(MaxLocks + 1)
  /\ wild \in {"no", "plain", "preempted", "scheduler"}

\* A new process starts in usertrapret; the scheduler has just been called.
TrapInit ==
  /\ onHart = Scheduler /\ running = Nobody
  /\ pstate = [p \in Runner |-> "runnable"] /\ slice = [p \in Runner |-> 0]
  /\ frames = [s \in Stack |-> <<[pc |-> IF s = Scheduler THEN "back" ELSE "usertrapret",
                                  back |-> IF s = Scheduler THEN Boot ELSE <<s, 1, "user">>,
                                  away |-> FALSE]>>]
  /\ sie = FALSE /\ spie = FALSE /\ spp = TRUE /\ sepc = Boot /\ stvec = "kernel"
  /\ ncli = 0 /\ intena = FALSE
  /\ wild = "no"

Depth == Len(frames[onHart])
Top == frames[onHart][Depth]
Here == <<onHart, Depth, Top.pc>>
At(pc) == wild = "no" /\ Top.pc = pc
Goes(pc) == frames' = [frames EXCEPT ![onHart][Depth].pc = pc]

-----------------------------------------------------------------------------
(* Into the kernel *)

\* uservec and the head of usertrap: an ecall is served with interrupts on.
UserTrap(ecall) ==
  /\ At("user")
  /\ frames' = [frames EXCEPT ![onHart][Depth] =
                  [@ EXCEPT !.pc = IF ecall THEN "syscall" ELSE "handler", !.back = Here]]
  /\ stvec' = "kernel" /\ sepc' = Here /\ spp' = FALSE /\ spie' = TRUE /\ sie' = ecall
  /\ UNCHANGED <<onHart, procs, locks, wild>>

\* kernel_vector and the head of trap_kernel_handler.  The clock is too slow to
\* tick twice between the scheduler's choice and its switch.
Interrupt ==
  /\ wild = "no" /\ sie /\ Top.pc # "user"
  /\ Depth < MaxDepth
  /\ Top.pc = "picked" => slice[running] = 0
  /\ frames' = [frames EXCEPT ![onHart] = Append(@, [pc |-> "vector", back |-> Here, away |-> FALSE])]
  /\ sepc' = Here /\ spp' = TRUE /\ spie' = TRUE /\ sie' = FALSE
  /\ UNCHANGED <<onHart, procs, stvec, locks, wild>>

After(pc) == IF pc = "handler" THEN "usertrapret" ELSE "rest"

\* A device: its handler wakes a sleeper, or nobody.
Device ==
  /\ At("handler") \/ At("vector")
  /\ Goes(After(Top.pc))
  /\ \/ UNCHANGED pstate
     \/ \E p \in Runner : pstate[p] = "sleeping" /\ pstate' = [pstate EXCEPT ![p] = "runnable"]
  /\ UNCHANGED <<onHart, running, slice, regs, locks, wild>>

Counts == running # Nobody /\ pstate[running] = "running"

\* proc_tick: the slice is at least MinSlice ticks.
NoYield ==
  /\ At("handler") \/ At("vector")
  /\ Goes(After(Top.pc))
  /\ slice' = IF Counts /\ slice[running] < MinSlice
              THEN [slice EXCEPT ![running] = @ + 1] ELSE slice
  /\ UNCHANGED <<onHart, running, pstate, regs, locks, wild>>

Expires == Counts /\ slice[running] + 1 >= MinSlice

\* yield, from timer_interrupt_handler, with interrupts off until the switch.  On
\* the stack of the scheduler it would save the wrong context.
YieldInHandler ==
  /\ At("handler") \/ At("vector")
  /\ Expires
  /\ pstate' = [pstate EXCEPT ![running] = "runnable"]
  /\ slice' = [slice EXCEPT ![running] = 0]
  /\ frames' = [frames EXCEPT ![onHart][Depth] = [@ EXCEPT !.pc = After(Top.pc), !.away = TRUE]]
  /\ onHart' = Scheduler
  /\ wild' = IF onHart = running THEN "no" ELSE "scheduler"
  /\ UNCHANGED <<running, regs, locks>>

-----------------------------------------------------------------------------
(* In a system call *)

\* push_off, in spinlock_acquire.
Acquire ==
  /\ At("syscall") \/ At("critical")
  /\ ncli < MaxLocks
  /\ intena' = IF ncli = 0 THEN sie ELSE intena
  /\ ncli' = ncli + 1
  /\ sie' = FALSE
  /\ Goes("critical")
  /\ UNCHANGED <<onHart, procs, spie, spp, sepc, stvec, wild>>

\* Mutant: every release turns the interrupts on again.
PopOffOn == ncli' = ncli - 1 /\ sie' = intena

PopOff == ncli' = ncli - 1 /\ sie' = (sie \/ (ncli = 1 /\ intena))

Release ==
  /\ At("critical")
  /\ PopOff
  /\ Goes(IF ncli = 1 THEN "syscall" ELSE "critical")
  /\ UNCHANGED <<onHart, procs, spie, spp, sepc, stvec, intena, wild>>

\* sleep: p->lock is taken, the caller's lock and p->lock are released, and then
\* comes the switch.
SleepOnHart ==
  /\ At("critical") /\ ncli = 1
  /\ pstate' = [pstate EXCEPT ![onHart] = "sleeping"]
  /\ PopOff
  /\ Goes("switch")
  /\ UNCHANGED <<onHart, running, slice, spie, spp, sepc, stvec, intena, wild>>

\* The caller's lock is taken again when the process runs again.
SwitchAway ==
  /\ At("switch")
  /\ Goes("syscall")
  /\ onHart' = Scheduler
  /\ UNCHANGED <<procs, regs, locks, wild>>

Served == /\ At("syscall")
          /\ Goes("usertrapret")
          /\ UNCHANGED <<onHart, procs, regs, locks, wild>>

-----------------------------------------------------------------------------
(* scheduler *)

BackInScheduler ==
  /\ At("back")
  /\ running' = Nobody
  /\ sie' = TRUE
  /\ Goes("search")
  /\ UNCHANGED <<onHart, pstate, slice, spie, spp, sepc, stvec, locks, wild>>

PickRunner(p) ==
  /\ At("search") /\ pstate[p] = "runnable"
  /\ running' = p
  /\ pstate' = [pstate EXCEPT ![p] = "running"] /\ slice' = [slice EXCEPT ![p] = 0]
  /\ Goes("picked")
  /\ UNCHANGED <<onHart, regs, locks, wild>>

SwitchTo == /\ At("picked")
            /\ Goes("back")
            /\ onHart' = running
            /\ UNCHANGED <<procs, regs, locks, wild>>

-----------------------------------------------------------------------------
(* Out of the kernel *)

\* usertrapret
PrepareReturn ==
  /\ At("usertrapret")
  /\ sie' = FALSE
  /\ stvec' = "user" /\ spp' = FALSE /\ spie' = TRUE /\ sepc' = Top.back
  /\ Goes("userret")
  /\ UNCHANGED <<onHart, procs, locks, wild>>

\* userret
ReturnToUser ==
  /\ At("userret")
  /\ sie' = spie
  /\ Goes("user")
  /\ UNCHANGED <<onHart, procs, spie, spp, sepc, stvec, locks, wild>>

\* The end of trap_kernel_handler: two writes, in this order.
WriteSepc == /\ At("rest")
             /\ sepc' = Top.back
             /\ Goes("sepc_set")
             /\ UNCHANGED <<onHart, procs, sie, spie, spp, stvec, locks, wild>>

\* SIE was off when sstatus was saved.
WriteSstatus == /\ At("sepc_set")
                /\ sie' = FALSE /\ spie' = TRUE /\ spp' = TRUE
                /\ Goes("sstatus_set")
                /\ UNCHANGED <<onHart, procs, sepc, stvec, locks, wild>>

\* The end of kernel_vector: sret goes where sepc says.
KernelSret ==
  /\ At("sstatus_set")
  /\ frames' = [frames EXCEPT ![onHart] = SubSeq(@, 1, Depth - 1)]
  /\ sie' = spie
  /\ wild' = IF sepc = Top.back THEN "no" ELSE IF Top.away THEN "preempted" ELSE "plain"
  /\ UNCHANGED <<onHart, procs, spie, spp, sepc, stvec, locks>>

TrapNext ==
  \/ \E ecall \in BOOLEAN : UserTrap(ecall)
  \/ Interrupt \/ Device \/ NoYield \/ YieldInHandler
  \/ Acquire \/ Release \/ SleepOnHart \/ SwitchAway \/ Served
  \/ BackInScheduler \/ SwitchTo \/ \E p \in Runner : PickRunner(p)
  \/ PrepareReturn \/ ReturnToUser \/ WriteSepc \/ WriteSstatus \/ KernelSret

TrapSpec == TrapInit /\ [][TrapNext]_trapVars

-----------------------------------------------------------------------------
(* Properties *)

\* No interrupt is taken while a spinlock is held, and none is held across a
\* switch or a return: its handler, or the next process, could want the same lock.
LocksMaskInterrupts == ncli > 0 => ~sie /\ Top.pc = "critical"

\* A trap goes to the vector made for the mode the hart is in.
VectorFits == IF Top.pc = "user" THEN sie /\ stvec = "user" ELSE sie => stvec = "kernel"

\* A process that returns to user mode goes on where it left it, with its own
\* registers, whatever ran on the hart meanwhile.
UserResumes == Top.pc = "userret" => sepc = <<onHart, 1, "user">> /\ ~spp

\* An interrupt handler returns where it interrupted, and the scheduler's own
\* context is never saved as that of a process.  The exception is a handler that
\* was switched away: it runs on with interrupts on, and one that comes between
\* its last two writes replaces sepc.
HandlersReturn == wild \in {"no", "preempted"}

\* Together: what a trap, a lock and a switch rely on of each other.
TrapSafe == LocksMaskInterrupts /\ VectorFits /\ UserResumes /\ HandlersReturn
=============================================================================
