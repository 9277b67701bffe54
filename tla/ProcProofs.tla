----------------------------- MODULE ProcProofs -----------------------------
(***************************************************************************)
(* The life of a process, for any number of slots, channels and exit       *)
(* codes.                                                                  *)
(***************************************************************************)
EXTENDS Proc, TLAPS

\* Where a process may be in each of its states.
PlaceInv ==
  \A p \in Slot :
    /\ state[p] = "ZOMBIE" => pc[p] = "exit"
    /\ pc[p] = "exit" => state[p] \in {"ZOMBIE", "UNUSED"}
    /\ state[p] = "SLEEPING" /\ pc[p] = "wait" => chan[p] = p
    /\ state[p] = "UNUSED" => parent[p] = None /\ pc[p] # "wait"

\* The process on the hart has not been freed, and it has somewhere to leave.
HartInv == /\ leaving => cur # None
           /\ cur # None => state[cur] # "UNUSED"

\* Pids are given once, and the creator of a process came before it.
PidInv ==
  /\ \A p \in Slot : state[p] # "UNUSED" => pid[p] # 0 /\ creator[p] < nextPid
  /\ \A p \in Slot : state[p] = "UNUSED" => pid[p] = 0
  /\ \A p, q \in Slot : pid[p] = pid[q] /\ pid[p] # 0 => p = q
  /\ \A p \in Slot : parent[p] # None => creator[p] # 0

\* A parent pointer names the creator, or the slot of a creator that is gone:
\* a free one, or one that a younger process has taken.
ParentInv ==
  \A c \in Slot :
    parent[c] # None =>
      \/ pid[parent[c]] = creator[c]
      \/ /\ \A s \in Slot : pid[s] # creator[c]
         /\ pid[parent[c]] = 0 \/ creator[c] < pid[parent[c]]

\* While the creator lives, the pointer names it.
LinkInv ==
  \A c, p \in Slot :
    state[c] # "UNUSED" /\ pid[p] # 0 /\ pid[p] = creator[c] => parent[c] = p

SafeInv == /\ PlaceInv /\ HartInv
           /\ OnlyCurrentRuns /\ ExitNotMissed

IInv == TypeOK /\ SafeInv

FamilyInv == PidInv /\ ParentInv /\ LinkInv

USE DEF None

-----------------------------------------------------------------------------
(* Types.                                                                  *)
LEMMA TypeInit == Init => TypeOK
<1> SUFFICES ASSUME Init PROVE TypeOK
  OBVIOUS
<1>1. /\ state \in [Slot -> States]
      /\ pid \in [Slot -> 0..(nextPid - 1)]
  BY ProcAssumption DEF Init, States, Slot
<1>2. /\ parent \in [Slot -> Slot \cup {None}]
      /\ killed \in [Slot -> BOOLEAN]
      /\ chan \in [Slot -> Slot \cup Chan \cup {None}]
      /\ code \in [Slot -> Int]
      /\ kthread \in [Slot -> BOOLEAN]
      /\ creator \in [Slot -> Nat]
  BY DEF Init
<1>3. /\ pc \in [Slot -> {"start", "user", "sys", "ret", "wait", "slept", "exit"}]
      /\ result \in [Slot -> Int \X Int]
  BY DEF Init
<1>4. nextPid \in Nat \ {0} /\ kills \in Nat
  BY DEF Init
<1>5. cur \in Slot \cup {None} /\ leaving \in BOOLEAN
  BY DEF Init
<1> QED  BY <1>1, <1>2, <1>3, <1>4, <1>5 DEF TypeOK

\* Where a call of the kernel goes on.
LEMMA HomeType == \A p : Home(p) \in {"sys", "ret"}
BY DEF Home

\* The steps that change a state and a place only.
LEMMA StepType ==
  ASSUME TypeOK, NEW p \in Slot,
         Schedule(p) \/ Tick(p) \/ Yield(p) \/ Swtch(p) \/ ExitWake(p)
           \/ Resume(p) \/ (\E c \in Chan : Sleep(p, c)) \/ WaitSleep(p)
  PROVE  TypeOK'
<1>1. CASE Schedule(p)
  BY <1>1 DEF TypeOK, States, Schedule
<1>2. CASE Tick(p)
  BY <1>2 DEF TypeOK, States, Tick
<1>3. CASE Yield(p)
  BY <1>3 DEF TypeOK, States, Yield
<1>4. CASE Swtch(p)
  BY <1>4 DEF TypeOK, Swtch, tableVars
<1>5. CASE ExitWake(p)
  BY <1>5 DEF TypeOK, States, ExitWake, Woken, Unchained, tableVars
<1>6. CASE Resume(p)
  BY <1>6, HomeType DEF TypeOK, Resume
<1>7. CASE \E c \in Chan : Sleep(p, c)
  BY <1>7 DEF TypeOK, States, Sleep
<1>8. CASE WaitSleep(p)
  BY <1>8 DEF TypeOK, States, WaitSleep
<1> QED  BY <1>1, <1>2, <1>3, <1>4, <1>5, <1>6, <1>7, <1>8

LEMMA GoToType ==
  ASSUME TypeOK, NEW p \in Slot,
         NEW l \in {"user", "sys", "ret", "wait"}, GoTo(p, l)
  PROVE  TypeOK'
BY DEF TypeOK, GoTo, tableVars

LEMMA ExitType ==
  ASSUME TypeOK, NEW p \in Slot, NEW s \in Int, Exit(p, s) PROVE TypeOK'
BY DEF TypeOK, States, Exit

LEMMA KillType ==
  ASSUME TypeOK, NEW p \in Slot, NEW t \in Slot, Kill(p, t) PROVE TypeOK'
<1>1. state' \in [Slot -> States]
  BY DEF TypeOK, States, Kill, KilledState
<1>2. pc' \in [Slot -> {"start", "user", "sys", "ret", "wait", "slept", "exit"}]
  BY HomeType DEF TypeOK, Kill
<1>3. killed' \in [Slot -> BOOLEAN] /\ kills' \in Nat
  BY DEF TypeOK, Kill
<1> QED  BY <1>1, <1>2, <1>3 DEF TypeOK, Kill

LEMMA WakeupType ==
  ASSUME TypeOK, NEW c \in Chan, Wakeup(c) PROVE TypeOK'
BY DEF TypeOK, States, Wakeup, Woken, Unchained

LEMMA CreateType ==
  ASSUME TypeOK, NEW p \in Slot, CreateFails(p) \/ Create(p) PROVE TypeOK'
<1>1. nextPid \in Nat \ {0} /\ nextPid' = nextPid + 1
  BY DEF TypeOK, CreateFails, Create, PidAfter
<1>2. /\ nextPid' \in Nat \ {0}
      /\ \A x \in 0..(nextPid - 1) : x \in 0..(nextPid' - 1) /\ x \in Nat
      /\ nextPid \in 0..(nextPid' - 1)
  BY <1>1
<1>3. CASE CreateFails(p)
  <2>1. pid' \in [Slot -> 0..(nextPid' - 1)]
    BY <1>2, <1>3 DEF TypeOK, CreateFails, tableVars
  <2> QED  BY <1>2, <1>3, <2>1, HomeType DEF TypeOK, CreateFails, tableVars
<1>4. CASE Create(p)
  <2>1. PICK n \in Slot :
          /\ state' = [state EXCEPT ![n] = "RUNNABLE"]
          /\ pid' = [pid EXCEPT ![n] = nextPid]
          /\ parent' = [parent EXCEPT ![n] = p]
          /\ killed' = [killed EXCEPT ![n] = FALSE]
          /\ chan' = [chan EXCEPT ![n] = None]
          /\ code' = [code EXCEPT ![n] = 0]
          /\ kthread' = [kthread EXCEPT ![n] = kthread[p]]
          /\ creator' = [creator EXCEPT ![n] = pid[p]]
          /\ result' = [result EXCEPT ![n] = <<0, 0>>]
          /\ pc' = [pc EXCEPT ![n] = IF kthread[p] THEN "sys" ELSE "start",
                              ![p] = Home(p)]
    BY <1>4 DEF Create, NewParent
  <2>2. pid' \in [Slot -> 0..(nextPid' - 1)] /\ creator' \in [Slot -> Nat]
    BY <1>2, <2>1 DEF TypeOK
  <2>3. state' \in [Slot -> States] /\ parent' \in [Slot -> Slot \cup {None}]
        /\ killed' \in [Slot -> BOOLEAN]
        /\ chan' \in [Slot -> Slot \cup Chan \cup {None}]
        /\ code' \in [Slot -> Int] /\ kthread' \in [Slot -> BOOLEAN]
        /\ result' \in [Slot -> Int \X Int]
    BY <2>1 DEF TypeOK, States
  <2>4. pc' \in [Slot -> {"start", "user", "sys", "ret", "wait", "slept", "exit"}]
    BY <2>1, HomeType DEF TypeOK
  <2> QED  BY <1>2, <1>4, <2>2, <2>3, <2>4 DEF TypeOK, Create
<1> QED  BY <1>3, <1>4

LEMMA ReapType ==
  ASSUME TypeOK, NEW p \in Slot, WaitReap(p) \/ WaitNoChild(p) PROVE TypeOK'
<1>1. nextPid \in Nat \ {0} /\ 0 \in 0..(nextPid - 1)
      /\ \A x \in 0..(nextPid - 1) : x \in Int
  BY DEF TypeOK
<1>2. CASE WaitReap(p)
  <2>1. PICK c \in Slot :
          /\ result' = [result EXCEPT ![p] = Taken(c)]
          /\ state' = [state EXCEPT ![c] = "UNUSED"]
          /\ pid' = [pid EXCEPT ![c] = 0]
          /\ parent' = [parent EXCEPT ![c] = None]
          /\ killed' = [killed EXCEPT ![c] = FALSE]
          /\ chan' = [chan EXCEPT ![c] = None, ![p] = None]
          /\ code' = [code EXCEPT ![c] = 0]
    BY <1>2 DEF WaitReap
  <2>2. Taken(c) \in Int \X Int
    BY <1>1 DEF TypeOK, Taken
  <2>3. /\ state' \in [Slot -> States] /\ pid' \in [Slot -> 0..(nextPid - 1)]
        /\ parent' \in [Slot -> Slot \cup {None}]
        /\ killed' \in [Slot -> BOOLEAN]
        /\ chan' \in [Slot -> Slot \cup Chan \cup {None}]
        /\ code' \in [Slot -> Int] /\ result' \in [Slot -> Int \X Int]
    BY <1>1, <2>1, <2>2 DEF TypeOK, States
  <2>4. pc' \in [Slot -> {"start", "user", "sys", "ret", "wait", "slept", "exit"}]
    BY <1>2, HomeType DEF TypeOK, WaitReap
  <2> QED  BY <1>2, <2>3, <2>4 DEF TypeOK, WaitReap
<1>3. CASE WaitNoChild(p)
  <2>1. pc' \in [Slot -> {"start", "user", "sys", "ret", "wait", "slept", "exit"}]
    BY <1>3, HomeType DEF TypeOK, WaitNoChild
  <2>2. result' \in [Slot -> Int \X Int]
        /\ chan' \in [Slot -> Slot \cup Chan \cup {None}]
    BY <1>3 DEF TypeOK, WaitNoChild
  <2> QED  BY <1>3, <2>1, <2>2 DEF TypeOK, WaitNoChild
<1> QED  BY <1>2, <1>3

LEMMA TypeStep == TypeOK /\ [Next]_vars => TypeOK'
<1> SUFFICES ASSUME TypeOK, [Next]_vars PROVE TypeOK'
  OBVIOUS
<1>1. ASSUME NEW p \in Slot, Schedule(p) \/ Tick(p) \/ Yield(p) \/ Swtch(p)
                               \/ ExitWake(p)
      PROVE  TypeOK'
  BY <1>1, StepType
<1>2. ASSUME NEW p \in Slot, Start(p) \/ Ecall(p) \/ Return(p) PROVE TypeOK'
  BY <1>2, GoToType, ExitType DEF Start, Ecall, Return
<1>3. ASSUME NEW p \in Slot, WaitStep(p) PROVE TypeOK'
  BY <1>3, StepType, ReapType DEF WaitStep
<1>4. ASSUME NEW p \in Slot, Syscall(p) PROVE TypeOK'
  <2>1. CASE (\E c \in Chan : Sleep(p, c)) \/ Resume(p)
    BY <2>1, StepType
  <2>2. CASE \E s \in Status : CallExit(p, s)
    BY <2>2, ExitType, ProcAssumption DEF CallExit
  <2>3. CASE \E t \in Slot : Kill(p, t)
    BY <2>3, KillType
  <2>4. CASE CallFails(p) \/ CallWait(p)
    BY <2>4, GoToType, HomeType DEF CallFails, CallWait
  <2>5. CASE CreateFails(p) \/ Create(p)
    BY <2>5, CreateType
  <2> QED  BY <1>4, <2>1, <2>2, <2>3, <2>4, <2>5 DEF Syscall
<1>5. ASSUME NEW c \in Chan, Wakeup(c) PROVE TypeOK'
  BY <1>5, WakeupType
<1>6. CASE UNCHANGED vars
  BY <1>6 DEF TypeOK, vars, tableVars
<1> QED  BY <1>1, <1>2, <1>3, <1>4, <1>5, <1>6 DEF Next

\* The variables keep their types: among them, every parent pointer names a
\* slot and every pid is one that has been given (alloc_process).
THEOREM TypeCorrect == Spec => []TypeOK
<1> QED  BY TypeInit, TypeStep, PTL DEF Spec

-----------------------------------------------------------------------------
(* Who runs, and whose exit a parent may still miss.                       *)
LEMMA SafeInit == Init => SafeInv
<1> SUFFICES ASSUME Init PROVE SafeInv
  OBVIOUS
<1>1. PlaceInv
  BY DEF Init, PlaceInv
<1>2. HartInv
  BY DEF Init, HartInv
<1>3. OnlyCurrentRuns
  BY DEF Init, OnlyCurrentRuns, Slot
<1>4. ExitNotMissed
  BY DEF Init, ExitNotMissed
<1> QED  BY <1>1, <1>2, <1>3, <1>4 DEF SafeInv

LEMMA SlotNotNone == \A p \in Slot : p # None
BY ProcAssumption DEF Slot

\* Who executes kernel code outside exit is the running process.
LEMMA AtRuns ==
  ASSUME IInv, NEW p \in Slot, NEW l, At(p, l), l # "exit"
  PROVE  state[p] = "RUNNING" /\ cur = p /\ ~leaving /\ pc[p] = l
BY DEF IInv, SafeInv, OnlyCurrentRuns, At

\* A step that leaves the families, the zombies and the one on the hart alone
\* and puts nobody to sleep in wait.
LEMMA MissedKept ==
  ASSUME TypeOK, ExitNotMissed, parent' = parent,
         \A q \in Slot : pc'[q] = "wait" /\ state'[q] = "SLEEPING"
                           => pc[q] = "wait" /\ state[q] = "SLEEPING",
         \A c \in Slot : state'[c] = "ZOMBIE" => state[c] = "ZOMBIE",
         \A c \in Slot : At(c, "exit") => At(c, "exit")'
  PROVE  ExitNotMissed'
BY DEF ExitNotMissed, Children, Zombies

\* Steps of the scheduler and of the timer.
LEMMA HartSafe ==
  ASSUME IInv, NEW p \in Slot, Schedule(p) \/ Tick(p) \/ Yield(p) \/ Swtch(p)
  PROVE  SafeInv'
<1>1. CASE Schedule(p)
  <2>1. PlaceInv' /\ HartInv' /\ OnlyCurrentRuns'
    BY <1>1, SlotNotNone DEF IInv, TypeOK, SafeInv, PlaceInv, HartInv, OnlyCurrentRuns, Schedule
  <2>2. ExitNotMissed'
    BY <1>1, SlotNotNone, MissedKept DEF IInv, TypeOK, SafeInv, At, Schedule
  <2> QED  BY <2>1, <2>2 DEF SafeInv
<1>2. CASE Tick(p)
  <2>1. PlaceInv' /\ HartInv' /\ OnlyCurrentRuns'
    BY <1>2, SlotNotNone DEF IInv, TypeOK, SafeInv, PlaceInv, HartInv, OnlyCurrentRuns, Tick
  <2>2. ExitNotMissed'
    BY <1>2, MissedKept DEF IInv, TypeOK, SafeInv, PlaceInv, At, Tick
  <2> QED  BY <2>1, <2>2 DEF SafeInv
<1>3. CASE Yield(p)
  <2>1. PlaceInv' /\ HartInv' /\ OnlyCurrentRuns'
    BY <1>3, AtRuns, SlotNotNone DEF IInv, TypeOK, SafeInv, PlaceInv, HartInv, OnlyCurrentRuns, Yield
  <2>2. ExitNotMissed'
    BY <1>3, MissedKept DEF IInv, TypeOK, SafeInv, At, Yield
  <2> QED  BY <2>1, <2>2 DEF SafeInv
<1>4. CASE Swtch(p)
  <2>1. PlaceInv' /\ HartInv' /\ OnlyCurrentRuns'
    BY <1>4, SlotNotNone DEF IInv, TypeOK, SafeInv, PlaceInv, HartInv, OnlyCurrentRuns, Swtch, tableVars
  <2>2. ExitNotMissed'
    BY <1>4, MissedKept DEF IInv, TypeOK, SafeInv, At, Swtch, tableVars
  <2> QED  BY <2>1, <2>2 DEF SafeInv
<1> QED  BY <1>1, <1>2, <1>3, <1>4

\* A process moves on in the kernel.
LEMMA GoToSafe ==
  ASSUME IInv, NEW p \in Slot, NEW k, k # "exit", At(p, k),
         NEW l \in {"user", "sys", "ret", "wait"}, GoTo(p, l)
  PROVE  SafeInv'
<1>1. state[p] = "RUNNING" /\ cur = p /\ ~leaving /\ pc[p] = k
  BY AtRuns
<1>2. PlaceInv' /\ HartInv' /\ OnlyCurrentRuns'
  BY <1>1, SlotNotNone DEF IInv, TypeOK, SafeInv, PlaceInv, HartInv, OnlyCurrentRuns, GoTo, tableVars
<1>3. ExitNotMissed'
  BY <1>1, MissedKept DEF IInv, TypeOK, SafeInv, At, GoTo, tableVars
<1> QED  BY <1>2, <1>3 DEF SafeInv

\* A process becomes a zombie: it is still on the hart.
LEMMA ExitSafe ==
  ASSUME IInv, NEW p \in Slot, NEW k, k # "exit", At(p, k), NEW s \in Int, Exit(p, s)
  PROVE  SafeInv'
<1>1. state[p] = "RUNNING" /\ cur = p /\ ~leaving /\ pc[p] = k
  BY AtRuns
<1>2. PlaceInv' /\ HartInv' /\ OnlyCurrentRuns'
  BY <1>1, SlotNotNone DEF IInv, TypeOK, SafeInv, PlaceInv, HartInv, OnlyCurrentRuns, Exit
<1>3. At(p, "exit")'
  BY <1>1, SlotNotNone DEF IInv, TypeOK, At, Exit
<1>4. ExitNotMissed'
  BY <1>1, <1>3 DEF IInv, TypeOK, SafeInv, ExitNotMissed, Children, Zombies, At, Exit
<1> QED  BY <1>2, <1>4 DEF SafeInv

\* Sleepers are woken, zombies and the one on the hart stay what they are.
LEMMA WakeupSafe ==
  ASSUME IInv, NEW c \in Chan, Wakeup(c) PROVE SafeInv'
<1>1. PlaceInv' /\ HartInv' /\ OnlyCurrentRuns'
  BY DEF IInv, TypeOK, SafeInv, PlaceInv, HartInv, OnlyCurrentRuns, Wakeup, Woken, Unchained
<1>2. ExitNotMissed'
  BY MissedKept DEF IInv, TypeOK, SafeInv, At, Wakeup, Woken
<1> QED  BY <1>1, <1>2 DEF SafeInv

\* The second half of exit: if the parent sleeps in wait, it is woken here.
LEMMA ExitWakeSafe ==
  ASSUME IInv, NEW p \in Slot, ExitWake(p) PROVE SafeInv'
<1>1. cur = p /\ ~leaving /\ pc[p] = "exit" /\ leaving' /\ cur' = p /\ pc' = pc
  BY DEF ExitWake, At
<1>2. state[p] = "ZOMBIE"
  BY <1>1, SlotNotNone DEF IInv, SafeInv, PlaceInv, HartInv
<1>3. PlaceInv' /\ HartInv' /\ OnlyCurrentRuns'
  BY <1>1, <1>2, SlotNotNone
     DEF IInv, TypeOK, SafeInv, PlaceInv, HartInv, OnlyCurrentRuns, ExitWake, Woken, Unchained
<1>4. ExitNotMissed'
  <2> SUFFICES ASSUME NEW q \in Slot, pc'[q] = "wait", state'[q] = "SLEEPING"
               PROVE  Children(q)' # {} /\ Zombies(q)' = {}
    BY DEF ExitNotMissed
  <2>1. state[q] = "SLEEPING" /\ pc[q] = "wait" /\ chan[q] = q
    BY <1>1 DEF IInv, TypeOK, SafeInv, PlaceInv, ExitWake, Woken
  <2>2. parent[p] # q
    BY <2>1, SlotNotNone DEF IInv, TypeOK, ExitWake, Woken
  <2>3. Children(q) # {} /\ Zombies(q) = {}
    BY <1>1, <2>1, <2>2 DEF IInv, SafeInv, ExitNotMissed, At, Children, Zombies
  <2>4. parent' = parent /\ \A c \in Slot : state'[c] = "ZOMBIE" => state[c] = "ZOMBIE"
    BY DEF IInv, TypeOK, ExitWake, Woken
  <2> QED  BY <2>3, <2>4 DEF Children, Zombies
<1> QED  BY <1>3, <1>4 DEF SafeInv

\* Calls of the running process that change its own state or a sleeper's.
LEMMA CallSafe ==
  ASSUME IInv, NEW p \in Slot,
         (\E c \in Chan : Sleep(p, c)) \/ Resume(p) \/ \E t \in Slot : Kill(p, t)
  PROVE  SafeInv'
<1>1. CASE \E c \in Chan : Sleep(p, c)
  <2>1. state[p] = "RUNNING" /\ cur = p /\ ~leaving /\ pc[p] \in {"sys", "slept"}
    BY <1>1, AtRuns DEF Sleep
  <2>2. PlaceInv' /\ HartInv' /\ OnlyCurrentRuns'
    BY <1>1, <2>1, SlotNotNone DEF IInv, TypeOK, SafeInv, PlaceInv, HartInv, OnlyCurrentRuns, Sleep
  <2>3. ExitNotMissed'
    BY <1>1, <2>1, MissedKept DEF IInv, TypeOK, SafeInv, At, Sleep
  <2> QED  BY <2>2, <2>3 DEF SafeInv
<1>2. CASE Resume(p)
  <2>1. state[p] = "RUNNING" /\ cur = p /\ ~leaving /\ pc[p] = "slept"
    BY <1>2, AtRuns DEF Resume
  <2>2. PlaceInv' /\ HartInv' /\ OnlyCurrentRuns'
    BY <1>2, <2>1, HomeType
       DEF IInv, TypeOK, SafeInv, PlaceInv, HartInv, OnlyCurrentRuns, Resume
  <2>3. ExitNotMissed'
    BY <1>2, <2>1, HomeType, MissedKept DEF IInv, TypeOK, SafeInv, At, Resume
  <2> QED  BY <2>2, <2>3 DEF SafeInv
<1>3. ASSUME NEW t \in Slot, Kill(p, t) PROVE SafeInv'
  <2>1. state[p] = "RUNNING" /\ cur = p /\ ~leaving /\ pc[p] = "sys"
    BY <1>3, AtRuns DEF Kill
  <2>2. PlaceInv' /\ HartInv' /\ OnlyCurrentRuns'
    BY <1>3, <2>1, HomeType
       DEF IInv, TypeOK, SafeInv, PlaceInv, HartInv, OnlyCurrentRuns, Kill, KilledState
  <2>3. ExitNotMissed'
    BY <1>3, <2>1, HomeType, MissedKept DEF IInv, TypeOK, SafeInv, At, Kill, KilledState
  <2> QED  BY <2>2, <2>3 DEF SafeInv
<1> QED  BY <1>1, <1>2, <1>3

\* A free slot is taken, or only its pid is lost.
LEMMA CreateSafe ==
  ASSUME IInv, NEW p \in Slot, CreateFails(p) \/ Create(p) PROVE SafeInv'
<1>1. state[p] = "RUNNING" /\ cur = p /\ ~leaving /\ pc[p] = "sys"
  BY AtRuns DEF CreateFails, Create
<1>2. CASE CreateFails(p)
  <2>1. PlaceInv' /\ HartInv' /\ OnlyCurrentRuns'
    BY <1>1, <1>2, HomeType
       DEF IInv, TypeOK, SafeInv, PlaceInv, HartInv, OnlyCurrentRuns, CreateFails, tableVars
  <2>2. ExitNotMissed'
    BY <1>1, <1>2, HomeType, MissedKept DEF IInv, TypeOK, SafeInv, At, CreateFails, tableVars
  <2> QED  BY <2>1, <2>2 DEF SafeInv
<1>3. CASE Create(p)
  <2>1. PICK n \in Slot :
          /\ state[n] = "UNUSED"
          /\ state' = [state EXCEPT ![n] = "RUNNABLE"]
          /\ parent' = [parent EXCEPT ![n] = p]
          /\ chan' = [chan EXCEPT ![n] = None]
          /\ pc' = [pc EXCEPT ![n] = IF kthread[p] THEN "sys" ELSE "start",
                              ![p] = Home(p)]
    BY <1>3 DEF Create, NewParent, First, Free
  <2>2. cur' = cur /\ leaving' = leaving /\ n # p
    BY <1>1, <1>3, <2>1 DEF Create
  <2>3. PlaceInv' /\ HartInv' /\ OnlyCurrentRuns'
    BY <1>1, <2>1, <2>2, HomeType
       DEF IInv, TypeOK, SafeInv, PlaceInv, HartInv, OnlyCurrentRuns
  <2>4. ExitNotMissed'
    <3> SUFFICES ASSUME NEW q \in Slot, pc'[q] = "wait", state'[q] = "SLEEPING"
                 PROVE  Children(q)' # {} /\ Zombies(q)' = {}
      BY DEF ExitNotMissed
    <3>1. state[q] = "SLEEPING" /\ pc[q] = "wait" /\ q # p
      BY <1>1, <2>1, <2>2, HomeType DEF IInv, TypeOK
    <3>2. Children(q) # {} /\ Zombies(q) = {}
      BY <1>1, <3>1 DEF IInv, SafeInv, ExitNotMissed, At, Zombies
    <3>3. Children(q) \subseteq Children(q)'
      BY <2>1, <3>1, SlotNotNone DEF IInv, TypeOK, SafeInv, PlaceInv, Children
    <3>4. Zombies(q)' \subseteq Zombies(q)
      BY <2>1, <3>1 DEF IInv, TypeOK, Children, Zombies
    <3> QED  BY <3>2, <3>3, <3>4
  <2> QED  BY <2>3, <2>4 DEF SafeInv
<1> QED  BY <1>2, <1>3

\* A pass of wait_process.
LEMMA WaitSafe ==
  ASSUME IInv, NEW p \in Slot, WaitStep(p) PROVE SafeInv'
<1>1. state[p] = "RUNNING" /\ cur = p /\ ~leaving /\ pc[p] = "wait"
  BY AtRuns DEF WaitStep, WaitReap, WaitNoChild, WaitSleep
<1>2. CASE WaitReap(p)
  <2>1. PICK c \in Slot :
          /\ state[c] = "ZOMBIE" /\ parent[c] = p
          /\ state' = [state EXCEPT ![c] = "UNUSED"]
          /\ parent' = [parent EXCEPT ![c] = None]
          /\ chan' = [chan EXCEPT ![c] = None, ![p] = None]
    BY <1>2 DEF WaitReap, First, Zombies, Children
  <2>2. /\ cur' = cur /\ leaving' = leaving /\ c # p
        /\ pc' = [pc EXCEPT ![p] = Home(p)]
    BY <1>1, <1>2, <2>1 DEF WaitReap
  <2>3. PlaceInv' /\ HartInv' /\ OnlyCurrentRuns'
    BY <1>1, <2>1, <2>2, HomeType
       DEF IInv, TypeOK, SafeInv, PlaceInv, HartInv, OnlyCurrentRuns
  <2>4. ExitNotMissed'
    <3> SUFFICES ASSUME NEW q \in Slot, pc'[q] = "wait", state'[q] = "SLEEPING"
                 PROVE  Children(q)' # {} /\ Zombies(q)' = {}
      BY DEF ExitNotMissed
    <3>1. state[q] = "SLEEPING" /\ pc[q] = "wait" /\ q # p
      BY <1>1, <2>1, <2>2, HomeType DEF IInv, TypeOK
    <3>2. Children(q) # {} /\ Zombies(q) = {}
      BY <1>1, <3>1 DEF IInv, SafeInv, ExitNotMissed, At, Zombies
    <3>3. Children(q) = Children(q)'
      BY <2>1, <3>1, SlotNotNone DEF IInv, TypeOK, Children
    <3>4. Zombies(q)' \subseteq Zombies(q)
      BY <2>1, <3>3 DEF IInv, TypeOK, Zombies
    <3> QED  BY <3>2, <3>3, <3>4
  <2> QED  BY <2>3, <2>4 DEF SafeInv
<1>3. CASE WaitNoChild(p)
  <2>1. PlaceInv' /\ HartInv' /\ OnlyCurrentRuns'
    BY <1>1, <1>3, HomeType
       DEF IInv, TypeOK, SafeInv, PlaceInv, HartInv, OnlyCurrentRuns, WaitNoChild
  <2>2. ExitNotMissed'
    BY <1>1, <1>3, HomeType, MissedKept DEF IInv, TypeOK, SafeInv, At, WaitNoChild
  <2> QED  BY <2>1, <2>2 DEF SafeInv
<1>4. CASE WaitSleep(p)
  <2>1. PlaceInv' /\ HartInv' /\ OnlyCurrentRuns'
    BY <1>1, <1>4, SlotNotNone
       DEF IInv, TypeOK, SafeInv, PlaceInv, HartInv, OnlyCurrentRuns, WaitSleep
  <2>2. ExitNotMissed'
    <3>1. \A q \in Slot : At(q, "exit") = FALSE
      BY <1>1 DEF At
    <3>2. /\ parent' = parent
          /\ \A q \in Slot : state'[q] = "ZOMBIE" => state[q] = "ZOMBIE"
          /\ \A q \in Slot : q # p => state'[q] = state[q] /\ pc'[q] = pc[q]
      BY <1>4 DEF IInv, TypeOK, WaitSleep
    <3>3. Children(p) # {} /\ Zombies(p) = {}
      BY <1>4 DEF WaitSleep
    <3> QED  BY <3>1, <3>2, <3>3 DEF IInv, SafeInv, ExitNotMissed, Children, Zombies
  <2> QED  BY <2>1, <2>2 DEF SafeInv
<1> QED  BY <1>2, <1>3, <1>4 DEF WaitStep

LEMMA SafeStep == IInv /\ [Next]_vars => SafeInv'
<1> SUFFICES ASSUME IInv, [Next]_vars PROVE SafeInv'
  OBVIOUS
<1>1. ASSUME NEW p \in Slot, Schedule(p) \/ Tick(p) \/ Yield(p) \/ Swtch(p)
      PROVE  SafeInv'
  BY <1>1, HartSafe
<1>2. ASSUME NEW p \in Slot, Start(p) \/ Ecall(p) \/ Return(p) PROVE SafeInv'
  BY <1>2, GoToSafe, ExitSafe DEF Start, Ecall, Return
<1>3. ASSUME NEW p \in Slot, ExitWake(p) \/ WaitStep(p) PROVE SafeInv'
  BY <1>3, ExitWakeSafe, WaitSafe
<1>4. ASSUME NEW p \in Slot, Syscall(p) PROVE SafeInv'
  <2>1. CASE (\E c \in Chan : Sleep(p, c)) \/ Resume(p) \/ \E t \in Slot : Kill(p, t)
    BY <2>1, CallSafe
  <2>2. CASE \E s \in Status : CallExit(p, s)
    BY <2>2, ExitSafe, ProcAssumption DEF CallExit
  <2>3. CASE CallFails(p) \/ CallWait(p)
    BY <2>3, GoToSafe, HomeType DEF CallFails, CallWait
  <2>4. CASE CreateFails(p) \/ Create(p)
    BY <2>4, CreateSafe
  <2> QED  BY <1>4, <2>1, <2>2, <2>3, <2>4 DEF Syscall
<1>5. ASSUME NEW c \in Chan, Wakeup(c) PROVE SafeInv'
  BY <1>5, WakeupSafe
<1>6. CASE UNCHANGED vars
  BY <1>6 DEF IInv, SafeInv, PlaceInv, HartInv, OnlyCurrentRuns, ExitNotMissed,
              Children, Zombies, At, vars, tableVars
<1> QED  BY <1>1, <1>2, <1>3, <1>4, <1>5, <1>6 DEF Next

LEMMA Invariant == Spec => []IInv
<1>1. Init => IInv
  BY TypeInit, SafeInit DEF IInv
<1>2. IInv /\ [Next]_vars => IInv'
  BY TypeStep, SafeStep DEF IInv
<1> QED  BY <1>1, <1>2, PTL DEF Spec

\* Exactly the process on the hart is marked as running, until it has changed
\* its own state on the way out (scheduler, sleep, yield, exit_process).
THEOREM OnlyOneRuns == Spec => []OnlyCurrentRuns
<1>1. IInv => OnlyCurrentRuns
  BY DEF IInv, SafeInv
<1> QED  BY <1>1, Invariant, PTL

\* wait_process and exit_process do not miss each other: whoever sleeps in wait
\* has a child, and a zombie among its children is about to wake it.
THEOREM NoExitMissed == Spec => []ExitNotMissed
<1>1. IInv => ExitNotMissed
  BY DEF IInv, SafeInv
<1> QED  BY <1>1, Invariant, PTL

-----------------------------------------------------------------------------
(* Zombies.                                                                *)
LEMMA ReapStep ==
  ASSUME IInv, NEW p \in Slot, NEW d \in Slot, WaitReap(p),
         state[d] = "ZOMBIE", state'[d] # "ZOMBIE"
  PROVE  /\ state'[d] = "UNUSED" /\ parent[d] = cur
         /\ result'[cur] = <<pid[d], code[d]>>
<1>1. PICK c \in Slot :
        /\ parent[c] = p
        /\ result' = [result EXCEPT ![p] = <<pid[c], code[c]>>]
        /\ state' = [state EXCEPT ![c] = "UNUSED"]
  BY DEF WaitReap, First, Zombies, Children, Taken
<1>2. cur = p
  BY DEF WaitReap, At
<1>3. c = d
  BY <1>1 DEF IInv, TypeOK
<1> QED  BY <1>1, <1>2, <1>3 DEF IInv, TypeOK

LEMMA ZombieKept ==
  ASSUME IInv, [Next]_vars, NEW d \in Slot, state[d] = "ZOMBIE",
         \A p \in Slot : ~WaitReap(p)
  PROVE  state'[d] = "ZOMBIE"
<1>1. ASSUME NEW p \in Slot, Schedule(p) \/ Tick(p) \/ Yield(p) \/ Swtch(p)
      PROVE  state'[d] = "ZOMBIE"
  BY <1>1, AtRuns DEF IInv, TypeOK, Schedule, Tick, Yield, Swtch, tableVars
<1>2. ASSUME NEW p \in Slot, NEW s, Exit(p, s) PROVE state'[d] = "ZOMBIE"
  BY <1>2 DEF IInv, TypeOK, Exit
<1>3. ASSUME NEW p \in Slot, NEW l, GoTo(p, l) PROVE state'[d] = "ZOMBIE"
  BY <1>3 DEF GoTo, tableVars
<1>4. ASSUME NEW p \in Slot, ExitWake(p) \/ WaitStep(p) PROVE state'[d] = "ZOMBIE"
  BY <1>4, AtRuns DEF IInv, TypeOK, ExitWake, Woken, WaitStep, WaitNoChild, WaitSleep
<1>5. ASSUME NEW p \in Slot, Syscall(p) PROVE state'[d] = "ZOMBIE"
  <2>1. CASE \E c \in Chan : Sleep(p, c)
    BY <2>1, AtRuns DEF IInv, TypeOK, Sleep
  <2>2. CASE Resume(p) \/ CreateFails(p)
    BY <2>2 DEF Resume, CreateFails, tableVars
  <2>3. CASE \E t \in Slot : Kill(p, t)
    BY <2>3 DEF IInv, TypeOK, Kill, KilledState
  <2>4. CASE Create(p)
    BY <2>4 DEF IInv, TypeOK, Create, First, Free
  <2> QED  BY <1>2, <1>3, <1>5, <2>1, <2>2, <2>3, <2>4
           DEF Syscall, CallExit, CallFails, CallWait
<1>6. ASSUME NEW c \in Chan, Wakeup(c) PROVE state'[d] = "ZOMBIE"
  BY <1>6 DEF Wakeup, Woken
<1>7. ASSUME UNCHANGED vars PROVE state'[d] = "ZOMBIE"
  BY <1>7 DEF vars, tableVars
<1> QED  BY <1>1, <1>2, <1>3, <1>4, <1>5, <1>6, <1>7
         DEF Next, Start, Ecall, Return

\* free_process is reached from a wait of the parent only, and that wait
\* returns the pid and the status of the zombie it frees.
THEOREM ReapedByParent == Spec => ZombieReaped
<1> DEFINE Reaped ==
      \A c \in Slot :
        state[c] = "ZOMBIE" /\ state'[c] # "ZOMBIE" =>
          /\ state'[c] = "UNUSED"
          /\ parent[c] = cur
          /\ result'[cur] = <<pid[c], code[c]>>
<1>1. IInv /\ [Next]_vars => [Reaped]_vars
  BY ReapStep, ZombieKept
<1>2. Spec => [][Reaped]_vars
  BY <1>1, Invariant, PTL DEF Spec
<1> QED  BY <1>2 DEF ZombieReaped

-----------------------------------------------------------------------------
(* Families.                                                               *)
LEMMA FamilyInit == Init => FamilyInv
<1> SUFFICES ASSUME Init PROVE FamilyInv
  OBVIOUS
<1>1. PidInv
  BY DEF Init, PidInv, Slot
<1>2. ParentInv
  BY DEF Init, ParentInv
<1>3. LinkInv
  BY DEF Init, LinkInv
<1> QED  BY <1>1, <1>2, <1>3 DEF FamilyInv

LEMMA FamilyKept ==
  ASSUME FamilyInv, TypeOK, TypeOK', pid' = pid, parent' = parent, creator' = creator,
         nextPid' \in {nextPid, nextPid + 1},
         \A s \in Slot : (state'[s] = "UNUSED") <=> (state[s] = "UNUSED")
  PROVE  FamilyInv'
<1>1. \A n \in Nat : n < nextPid => n < nextPid'
  BY DEF TypeOK
<1>2. PidInv'
  BY <1>1 DEF FamilyInv, PidInv, TypeOK
<1>3. ParentInv'
  BY DEF FamilyInv, ParentInv
<1>4. LinkInv'
  BY DEF FamilyInv, LinkInv
<1> QED  BY <1>2, <1>3, <1>4 DEF FamilyInv

LEMMA CreateFamily ==
  ASSUME IInv, TypeOK', FamilyInv, NEW p \in Slot, Create(p) PROVE FamilyInv'
<1>1. state[p] = "RUNNING"
  BY AtRuns DEF Create
<1>2. PICK n \in Slot :
        /\ state[n] = "UNUSED"
        /\ state' = [state EXCEPT ![n] = "RUNNABLE"]
        /\ pid' = [pid EXCEPT ![n] = nextPid]
        /\ parent' = [parent EXCEPT ![n] = p]
        /\ creator' = [creator EXCEPT ![n] = pid[p]]
  BY DEF Create, NewParent, First, Free
<1>3. /\ nextPid \in Nat /\ nextPid # 0 /\ nextPid' = nextPid + 1
      /\ \A s \in Slot : pid[s] \in Nat /\ pid[s] < nextPid
      /\ \A s \in Slot : creator[s] \in Nat
  BY DEF IInv, TypeOK, Create, PidAfter
<1>4. /\ n # p /\ pid[p] # 0
      /\ pid'[n] = nextPid /\ parent'[n] = p /\ creator'[n] = pid[p]
      /\ \A s \in Slot : s # n => /\ pid'[s] = pid[s] /\ parent'[s] = parent[s]
                                  /\ creator'[s] = creator[s] /\ state'[s] = state[s]
  BY <1>1, <1>2 DEF IInv, TypeOK, FamilyInv, PidInv
<1>5. PidInv'
  <2>1. \A s \in Slot : state'[s] # "UNUSED" => pid'[s] # 0 /\ creator'[s] < nextPid'
    BY <1>3, <1>4 DEF FamilyInv, PidInv
  <2>4. \A s \in Slot : state'[s] = "UNUSED" => pid'[s] = 0
    BY <1>2, <1>4 DEF IInv, TypeOK, FamilyInv, PidInv
  <2>2. \A s, t \in Slot : pid'[s] = pid'[t] /\ pid'[s] # 0 => s = t
    BY <1>3, <1>4 DEF FamilyInv, PidInv
  <2>3. \A s \in Slot : parent'[s] # None => creator'[s] # 0
    BY <1>3, <1>4 DEF FamilyInv, PidInv
  <2> QED  BY <2>1, <2>2, <2>3, <2>4 DEF PidInv
<1>6. ParentInv'
  <2> SUFFICES ASSUME NEW c \in Slot, parent'[c] # None
               PROVE  \/ pid'[parent'[c]] = creator'[c]
                      \/ /\ \A s \in Slot : pid'[s] # creator'[c]
                         /\ pid'[parent'[c]] = 0 \/ creator'[c] < pid'[parent'[c]]
    BY DEF ParentInv
  <2>1. CASE c = n
    BY <1>4, <2>1
  <2>2. CASE c # n
    <3>1. parent[c] \in Slot /\ creator[c] # 0 /\ creator[c] < nextPid
      BY <1>4, <2>2 DEF IInv, TypeOK, SafeInv, PlaceInv, FamilyInv, PidInv
    <3>3. CASE parent[c] # n
      <4>1. pid'[parent'[c]] = pid[parent[c]] /\ creator'[c] = creator[c]
        BY <1>4, <2>2, <3>1, <3>3
      <4>2. (\A s \in Slot : pid[s] # creator[c]) =>
              \A s \in Slot : pid'[s] # creator'[c]
        BY <1>3, <1>4, <2>2, <3>1
      <4> QED  BY <1>4, <2>2, <4>1, <4>2 DEF FamilyInv, ParentInv
    <3>4. CASE parent[c] = n
      <4>1. pid[n] # creator[c]
        BY <1>2, <3>1 DEF FamilyInv, PidInv
      <4>2. \A s \in Slot : pid[s] # creator[c]
        BY <1>4, <2>2, <3>4, <4>1 DEF FamilyInv, ParentInv
      <4>3. \A s \in Slot : pid'[s] # creator'[c]
        BY <1>3, <1>4, <2>2, <3>1, <4>2
      <4> QED  BY <1>3, <1>4, <2>2, <3>1, <3>4, <4>3
    <3> QED  BY <3>3, <3>4
  <2> QED  BY <2>1, <2>2
<1>7. LinkInv'
  <2> SUFFICES ASSUME NEW c \in Slot, NEW q \in Slot,
                      state'[c] # "UNUSED", pid'[q] # 0, pid'[q] = creator'[c]
               PROVE  parent'[c] = q
    BY DEF LinkInv
  <2>1. CASE c = n
    BY <1>3, <1>4, <2>1 DEF FamilyInv, PidInv
  <2>2. CASE c # n
    <3>1. state[c] # "UNUSED" /\ creator[c] < nextPid /\ creator[c] \in Nat
      BY <1>3, <1>4, <2>2 DEF FamilyInv, PidInv
    <3>2. q # n
      BY <1>3, <1>4, <2>2, <3>1
    <3> QED  BY <1>4, <2>2, <3>1, <3>2 DEF FamilyInv, LinkInv
  <2> QED  BY <2>1, <2>2
<1> QED  BY <1>5, <1>6, <1>7 DEF FamilyInv

LEMMA ReapFamily ==
  ASSUME IInv, TypeOK', FamilyInv, NEW p \in Slot, WaitReap(p) PROVE FamilyInv'
<1>1. PICK d \in Slot :
        /\ state' = [state EXCEPT ![d] = "UNUSED"]
        /\ pid' = [pid EXCEPT ![d] = 0]
        /\ parent' = [parent EXCEPT ![d] = None]
  BY DEF WaitReap
<1>2. /\ creator' = creator /\ nextPid' = nextPid
      /\ state'[d] = "UNUSED" /\ pid'[d] = 0 /\ parent'[d] = None
      /\ \A s \in Slot : s # d => /\ pid'[s] = pid[s] /\ parent'[s] = parent[s]
                                  /\ state'[s] = state[s]
  BY <1>1 DEF IInv, TypeOK, WaitReap
<1>3. PidInv'
  BY <1>2 DEF FamilyInv, PidInv
<1>4. ParentInv'
  <2> SUFFICES ASSUME NEW c \in Slot, parent'[c] # None
               PROVE  \/ pid'[parent'[c]] = creator'[c]
                      \/ /\ \A s \in Slot : pid'[s] # creator'[c]
                         /\ pid'[parent'[c]] = 0 \/ creator'[c] < pid'[parent'[c]]
    BY DEF ParentInv
  <2>1. c # d /\ parent'[c] = parent[c] /\ creator'[c] = creator[c] /\ creator[c] # 0
    BY <1>2 DEF FamilyInv, PidInv
  <2>2. parent[c] \in Slot
    BY <2>1 DEF IInv, TypeOK
  <2>3. CASE parent[c] = d
    <3>1. \A s \in Slot : pid'[s] # creator[c]
      BY <1>2, <2>1, <2>2, <2>3 DEF FamilyInv, PidInv, ParentInv
    <3> QED  BY <1>2, <2>1, <2>3, <3>1
  <2>4. CASE parent[c] # d
    <3>1. pid'[parent'[c]] = pid[parent[c]]
      BY <1>2, <2>1, <2>2, <2>4
    <3>2. (\A s \in Slot : pid[s] # creator[c]) =>
            \A s \in Slot : pid'[s] # creator'[c]
      BY <1>2, <2>1
    <3> QED  BY <2>1, <3>1, <3>2 DEF FamilyInv, ParentInv
  <2> QED  BY <2>3, <2>4
<1>5. LinkInv'
  BY <1>2 DEF FamilyInv, LinkInv
<1> QED  BY <1>3, <1>4, <1>5 DEF FamilyInv

LEMMA FamilyStep ==
  IInv /\ TypeOK' /\ FamilyInv /\ [Next]_vars => FamilyInv'
<1> SUFFICES ASSUME IInv, TypeOK', FamilyInv, [Next]_vars PROVE FamilyInv'
  OBVIOUS
<1> DEFINE Same == /\ pid' = pid /\ parent' = parent /\ creator' = creator
                   /\ nextPid' \in {nextPid, nextPid + 1}
                   /\ \A s \in Slot : (state'[s] = "UNUSED") <=> (state[s] = "UNUSED")
<1>1. Same => FamilyInv'
  BY FamilyKept DEF IInv
<1>2. ASSUME NEW p \in Slot, Schedule(p) \/ Tick(p) \/ Yield(p) \/ Swtch(p)
      PROVE  Same
  BY <1>2, AtRuns DEF IInv, TypeOK, Schedule, Tick, Yield, Swtch, tableVars
<1>3. ASSUME NEW p \in Slot, NEW k, k # "exit", At(p, k), NEW s, Exit(p, s)
      PROVE  Same
  BY <1>3, AtRuns DEF IInv, TypeOK, Exit
<1>4. ASSUME NEW p \in Slot, NEW l, GoTo(p, l) PROVE Same
  BY <1>4 DEF GoTo, tableVars
<1>5. ASSUME NEW p \in Slot, ExitWake(p) \/ WaitNoChild(p) \/ WaitSleep(p)
      PROVE  Same
  BY <1>5, AtRuns DEF IInv, TypeOK, ExitWake, Woken, WaitNoChild, WaitSleep
<1>6. ASSUME NEW p \in Slot,
             (\E c \in Chan : Sleep(p, c)) \/ Resume(p) \/ \E t \in Slot : Kill(p, t)
      PROVE  Same
  <2>1. CASE \E c \in Chan : Sleep(p, c)
    BY <2>1, AtRuns DEF IInv, TypeOK, Sleep
  <2>2. CASE Resume(p)
    BY <2>2 DEF Resume
  <2>3. CASE \E t \in Slot : Kill(p, t)
    <3>1. PICK t \in Slot : Kill(p, t)
      BY <2>3
    <3>2. \A s \in Slot : (state'[s] = "UNUSED") <=> (state[s] = "UNUSED")
      BY <3>1 DEF IInv, TypeOK, Kill, KilledState
    <3> QED  BY <3>1, <3>2 DEF Kill
  <2> QED  BY <1>6, <2>1, <2>2, <2>3
<1>7. ASSUME NEW p \in Slot, CreateFails(p) PROVE Same
  BY <1>7 DEF CreateFails, PidAfter, tableVars
<1>8. ASSUME NEW c \in Chan, Wakeup(c) PROVE Same
  BY <1>8 DEF IInv, TypeOK, Wakeup, Woken
<1>9. ASSUME UNCHANGED vars PROVE Same
  BY <1>9 DEF vars, tableVars
<1>10. ASSUME NEW p \in Slot, Create(p) \/ WaitReap(p) PROVE FamilyInv'
  BY <1>10, CreateFamily, ReapFamily
<1>11. ASSUME NEW p \in Slot, Start(p) \/ Ecall(p) \/ Return(p) PROVE Same
  BY <1>3, <1>4, <1>11 DEF Start, Ecall, Return
<1>12. ASSUME NEW p \in Slot, Syscall(p) PROVE Same \/ FamilyInv'
  BY <1>3, <1>4, <1>6, <1>7, <1>10, <1>12
     DEF Syscall, CallExit, CallFails, CallWait
<1> HIDE DEF Same
<1> QED  BY <1>1, <1>2, <1>5, <1>8, <1>9, <1>10, <1>11, <1>12 DEF Next, WaitStep

LEMMA FamilyInvariant == Spec => []FamilyInv
<1>1. Init => FamilyInv
  BY FamilyInit
<1>2. IInv /\ FamilyInv /\ [Next]_vars => FamilyInv'
  BY TypeStep, FamilyStep DEF IInv
<1> QED  BY <1>1, <1>2, Invariant, PTL DEF Spec

\* The two steps of wait_process with an answer, one process at a time.
LEMMA ReapAnswer ==
  ASSUME IInv, FamilyInv, NEW p \in Slot, WaitReap(p)
  PROVE  \E c \in Slot : /\ state[c] = "ZOMBIE" /\ state'[c] = "UNUSED"
                         /\ result'[p] = <<pid[c], code[c]>>
                         /\ c \in Left(p) \/ LeftBehind(c, p)
<1>1. PICK c \in Slot :
        /\ state[c] = "ZOMBIE" /\ parent[c] = p
        /\ result' = [result EXCEPT ![p] = <<pid[c], code[c]>>]
        /\ state' = [state EXCEPT ![c] = "UNUSED"]
  BY DEF WaitReap, First, Zombies, Children, Taken
<1>2. state[p] = "RUNNING"
  BY AtRuns DEF WaitReap
<1>3. pid[p] # 0 /\ parent[c] # None
  BY <1>1, <1>2, SlotNotNone DEF FamilyInv, PidInv
<1>4. c \in Left(p) \/ LeftBehind(c, p)
  BY <1>1, <1>3 DEF FamilyInv, ParentInv, Left, LeftBehind
<1> QED  BY <1>1, <1>4 DEF IInv, TypeOK

LEMMA NoChildAnswer ==
  ASSUME IInv, FamilyInv, NEW p \in Slot, WaitNoChild(p)
  PROVE  result'[p] = <<-1, 0>> /\ Left(p) = {}
<1>1. state[p] = "RUNNING"
  BY AtRuns DEF WaitNoChild
<1>2. pid[p] # 0
  BY <1>1 DEF FamilyInv, PidInv
<1>3. Left(p) = {}
  BY <1>2 DEF WaitNoChild, Children, FamilyInv, LinkInv, Left
<1> QED  BY <1>3 DEF IInv, TypeOK, WaitNoChild

\* Nobody leaves wait otherwise.
LEMMA WaitKept ==
  ASSUME IInv, [Next]_vars, NEW q \in Slot, pc[q] = "wait",
         ~WaitReap(q), ~WaitNoChild(q)
  PROVE  pc'[q] = "wait"
<1>1. ASSUME NEW p \in Slot, Schedule(p) \/ Tick(p) \/ Yield(p) \/ Swtch(p)
      PROVE  pc'[q] = "wait"
  BY <1>1 DEF IInv, TypeOK, Schedule, Tick, Yield, Swtch
<1>2. ASSUME NEW p \in Slot, p # q, NEW s, Exit(p, s) PROVE pc'[q] = "wait"
  BY <1>2 DEF IInv, TypeOK, Exit
<1>3. ASSUME NEW p \in Slot, p # q, NEW l, GoTo(p, l) PROVE pc'[q] = "wait"
  BY <1>3 DEF IInv, TypeOK, GoTo
<1>4. ASSUME NEW p \in Slot, Start(p) \/ Ecall(p) \/ Return(p)
      PROVE  pc'[q] = "wait"
  <2>1. p # q
    BY <1>4 DEF Start, Ecall, Return, At
  <2> QED  BY <1>2, <1>3, <1>4, <2>1 DEF Start, Ecall, Return
<1>5. ASSUME NEW p \in Slot, ExitWake(p) \/ WaitStep(p) PROVE pc'[q] = "wait"
  <2>1. CASE ExitWake(p) \/ WaitSleep(p)
    BY <2>1 DEF ExitWake, WaitSleep
  <2>2. CASE WaitReap(p) \/ WaitNoChild(p)
    <3>1. p # q
      BY <2>2
    <3> QED  BY <2>2, <3>1 DEF IInv, TypeOK, WaitReap, WaitNoChild
  <2> QED  BY <1>5, <2>1, <2>2 DEF WaitStep
<1>6. ASSUME NEW p \in Slot, Syscall(p) PROVE pc'[q] = "wait"
  <2>1. p # q
    BY <1>6 DEF Syscall, Sleep, Resume, CallExit, Kill, CallFails, CreateFails,
                Create, CallWait, At
  <2>2. CASE (\E c \in Chan : Sleep(p, c)) \/ Resume(p) \/ CreateFails(p)
    BY <2>1, <2>2 DEF IInv, TypeOK, Sleep, Resume, CreateFails
  <2>3. CASE \E t \in Slot : Kill(p, t)
    BY <2>1, <2>3 DEF IInv, TypeOK, Kill
  <2>4. CASE Create(p)
    <3>1. PICK n \in Slot :
            /\ state[n] = "UNUSED"
            /\ pc' = [pc EXCEPT ![n] = IF kthread[p] THEN "sys" ELSE "start",
                                ![p] = Home(p)]
      BY <2>4 DEF Create, First, Free
    <3>2. n # q
      BY <3>1 DEF IInv, SafeInv, PlaceInv
    <3> QED  BY <2>1, <3>1, <3>2 DEF IInv, TypeOK
  <2> QED  BY <1>2, <1>3, <1>6, <2>1, <2>2, <2>3, <2>4
           DEF Syscall, CallExit, CallFails, CallWait
<1>7. ASSUME NEW c \in Chan, Wakeup(c) PROVE pc'[q] = "wait"
  BY <1>7 DEF Wakeup
<1>8. ASSUME UNCHANGED vars PROVE pc'[q] = "wait"
  BY <1>8 DEF vars
<1> QED  BY <1>1, <1>4, <1>5, <1>6, <1>7, <1>8 DEF Next

\* What wait_process tells: -1 only when nothing the caller created is left,
\* a pid only of a zombie of the caller's own or of one left behind by a
\* process that had the caller's slot before it.
THEOREM WaitTruthful == Spec => WaitAnswers
<1> DEFINE Answered ==
      \A p \in Slot :
        pc[p] = "wait" /\ pc'[p] # "wait" =>
          \/ result'[p] = <<-1, 0>> /\ Left(p) = {}
          \/ \E c \in Slot : /\ state[c] = "ZOMBIE" /\ state'[c] = "UNUSED"
                             /\ result'[p] = <<pid[c], code[c]>>
                             /\ c \in Left(p) \/ LeftBehind(c, p)
<1>1. IInv /\ FamilyInv /\ [Next]_vars => [Answered]_vars
  BY ReapAnswer, NoChildAnswer, WaitKept
<1>2. Spec => [][Answered]_vars
  BY <1>1, Invariant, FamilyInvariant, PTL DEF Spec
<1> QED  BY <1>2 DEF WaitAnswers
=============================================================================
