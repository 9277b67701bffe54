-------------------------------- MODULE Mlfq --------------------------------
(***************************************************************************)
(* The scheduler: multi-level feedback queues in kernel/proc/proc.c, driven *)
(* by timer_interrupt_handler (kernel/trap/trap_kernel.c).                 *)
(*                                                                         *)
(* Hart 0 schedules and takes the timer ticks that use up time slices;     *)
(* hart 1 takes ticks as well, which age the waiting processes only.  A    *)
(* tick is one step.  When it ends a time slice, yield leaves the handler  *)
(* in the middle: the rest of it (aging, boost) runs when the process is   *)
(* picked again.                                                           *)
(*                                                                         *)
(* wait_ticks is compared with the threshold only, so it is counted up to  *)
(* the threshold here.                                                     *)
(***************************************************************************)
EXTENDS Integers

CONSTANTS N,          \* NPROC
          NCPU,       \* NCPU: harts that take timer ticks, 1 or 2
          Levels,     \* MLFQ_LEVELS; level 0 runs first
          PrioMax,    \* PRIORITY_MAX; PRIORITY_MIN is 0
          Quantum,    \* mlfq_quantum
          AgeAt,      \* mlfq_aging_threshold
          BoostEvery, \* ticks between two boosts
          Churn,      \* bound of the model: whether processes exit and fork
          Prios,      \* priorities the processes may have
          MaxSet      \* bound of the model: calls of setpriority

Slot == 0..(N - 1)
Level == 0..(Levels - 1)
None == -1

ASSUME MlfqAssumption == /\ N \in Nat \ {0} /\ NCPU \in {1, 2}
                         /\ Levels \in Nat \ {0}
                         /\ PrioMax \in Nat \ {0}
                         /\ Quantum \in [Level -> Nat \ {0}]
                         /\ AgeAt \in Nat \ {0} /\ BoostEvery \in Nat \ {0}
                         /\ Churn \in BOOLEAN
                         /\ Prios \subseteq 0..PrioMax /\ Prios # {}
                         /\ MaxSet \in Nat

VARIABLES state, priority, level,  \* p->state, p->priority, p->queue_level
          used,     \* p->ticks_in_level
          waited,   \* p->wait_ticks
          tail,     \* the process was preempted inside the timer handler
          cur,      \* c->proc of hart 0
          look, off,  \* level and offset of the search in scheduler
          late,     \* the clock has ticked during this search (timing only)
          last,     \* c->last_sched_index
          boost,    \* boost_counter
          sets      \* calls of setpriority so far

search == <<look, off, late>>
vars == <<state, priority, level, used, waited, tail, cur, search, last, boost,
          sets>>

TypeOK == /\ state \in [Slot -> {"UNUSED", "RUNNABLE", "RUNNING", "SLEEPING"}]
          /\ priority \in [Slot -> 0..PrioMax]
          /\ level \in [Slot -> Level]
          /\ used \in [Slot -> Nat]
          /\ waited \in [Slot -> 0..AgeAt]
          /\ tail \in [Slot -> BOOLEAN]
          /\ cur \in Slot \cup {None}
          /\ look \in Level /\ off \in Slot /\ late \in BOOLEAN
          /\ last \in [Level -> Slot \cup {None}]
          /\ boost \in 0..(BoostEvery - 1)
          /\ sets \in 0..MaxSet

\* priority_to_level
LevelOf(p) ==
  IF p <= 0 THEN Levels - 1
  ELSE IF p >= PrioMax THEN 0
  ELSE (Levels - 1) - (p * (Levels - 1)) \div PrioMax

Init == /\ state = [i \in Slot |-> "RUNNABLE"]
        /\ priority \in [Slot -> Prios]
        /\ level = [i \in Slot |-> LevelOf(priority[i])]
        /\ used = [i \in Slot |-> 0]
        /\ waited = [i \in Slot |-> 0]
        /\ tail = [i \in Slot |-> FALSE]
        /\ cur = None
        /\ look = 0 /\ off = 0 /\ late = FALSE
        /\ last = [l \in Level |-> None]
        /\ boost = 0
        /\ sets = 0

-----------------------------------------------------------------------------
(* The end of the timer handler: proc_age and proc_boost.                  *)
\* Mutant: aging does not stop at the first queue.
PromotedPast(st, lv, wt, i) == st[i] = "RUNNABLE" /\ wt[i] + 1 >= AgeAt

Promoted(st, lv, wt, i) ==
  st[i] = "RUNNABLE" /\ wt[i] + 1 >= AgeAt /\ lv[i] > 0

AgedLevel(st, lv, wt) ==
  [i \in Slot |-> IF Promoted(st, lv, wt, i) THEN lv[i] - 1 ELSE lv[i]]

AgedWait(st, lv, wt) ==
  [i \in Slot |->
     CASE Promoted(st, lv, wt, i) -> 0
       [] st[i] = "RUNNABLE" /\ ~Promoted(st, lv, wt, i) ->
            IF wt[i] < AgeAt THEN wt[i] + 1 ELSE wt[i]
       [] st[i] = "RUNNING" -> 0
       [] OTHER -> wt[i]]

BoostDue == boost + 1 >= BoostEvery

\* Aging and boost applied to what the handler has made of the fields so far.
HandlerEnd(st, lv, us, wt) ==
  /\ waited' = AgedWait(st, lv, wt)
  /\ level' = IF BoostDue THEN [i \in Slot |-> LevelOf(priority[i])]
                          ELSE AgedLevel(st, lv, wt)
  /\ used' = IF BoostDue THEN [i \in Slot |-> 0] ELSE us
  /\ boost' = IF BoostDue THEN 0 ELSE boost + 1

-----------------------------------------------------------------------------
(* scheduler                                                               *)
Ready == {i \in Slot : state[i] = "RUNNABLE"}

\* The process the search looks at: it starts behind the one that level ran last.
Candidate == (last[look] + 1 + off) % N

Found == state[Candidate] = "RUNNABLE" /\ level[Candidate] = look

\* Between two candidates no lock is held and interrupts are on.
LookOn ==
  /\ cur = None /\ ~Found
  /\ off' = (off + 1) % N
  /\ look' = IF off < N - 1 THEN look ELSE (look + 1) % Levels
  /\ UNCHANGED <<state, priority, level, used, waited, tail, cur, late, last,
                 boost, sets>>

\* swtch; a process preempted in the timer handler first finishes that.
Pick ==
  /\ cur = None /\ Found
  /\ LET i == Candidate
         st == [state EXCEPT ![i] = "RUNNING"]
         us == [used EXCEPT ![i] = 0]
         wt == [waited EXCEPT ![i] = 0]
     IN /\ state' = st
        /\ last' = [last EXCEPT ![look] = i]
        /\ cur' = i
        /\ tail' = [tail EXCEPT ![i] = FALSE]
        /\ IF tail[i] THEN HandlerEnd(st, level, us, wt)
           ELSE used' = us /\ waited' = wt /\ UNCHANGED <<level, boost>>
  /\ look' = 0 /\ off' = 0 /\ late' = FALSE
  /\ UNCHANGED <<priority, sets>>

-----------------------------------------------------------------------------
(* timer_interrupt_handler                                                 *)
\* Mutant: a process that uses up its time slice keeps the hart.
ExpiredNever(p) == FALSE

Expired(p) == used[p] + 1 >= Quantum[level[p]]

\* proc_tick ends the time slice, yield gives up the hart.
TickExpired ==
  /\ cur # None /\ Expired(cur)
  /\ level' = [level EXCEPT ![cur] = IF @ < Levels - 1 THEN @ + 1 ELSE @]
  /\ used' = [used EXCEPT ![cur] = 0]
  /\ state' = [state EXCEPT ![cur] = "RUNNABLE"]
  /\ tail' = [tail EXCEPT ![cur] = TRUE]
  /\ cur' = None
  /\ late' = TRUE
  /\ UNCHANGED <<priority, waited, look, off, last, boost, sets>>

TickOn ==
  /\ cur # None => ~Expired(cur)
  /\ LET us == IF cur = None THEN used ELSE [used EXCEPT ![cur] = @ + 1]
     IN HandlerEnd(state, level, us, waited)
  /\ late' = (cur = None /\ Ready # {})
  /\ UNCHANGED <<state, priority, tail, cur, look, off, last, sets>>

\* Hart 1 runs no process and does not boost.
TickHart1 ==
  /\ NCPU > 1
  /\ waited' = AgedWait(state, level, waited)
  /\ level' = AgedLevel(state, level, waited)
  /\ UNCHANGED <<state, priority, used, tail, cur, search, last, boost, sets>>

-----------------------------------------------------------------------------
(* What the running process does                                           *)
Yield ==
  /\ cur # None
  /\ used' = [used EXCEPT ![cur] = 0]
  /\ state' = [state EXCEPT ![cur] = "RUNNABLE"]
  /\ cur' = None
  /\ UNCHANGED <<priority, level, waited, tail, search, last, boost, sets>>

Sleep ==
  /\ cur # None
  /\ state' = [state EXCEPT ![cur] = "SLEEPING"]
  /\ cur' = None
  /\ UNCHANGED <<priority, level, used, waited, tail, search, last, boost, sets>>

Wakeup(i) ==
  /\ state[i] = "SLEEPING"
  /\ state' = [state EXCEPT ![i] = "RUNNABLE"]
  /\ UNCHANGED <<priority, level, used, waited, tail, cur, search, last, boost,
                 sets>>

\* exit_process and, once the parent has waited, free_process.
Exit ==
  /\ Churn /\ cur # None
  /\ state' = [state EXCEPT ![cur] = "UNUSED"]
  /\ level' = [level EXCEPT ![cur] = Levels - 1]
  /\ priority' = [priority EXCEPT ![cur] = 0]
  /\ used' = [used EXCEPT ![cur] = 0]
  /\ waited' = [waited EXCEPT ![cur] = 0]
  /\ cur' = None
  /\ UNCHANGED <<tail, search, last, boost, sets>>

\* fork_process: the child inherits priority and queue.
Fork(i) ==
  /\ Churn /\ cur # None /\ state[i] = "UNUSED"
  /\ state' = [state EXCEPT ![i] = "RUNNABLE"]
  /\ priority' = [priority EXCEPT ![i] = priority[cur]]
  /\ level' = [level EXCEPT ![i] = level[cur]]
  /\ used' = [used EXCEPT ![i] = 0]
  /\ waited' = [waited EXCEPT ![i] = 0]
  /\ UNCHANGED <<tail, cur, search, last, boost, sets>>

\* Mutant: setpriority leaves the time slice as it was.
SliceKept(i) == used

SliceReset(i) == [used EXCEPT ![i] = 0]

SetPriority(i, p) ==
  /\ cur # None /\ state[i] # "UNUSED" /\ sets < MaxSet
  /\ priority' = [priority EXCEPT ![i] = p]
  /\ level' = [level EXCEPT ![i] = LevelOf(p)]
  /\ used' = SliceReset(i)
  /\ waited' = [waited EXCEPT ![i] = 0]
  /\ sets' = sets + 1
  /\ UNCHANGED <<state, tail, cur, search, last, boost>>

-----------------------------------------------------------------------------
Tick == TickExpired \/ TickOn

Untimed == \/ LookOn \/ Pick \/ TickHart1 \/ Yield \/ Sleep \/ Exit
           \/ \E i \in Slot : \/ Wakeup(i) \/ Fork(i)
                              \/ \E p \in Prios : SetPriority(i, p)

Next == Tick \/ Untimed

Spec == Init /\ [][Next]_vars

\* The search takes two turns of the table at most to find who can run, much
\* less than the time between two ticks: one tick may come in between, not two.
TimelyTick == Tick /\ (cur = None /\ Ready # {} => ~late)

\* The timer of hart 0 never stops, and neither does the scheduler.
FairSpec == /\ Init /\ [][TimelyTick \/ Untimed]_vars
            /\ WF_vars(LookOn \/ Pick) /\ SF_vars(TimelyTick)

-----------------------------------------------------------------------------
(* The running process is inside its time slice, whatever happened to its   *)
(* priority and its queue: it is preempted after Quantum ticks at most.     *)
SliceBounded ==
  /\ \A i \in Slot : state[i] = "RUNNING" <=> i = cur
  /\ cur # None => used[cur] < Quantum[level[cur]]

(* Every process that can run does run: aging lifts it to the first queue,  *)
(* where it is its turn before a boost takes it back (no starvation).       *)
NoStarvation ==
  \A i \in Slot : (state[i] = "RUNNABLE") ~> (state[i] # "RUNNABLE")
=============================================================================
