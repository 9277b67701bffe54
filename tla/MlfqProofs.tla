------------------------------ MODULE MlfqProofs ------------------------------
(***************************************************************************)
(* The scheduler keeps every process inside its time slice, for any number *)
(* of processes, levels, quanta and priorities and any order of ticks,     *)
(* system calls and switches.  Nothing but the type has to be added to     *)
(* SliceBounded to make it inductive.                                      *)
(***************************************************************************)
EXTENDS Mlfq, TLAPS

IInv == TypeOK /\ SliceBounded

-----------------------------------------------------------------------------
(* priority_to_level and the search of the queues.                         *)
LEMMA Constants ==
  /\ N \in Nat \ {0} /\ Levels \in Nat \ {0} /\ PrioMax \in Nat \ {0}
  /\ AgeAt \in Nat \ {0} /\ BoostEvery \in Nat \ {0}
  /\ Levels - 1 \in Level /\ 0 \in Level /\ 0 \in 0..PrioMax
  /\ None \notin Slot /\ 0 \in Slot
  /\ \A l \in Level : Quantum[l] \in Nat /\ Quantum[l] > 0
BY MlfqAssumption DEF Level, Slot, None

\* Every priority has a queue.
LEMMA LevelOfType == ASSUME NEW p \in 0..PrioMax PROVE LevelOf(p) \in Level
<1> DEFINE k == Levels - 1  m == p * k  q == m \div PrioMax
<1>1. k \in Nat /\ p \in Nat /\ p <= PrioMax /\ PrioMax \in Nat /\ PrioMax > 0
  BY Constants
<1>2. m \in Nat
  BY <1>1
<1>3. m <= PrioMax * k
  BY <1>1
<1> HIDE DEF m
<1>4. q \in Nat /\ PrioMax * q <= m
  BY <1>1, <1>2
<1> HIDE DEF q
<1>5. q <= k
  <2> SUFFICES ASSUME q >= k + 1 PROVE FALSE
    BY <1>1, <1>4
  <2>1. PrioMax * q >= PrioMax * (k + 1)
    BY <1>1, <1>4
  <2>2. PrioMax * (k + 1) = PrioMax * k + PrioMax
    BY <1>1
  <2> QED  BY <1>1, <1>2, <1>3, <1>4, <2>1, <2>2
<1>6. LevelOf(p) = IF p <= 0 THEN Levels - 1 ELSE IF p >= PrioMax THEN 0 ELSE k - q
  BY DEF LevelOf, q, m
<1>7. k - q \in Level
  BY <1>1, <1>4, <1>5 DEF Level
<1> HIDE DEF k
<1> QED  BY <1>6, <1>7, Constants

\* The search stays in the table.
LEMMA SearchType ==
  ASSUME TypeOK PROVE Candidate \in Slot /\ (off + 1) % N \in Slot /\ (look + 1) % Levels \in Level
<1>1. /\ look \in Level /\ look \in Int /\ off \in Int /\ last[look] \in Int
      /\ N \in Nat \ {0} /\ Levels \in Nat \ {0}
  <2>1. look \in Level /\ off \in Slot /\ last[look] \in Slot \cup {None}
    BY DEF TypeOK
  <2> QED  BY <2>1, Constants DEF Level, Slot, None
<1>2. \A a \in Int, m \in Nat \ {0} : a % m \in 0..(m - 1)
  OBVIOUS
<1>3. /\ last[look] + 1 + off \in Int
      /\ off + 1 \in Int /\ look + 1 \in Int
  BY <1>1
<1> QED  BY <1>1, <1>2, <1>3 DEF Candidate, Slot, Level

-----------------------------------------------------------------------------
(* The end of the timer handler.                                           *)
\* Aging keeps the types, and leaves the level of one that does not wait.
LEMMA AgingKeeps ==
  ASSUME NEW st, NEW lv \in [Slot -> Level], NEW wt \in [Slot -> 0..AgeAt]
  PROVE  /\ AgedLevel(st, lv, wt) \in [Slot -> Level]
         /\ AgedWait(st, lv, wt) \in [Slot -> 0..AgeAt]
         /\ \A i \in Slot : st[i] = "RUNNING" => AgedLevel(st, lv, wt)[i] = lv[i]
<1>1. ASSUME NEW i \in Slot, Promoted(st, lv, wt, i) PROVE lv[i] - 1 \in Level
  BY <1>1, Constants DEF Promoted, Level
<1>2. ASSUME NEW i \in Slot, wt[i] < AgeAt PROVE wt[i] + 1 \in 0..AgeAt
  BY <1>2, Constants
<1>3. AgedLevel(st, lv, wt) \in [Slot -> Level]
  BY <1>1 DEF AgedLevel
<1>4. AgedWait(st, lv, wt) \in [Slot -> 0..AgeAt]
  <2>1. ASSUME NEW i \in Slot PROVE AgedWait(st, lv, wt)[i] \in 0..AgeAt
    <3>1. CASE Promoted(st, lv, wt, i)
      BY <3>1, Constants DEF AgedWait, Promoted
    <3>2. CASE st[i] = "RUNNABLE" /\ ~Promoted(st, lv, wt, i)
      BY <1>2, <3>2 DEF AgedWait
    <3>3. CASE st[i] = "RUNNING"
      BY <3>3, Constants DEF AgedWait, Promoted
    <3>4. CASE st[i] \notin {"RUNNABLE", "RUNNING"}
      BY <3>4, Constants DEF AgedWait, Promoted
    <3> QED  BY <3>1, <3>2, <3>3, <3>4
  <2> QED  BY <2>1 DEF AgedWait
<1>5. \A i \in Slot : st[i] = "RUNNING" => AgedLevel(st, lv, wt)[i] = lv[i]
  BY DEF AgedLevel, Promoted
<1> QED  BY <1>3, <1>4, <1>5

\* Whoever runs when the handler ends is still inside its slice: aging does
\* not touch its level, and the boost gives it a new slice.
LEMMA HandlerKeeps ==
  ASSUME TypeOK, NEW st, NEW us \in [Slot -> Nat], NEW wt \in [Slot -> 0..AgeAt],
         HandlerEnd(st, level, us, wt)
  PROVE  /\ waited' \in [Slot -> 0..AgeAt] /\ level' \in [Slot -> Level]
         /\ used' \in [Slot -> Nat] /\ boost' \in 0..(BoostEvery - 1)
         /\ \A i \in Slot : st[i] = "RUNNING" /\ us[i] < Quantum[level[i]]
                              => used'[i] < Quantum[level'[i]]
<1>1. level \in [Slot -> Level] /\ priority \in [Slot -> 0..PrioMax] /\ boost \in 0..(BoostEvery - 1)
  BY DEF TypeOK
<1>2. /\ AgedLevel(st, level, wt) \in [Slot -> Level]
      /\ AgedWait(st, level, wt) \in [Slot -> 0..AgeAt]
      /\ \A i \in Slot : st[i] = "RUNNING" => AgedLevel(st, level, wt)[i] = level[i]
  BY <1>1, AgingKeeps
<1>3. CASE BoostDue
  <2>1. /\ level' = [i \in Slot |-> LevelOf(priority[i])] /\ used' = [i \in Slot |-> 0] /\ boost' = 0
        /\ waited' = AgedWait(st, level, wt)
    BY <1>3 DEF HandlerEnd
  <2>2. level' \in [Slot -> Level]
    BY <1>1, <2>1, LevelOfType
  <2>3. \A i \in Slot : used'[i] < Quantum[level'[i]]
    BY <2>1, <2>2, Constants
  <2> QED  BY <1>2, <2>1, <2>2, <2>3, Constants
<1>4. CASE ~BoostDue
  <2>1. /\ level' = AgedLevel(st, level, wt) /\ used' = us /\ boost' = boost + 1
        /\ waited' = AgedWait(st, level, wt)
    BY <1>4 DEF HandlerEnd
  <2>2. boost' \in 0..(BoostEvery - 1)
    BY <1>1, <1>4, <2>1, Constants DEF BoostDue
  <2> QED  BY <1>2, <2>1, <2>2
<1> QED  BY <1>3, <1>4

-----------------------------------------------------------------------------
(* The invariant.                                                          *)
LEMMA InitOK == Init => IInv
<1> SUFFICES ASSUME Init PROVE IInv
  OBVIOUS
<1>1. /\ \A i \in Slot : priority[i] \in 0..PrioMax
      /\ priority \in [Slot -> 0..PrioMax]
  BY MlfqAssumption DEF Init
<1>2. level \in [Slot -> Level]
  BY <1>1, LevelOfType DEF Init
<1>3. TypeOK
  <2>1. boost \in 0..(BoostEvery - 1) /\ sets \in 0..MaxSet /\ waited \in [Slot -> 0..AgeAt]
    BY Constants, MlfqAssumption DEF Init
  <2>2. look \in Level /\ off \in Slot /\ late \in BOOLEAN /\ cur = None
    BY Constants DEF Init
  <2> QED  BY <1>1, <1>2, <2>1, <2>2 DEF Init, TypeOK
<1>4. SliceBounded
  BY Constants DEF Init, SliceBounded
<1> QED  BY <1>3, <1>4 DEF IInv

LEMMA StepPick == IInv /\ Pick => IInv'
<1> SUFFICES ASSUME IInv, Pick PROVE IInv'
  OBVIOUS
<1> DEFINE st(i) == [state EXCEPT ![i] = "RUNNING"]
           us(i) == [used EXCEPT ![i] = 0]
           wt(i) == [waited EXCEPT ![i] = 0]
<1>1. PICK i : i = Candidate
  OBVIOUS
<1>2. i \in Slot /\ state[i] = "RUNNABLE"
  BY <1>1, SearchType DEF Pick, IInv, Found
<1>3. /\ cur = None /\ state' = st(i) /\ last' = [last EXCEPT ![look] = i] /\ cur' = i
      /\ look' = 0 /\ off' = 0 /\ late' = FALSE
      /\ tail' = [tail EXCEPT ![i] = FALSE]
      /\ UNCHANGED <<priority, sets>>
      /\ tail[i] => HandlerEnd(st(i), level, us(i), wt(i))
      /\ ~tail[i] => used' = us(i) /\ waited' = wt(i) /\ UNCHANGED <<level, boost>>
  BY <1>1 DEF Pick
<1>4. /\ st(i) \in [Slot -> {"UNUSED", "RUNNABLE", "RUNNING", "SLEEPING"}]
      /\ us(i) \in [Slot -> Nat] /\ wt(i) \in [Slot -> 0..AgeAt]
      /\ st(i)[i] = "RUNNING" /\ \A j \in Slot \ {i} : st(i)[j] = state[j]
      /\ us(i)[i] = 0
      /\ level[i] \in Level /\ level \in [Slot -> Level] /\ boost \in 0..(BoostEvery - 1)
      /\ Quantum[level[i]] > 0
  BY <1>2, Constants DEF IInv, TypeOK
<1> HIDE DEF st, us, wt
<1>5. /\ waited' \in [Slot -> 0..AgeAt] /\ level' \in [Slot -> Level]
      /\ used' \in [Slot -> Nat] /\ boost' \in 0..(BoostEvery - 1)
      /\ used'[i] < Quantum[level'[i]]
  <2>1. CASE tail[i]
    BY <1>2, <1>3, <1>4, <2>1, HandlerKeeps DEF IInv
  <2>2. CASE ~tail[i]
    BY <1>3, <1>4, <2>2
  <2> QED  BY <2>1, <2>2
<1>6. last' \in [Level -> Slot \cup {None}] /\ tail' \in [Slot -> BOOLEAN]
  BY <1>2, <1>3 DEF IInv, TypeOK
<1>7. TypeOK'
  <2>1. look' \in Level /\ off' \in Slot /\ late' \in BOOLEAN
    BY <1>3, Constants
  <2> QED  BY <1>2, <1>3, <1>4, <1>5, <1>6, <2>1 DEF IInv, TypeOK
<1>8. SliceBounded'
  BY <1>2, <1>3, <1>4, <1>5, Constants DEF IInv, SliceBounded
<1> QED  BY <1>7, <1>8 DEF IInv

LEMMA StepLookOn == IInv /\ LookOn => IInv'
<1> SUFFICES ASSUME IInv, LookOn PROVE IInv'
  OBVIOUS
<1>1. look' \in Level /\ off' \in Slot
  BY SearchType DEF IInv, TypeOK, LookOn
<1>2. TypeOK'
  BY <1>1 DEF IInv, TypeOK, LookOn
<1>3. SliceBounded'
  BY DEF IInv, SliceBounded, LookOn
<1> QED  BY <1>2, <1>3 DEF IInv

\* The hart gives up the process that runs.
LEMMA StepLeave ==
  ASSUME IInv, cur # None, NEW s \in {"UNUSED", "RUNNABLE", "SLEEPING"},
         state' = [state EXCEPT ![cur] = s], cur' = None,
         priority' \in [Slot -> 0..PrioMax], level' \in [Slot -> Level], used' \in [Slot -> Nat],
         waited' \in [Slot -> 0..AgeAt], tail' \in [Slot -> BOOLEAN], late' \in BOOLEAN,
         UNCHANGED <<look, off, last, boost, sets>>
  PROVE  IInv'
<1>1. /\ cur \in Slot /\ state \in [Slot -> {"UNUSED", "RUNNABLE", "RUNNING", "SLEEPING"}]
      /\ \A i \in Slot : state[i] = "RUNNING" <=> i = cur
  BY DEF IInv, TypeOK, SliceBounded
<1>2. /\ state' \in [Slot -> {"UNUSED", "RUNNABLE", "RUNNING", "SLEEPING"}]
      /\ \A i \in Slot : state'[i] # "RUNNING"
  BY <1>1
<1>3. TypeOK'
  BY <1>2 DEF IInv, TypeOK
<1>4. SliceBounded'
  BY <1>2, Constants DEF SliceBounded
<1> QED  BY <1>3, <1>4 DEF IInv

LEMMA StepTickExpired == IInv /\ TickExpired => IInv'
<1> SUFFICES ASSUME IInv, TickExpired PROVE IInv'
  OBVIOUS
<1>1. TypeOK /\ cur \in Slot /\ cur # None
  BY DEF IInv, TypeOK, TickExpired
<1>2. level' \in [Slot -> Level]
  <2>1. \A l \in Level : l < Levels - 1 => l + 1 \in Level
    BY Constants DEF Level
  <2> QED  BY <1>1, <2>1 DEF TypeOK, TickExpired
<1>3. used' \in [Slot -> Nat] /\ tail' \in [Slot -> BOOLEAN]
  BY <1>1 DEF TypeOK, TickExpired
<1> QED  BY <1>1, <1>2, <1>3, StepLeave DEF TypeOK, TickExpired

LEMMA StepTickOn == IInv /\ TickOn => IInv'
<1> SUFFICES ASSUME IInv, TickOn PROVE IInv'
  OBVIOUS
<1> DEFINE us == IF cur = None THEN used ELSE [used EXCEPT ![cur] = used[cur] + 1]
<1>1. /\ HandlerEnd(state, level, us, waited) /\ (cur # None => ~Expired(cur))
      /\ UNCHANGED <<state, priority, tail, cur, look, off, last, sets>>
      /\ late' \in BOOLEAN
  BY DEF TickOn
<1>2. us \in [Slot -> Nat] /\ waited \in [Slot -> 0..AgeAt]
  BY DEF IInv, TypeOK
<1>3. cur # None => /\ cur \in Slot /\ state[cur] = "RUNNING"
                    /\ us[cur] < Quantum[level[cur]]
  <2> SUFFICES ASSUME cur # None
               PROVE  cur \in Slot /\ state[cur] = "RUNNING" /\ us[cur] < Quantum[level[cur]]
    OBVIOUS
  <2>1. cur \in Slot /\ state[cur] = "RUNNING" /\ used[cur] \in Nat /\ Quantum[level[cur]] \in Nat
    BY Constants DEF IInv, TypeOK, SliceBounded
  <2>2. us[cur] = used[cur] + 1
    BY <2>1 DEF IInv, TypeOK
  <2> QED  BY <1>1, <2>1, <2>2 DEF Expired
<1> HIDE DEF us
<1>4. /\ waited' \in [Slot -> 0..AgeAt] /\ level' \in [Slot -> Level]
      /\ used' \in [Slot -> Nat] /\ boost' \in 0..(BoostEvery - 1)
      /\ cur # None => used'[cur] < Quantum[level'[cur]]
  BY <1>1, <1>2, <1>3, HandlerKeeps DEF IInv
<1>5. TypeOK'
  BY <1>1, <1>4 DEF IInv, TypeOK
<1>6. SliceBounded'
  BY <1>1, <1>4 DEF IInv, SliceBounded
<1> QED  BY <1>5, <1>6 DEF IInv

LEMMA StepTickHart1 == IInv /\ TickHart1 => IInv'
<1> SUFFICES ASSUME IInv, TickHart1 PROVE IInv'
  OBVIOUS
<1>1. level \in [Slot -> Level] /\ waited \in [Slot -> 0..AgeAt]
  BY DEF IInv, TypeOK
<1>2. /\ level' \in [Slot -> Level] /\ waited' \in [Slot -> 0..AgeAt]
      /\ \A i \in Slot : state[i] = "RUNNING" => level'[i] = level[i]
  BY <1>1, AgingKeeps DEF TickHart1
<1>3. TypeOK'
  BY <1>2 DEF IInv, TypeOK, TickHart1, search
<1>4. SliceBounded'
  BY <1>2 DEF IInv, TypeOK, SliceBounded, TickHart1
<1> QED  BY <1>3, <1>4 DEF IInv

LEMMA StepCalls ==
  ASSUME IInv, NEW i \in Slot,
         \/ Wakeup(i) \/ Fork(i)
         \/ \E p \in Prios : SetPriority(i, p)
  PROVE  IInv'
<1>1. /\ \A j \in Slot : state[j] = "RUNNING" <=> j = cur
      /\ cur # None => cur \in Slot /\ used[cur] < Quantum[level[cur]]
  BY DEF IInv, TypeOK, SliceBounded
<1>2. CASE Wakeup(i)
  <2>1. TypeOK'
    BY <1>2 DEF IInv, TypeOK, Wakeup, search
  <2>2. SliceBounded'
    BY <1>1, <1>2 DEF IInv, TypeOK, SliceBounded, Wakeup
  <2> QED  BY <2>1, <2>2 DEF IInv
<1>3. CASE Fork(i)
  <2>1. cur \in Slot /\ i # cur
    BY <1>1, <1>3 DEF Fork
  <2>2. TypeOK'
    <3>1. 0 \in 0..AgeAt
      BY Constants
    <3> QED  BY <1>3, <2>1, <3>1 DEF IInv, TypeOK, Fork, search
  <2>3. SliceBounded'
    BY <1>1, <1>3, <2>1 DEF IInv, TypeOK, SliceBounded, Fork
  <2> QED  BY <2>2, <2>3 DEF IInv
<1>4. ASSUME NEW p \in Prios, SetPriority(i, p) PROVE IInv'
  <2>1. p \in 0..PrioMax /\ LevelOf(p) \in Level
    BY MlfqAssumption, LevelOfType
  <2>2. 0 \in 0..AgeAt /\ sets' \in 0..MaxSet
    BY <1>4, Constants, MlfqAssumption DEF IInv, TypeOK, SetPriority
  <2>3. TypeOK'
    BY <1>4, <2>1, <2>2 DEF IInv, TypeOK, SetPriority, SliceReset, search
  <2>4. used'[i] = 0 /\ level'[i] = LevelOf(p)
        /\ \A j \in Slot \ {i} : used'[j] = used[j] /\ level'[j] = level[j]
    BY <1>4 DEF IInv, TypeOK, SetPriority, SliceReset
  <2>5. SliceBounded'
    <3>1. state' = state /\ cur' = cur
      BY <1>4 DEF SetPriority
    <3>2. cur = i => used'[cur] < Quantum[level'[cur]]
      BY <2>1, <2>4, Constants
    <3> QED  BY <1>1, <2>4, <3>1, <3>2 DEF SliceBounded
  <2> QED  BY <2>3, <2>5 DEF IInv
<1> QED  BY <1>2, <1>3, <1>4

LEMMA StepGivesUp == IInv /\ (Yield \/ Sleep \/ Exit) => IInv'
<1> SUFFICES ASSUME IInv, Yield \/ Sleep \/ Exit PROVE IInv'
  OBVIOUS
<1>1. TypeOK
  BY DEF IInv
<1>2. CASE Yield
  <2>1. cur \in Slot /\ used' \in [Slot -> Nat]
    BY <1>1, <1>2 DEF TypeOK, Yield
  <2> QED  BY <1>1, <1>2, <2>1, StepLeave DEF TypeOK, Yield, search
<1>3. CASE Sleep
  BY <1>1, <1>3, StepLeave DEF TypeOK, Sleep, search
<1>4. CASE Exit
  <2>1. 0 \in 0..AgeAt
    BY Constants
  <2>2. cur \in Slot /\ level' \in [Slot -> Level] /\ priority' \in [Slot -> 0..PrioMax]
        /\ used' \in [Slot -> Nat] /\ waited' \in [Slot -> 0..AgeAt]
    BY <1>1, <1>4, <2>1, Constants DEF TypeOK, Exit
  <2> QED  BY <1>1, <1>4, <2>2, StepLeave DEF TypeOK, Exit, search
<1> QED  BY <1>2, <1>3, <1>4

LEMMA StepOK == IInv /\ [Next]_vars => IInv'
<1> SUFFICES ASSUME IInv, [Next]_vars PROVE IInv'
  OBVIOUS
<1>1. CASE UNCHANGED vars
  BY <1>1 DEF IInv, TypeOK, SliceBounded, vars, search
<1>2. CASE Tick
  BY <1>2, StepTickExpired, StepTickOn DEF Tick
<1>3. CASE Untimed
  BY <1>3, StepLookOn, StepPick, StepTickHart1, StepGivesUp, StepCalls DEF Untimed
<1> QED  BY <1>1, <1>2, <1>3 DEF Next

\* Every variable keeps its type: no level, counter or index leaves its range.
THEOREM TypeCorrect == Spec => []TypeOK
<1>1. IInv => TypeOK
  BY DEF IInv
<1> QED  BY <1>1, InitOK, StepOK, PTL DEF Spec

(* The process that runs is inside its time slice, whatever setpriority,    *)
(* aging, the boost or a preemption in the middle of the handler have done  *)
(* to its priority, queue and counters.                                     *)
THEOREM InsideSlice == Spec => []SliceBounded
<1>1. IInv => SliceBounded
  BY DEF IInv
<1> QED  BY <1>1, InitOK, StepOK, PTL DEF Spec

\* What the run checks under fairness and a timely clock is a behaviour of Spec.
LEMMA FairIsSpec == FairSpec => Spec
<1>1. [TimelyTick \/ Untimed]_vars => [Next]_vars
  BY DEF TimelyTick, Next
<1> QED  BY <1>1, PTL DEF FairSpec, Spec

=============================================================================
