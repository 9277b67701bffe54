---------------------------- MODULE MachineProofs ----------------------------
(***************************************************************************)
(* Three components that the other modules rely on, for every value of     *)
(* their constants: the kernel's log ring (Klog) hands out every byte once *)
(* and in order or counts it as dropped, traps, locks and switches (Trap)  *)
(* leave each other's registers as they must be, and every page of memory  *)
(* (Memory) is given back once.  At the end, the types of these and of the *)
(* driver and the inodes, whose proofs are in StorageProofs.               *)
(***************************************************************************)
EXTENDS MCMachine, StorageProofs, WellFoundedInduction

-----------------------------------------------------------------------------
(* Positions in the log ring.                                              *)
LEMMA RingConstants ==
  RingSize \in Nat /\ RingSize > 1 /\ MaxRecord \in Nat /\ MaxRecord < RingSize
BY KlogAssumption

LEMMA WrapIs ==
  ASSUME NEW x \in Int, -RingSize <= x, x < 2 * RingSize
  PROVE  /\ x < 0 => Wrap(x) = x + RingSize
         /\ 0 <= x /\ x < RingSize => Wrap(x) = x
         /\ RingSize <= x => Wrap(x) = x - RingSize
         /\ Wrap(x) \in Index
<1>0. RingSize \in Nat \ {0}
  BY RingConstants DEF Index
<1>1. CASE x < 0
  BY <1>0, <1>1 DEF Wrap, Index
<1>2. CASE 0 <= x /\ x < RingSize
  BY <1>0, <1>2 DEF Wrap, Index
<1>3. CASE RingSize <= x
  BY <1>0, <1>3 DEF Wrap, Index
<1> QED  BY <1>0, <1>1, <1>2, <1>3

\* The writer is as far ahead of the reader as there are bytes available.
LEMMA AvailableIs ==
  ASSUME NEW r \in Index, NEW w \in Index
  PROVE  /\ Available(r, w) \in Index
         /\ r + Available(r, w) < RingSize => w = r + Available(r, w)
         /\ RingSize <= r + Available(r, w) => w = (r + Available(r, w)) - RingSize
BY RingConstants DEF Available, Index

LEMMA AvailableFrom ==
  ASSUME NEW r \in Index, NEW w \in Index, NEW a \in Index, w = r + a \/ w = (r + a) - RingSize
  PROVE  Available(r, w) = a
BY RingConstants DEF Available, Index

KlogInv == KlogTypeOK /\ KlogConsistent

\* The same of the positions of the ring.
LEMMA RingIs ==
  ASSUME KlogInv
  PROVE  /\ readPos \in Index /\ writePos \in Index
         /\ Available(readPos, writePos) \in Index
         /\ readPos + Available(readPos, writePos) < RingSize =>
              writePos = readPos + Available(readPos, writePos)
         /\ RingSize <= readPos + Available(readPos, writePos) =>
              writePos = (readPos + Available(readPos, writePos)) - RingSize
<1>1. readPos \in Index /\ writePos \in Index
  BY DEF KlogInv, KlogTypeOK
<1> QED  BY <1>1, AvailableIs

\* A record fits into the ring.
LEMMA RecordFits ==
  ASSUME NEW n \in 1..MaxRecord
  PROVE  n \in Nat /\ n < RingSize /\ n > 0
BY RingConstants

LEMMA KlogInvInit == KlogInit => KlogInv
<1> SUFFICES ASSUME KlogInit PROVE KlogInv
  OBVIOUS
<1>1. Available(0, 0) = 0 /\ 0 \in Index /\ 0 \in 0..MaxBytes
  BY RingConstants, KlogAssumption DEF Available, Index
<1>2. KlogTypeOK
  BY <1>1, KlogAssumption DEF KlogInit, KlogTypeOK
<1>3. KlogConsistent
  BY <1>1 DEF KlogInit, KlogConsistent, KlogInOrder, KlogAccounted
<1> QED  BY <1>2, <1>3 DEF KlogInv

\* The writer that meets the reader pushes it on by as many bytes as it drops.
LEMMA RecordType ==
  ASSUME KlogInv, NEW p \in Logger, NEW n \in 1..MaxRecord, WriteRecord(p, n)
  PROVE  /\ KlogTypeOK' /\ KlogAccounted'
         /\ Overrun(n) \in 0..Available(readPos, writePos) /\ Overrun(n) <= n
         /\ Available(readPos, writePos)' = (Available(readPos, writePos) + n) - Overrun(n)
<1> DEFINE r == readPos  w == writePos  a == Available(readPos, writePos)  o == Overrun(n)
           r2 == Wrap(readPos + o)  w2 == Wrap(writePos + n)  a2 == (a + n) - o
<1>0. /\ r \in Index /\ w \in Index /\ a \in Index /\ n \in Nat /\ n < RingSize /\ n > 0
      /\ r + a < RingSize => w = r + a
      /\ RingSize <= r + a => w = (r + a) - RingSize
  BY RingIs, RecordFits
<1> HIDE DEF a
<1>1. o \in 0..a /\ o <= n /\ a2 \in Index
  BY <1>0, RingConstants DEF Overrun, a, Index
<1> HIDE DEF o
<1>2. /\ r2 \in Index
      /\ r + o < RingSize => r2 = r + o
      /\ RingSize <= r + o => r2 = (r + o) - RingSize
  BY <1>0, <1>1, RingConstants, WrapIs DEF Index
<1>3. /\ w2 \in Index
      /\ w + n < RingSize => w2 = w + n
      /\ RingSize <= w + n => w2 = (w + n) - RingSize
  BY <1>0, RingConstants, WrapIs DEF Index
<1>4. readPos' = r2 /\ writePos' = w2
  BY DEF WriteRecord, Put, o
<1> HIDE DEF r2, w2
<1>5. w2 = r2 + a2 \/ w2 = (r2 + a2) - RingSize
  BY <1>0, <1>1, <1>2, <1>3, RingConstants DEF Index
<1>6. Available(r2, w2) = a2
  BY <1>1, <1>2, <1>3, <1>5, AvailableFrom
<1>7. KlogAccounted'
  <2>1. written = taken + dropped + a
    BY DEF KlogInv, KlogConsistent, KlogAccounted, a
  <2>2. /\ written' = written + n /\ taken' = taken /\ dropped' = dropped + o
        /\ written \in Int /\ taken \in Int /\ dropped \in Int
    BY DEF WriteRecord, KlogInv, KlogTypeOK, o
  <2>3. written + n = taken + (dropped + o) + a2
    BY <1>0, <1>1, <2>1, <2>2, RingConstants DEF Index
  <2> QED  BY <1>4, <1>6, <2>2, <2>3 DEF KlogAccounted
<1>8. KlogTypeOK'
  <2>1. /\ written' = written + n /\ taken' = taken /\ dropped' = dropped + o
        /\ written' <= MaxBytes /\ MaxBytes \in Nat
        /\ {dropped, written, taken} \subseteq 0..MaxBytes
    BY KlogAssumption DEF WriteRecord, KlogInv, KlogTypeOK, o
  <2>2. dropped + o \in 0..MaxBytes /\ written + n \in 0..MaxBytes
    <3>1. written = taken + dropped + a
      BY DEF KlogInv, KlogConsistent, KlogAccounted, a
    <3> QED  BY <1>0, <1>1, <2>1, <3>1, RingConstants DEF Index
  <2>3. ring' \in [Index -> 0..MaxBytes]
    <3>1. ASSUME NEW i \in Index, Wrap(i - w) < n PROVE written + 1 + Wrap(i - w) \in 0..MaxBytes
      <4>1. Wrap(i - w) \in Index
        BY <1>0, RingConstants, WrapIs DEF Index
      <4> QED  BY <1>0, <2>1, <3>1, <4>1, RingConstants DEF Index
    <3>2. ring \in [Index -> 0..MaxBytes]
      BY DEF KlogInv, KlogTypeOK
    <3>3. ring' = [i \in Index |-> IF Wrap(i - w) < n THEN written + 1 + Wrap(i - w) ELSE ring[i]]
      BY DEF WriteRecord
    <3> QED  BY <3>1, <3>2, <3>3
  <2>4. level' \in Levels /\ passed' \subseteq Logger
    BY DEF WriteRecord, KlogInv, KlogTypeOK
  <2> QED  BY <1>2, <1>3, <1>4, <2>1, <2>2, <2>3, <2>4 DEF KlogTypeOK
<1>9. Available(readPos, writePos)' = a2
  BY <1>4, <1>6
<1> QED  BY <1>1, <1>7, <1>8, <1>9 DEF a, o

LEMMA RecordInOrder ==
  ASSUME KlogInv, NEW p \in Logger, NEW n \in 1..MaxRecord, WriteRecord(p, n)
  PROVE  KlogInOrder'
<1> DEFINE r == readPos  w == writePos  a == Available(readPos, writePos)  o == Overrun(n)
           r2 == Wrap(readPos + o)  a2 == (a + n) - o
<1>0. /\ r \in Index /\ w \in Index /\ a \in Index /\ n \in Nat /\ n < RingSize /\ n > 0
      /\ r + a < RingSize => w = r + a
      /\ RingSize <= r + a => w = (r + a) - RingSize
      /\ written \in Int
  <2>1. written \in Int
    BY DEF KlogInv, KlogTypeOK
  <2> QED  BY <2>1, RingIs, RecordFits
<1>1. o \in 0..a /\ o <= n /\ a2 \in Index /\ Available(readPos, writePos)' = a2
  <2>1. o \in 0..a /\ o <= n /\ Available(readPos, writePos)' = a2
    BY RecordType
  <2>2. a2 \in Index
    BY <1>0, RingConstants DEF Overrun, Index
  <2> QED  BY <2>1, <2>2
<1>2. readPos' = r2 /\ written' = written + n
  BY DEF WriteRecord
<1>3. \A k \in 0..(a - 1) : ring[Wrap(r + k)] = ((written - a) + 1) + k
  BY DEF KlogInv, KlogConsistent, KlogInOrder
<1>4. \A i \in Index : ring'[i] = IF Wrap(i - w) < n THEN written + 1 + Wrap(i - w) ELSE ring[i]
  BY DEF WriteRecord
<1> HIDE DEF a, o
<1>5. /\ r2 \in Index
      /\ r + o < RingSize => r2 = r + o
      /\ RingSize <= r + o => r2 = (r + o) - RingSize
  BY <1>0, <1>1, RingConstants, WrapIs DEF Index
<1> HIDE DEF r2
<1>6. ASSUME NEW k \in 0..(a2 - 1)
      PROVE  ring'[Wrap(r2 + k)] = (((written + n) - a2) + 1) + k
  <2> DEFINE i == Wrap(r2 + k)  d == Wrap(i - w)
  <2>0. k \in Int /\ 0 <= k /\ k < a2 /\ a2 < RingSize
    BY <1>1, RingConstants DEF Index
  <2>1. /\ i \in Index
        /\ r2 + k < RingSize => i = r2 + k
        /\ RingSize <= r2 + k => i = (r2 + k) - RingSize
    <3>1. /\ r2 + k \in Int
          /\ -RingSize <= r2 + k
          /\ r2 + k < 2 * RingSize
          /\ 0 <= r2 + k
      BY <1>0, <1>1, <1>5, <2>0, RingConstants DEF Index
    <3> QED  BY <3>1, WrapIs, RingConstants
  <2> HIDE DEF i
  <2>2. /\ d \in Index
        /\ i - w < 0 => d = (i - w) + RingSize
        /\ 0 <= i - w => d = i - w
    BY <1>0, <2>1, RingConstants, WrapIs DEF Index
  <2> HIDE DEF d
  <2>3. CASE o + k < a
    <3>1. o + k \in 0..(a - 1)
      BY <1>0, <1>1, <2>0, <2>3, RingConstants DEF Index
    <3>2. i = Wrap(r + (o + k))
      <4> DEFINE j == Wrap(r + (o + k))
      <4>1. /\ j \in Index
            /\ r + (o + k) < RingSize => j = r + (o + k)
            /\ RingSize <= r + (o + k) => j = (r + (o + k)) - RingSize
        BY <1>0, <3>1, RingConstants, WrapIs DEF Index
      <4> HIDE DEF j
      <4>2. i = j
        BY <1>0, <1>1, <1>5, <2>0, <2>1, <3>1, <4>1, RingConstants DEF Index
      <4> QED  BY <4>2 DEF j
    <3>3. ~(d < n)
      BY <1>0, <1>1, <1>5, <2>0, <2>1, <2>2, <2>3, RingConstants DEF Index
    <3>4. ring'[i] = ring[i]
      BY <1>4, <2>1, <3>3 DEF d
    <3>5. ring[i] = written - a + 1 + (o + k)
      BY <1>3, <3>1, <3>2
    <3>6. written - a + 1 + (o + k) = (((written + n) - a2) + 1) + k
      BY <1>0, <1>1, <2>0, RingConstants DEF Index
    <3> QED  BY <3>4, <3>5, <3>6 DEF i
  <2>4. CASE ~(o + k < a)
    <3>1. d = (o + k) - a /\ d < n
      BY <1>0, <1>1, <1>5, <2>0, <2>1, <2>2, <2>4, RingConstants DEF Index
    <3>2. ring'[i] = written + 1 + d
      BY <1>4, <2>1, <3>1 DEF d
    <3>3. written + 1 + d = (((written + n) - a2) + 1) + k
      BY <1>0, <1>1, <2>0, <3>1, RingConstants DEF Index
    <3> QED  BY <3>2, <3>3 DEF i
  <2> QED  BY <2>3, <2>4
<1> HIDE DEF a2
<1> QED  BY <1>1, <1>2, <1>6 DEF KlogInOrder

LEMMA ReadKeeps ==
  ASSUME KlogInv, NEW n \in 1..RingSize, ReadRing(n)
  PROVE  KlogInv'
<1> DEFINE r == readPos  w == writePos  a == Available(readPos, writePos)
           m == IF n > a THEN a ELSE n
           r2 == Wrap(readPos + m)
<1>0. /\ r \in Index /\ w \in Index /\ a \in Index
      /\ r + a < RingSize => w = r + a
      /\ RingSize <= r + a => w = (r + a) - RingSize
  BY RingIs
<1>1. readPos' = r2 /\ taken' = taken + m /\ m > 0
      /\ UNCHANGED <<ring, writePos, dropped, level, passed, written>>
  BY DEF ReadRing
<1> HIDE DEF a
<1>2. m \in 1..a /\ a - m \in Index
  BY <1>0, <1>1, RingConstants DEF Index
<1> HIDE DEF m
<1>3. /\ r2 \in Index
      /\ r + m < RingSize => r2 = r + m
      /\ RingSize <= r + m => r2 = (r + m) - RingSize
  BY <1>0, <1>2, RingConstants, WrapIs DEF Index
<1> HIDE DEF r2
<1>4. w = r2 + (a - m) \/ w = (r2 + (a - m)) - RingSize
  BY <1>0, <1>2, <1>3, RingConstants DEF Index
<1>5. Available(readPos, writePos)' = a - m
  BY <1>0, <1>1, <1>2, <1>3, <1>4, AvailableFrom
<1>6. /\ written = taken + dropped + a
      /\ {dropped, written, taken} \subseteq 0..MaxBytes /\ MaxBytes \in Nat
  BY KlogAssumption DEF KlogInv, KlogTypeOK, KlogConsistent, KlogAccounted, a
<1>7. written = (taken + m) + dropped + (a - m) /\ taken + m \in 0..MaxBytes
  BY <1>0, <1>2, <1>6, RingConstants DEF Index
<1>8. KlogTypeOK' /\ KlogAccounted'
  BY <1>1, <1>3, <1>5, <1>7 DEF KlogInv, KlogTypeOK, KlogAccounted
<1>9. ASSUME NEW k \in 0..((a - m) - 1)
      PROVE  ring[Wrap(r2 + k)] = written - (a - m) + 1 + k
  <2>1. m + k \in 0..(a - 1) /\ k \in Int /\ 0 <= k
    BY <1>0, <1>2, RingConstants DEF Index
  <2> DEFINE i == Wrap(r2 + k)  j == Wrap(r + (m + k))
  <2>2. /\ r2 + k < RingSize => i = r2 + k
        /\ RingSize <= r2 + k => i = (r2 + k) - RingSize
        /\ i \in Index
    BY <1>0, <1>2, <1>3, <2>1, RingConstants, WrapIs DEF Index
  <2>3. /\ r + (m + k) < RingSize => j = r + (m + k)
        /\ RingSize <= r + (m + k) => j = (r + (m + k)) - RingSize
        /\ j \in Index
    BY <1>0, <2>1, RingConstants, WrapIs DEF Index
  <2>4. ring[j] = written - a + 1 + (m + k)
    BY <2>1 DEF KlogInv, KlogConsistent, KlogInOrder, a
  <2> HIDE DEF i, j
  <2>5. i = j
    BY <1>0, <1>2, <1>3, <2>1, <2>2, <2>3, RingConstants DEF Index
  <2>6. written - a + 1 + (m + k) = written - (a - m) + 1 + k
    BY <1>0, <1>2, <1>6, <2>1, RingConstants DEF Index
  <2> QED  BY <2>4, <2>5, <2>6 DEF i
<1>10. KlogInOrder'
  BY <1>1, <1>5, <1>9 DEF KlogInOrder
<1> QED  BY <1>8, <1>10 DEF KlogInv, KlogConsistent

LEMMA KlogInvStep == KlogInv /\ [KlogNext]_klogVars => KlogInv'
<1> SUFFICES ASSUME KlogInv, [KlogNext]_klogVars PROVE KlogInv'
  OBVIOUS
<1>1. ASSUME NEW p \in Logger, NEW n \in 1..MaxRecord, WriteRecord(p, n) PROVE KlogInv'
  BY <1>1, RecordType, RecordInOrder DEF KlogInv, KlogConsistent
<1>2. ASSUME NEW n \in 1..RingSize, ReadRing(n) PROVE KlogInv'
  BY <1>2, ReadKeeps
<1>3. ASSUME UNCHANGED <<ring, readPos, writePos, dropped, written, taken>>,
             level' \in Levels, passed' \subseteq Logger
      PROVE  KlogInv'
  BY <1>3 DEF KlogInv, KlogTypeOK, KlogConsistent, KlogInOrder, KlogAccounted
<1>4. CASE \/ \E p \in Logger, l \in Levels : TestLevel(p, l)
           \/ SetLevel \/ UNCHANGED klogVars
  BY <1>3, <1>4 DEF TestLevel, SetLevel, klogVars, KlogInv, KlogTypeOK
<1> QED  BY <1>1, <1>2, <1>4 DEF KlogNext

(* klog_read returns the bytes of the records in the order they were        *)
(* written, each once, and what it skips is counted as dropped: for every   *)
(* size of the ring, any loggers, and any mix of records and reads.         *)
THEOREM KlogDelivers == KlogSpec => []KlogConsistent
<1>1. KlogInv => KlogConsistent
  BY DEF KlogInv
<1> QED  BY <1>1, KlogInvInit, KlogInvStep, PTL DEF KlogSpec

-----------------------------------------------------------------------------
(* Traps, locks and switches.                                              *)
(*                                                                         *)
(* The invariant says of each stack what its activations may be doing, of  *)
(* the activation on the hart what the registers then are, and of the      *)
(* processes which of them can be the one that runs.                       *)
Frame == [pc : Place, back : Address, away : BOOLEAN]
Own(s) == IF s = Scheduler THEN {"back", "search", "picked"}
          ELSE {"user", "handler", "syscall", "critical", "switch", "usertrapret", "userret"}
Handling == {"vector", "rest", "sepc_set", "sstatus_set"}

\* Where interrupts may be on: what an activation below the top was doing.
Interruptible(a) ==
  \/ a.pc \in {"syscall", "switch", "usertrapret", "back", "search", "picked"}
  \/ a.pc \in {"rest", "sepc_set"} /\ a.away

\* The stack f of s: its own code below, handlers of interrupts above.
StackFits(s, f) ==
  /\ f \in Seq(Frame) /\ Len(f) \in 1..MaxDepth
  /\ f[1].pc \in Own(s)
  /\ s # Scheduler /\ f[1].pc # "user" => f[1].back = <<s, 1, "user">>
  /\ \A i \in 2..Len(f) : f[i].pc \in Handling
  /\ \A i \in 1..(Len(f) - 1) : Interruptible(f[i])
  /\ s = Scheduler => \A i \in 1..Len(f) : ~f[i].away

\* The stack f of s while the hart is elsewhere: it left by a switch.
Parked(s, f) ==
  IF s = Scheduler THEN Len(f) = 1 /\ f[1].pc = "back"
  ELSE /\ f[1].pc # "switch"
       /\ \/ f[Len(f)].pc \in {"syscall", "usertrapret"}
          \/ f[Len(f)].pc = "rest" /\ f[Len(f)].away

StacksFit == /\ frames \in [Stack -> Seq(Frame)]
             /\ \A s \in Stack : StackFits(s, frames[s])
             /\ \A s \in Stack : s # onHart => Parked(s, frames[s])

\* The registers and the lock depth fit what the activation on the hart does.
HartFits ==
  /\ Top.pc = "critical" => ncli > 0 /\ ~sie /\ intena
  /\ Top.pc # "critical" => ncli = 0
  /\ Top.pc \in {"user", "syscall", "switch", "search", "picked"} => sie
  /\ Top.pc \in {"handler", "userret", "vector", "sstatus_set"} => ~sie
  /\ Top.pc \in {"rest", "sepc_set"} /\ ~Top.away => ~sie
  /\ Top.pc \in {"sepc_set", "sstatus_set"} /\ ~Top.away => sepc = Top.back
  /\ Top.pc = "sstatus_set" => spie
  /\ Top.pc = "userret" => spie /\ ~spp /\ sepc = <<onHart, 1, "user">>
  /\ stvec = IF Top.pc \in {"user", "userret"} THEN "user" ELSE "kernel"

\* One process is running at most; the scheduler never takes a tick for it.
ProcsFit ==
  /\ onHart # Scheduler => onHart = running
  /\ \A p \in Runner : /\ pstate[p] = "running" => p = running
                       /\ frames[p][1].pc = "switch" => pstate[p] # "running"
  /\ onHart = Scheduler =>
       /\ frames[Scheduler][1].pc = "back" => running = Nobody \/ pstate[running] # "running"
       /\ frames[Scheduler][1].pc = "search" => running = Nobody
       /\ frames[Scheduler][1].pc = "picked" =>
            /\ running \in Runner /\ pstate[running] = "running"
            /\ Top.pc = "vector" => slice[running] = 0

Scalars ==
  /\ onHart \in Stack /\ running \in Runner \cup {Nobody}
  /\ pstate \in [Runner -> {"runnable", "running", "sleeping"}]
  /\ slice \in [Runner -> 0..MinSlice]
  /\ sie \in BOOLEAN /\ spie \in BOOLEAN /\ spp \in BOOLEAN /\ intena \in BOOLEAN
  /\ sepc \in Address /\ stvec \in {"user", "kernel"}
  /\ ncli \in 0..(MaxLocks + 1)
  /\ wild \in {"no", "preempted"}

TrapInv == Scalars /\ StacksFit /\ HartFits /\ ProcsFit

LEMMA TrapConstants ==
  /\ MinSlice \in Nat /\ MinSlice > 1 /\ MaxDepth \in Nat /\ MaxDepth > 0 /\ MaxLocks \in Nat
  /\ Nobody \notin Runner /\ Scheduler \notin Runner /\ Scheduler \in Stack /\ Runner \subseteq Stack
  /\ \A s \in Stack : s # Scheduler => s \in Runner
BY TrapAssumption DEF Stack

LEMMA OwnIsNotHandling ==
  ASSUME NEW s, NEW pc
  PROVE  (pc \in Own(s) => pc \notin Handling) /\ (pc \in Own(s) \/ pc \in Handling => pc \in Place)
BY DEF Own, Handling, Place

\* Changing what the top activation does.
LEMMA StackTop ==
  ASSUME NEW s, NEW f, StackFits(s, f), NEW t \in Frame,
         Len(f) = 1 => /\ t.pc \in Own(s)
                       /\ s # Scheduler /\ t.pc # "user" => t.back = <<s, 1, "user">>,
         Len(f) > 1 => t.pc \in Handling,
         s = Scheduler => ~t.away
  PROVE  LET g == [f EXCEPT ![Len(f)] = t] IN
         /\ StackFits(s, g)
         /\ Len(g) = Len(f) /\ g[Len(f)] = t /\ (Len(f) > 1 => g[1] = f[1])
<1> DEFINE n == Len(f)  g == [f EXCEPT ![n] = t]
<1>1. f \in Seq(Frame) /\ n \in Nat /\ n > 0 /\ n <= MaxDepth /\ DOMAIN f = 1..n
  BY TrapConstants, LenProperties DEF StackFits
<1>2. g \in Seq(Frame) /\ Len(g) = n /\ DOMAIN g = 1..n
  <2>1. g \in [1..n -> Frame]
    BY <1>1, SeqDef
  <2> QED  BY <1>1, <2>1, SeqDef, LenProperties
<1>3. g[n] = t /\ \A i \in 1..(n - 1) : g[i] = f[i]
  BY <1>1
<1> HIDE DEF g
<1>4. n > 1 => g[1] = f[1]
  BY <1>1, <1>3
<1>5. /\ g[1].pc \in Own(s)
      /\ s # Scheduler /\ g[1].pc # "user" => g[1].back = <<s, 1, "user">>
  <2>1. CASE n = 1
    BY <1>3, <2>1
  <2>2. CASE n > 1
    BY <1>4, <2>2 DEF StackFits
  <2> QED  BY <1>1, <2>1, <2>2
<1>6. \A i \in 2..n : g[i].pc \in Handling
  BY <1>1, <1>3 DEF StackFits
<1>7. \A i \in 1..(n - 1) : Interruptible(g[i])
  BY <1>3 DEF StackFits
<1>8. s = Scheduler => \A i \in 1..n : ~g[i].away
  BY <1>1, <1>3 DEF StackFits
<1>9. StackFits(s, g)
  BY <1>1, <1>2, <1>5, <1>6, <1>7, <1>8 DEF StackFits
<1> QED  BY <1>2, <1>3, <1>4, <1>9 DEF g

\* An interrupt puts its handler on top of an activation that allows it.
LEMMA StackPush ==
  ASSUME NEW s, NEW f, StackFits(s, f), NEW t \in Frame,
         Interruptible(f[Len(f)]), Len(f) < MaxDepth, t.pc \in Handling, ~t.away
  PROVE  LET g == Append(f, t) IN
         /\ StackFits(s, g)
         /\ Len(g) = Len(f) + 1 /\ g[Len(f) + 1] = t /\ g[1] = f[1]
<1> DEFINE n == Len(f)  g == Append(f, t)
<1>1. f \in Seq(Frame) /\ n \in Nat /\ n > 0 /\ n < MaxDepth
  BY TrapConstants, LenProperties DEF StackFits
<1>2. /\ g \in Seq(Frame) /\ Len(g) = n + 1
      /\ g[n + 1] = t /\ \A i \in 1..n : g[i] = f[i]
  BY <1>1, AppendProperties
<1> HIDE DEF g
<1>3. g[1] = f[1]
  BY <1>1, <1>2
<1>4. \A i \in 2..(n + 1) : g[i].pc \in Handling
  BY <1>1, <1>2 DEF StackFits
<1>5. \A i \in 1..((n + 1) - 1) : Interruptible(g[i])
  BY <1>1, <1>2 DEF StackFits
<1>6. s = Scheduler => \A i \in 1..(n + 1) : ~g[i].away
  BY <1>1, <1>2 DEF StackFits
<1>7. n + 1 \in 1..MaxDepth
  BY <1>1, TrapConstants
<1>8. StackFits(s, g)
  BY <1>2, <1>3, <1>4, <1>5, <1>6, <1>7 DEF StackFits
<1> QED  BY <1>2, <1>3, <1>8 DEF g

\* A handler that returns uncovers the activation it interrupted.
LEMMA StackPop ==
  ASSUME NEW s, NEW f, StackFits(s, f), Len(f) > 1
  PROVE  LET g == SubSeq(f, 1, Len(f) - 1) IN
         /\ StackFits(s, g) /\ Interruptible(g[Len(g)])
         /\ Len(g) = Len(f) - 1 /\ g[1] = f[1]
<1> DEFINE n == Len(f)  g == SubSeq(f, 1, n - 1)
<1>1. f \in Seq(Frame) /\ n \in Nat /\ n > 1 /\ n <= MaxDepth /\ DOMAIN f = 1..n
  BY TrapConstants, LenProperties DEF StackFits
<1>2. /\ g \in Seq(Frame) /\ Len(g) = n - 1
      /\ \A i \in 1..(n - 1) : g[i] = f[i]
  <2>1. 1 \in 1..(Len(f) + 1) /\ n - 1 \in 0..Len(f)
    BY <1>1
  <2>2. g = [i \in 1..(n - 1) |-> f[i]]
    BY <1>1
  <2>3. g \in [1..(n - 1) -> Frame] /\ n - 1 \in Nat
    <3>1. f \in [1..n -> Frame]
      BY <1>1, SeqDef
    <3>2. \A i \in 1..(n - 1) : f[i] \in Frame
      BY <1>1, <3>1
    <3> HIDE DEF g
    <3>3. g \in [1..(n - 1) -> Frame]
      BY <2>2, <3>2
    <3> QED  BY <1>1, <3>3
  <2> HIDE DEF g
  <2> QED  BY <1>1, <2>2, <2>3, SeqDef, LenProperties
<1> HIDE DEF g
<1>3. g[1] = f[1] /\ g[n - 1] = f[n - 1]
  BY <1>1, <1>2
<1>4. \A i \in 2..(n - 1) : g[i].pc \in Handling
  BY <1>1, <1>2 DEF StackFits
<1>5. \A i \in 1..((n - 1) - 1) : Interruptible(g[i])
  BY <1>1, <1>2 DEF StackFits
<1>6. s = Scheduler => \A i \in 1..(n - 1) : ~g[i].away
  BY <1>1, <1>2 DEF StackFits
<1>7. n - 1 \in 1..MaxDepth /\ Interruptible(f[n - 1])
  BY <1>1, TrapConstants DEF StackFits
<1>8. StackFits(s, g)
  BY <1>2, <1>3, <1>4, <1>5, <1>6, <1>7 DEF StackFits
<1> QED  BY <1>2, <1>3, <1>7, <1>8 DEF g

\* What the invariant says of the activation on the hart.
LEMMA TopIs ==
  ASSUME TrapInv
  PROVE  /\ onHart \in Stack /\ frames[onHart] \in Seq(Frame) /\ StackFits(onHart, frames[onHart])
         /\ Depth \in 1..MaxDepth /\ Depth = Len(frames[onHart]) /\ Depth \in Nat
         /\ Top \in Frame /\ Top = frames[onHart][Depth]
         /\ Top.pc \in Own(onHart) => Depth = 1
         /\ Top.pc \in Handling => Depth > 1
         /\ Top.pc \in Own(onHart) \/ Top.pc \in Handling
         /\ Here \in Address
<1>1. /\ onHart \in Stack /\ frames[onHart] \in Seq(Frame) /\ StackFits(onHart, frames[onHart])
      /\ Depth \in 1..MaxDepth /\ Depth = Len(frames[onHart]) /\ Depth \in Nat
  BY TrapConstants DEF TrapInv, Scalars, StacksFit, StackFits, Depth
<1>2. Top = frames[onHart][Depth] /\ Top \in Frame
  <2>1. frames[onHart] \in [1..Depth -> Frame]
    BY <1>1, SeqDef, LenProperties
  <2>2. Depth \in 1..Depth
    BY <1>1
  <2> QED  BY <2>1, <2>2 DEF Top
<1>3. CASE Depth = 1
  <2>1. Top.pc \in Own(onHart)
    BY <1>1, <1>2, <1>3 DEF StackFits
  <2> QED  BY <1>1, <1>2, <1>3, <2>1, OwnIsNotHandling DEF Here, Address, Frame
<1>4. CASE Depth > 1
  <2>1. Top.pc \in Handling
    BY <1>1, <1>2, <1>4 DEF StackFits
  <2> QED  BY <1>1, <1>2, <1>4, <2>1, OwnIsNotHandling DEF Here, Address, Frame
<1>5. Depth = 1 \/ Depth > 1
  <2>1. Depth \in 1..MaxDepth
    BY <1>1
  <2>2. \A d \in 1..MaxDepth : d = 1 \/ d > 1
    BY TrapConstants
  <2> QED  BY <2>1, <2>2
<1> QED  BY <1>3, <1>4, <1>5

\* A step that gives the stack on the hart the new value g.
LEMMA NewStack ==
  ASSUME TrapInv, NEW g, StackFits(onHart, g), frames' = [frames EXCEPT ![onHart] = g],
         onHart' = onHart \/ (onHart' \in Stack /\ Parked(onHart, g))
  PROVE  /\ StacksFit'
         /\ frames'[onHart] = g
         /\ \A s \in Stack \ {onHart} : frames'[s] = frames[s]
<1>1. onHart \in Stack /\ g \in Seq(Frame) /\ frames \in [Stack -> Seq(Frame)]
  BY DEF TrapInv, Scalars, StacksFit, StackFits
<1>2. frames'[onHart] = g /\ \A s \in Stack \ {onHart} : frames'[s] = frames[s]
  BY <1>1
<1>3. frames' \in [Stack -> Seq(Frame)]
  BY <1>1
<1>4. \A s \in Stack : StackFits(s, frames'[s])
  BY <1>2 DEF TrapInv, StacksFit
<1>5. \A s \in Stack : s # onHart' => Parked(s, frames'[s])
  BY <1>2 DEF TrapInv, StacksFit
<1> QED  BY <1>2, <1>3, <1>4, <1>5 DEF StacksFit

\* A step of the activation on the hart, after which it is t.
LEMMA NewTop ==
  ASSUME TrapInv, NEW t \in Frame, frames' = [frames EXCEPT ![onHart][Depth] = t],
         \/ /\ Top.pc \in Own(onHart) /\ t.pc \in Own(onHart)
            /\ onHart # Scheduler /\ t.pc # "user" => t.back = <<onHart, 1, "user">>
         \/ Top.pc \in Handling /\ t.pc \in Handling,
         onHart = Scheduler => ~t.away,
         \/ onHart' = onHart
         \/ onHart' \in Stack /\ Parked(onHart, [frames[onHart] EXCEPT ![Depth] = t])
  PROVE  /\ StacksFit'
         /\ frames'[onHart] = [frames[onHart] EXCEPT ![Depth] = t]
         /\ Len(frames'[onHart]) = Depth /\ frames'[onHart][Depth] = t
         /\ Depth > 1 => frames'[onHart][1] = frames[onHart][1]
         /\ onHart' = onHart => Top' = t
         /\ \A s \in Stack \ {onHart} : frames'[s] = frames[s]
<1> DEFINE f == frames[onHart]  g == [f EXCEPT ![Depth] = t]
<1>1. /\ StackFits(onHart, f) /\ Depth = Len(f) /\ Depth \in Nat /\ Depth > 0
      /\ Top.pc \in Own(onHart) => Depth = 1
      /\ Top.pc \in Handling => Depth > 1
  BY TopIs
<1>2. /\ Depth = 1 => /\ t.pc \in Own(onHart)
                      /\ onHart # Scheduler /\ t.pc # "user" => t.back = <<onHart, 1, "user">>
      /\ Depth > 1 => t.pc \in Handling
  BY <1>1
<1>3. /\ StackFits(onHart, g)
      /\ Len(g) = Depth /\ g[Depth] = t /\ (Depth > 1 => g[1] = f[1])
  BY <1>1, <1>2, StackTop
<1>4. frames' = [frames EXCEPT ![onHart] = g]
  OBVIOUS
<1> HIDE DEF g
<1>5. StacksFit' /\ frames'[onHart] = g /\ \A s \in Stack \ {onHart} : frames'[s] = frames[s]
  <2>1. onHart' = onHart \/ (onHart' \in Stack /\ Parked(onHart, g))
    BY DEF g
  <2> QED  BY <1>3, <1>4, <2>1, NewStack
<1>6. onHart' = onHart => Top' = t
  BY <1>3, <1>5 DEF Top, Depth
<1> QED  BY <1>3, <1>5, <1>6 DEF g

\* The same for a step that only moves it on to another place.
LEMMA MovesOn ==
  ASSUME TrapInv, NEW pc \in Place, Goes(pc),
         \/ Top.pc \in Own(onHart) /\ pc \in Own(onHart) /\ Top.pc # "user"
         \/ Top.pc \in Handling /\ pc \in Handling,
         \/ onHart' = onHart
         \/ /\ onHart' \in Stack
            /\ \A g : /\ g[Len(g)].pc = pc
                      /\ Depth = 1 => Len(g) = 1
                      => Parked(onHart, g)
  PROVE  /\ StacksFit'
         /\ Depth > 1 => frames'[onHart][1] = frames[onHart][1]
         /\ Depth = 1 => frames'[onHart][1].pc = pc
         /\ onHart' = onHart => Top' = [Top EXCEPT !.pc = pc]
         /\ \A s \in Stack \ {onHart} : frames'[s] = frames[s]
<1> DEFINE t == [Top EXCEPT !.pc = pc]
<1>1. /\ Top \in Frame /\ Depth \in Nat /\ Top = frames[onHart][Depth] /\ Depth = Len(frames[onHart])
      /\ StackFits(onHart, frames[onHart]) /\ Depth \in 1..MaxDepth
      /\ Top.pc \in Own(onHart) => Depth = 1
  BY TopIs
<1>2. t \in Frame /\ t.pc = pc /\ t.back = Top.back /\ t.away = Top.away
  BY <1>1 DEF Frame
<1>3. frames' = [frames EXCEPT ![onHart][Depth] = t]
  BY <1>1 DEF Goes
<1> HIDE DEF t
<1>4. Top.pc \in Own(onHart) /\ onHart # Scheduler /\ Top.pc # "user" => t.back = <<onHart, 1, "user">>
  BY <1>1, <1>2 DEF StackFits
<1>5. onHart = Scheduler => ~t.away
  BY <1>1, <1>2 DEF StackFits
<1>6. \/ onHart' = onHart
      \/ onHart' \in Stack /\ Parked(onHart, [frames[onHart] EXCEPT ![Depth] = t])
  <2> DEFINE g == [frames[onHart] EXCEPT ![Depth] = t]
  <2>1. g[Len(g)].pc = pc /\ (Depth = 1 => Len(g) = 1)
    <3>1. frames[onHart] \in [1..Depth -> Frame] /\ Depth \in 1..Depth
      BY <1>1, SeqDef, LenProperties DEF StackFits
    <3>2. g[Depth] = t
      BY <3>1
    <3>3. g \in [1..Depth -> Frame]
      BY <3>1, <1>2
    <3>4. Len(g) = Depth
      BY <1>1, <3>3, SeqDef, LenProperties
    <3> QED  BY <1>2, <3>2, <3>4
  <2> QED  BY <2>1
<1>7. /\ StacksFit'
      /\ Len(frames'[onHart]) = Depth /\ frames'[onHart][Depth] = t
      /\ Depth > 1 => frames'[onHart][1] = frames[onHart][1]
      /\ onHart' = onHart => Top' = t
      /\ \A s \in Stack \ {onHart} : frames'[s] = frames[s]
  BY <1>2, <1>3, <1>4, <1>5, <1>6, NewTop
<1> QED  BY <1>2, <1>7 DEF t

LEMMA TrapInvInit == TrapInit => TrapInv
<1> SUFFICES ASSUME TrapInit PROVE TrapInv
  OBVIOUS
<1> DEFINE F(s) == [pc |-> IF s = Scheduler THEN "back" ELSE "usertrapret",
                    back |-> IF s = Scheduler THEN Boot ELSE <<s, 1, "user">>,
                    away |-> FALSE]
<1>1. Boot \in Address /\ \A s \in Stack : <<s, 1, "user">> \in Address
  BY TrapConstants DEF Boot, Address, Place
<1>2. \A s \in Stack : F(s) \in Frame
  BY <1>1 DEF Frame, Place
<1>3. \A s \in Stack : /\ F(s).pc = IF s = Scheduler THEN "back" ELSE "usertrapret"
                       /\ s # Scheduler => F(s).back = <<s, 1, "user">>
                       /\ ~F(s).away
  OBVIOUS
<1>4. frames = [s \in Stack |-> <<F(s)>>]
  BY DEF TrapInit
<1> HIDE DEF F
<1>5. \A s \in Stack : frames[s] = <<F(s)>> /\ Len(frames[s]) = 1 /\ frames[s][1] = F(s)
  BY <1>4
<1>6. \A s \in Stack : frames[s] \in Seq(Frame)
  <2>1. \A x \in Frame : <<x>> \in Seq(Frame)
    OBVIOUS
  <2> QED  BY <1>2, <1>5, <2>1
<1>7. StacksFit
  <2>1. frames \in [Stack -> Seq(Frame)]
    BY <1>4, <1>5, <1>6
  <2>2. ASSUME NEW s \in Stack PROVE StackFits(s, frames[s]) /\ Parked(s, frames[s])
    <3>1. F(s).pc \in Own(s)
      BY <1>3 DEF Own
    <3>2. /\ frames[s] \in Seq(Frame) /\ Len(frames[s]) = 1 /\ frames[s][1].pc \in Own(s)
          /\ s # Scheduler => frames[s][1].back = <<s, 1, "user">>
          /\ ~frames[s][1].away
      BY <1>3, <1>5, <1>6, <3>1
    <3>3. StackFits(s, frames[s])
      BY <3>2, TrapConstants DEF StackFits
    <3>4. Parked(s, frames[s])
      BY <1>3, <1>5, <3>2 DEF Parked
    <3> QED  BY <3>3, <3>4
  <2> QED  BY <2>1, <2>2 DEF StacksFit
<1>8. Top.pc = "back"
  BY <1>3, <1>5, TrapConstants DEF Top, Depth, TrapInit
<1>9. HartFits
  BY <1>8 DEF HartFits, TrapInit
<1>10. ProcsFit
  <2>1. \A s \in Stack : frames[s][1].pc = IF s = Scheduler THEN "back" ELSE "usertrapret"
    BY <1>3, <1>5
  <2> QED  BY <2>1, TrapConstants DEF ProcsFit, TrapInit
<1>11. Scalars
  <2>1. pstate \in [Runner -> {"runnable", "running", "sleeping"}] /\ slice \in [Runner -> 0..MinSlice]
    BY TrapConstants DEF TrapInit
  <2>2. ncli \in 0..(MaxLocks + 1)
    BY TrapConstants DEF TrapInit
  <2> QED  BY <1>1, <2>1, <2>2, TrapConstants DEF TrapInit, Scalars
<1> QED  BY <1>7, <1>9, <1>10, <1>11 DEF TrapInv

-----------------------------------------------------------------------------
(* Every step keeps the invariant: into the kernel.                        *)
LEMMA StepUserTrap == ASSUME TrapInv, NEW ecall \in BOOLEAN, UserTrap(ecall) PROVE TrapInv'
<1> DEFINE pc == IF ecall THEN "syscall" ELSE "handler"
           t == [Top EXCEPT !.pc = pc, !.back = Here]
<1>1. /\ onHart \in Stack /\ Depth \in Nat /\ Top \in Frame /\ Top = frames[onHart][Depth]
      /\ Here \in Address /\ Top.pc = "user"
      /\ Top.pc \in Own(onHart) => Depth = 1
      /\ Top.pc \in Own(onHart) \/ Top.pc \in Handling
  BY TopIs DEF UserTrap, At
<1>2. Depth = 1 /\ onHart # Scheduler /\ Top.pc \in Own(onHart)
  BY <1>1 DEF Own, Handling
<1>3. t \in Frame /\ t.pc = pc /\ t.back = <<onHart, 1, "user">> /\ t.pc \in Own(onHart)
  BY <1>1, <1>2 DEF Frame, Place, Own, Here
<1>4. frames' = [frames EXCEPT ![onHart][Depth] = t] /\ onHart' = onHart
  BY <1>1 DEF UserTrap
<1> HIDE DEF t
<1>5. /\ StacksFit' /\ frames'[onHart][1] = t /\ Top' = t
      /\ \A s \in Stack \ {onHart} : frames'[s] = frames[s]
  BY <1>2, <1>3, <1>4, NewTop
<1>6. HartFits'
  <2>1. /\ ncli' = ncli /\ ncli = 0 /\ stvec' = "kernel" /\ sie' = ecall
    BY <1>1 DEF HartFits, TrapInv, UserTrap, locks
  <2>2. CASE ecall
    BY <1>3, <1>5, <2>1, <2>2 DEF HartFits
  <2>3. CASE ~ecall
    BY <1>3, <1>5, <2>1, <2>3 DEF HartFits
  <2> QED  BY <2>2, <2>3
<1>7. ProcsFit'
  <2>1. onHart' = onHart /\ running' = running /\ pstate' = pstate /\ slice' = slice
    BY DEF UserTrap, procs
  <2>2. \A p \in Runner : frames'[p][1].pc = "switch" => frames[p][1].pc = "switch"
    BY <1>3, <1>5, TrapConstants
  <2> QED  BY <1>2, <2>1, <2>2 DEF ProcsFit, TrapInv
<1>8. Scalars'
  BY <1>1 DEF Scalars, TrapInv, UserTrap, procs, locks
<1> QED  BY <1>5, <1>6, <1>7, <1>8 DEF TrapInv

LEMMA StepInterrupt == ASSUME TrapInv, Interrupt PROVE TrapInv'
<1> DEFINE t == [pc |-> "vector", back |-> Here, away |-> FALSE]
<1>1. /\ onHart \in Stack /\ StackFits(onHart, frames[onHart])
      /\ Depth \in Nat /\ Depth = Len(frames[onHart]) /\ Depth > 0
      /\ Top \in Frame /\ Top = frames[onHart][Depth]
      /\ Here \in Address
      /\ Top.pc \in Own(onHart) \/ Top.pc \in Handling
      /\ Top.pc \in Own(onHart) => Depth = 1
  BY TopIs
<1>2. t \in Frame /\ t.pc = "vector" /\ ~t.away /\ t.pc \in Handling
  BY <1>1 DEF Frame, Place, Handling
<1>3. /\ sie /\ Top.pc # "user" /\ Depth < MaxDepth /\ onHart' = onHart
      /\ frames' = [frames EXCEPT ![onHart] = Append(frames[onHart], t)]
  BY DEF Interrupt
<1> HIDE DEF t
<1>4. Interruptible(Top)
  BY <1>1, <1>3 DEF HartFits, TrapInv, Interruptible, Own, Handling
<1>5. /\ StackFits(onHart, Append(frames[onHart], t))
      /\ Len(Append(frames[onHart], t)) = Depth + 1
      /\ Append(frames[onHart], t)[Depth + 1] = t
      /\ Append(frames[onHart], t)[1] = frames[onHart][1]
  BY <1>1, <1>2, <1>3, <1>4, StackPush
<1>6. /\ StacksFit' /\ frames'[onHart] = Append(frames[onHart], t)
      /\ \A s \in Stack \ {onHart} : frames'[s] = frames[s]
  BY <1>3, <1>5, NewStack
<1>7. Top' = t
  BY <1>3, <1>5, <1>6 DEF Top, Depth
<1>8. Top.pc # "critical" /\ Top.pc # "userret"
  BY <1>3 DEF HartFits, TrapInv
<1>9. HartFits'
  BY <1>2, <1>3, <1>7, <1>8 DEF HartFits, TrapInv, Interrupt, locks
<1>10. ProcsFit'
  <2>1. /\ onHart' = onHart /\ running' = running /\ pstate' = pstate /\ slice' = slice
        /\ Top.pc = "picked" => slice[running] = 0
    BY DEF Interrupt, procs
  <2>2. \A s \in Stack : frames'[s][1] = frames[s][1]
    BY <1>5, <1>6
  <2>3. ASSUME onHart = Scheduler, frames[Scheduler][1].pc = "picked" PROVE slice[running] = 0
    <3>1. ~Top.away
      BY <1>1, <2>3 DEF StackFits
    <3>2. Depth = 1
      BY <1>1, <1>4, <3>1 DEF Interruptible, Own, Handling
    <3> QED  BY <1>1, <2>1, <2>3, <3>2
  <2> QED  BY <2>1, <2>2, <2>3, TrapConstants DEF ProcsFit, TrapInv
<1>11. Scalars'
  BY <1>1 DEF Scalars, TrapInv, Interrupt, procs, locks
<1> QED  BY <1>6, <1>9, <1>10, <1>11 DEF TrapInv

LEMMA StepHandles ==
  ASSUME TrapInv, At("handler") \/ At("vector"), Goes(After(Top.pc)),
         UNCHANGED <<onHart, running, regs, locks, wild>>,
         pstate' \in [Runner -> {"runnable", "running", "sleeping"}],
         slice' \in [Runner -> 0..MinSlice],
         \A p \in Runner : pstate'[p] = "running" <=> pstate[p] = "running"
  PROVE  TrapInv'
<1> DEFINE pc == After(Top.pc)
<1>1. /\ onHart \in Stack /\ Depth \in Nat /\ Depth > 0 /\ Top \in Frame
      /\ Top.pc \in Own(onHart) => Depth = 1
      /\ Top.pc \in Handling => Depth > 1
      /\ Top.pc \in Own(onHart) \/ Top.pc \in Handling
  BY TopIs
<1>2. /\ pc \in Place /\ Top.pc # "user"
      /\ \/ Top.pc = "handler" /\ pc = "usertrapret" /\ Top.pc \in Own(onHart) /\ onHart # Scheduler
         \/ Top.pc = "vector" /\ pc = "rest" /\ Top.pc \in Handling
  BY <1>1 DEF At, After, Own, Handling, Place
<1> HIDE DEF pc
<1>3. /\ onHart' = onHart /\ running' = running /\ UNCHANGED <<regs, locks>> /\ wild' = wild
  OBVIOUS
<1>4. /\ StacksFit'
      /\ Depth > 1 => frames'[onHart][1] = frames[onHart][1]
      /\ Depth = 1 => frames'[onHart][1].pc = pc
      /\ Top' = [Top EXCEPT !.pc = pc]
      /\ \A s \in Stack \ {onHart} : frames'[s] = frames[s]
  <2>1. \/ Top.pc \in Own(onHart) /\ pc \in Own(onHart) /\ Top.pc # "user"
        \/ Top.pc \in Handling /\ pc \in Handling
    BY <1>2 DEF Own, Handling
  <2>2. Goes(pc)
    BY DEF pc
  <2> QED  BY <1>2, <1>3, <2>1, <2>2, MovesOn
<1>5. Top'.pc = pc /\ Top'.away = Top.away
  BY <1>1, <1>4 DEF Frame
<1>6. HartFits'
  BY <1>2, <1>3, <1>5 DEF HartFits, TrapInv, regs, locks
<1>7. ProcsFit'
  <2>1. \A p \in Runner : frames'[p][1].pc = "switch" => frames[p][1].pc = "switch"
    BY <1>1, <1>2, <1>4, TrapConstants
  <2>2. onHart = Scheduler => frames'[Scheduler][1] = frames[Scheduler][1]
    BY <1>1, <1>2, <1>4
  <2>3. Top'.pc # "vector"
    BY <1>2, <1>5
  <2> QED  BY <1>3, <2>1, <2>2, <2>3 DEF ProcsFit, TrapInv, Scalars
<1>8. Scalars'
  BY <1>3 DEF Scalars, TrapInv, regs, locks
<1> QED  BY <1>4, <1>6, <1>7, <1>8 DEF TrapInv

LEMMA StepDevice == ASSUME TrapInv, Device PROVE TrapInv'
<1>1. /\ pstate \in [Runner -> {"runnable", "running", "sleeping"}]
      /\ slice \in [Runner -> 0..MinSlice]
  BY DEF TrapInv, Scalars
<1>2. /\ pstate' \in [Runner -> {"runnable", "running", "sleeping"}]
      /\ \A p \in Runner : pstate'[p] = "running" <=> pstate[p] = "running"
  BY <1>1 DEF Device
<1> QED  BY <1>1, <1>2, StepHandles DEF Device

LEMMA StepNoYield == ASSUME TrapInv, NoYield PROVE TrapInv'
<1>1. /\ pstate \in [Runner -> {"runnable", "running", "sleeping"}]
      /\ slice \in [Runner -> 0..MinSlice] /\ running \in Runner \cup {Nobody}
  BY DEF TrapInv, Scalars
<1>2. slice' \in [Runner -> 0..MinSlice]
  <2>1. CASE Counts /\ slice[running] < MinSlice
    <3>1. running \in Runner /\ slice[running] + 1 \in 0..MinSlice
      BY <1>1, <2>1, TrapConstants DEF Counts
    <3>2. slice' = [slice EXCEPT ![running] = slice[running] + 1]
      BY <1>1, <2>1, <3>1 DEF NoYield
    <3> QED  BY <1>1, <3>1, <3>2
  <2>2. CASE ~(Counts /\ slice[running] < MinSlice)
    BY <1>1, <2>2 DEF NoYield
  <2> QED  BY <2>1, <2>2
<1> QED  BY <1>1, <1>2, StepHandles DEF NoYield

\* The scheduler's own stack is never switched away: no tick expires a slice there.
LEMMA NoExpiryInScheduler ==
  ASSUME TrapInv, At("handler") \/ At("vector"), Expires
  PROVE  onHart # Scheduler /\ onHart = running
<1>1. /\ running \in Runner /\ pstate[running] = "running" /\ slice[running] + 1 >= MinSlice
      /\ slice[running] \in Nat
  BY TrapConstants DEF Expires, Counts, TrapInv, Scalars
<1>2. onHart # Scheduler
  <2> SUFFICES ASSUME onHart = Scheduler PROVE FALSE
    OBVIOUS
  <2>1. frames[Scheduler][1].pc \in {"back", "search", "picked"} /\ Top.pc = "vector"
    <3>1. StackFits(onHart, frames[onHart]) /\ (Top.pc \in Own(onHart) \/ Top.pc \in Handling)
      BY TopIs
    <3> QED  BY <3>1 DEF StackFits, Own, Handling, At
  <2>2. slice[running] = 0
    BY <1>1, <2>1, TrapConstants DEF ProcsFit, TrapInv
  <2> QED  BY <1>1, <2>2, TrapConstants
<1> QED  BY <1>2 DEF ProcsFit, TrapInv

LEMMA StepYield == ASSUME TrapInv, YieldInHandler PROVE TrapInv'
<1> DEFINE pc == After(Top.pc)
           t == [Top EXCEPT !.pc = pc, !.away = TRUE]
<1>1. /\ onHart \in Stack /\ Depth \in Nat /\ Depth > 0 /\ Depth = Len(frames[onHart])
      /\ Top \in Frame /\ Top = frames[onHart][Depth]
      /\ StackFits(onHart, frames[onHart]) /\ frames[onHart] \in Seq(Frame)
      /\ Top.pc \in Own(onHart) => Depth = 1
      /\ Top.pc \in Handling => Depth > 1
  BY TopIs
<1>2. onHart # Scheduler /\ onHart = running /\ onHart \in Runner /\ pstate[onHart] = "running"
  <2>1. /\ At("handler") \/ At("vector")
        /\ Expires
    BY DEF YieldInHandler
  <2> QED  BY <1>1, <2>1, NoExpiryInScheduler, TrapConstants DEF Expires, Counts
<1>3. \/ Top.pc = "handler" /\ pc = "usertrapret" /\ Depth = 1
      \/ Top.pc = "vector" /\ pc = "rest" /\ Depth > 1
  BY <1>1, <1>2 DEF YieldInHandler, At, After, Own, Handling
<1>4. t \in Frame /\ t.pc = pc /\ t.back = Top.back /\ t.away
  BY <1>1, <1>3 DEF Frame, Place
<1>5. /\ frames' = [frames EXCEPT ![onHart][Depth] = t]
      /\ onHart' = Scheduler /\ running' = running /\ wild' = "no"
      /\ UNCHANGED <<regs, locks>>
      /\ pstate' = [pstate EXCEPT ![running] = "runnable"]
      /\ slice' = [slice EXCEPT ![running] = 0]
  <2>1. frames' = [frames EXCEPT ![onHart][Depth] = t]
    BY <1>1 DEF YieldInHandler
  <2>2. wild' = "no"
    BY <1>2 DEF YieldInHandler
  <2> HIDE DEF t
  <2> QED  BY <2>1, <2>2 DEF YieldInHandler
<1> HIDE DEF pc, t
<1>6. /\ StacksFit'
      /\ Depth > 1 => frames'[onHart][1] = frames[onHart][1]
      /\ Depth = 1 => frames'[onHart][1] = t
      /\ \A s \in Stack \ {onHart} : frames'[s] = frames[s]
  <2> DEFINE g == [frames[onHart] EXCEPT ![Depth] = t]
  <2>1. g[Len(g)] = t /\ Len(g) = Depth /\ (Depth > 1 => g[1] = frames[onHart][1])
    <3>1. frames[onHart] \in [1..Depth -> Frame] /\ Depth \in 1..Depth
      BY <1>1, SeqDef, LenProperties
    <3>2. g \in [1..Depth -> Frame]
      BY <3>1, <1>4
    <3>3. Len(g) = Depth
      BY <1>1, <3>2, SeqDef, LenProperties
    <3>4. g[Depth] = t /\ (Depth > 1 => g[1] = frames[onHart][1])
      BY <1>1, <3>1
    <3> QED  BY <3>3, <3>4
  <2>2. frames[onHart][1].pc # "switch"
    BY <1>2 DEF ProcsFit, TrapInv
  <2> HIDE DEF g
  <2>3. Parked(onHart, g)
    BY <1>2, <1>3, <1>4, <2>1, <2>2 DEF Parked
  <2>4. \/ /\ Top.pc \in Own(onHart) /\ t.pc \in Own(onHart)
           /\ onHart # Scheduler /\ t.pc # "user" => t.back = <<onHart, 1, "user">>
        \/ Top.pc \in Handling /\ t.pc \in Handling
    BY <1>1, <1>2, <1>3, <1>4 DEF Own, Handling, StackFits
  <2>5. onHart' \in Stack /\ Parked(onHart, [frames[onHart] EXCEPT ![Depth] = t])
    BY <1>5, <2>3, TrapConstants DEF g
  <2>6. onHart = Scheduler => ~t.away
    BY <1>2
  <2> QED  BY <1>4, <1>5, <2>4, <2>5, <2>6, NewTop
<1>7. Len(frames[Scheduler]) = 1 /\ frames[Scheduler][1].pc = "back" /\ frames'[Scheduler] = frames[Scheduler]
  BY <1>2, <1>6, TrapConstants DEF TrapInv, StacksFit, Parked
<1>8. Top' = frames[Scheduler][1] /\ Top'.pc = "back"
  BY <1>5, <1>7 DEF Top, Depth
<1>9. HartFits'
  BY <1>3, <1>5, <1>8 DEF HartFits, TrapInv, regs, locks
<1>10. pstate'[running] = "runnable"
  BY <1>2, <1>5 DEF TrapInv, Scalars
<1>11. ProcsFit'
  <2>1. \A p \in Runner : frames'[p][1].pc = "switch" => frames[p][1].pc = "switch"
    BY <1>1, <1>3, <1>4, <1>6, TrapConstants
  <2>2. \A p \in Runner : pstate'[p] = "running" => pstate[p] = "running"
    BY <1>5, <1>10 DEF TrapInv, Scalars
  <2> QED  BY <1>5, <1>7, <1>10, <2>1, <2>2 DEF ProcsFit, TrapInv
<1>12. Scalars'
  <2>1. /\ pstate' \in [Runner -> {"runnable", "running", "sleeping"}]
        /\ slice' \in [Runner -> 0..MinSlice]
    BY <1>2, <1>5, TrapConstants DEF Scalars, TrapInv
  <2> QED  BY <1>5, <2>1, TrapConstants DEF Scalars, TrapInv, regs, locks
<1> QED  BY <1>6, <1>9, <1>11, <1>12 DEF TrapInv

-----------------------------------------------------------------------------
(* In a system call, and back to user mode.                                *)
InKernel == {"handler", "syscall", "critical", "switch", "usertrapret", "userret"}

\* A process in the kernel that moves on to another place there, or to user mode.
LEMMA InProcess ==
  ASSUME TrapInv, Top.pc \in InKernel
  PROVE  /\ onHart \in Runner /\ Depth = 1 /\ Top = frames[onHart][1] /\ Top \in Frame
         /\ onHart # Scheduler /\ Top.back = <<onHart, 1, "user">>
<1>1. /\ onHart \in Stack /\ Top = frames[onHart][Depth] /\ Top \in Frame
      /\ Top.pc \in Own(onHart) => Depth = 1
      /\ Top.pc \in Own(onHart) \/ Top.pc \in Handling
      /\ StackFits(onHart, frames[onHart])
  BY TopIs
<1>2. onHart # Scheduler /\ Depth = 1
  BY <1>1 DEF Own, Handling, InKernel
<1> QED  BY <1>1, <1>2, TrapConstants DEF StackFits, InKernel

LEMMA ProcessStep ==
  ASSUME TrapInv, Top.pc \in InKernel, NEW pc, pc \in InKernel \cup {"user"}, Goes(pc),
         onHart' = onHart
  PROVE  /\ StacksFit'
         /\ Top'.pc = pc /\ Top'.back = Top.back
         /\ frames'[onHart][1].pc = pc
         /\ \A s \in Stack \ {onHart} : frames'[s] = frames[s]
<1>1. /\ onHart \in Runner /\ Depth = 1 /\ onHart # Scheduler /\ Top \in Frame
  BY InProcess
<1>2. pc \in Place /\ Top.pc \in Own(onHart) /\ pc \in Own(onHart) /\ Top.pc # "user"
  BY <1>1 DEF InKernel, Own, Place
<1>3. /\ StacksFit'
      /\ frames'[onHart][1].pc = pc
      /\ Top' = [Top EXCEPT !.pc = pc]
      /\ \A s \in Stack \ {onHart} : frames'[s] = frames[s]
  BY <1>1, <1>2, MovesOn
<1> QED  BY <1>1, <1>3 DEF Frame

LEMMA ProcessKeepsProcs ==
  ASSUME TrapInv, Top.pc \in InKernel, NEW pc, pc \in InKernel \cup {"user"}, Goes(pc),
         pc # "switch", onHart' = onHart, UNCHANGED procs
  PROVE  ProcsFit'
<1>1. onHart # Scheduler
  BY InProcess
<1>2. /\ frames'[onHart][1].pc = pc
      /\ \A s \in Stack \ {onHart} : frames'[s] = frames[s]
  BY ProcessStep
<1>3. \A p \in Runner : frames'[p][1].pc = "switch" => frames[p][1].pc = "switch"
  BY <1>2, TrapConstants
<1> QED  BY <1>1, <1>3 DEF ProcsFit, TrapInv, procs

LEMMA StepAcquire == ASSUME TrapInv, Acquire PROVE TrapInv'
<1>1. /\ Top.pc \in {"syscall", "critical"} /\ onHart' = onHart /\ UNCHANGED procs
      /\ Goes("critical") /\ Top.pc \in InKernel
  BY DEF Acquire, At, InKernel
<1>2. StacksFit' /\ Top'.pc = "critical" /\ ProcsFit'
  BY <1>1, ProcessStep, ProcessKeepsProcs DEF InKernel
<1>3. ncli \in Nat /\ intena \in BOOLEAN /\ sie \in BOOLEAN /\ ncli' = ncli + 1 /\ ncli' \in 0..(MaxLocks + 1)
  BY TrapConstants DEF TrapInv, Scalars, Acquire
<1>4. HartFits'
  <2>1. CASE Top.pc = "syscall"
    <3>1. ncli = 0 /\ sie /\ stvec = "kernel"
      BY <2>1 DEF HartFits, TrapInv
    <3>2. intena' /\ ~sie' /\ ncli' > 0 /\ stvec' = "kernel"
      BY <3>1, <1>3 DEF Acquire
    <3> QED  BY <1>2, <3>2 DEF HartFits
  <2>2. CASE Top.pc = "critical"
    <3>1. ncli > 0 /\ intena /\ stvec = "kernel"
      BY <2>2 DEF HartFits, TrapInv
    <3>2. intena' /\ ~sie' /\ ncli' > 0 /\ stvec' = "kernel"
      BY <3>1, <1>3 DEF Acquire
    <3> QED  BY <1>2, <3>2 DEF HartFits
  <2> QED  BY <1>1, <2>1, <2>2
<1>5. Scalars'
  BY <1>3 DEF Scalars, TrapInv, Acquire, procs
<1> QED  BY <1>2, <1>4, <1>5 DEF TrapInv

\* The last release of a lock turns interrupts on again; those before do not.
LEMMA LastRelease ==
  ASSUME TrapInv, Top.pc = "critical", PopOff
  PROVE  /\ ncli' \in 0..(MaxLocks + 1) /\ ncli' = ncli - 1 /\ ncli \in Nat \ {0} /\ intena
         /\ ncli = 1 => sie'
         /\ ncli # 1 => ~sie'
         /\ sie' \in BOOLEAN /\ stvec = "kernel"
<1>1. /\ ncli \in 0..(MaxLocks + 1) /\ ncli > 0 /\ ~sie /\ intena /\ stvec = "kernel"
      /\ sie \in BOOLEAN /\ intena \in BOOLEAN
  BY DEF TrapInv, Scalars, HartFits
<1>2. ncli' = ncli - 1 /\ ncli' \in 0..(MaxLocks + 1) /\ ncli \in Nat \ {0}
  BY <1>1, TrapConstants DEF PopOff
<1>3. sie' = (sie \/ (ncli = 1 /\ intena))
  BY DEF PopOff
<1>4. CASE ncli = 1
  <2>1. sie'
    BY <1>1, <1>3, <1>4
  <2>2. sie' \in BOOLEAN
    BY <1>3
  <2> QED  BY <1>1, <1>2, <1>4, <2>1, <2>2
<1>5. CASE ncli # 1
  <2>1. ~sie'
    BY <1>1, <1>3, <1>5
  <2>2. sie' \in BOOLEAN
    BY <1>3
  <2> QED  BY <1>1, <1>2, <1>5, <2>1, <2>2
<1> QED  BY <1>4, <1>5

LEMMA StepRelease == ASSUME TrapInv, Release PROVE TrapInv'
<1> DEFINE pc == IF ncli = 1 THEN "syscall" ELSE "critical"
<1>1. /\ Top.pc = "critical" /\ onHart' = onHart /\ UNCHANGED procs /\ PopOff
      /\ Goes(pc) /\ Top.pc \in InKernel /\ pc \in InKernel /\ pc # "switch"
  BY DEF Release, At, InKernel
<1>2. StacksFit' /\ Top'.pc = pc /\ ProcsFit'
  <2> HIDE DEF pc
  <2> QED  BY <1>1, ProcessStep, ProcessKeepsProcs
<1>3. /\ ncli' \in 0..(MaxLocks + 1) /\ ncli' = ncli - 1 /\ ncli \in Nat \ {0} /\ intena
      /\ ncli = 1 => sie'
      /\ ncli # 1 => ~sie'
      /\ sie' \in BOOLEAN /\ stvec = "kernel"
  BY <1>1, LastRelease
<1>4. stvec' = "kernel" /\ intena' = intena
  BY <1>3 DEF Release
<1>5. HartFits'
  <2>1. CASE ncli = 1
    BY <1>2, <1>3, <1>4, <2>1 DEF HartFits
  <2>2. CASE ncli # 1
    BY <1>2, <1>3, <1>4, <2>2 DEF HartFits
  <2> QED  BY <2>1, <2>2
<1>6. Scalars'
  BY <1>3 DEF Scalars, TrapInv, Release, procs
<1> QED  BY <1>2, <1>5, <1>6 DEF TrapInv

LEMMA StepSleep == ASSUME TrapInv, SleepOnHart PROVE TrapInv'
<1>1. /\ Top.pc = "critical" /\ onHart' = onHart /\ running' = running /\ PopOff
      /\ Goes("switch") /\ Top.pc \in InKernel /\ ncli = 1
  BY DEF SleepOnHart, At, InKernel
<1>2. /\ StacksFit' /\ Top'.pc = "switch"
      /\ \A s \in Stack \ {onHart} : frames'[s] = frames[s]
  BY <1>1, ProcessStep DEF InKernel
<1>3. ncli' \in 0..(MaxLocks + 1) /\ ncli' = 0 /\ sie' /\ sie' \in BOOLEAN /\ stvec = "kernel"
  BY <1>1, LastRelease
<1>4. HartFits'
  BY <1>2, <1>3 DEF HartFits, SleepOnHart
<1>5. onHart \in Runner /\ onHart # Scheduler
  BY <1>1, InProcess
<1>6. /\ pstate' \in [Runner -> {"runnable", "running", "sleeping"}]
      /\ pstate'[onHart] = "sleeping" /\ \A p \in Runner \ {onHart} : pstate'[p] = pstate[p]
  BY <1>5 DEF SleepOnHart, TrapInv, Scalars
<1>7. ProcsFit'
  <2>1. \A p \in Runner : frames'[p][1].pc = "switch" => pstate'[p] # "running"
    BY <1>2, <1>6, TrapConstants DEF ProcsFit, TrapInv
  <2> QED  BY <1>1, <1>5, <1>6, <2>1 DEF ProcsFit, TrapInv
<1>8. Scalars'
  BY <1>3, <1>6 DEF Scalars, TrapInv, SleepOnHart
<1> QED  BY <1>2, <1>4, <1>7, <1>8 DEF TrapInv

LEMMA StepServed == ASSUME TrapInv, Served PROVE TrapInv'
<1>1. /\ Top.pc = "syscall" /\ onHart' = onHart /\ UNCHANGED <<procs, regs, locks, wild>>
      /\ Goes("usertrapret") /\ Top.pc \in InKernel
  BY DEF Served, At, InKernel
<1>2. StacksFit' /\ Top'.pc = "usertrapret" /\ ProcsFit'
  BY <1>1, ProcessStep, ProcessKeepsProcs DEF InKernel
<1>3. HartFits'
  BY <1>1, <1>2 DEF HartFits, TrapInv, regs, locks
<1>4. Scalars'
  BY <1>1 DEF Scalars, TrapInv, procs, regs, locks
<1> QED  BY <1>2, <1>3, <1>4 DEF TrapInv

LEMMA StepPrepareReturn == ASSUME TrapInv, PrepareReturn PROVE TrapInv'
<1>1. /\ Top.pc = "usertrapret" /\ onHart' = onHart /\ UNCHANGED <<procs, locks, wild>>
      /\ Goes("userret") /\ Top.pc \in InKernel
      /\ stvec' = "user" /\ sie' = FALSE /\ spp' = FALSE /\ spie' = TRUE /\ sepc' = Top.back
  BY DEF PrepareReturn, At, InKernel
<1>2. StacksFit' /\ Top'.pc = "userret" /\ ProcsFit'
  BY <1>1, ProcessStep, ProcessKeepsProcs DEF InKernel
<1>3. Top.back = <<onHart, 1, "user">> /\ Top \in Frame
  BY <1>1, InProcess
<1>4. HartFits'
  BY <1>1, <1>2, <1>3 DEF HartFits, TrapInv, locks
<1>5. Scalars'
  BY <1>1, <1>3 DEF Scalars, TrapInv, procs, locks, Frame
<1> QED  BY <1>2, <1>4, <1>5 DEF TrapInv

LEMMA StepReturnToUser == ASSUME TrapInv, ReturnToUser PROVE TrapInv'
<1>1. /\ Top.pc = "userret" /\ onHart' = onHart /\ UNCHANGED <<procs, locks, wild>>
      /\ Goes("user") /\ Top.pc \in InKernel
      /\ stvec' = stvec /\ spp' = spp /\ spie' = spie /\ sepc' = sepc /\ sie' = spie
  BY DEF ReturnToUser, At, InKernel
<1>2. StacksFit' /\ Top'.pc = "user" /\ ProcsFit'
  BY <1>1, ProcessStep, ProcessKeepsProcs
<1>3. HartFits'
  BY <1>1, <1>2 DEF HartFits, TrapInv, locks
<1>4. Scalars'
  BY <1>1 DEF Scalars, TrapInv, procs, locks
<1> QED  BY <1>2, <1>3, <1>4 DEF TrapInv

LEMMA StepSwitchAway == ASSUME TrapInv, SwitchAway PROVE TrapInv'
<1>1. /\ Top.pc = "switch" /\ onHart' = Scheduler /\ UNCHANGED <<procs, regs, locks, wild>>
      /\ Goes("syscall") /\ Top.pc \in InKernel
  BY DEF SwitchAway, At, InKernel
<1>2. onHart \in Runner /\ Depth = 1 /\ onHart # Scheduler /\ Top = frames[onHart][1]
  BY <1>1, InProcess
<1>3. /\ StacksFit' /\ frames'[onHart][1].pc = "syscall"
      /\ \A s \in Stack \ {onHart} : frames'[s] = frames[s]
  <2>1. \A g : /\ g[Len(g)].pc = "syscall"
               /\ Depth = 1 => Len(g) = 1
               => Parked(onHart, g)
    BY <1>2 DEF Parked
  <2>2. "syscall" \in Place /\ Top.pc \in Own(onHart) /\ "syscall" \in Own(onHart)
    BY <1>1, <1>2 DEF Own, Place
  <2>3. onHart' \in Stack
    BY <1>1, TrapConstants
  <2> QED  BY <1>1, <1>2, <2>1, <2>2, <2>3, MovesOn
<1>4. Len(frames[Scheduler]) = 1 /\ frames[Scheduler][1].pc = "back" /\ frames'[Scheduler] = frames[Scheduler]
  BY <1>2, <1>3, TrapConstants DEF TrapInv, StacksFit, Parked
<1>5. Top'.pc = "back"
  BY <1>1, <1>4 DEF Top, Depth
<1>6. HartFits'
  BY <1>1, <1>5 DEF HartFits, TrapInv, regs, locks
<1>7. ProcsFit'
  <2>1. \A p \in Runner : frames'[p][1].pc = "switch" => frames[p][1].pc = "switch"
    BY <1>3, TrapConstants
  <2>2. onHart = running /\ pstate[onHart] # "running"
    BY <1>1, <1>2 DEF ProcsFit, TrapInv
  <2> QED  BY <1>1, <1>4, <2>1, <2>2 DEF ProcsFit, TrapInv, procs
<1>8. Scalars'
  BY <1>1, TrapConstants DEF Scalars, TrapInv, procs, regs, locks
<1> QED  BY <1>3, <1>6, <1>7, <1>8 DEF TrapInv

-----------------------------------------------------------------------------
(* In scheduler.                                                           *)
LEMMA InScheduler ==
  ASSUME TrapInv, Top.pc \in Own(Scheduler)
  PROVE  onHart = Scheduler /\ Depth = 1 /\ Top = frames[Scheduler][1] /\ Top \in Frame
<1>1. /\ onHart \in Stack /\ Top = frames[onHart][Depth] /\ Top \in Frame
      /\ Top.pc \in Own(onHart) => Depth = 1
      /\ Top.pc \in Own(onHart) \/ Top.pc \in Handling
  BY TopIs
<1> QED  BY <1>1 DEF Own, Handling

LEMMA SchedulerStep ==
  ASSUME TrapInv, Top.pc \in Own(Scheduler), NEW pc, pc \in Own(Scheduler), Goes(pc),
         onHart' = onHart \/ (onHart' \in Stack /\ pc = "back")
  PROVE  /\ StacksFit'
         /\ onHart' = onHart => Top'.pc = pc
         /\ frames'[Scheduler][1].pc = pc
         /\ \A p \in Runner : frames'[p] = frames[p]
<1>1. onHart = Scheduler /\ Depth = 1 /\ Top \in Frame
  BY InScheduler
<1>2. pc \in Place /\ pc \in Own(onHart) /\ Top.pc \in Own(onHart) /\ Top.pc # "user"
  BY <1>1 DEF Own, Place
<1>3. \/ onHart' = onHart
      \/ /\ onHart' \in Stack
         /\ \A g : /\ g[Len(g)].pc = pc
                   /\ Depth = 1 => Len(g) = 1
                   => Parked(onHart, g)
  <2>1. CASE onHart' = onHart
    BY <2>1
  <2>2. CASE onHart' \in Stack /\ pc = "back"
    <3>1. ASSUME NEW g, g[Len(g)].pc = pc, Depth = 1 => Len(g) = 1
          PROVE  Parked(onHart, g)
      BY <1>1, <2>2, <3>1 DEF Parked
    <3> QED  BY <2>2, <3>1
  <2> QED  BY <2>1, <2>2
<1>4. /\ StacksFit'
      /\ frames'[onHart][1].pc = pc
      /\ onHart' = onHart => Top' = [Top EXCEPT !.pc = pc]
      /\ \A s \in Stack \ {onHart} : frames'[s] = frames[s]
  BY <1>1, <1>2, <1>3, MovesOn
<1> QED  BY <1>1, <1>4, TrapConstants DEF Frame

LEMMA StepBack == ASSUME TrapInv, BackInScheduler PROVE TrapInv'
<1>1. /\ Top.pc = "back" /\ onHart' = onHart /\ running' = Nobody /\ sie' = TRUE
      /\ Goes("search") /\ Top.pc \in Own(Scheduler) /\ "search" \in Own(Scheduler)
      /\ UNCHANGED <<pstate, slice, spie, spp, sepc, stvec, locks, wild>>
  BY DEF BackInScheduler, At, Own
<1>2. /\ StacksFit' /\ Top'.pc = "search" /\ frames'[Scheduler][1].pc = "search"
      /\ \A p \in Runner : frames'[p] = frames[p]
  BY <1>1, SchedulerStep
<1>3. onHart = Scheduler /\ Top = frames[Scheduler][1]
  BY <1>1, InScheduler
<1>4. HartFits'
  BY <1>1, <1>2 DEF HartFits, TrapInv, locks
<1>5. ProcsFit'
  <2>1. \A p \in Runner : pstate[p] # "running"
    BY <1>1, <1>3, TrapConstants DEF ProcsFit, TrapInv
  <2> QED  BY <1>1, <1>2, <1>3, <2>1 DEF ProcsFit
<1>6. Scalars'
  BY <1>1 DEF Scalars, TrapInv, locks
<1> QED  BY <1>2, <1>4, <1>5, <1>6 DEF TrapInv

LEMMA StepPick == ASSUME TrapInv, NEW p \in Runner, PickRunner(p) PROVE TrapInv'
<1>1. /\ Top.pc = "search" /\ onHart' = onHart /\ running' = p /\ pstate[p] = "runnable"
      /\ Goes("picked") /\ Top.pc \in Own(Scheduler) /\ "picked" \in Own(Scheduler)
      /\ UNCHANGED <<regs, locks, wild>>
      /\ pstate' = [pstate EXCEPT ![p] = "running"] /\ slice' = [slice EXCEPT ![p] = 0]
  BY DEF PickRunner, At, Own
<1>2. /\ StacksFit' /\ Top'.pc = "picked" /\ frames'[Scheduler][1].pc = "picked"
      /\ \A q \in Runner : frames'[q] = frames[q]
  BY <1>1, SchedulerStep
<1>3. onHart = Scheduler /\ Top = frames[Scheduler][1] /\ running = Nobody
  BY <1>1, InScheduler DEF ProcsFit, TrapInv
<1>4. HartFits'
  BY <1>1, <1>2 DEF HartFits, TrapInv, regs, locks
<1>5. /\ pstate' \in [Runner -> {"runnable", "running", "sleeping"}]
      /\ slice' \in [Runner -> 0..MinSlice] /\ slice'[p] = 0
      /\ pstate'[p] = "running" /\ \A q \in Runner \ {p} : pstate'[q] = pstate[q]
  BY <1>1, TrapConstants DEF TrapInv, Scalars
<1>6. ProcsFit'
  <2>1. \A q \in Runner : pstate'[q] = "running" => q = p
    BY <1>3, <1>5, TrapConstants DEF ProcsFit, TrapInv
  <2>2. frames[p][1].pc # "switch"
    BY <1>3, TrapConstants DEF TrapInv, StacksFit, Parked
  <2>3. \A q \in Runner : frames'[q][1].pc = "switch" => pstate'[q] # "running"
    BY <1>2, <1>5, <2>2 DEF ProcsFit, TrapInv
  <2> QED  BY <1>1, <1>2, <1>3, <1>5, <2>1, <2>3 DEF ProcsFit
<1>7. Scalars'
  BY <1>1, <1>5 DEF Scalars, TrapInv, regs, locks
<1> QED  BY <1>2, <1>4, <1>6, <1>7 DEF TrapInv

LEMMA StepSwitchTo == ASSUME TrapInv, SwitchTo PROVE TrapInv'
<1>1. /\ Top.pc = "picked" /\ onHart' = running /\ UNCHANGED <<procs, regs, locks, wild>>
      /\ Goes("back") /\ Top.pc \in Own(Scheduler) /\ "back" \in Own(Scheduler)
  BY DEF SwitchTo, At, Own
<1>2. onHart = Scheduler /\ Top = frames[Scheduler][1]
  BY <1>1, InScheduler
<1>3. running \in Runner /\ running # Scheduler /\ onHart' \in Stack
  BY <1>1, <1>2, TrapConstants DEF ProcsFit, TrapInv
<1>4. /\ StacksFit' /\ \A q \in Runner : frames'[q] = frames[q]
  BY <1>1, <1>3, SchedulerStep
<1>5. Top' = frames[running][Len(frames[running])]
  BY <1>1, <1>3, <1>4 DEF Top, Depth
<1>6. Top'.pc \in {"syscall", "usertrapret"} \/ (Top'.pc = "rest" /\ Top'.away)
  BY <1>2, <1>3, <1>5, TrapConstants DEF TrapInv, StacksFit, Parked
<1>7. HartFits'
  BY <1>1, <1>6 DEF HartFits, TrapInv, regs, locks
<1>8. ProcsFit'
  BY <1>1, <1>3, <1>4 DEF ProcsFit, TrapInv, procs
<1>9. Scalars'
  BY <1>1, <1>3 DEF Scalars, TrapInv, procs, regs, locks
<1> QED  BY <1>4, <1>7, <1>8, <1>9 DEF TrapInv

-----------------------------------------------------------------------------
(* The end of trap_kernel_handler and of kernel_vector.                    *)
LEMMA HandlerStep ==
  ASSUME TrapInv, Top.pc \in Handling, NEW pc, pc \in Handling, pc # "vector", Goes(pc),
         onHart' = onHart, UNCHANGED procs
  PROVE  /\ StacksFit' /\ ProcsFit'
         /\ Top'.pc = pc /\ Top'.back = Top.back /\ Top'.away = Top.away
<1>1. /\ Top \in Frame /\ onHart \in Stack /\ Depth > 1
  BY TopIs
<1>2. pc \in Place
  BY DEF Handling, Place
<1>3. /\ StacksFit'
      /\ Depth > 1 => frames'[onHart][1] = frames[onHart][1]
      /\ Top' = [Top EXCEPT !.pc = pc]
      /\ \A s \in Stack \ {onHart} : frames'[s] = frames[s]
  BY <1>2, MovesOn
<1>4. Top'.pc = pc /\ Top'.back = Top.back /\ Top'.away = Top.away
  BY <1>1, <1>3 DEF Frame
<1>5. \A s \in Stack : frames'[s][1] = frames[s][1]
  BY <1>1, <1>3
<1>6. ProcsFit'
  BY <1>4, <1>5, TrapConstants DEF ProcsFit, TrapInv, procs
<1> QED  BY <1>3, <1>4, <1>6

LEMMA StepWriteSepc == ASSUME TrapInv, WriteSepc PROVE TrapInv'
<1>1. /\ Top.pc = "rest" /\ onHart' = onHart /\ sepc' = Top.back
      /\ UNCHANGED <<procs, sie, spie, spp, stvec, locks, wild>>
      /\ Goes("sepc_set") /\ Top.pc \in Handling /\ "sepc_set" \in Handling
  BY DEF WriteSepc, At, Handling
<1>2. StacksFit' /\ ProcsFit' /\ Top'.pc = "sepc_set" /\ Top'.back = Top.back /\ Top'.away = Top.away
  BY <1>1, HandlerStep
<1>3. HartFits'
  BY <1>1, <1>2 DEF HartFits, TrapInv, locks
<1>4. Top.back \in Address
  BY TopIs DEF Frame
<1>5. Scalars'
  BY <1>1, <1>4 DEF Scalars, TrapInv, procs, locks
<1> QED  BY <1>2, <1>3, <1>5 DEF TrapInv

LEMMA StepWriteSstatus == ASSUME TrapInv, WriteSstatus PROVE TrapInv'
<1>1. /\ Top.pc = "sepc_set" /\ onHart' = onHart /\ ~sie' /\ spie' /\ sie' = FALSE /\ spie' = TRUE
      /\ spp' = TRUE
      /\ UNCHANGED <<procs, sepc, stvec, locks, wild>>
      /\ Goes("sstatus_set") /\ Top.pc \in Handling /\ "sstatus_set" \in Handling
  BY DEF WriteSstatus, At, Handling
<1>2. StacksFit' /\ ProcsFit' /\ Top'.pc = "sstatus_set" /\ Top'.back = Top.back /\ Top'.away = Top.away
  BY <1>1, HandlerStep
<1>3. HartFits'
  BY <1>1, <1>2 DEF HartFits, TrapInv, locks
<1>4. Scalars'
  BY <1>1 DEF Scalars, TrapInv, procs, locks
<1> QED  BY <1>2, <1>3, <1>4 DEF TrapInv

\* sret from a handler that was not switched away goes where the interrupt was.
LEMMA StepSret == ASSUME TrapInv, KernelSret PROVE TrapInv'
<1> DEFINE g == SubSeq(frames[onHart], 1, Depth - 1)
<1>1. /\ Top.pc = "sstatus_set" /\ onHart' = onHart /\ sie' = spie
      /\ UNCHANGED <<procs, spie, spp, sepc, stvec, locks>>
      /\ frames' = [frames EXCEPT ![onHart] = g]
      /\ wild' = IF sepc = Top.back THEN "no" ELSE IF Top.away THEN "preempted" ELSE "plain"
  BY DEF KernelSret, At
<1>2. /\ onHart \in Stack /\ StackFits(onHart, frames[onHart])
      /\ Depth \in Nat /\ Depth = Len(frames[onHart]) /\ Depth > 1
  BY <1>1, TopIs DEF Handling
<1>3. StackFits(onHart, g) /\ Interruptible(g[Len(g)]) /\ Len(g) = Depth - 1 /\ g[1] = frames[onHart][1]
  BY <1>2, StackPop
<1> HIDE DEF g
<1>4. /\ StacksFit' /\ frames'[onHart] = g
      /\ \A s \in Stack \ {onHart} : frames'[s] = frames[s]
  BY <1>1, <1>3, NewStack
<1>5. Interruptible(Top')
  BY <1>1, <1>3, <1>4 DEF Top, Depth
<1>6. /\ ncli = 0 /\ spie /\ stvec = "kernel"
      /\ ~Top.away => sepc = Top.back
  BY <1>1 DEF HartFits, TrapInv
<1>7. HartFits'
  <2>1. ncli' = 0 /\ sie' /\ stvec' = "kernel"
    BY <1>1, <1>6 DEF locks
  <2> QED  BY <1>5, <2>1 DEF HartFits, Interruptible
<1>8. \A s \in Stack : frames'[s][1] = frames[s][1]
  BY <1>3, <1>4
<1>9. ProcsFit'
  <2>1. Top'.pc # "vector"
    BY <1>5 DEF Interruptible
  <2> QED  BY <1>1, <1>8, <2>1, TrapConstants DEF ProcsFit, TrapInv, procs
<1>10. wild' \in {"no", "preempted"}
  BY <1>1, <1>6
<1>11. Scalars'
  BY <1>1, <1>10 DEF Scalars, TrapInv, procs, locks
<1> QED  BY <1>4, <1>7, <1>9, <1>11 DEF TrapInv

LEMMA TrapInvStep == TrapInv /\ [TrapNext]_trapVars => TrapInv'
<1> SUFFICES ASSUME TrapInv, [TrapNext]_trapVars PROVE TrapInv'
  OBVIOUS
<1>1. CASE UNCHANGED trapVars
  BY <1>1 DEF trapVars, procs, regs, locks, TrapInv, Scalars, StacksFit, HartFits, ProcsFit, Top, Depth
<1>2. ASSUME NEW ecall \in BOOLEAN, UserTrap(ecall) PROVE TrapInv'
  BY <1>2, StepUserTrap
<1>3. ASSUME NEW p \in Runner, PickRunner(p) PROVE TrapInv'
  BY <1>3, StepPick
<1>4. CASE Interrupt \/ Device \/ NoYield \/ YieldInHandler
  BY <1>4, StepInterrupt, StepDevice, StepNoYield, StepYield
<1>5. CASE Acquire \/ Release \/ SleepOnHart \/ SwitchAway \/ Served
  BY <1>5, StepAcquire, StepRelease, StepSleep, StepSwitchAway, StepServed
<1>6. CASE BackInScheduler \/ SwitchTo \/ PrepareReturn \/ ReturnToUser
  BY <1>6, StepBack, StepSwitchTo, StepPrepareReturn, StepReturnToUser
<1>7. CASE WriteSepc \/ WriteSstatus \/ KernelSret
  BY <1>7, StepWriteSepc, StepWriteSstatus, StepSret
<1> QED  BY <1>1, <1>2, <1>3, <1>4, <1>5, <1>6, <1>7 DEF TrapNext

(* No spinlock is held with interrupts on, across a switch or in user mode;  *)
(* every trap finds the vector of its mode; a process goes back to user mode *)
(* where it left; and a handler returns where it interrupted unless it was   *)
(* itself switched away.  For every number of processes, locks and nested    *)
(* interrupts.                                                               *)
THEOREM TrapsReturn == TrapSpec => []TrapSafe
<1>1. TrapInv => TrapSafe
  <2> SUFFICES ASSUME TrapInv PROVE TrapSafe
    OBVIOUS
  <2>1. LocksMaskInterrupts /\ VectorFits /\ UserResumes /\ HandlersReturn
    BY DEF TrapInv, HartFits, Scalars, LocksMaskInterrupts, VectorFits, UserResumes, HandlersReturn
  <2> QED  BY <2>1 DEF TrapSafe
<1> QED  BY <1>1, TrapInvInit, TrapInvStep, PTL DEF TrapSpec

-----------------------------------------------------------------------------
(* Memory: counting pages.                                                 *)
Each(t, D) == {m \in Task \X D : m[2] \in t[m[1]]}
Apart(t, D, p) == {m \in Each(t, D) : m[1] # p}
TaskRow(q, S) == {<<q, v>> : v \in S}

LEMMA TasksFinite == IsFiniteSet(Task)
BY MemoryAssumption

LEMMA TaskRowCounts ==
  ASSUME NEW q, NEW D, IsFiniteSet(D), NEW S \in SUBSET D
  PROVE  /\ IsFiniteSet(S) /\ Cardinality(S) \in Nat
         /\ IsFiniteSet(TaskRow(q, S)) /\ Cardinality(TaskRow(q, S)) = Cardinality(S)
<1>1. IsFiniteSet(S) /\ Cardinality(S) \in Nat
  BY FS_Subset, FS_CardinalityType
<1> DEFINE g == [v \in S |-> <<q, v>>]
<1>2. g \in Bijection(S, TaskRow(q, S))
  <2>1. g \in [S -> TaskRow(q, S)]
    BY DEF TaskRow
  <2>2. IsInjective(g)
    BY DEF IsInjective
  <2>3. \A y \in TaskRow(q, S) : \E v \in S : g[v] = y
    BY DEF TaskRow
  <2> QED  BY <2>1, <2>2, <2>3 DEF Bijection, Injection, Surjection, IsInjective
<1>3. ExistsBijection(S, TaskRow(q, S))
  BY <1>2 DEF ExistsBijection
<1> QED  BY <1>1, <1>3, FS_Bijection

LEMMA EachSplits ==
  ASSUME NEW D, IsFiniteSet(D), NEW t \in [Task -> SUBSET D], NEW p \in Task
  PROVE  /\ Cardinality(Each(t, D)) = Cardinality(Apart(t, D, p)) + Cardinality(t[p])
         /\ Cardinality(Apart(t, D, p)) \in Nat /\ Cardinality(t[p]) \in Nat
<1>1. IsFiniteSet(Task \X D)
  BY TasksFinite, FS_Product
<1>2. IsFiniteSet(Apart(t, D, p)) /\ Cardinality(Apart(t, D, p)) \in Nat
  <2>1. Apart(t, D, p) \in SUBSET (Task \X D)
    BY DEF Apart, Each
  <2>2. IsFiniteSet(Apart(t, D, p))
    BY <1>1, <2>1, FS_Subset
  <2> QED  BY <2>2, FS_CardinalityType
<1>3. t[p] \in SUBSET D
  OBVIOUS
<1> DEFINE R == TaskRow(p, t[p])
<1>4. /\ IsFiniteSet(R) /\ Cardinality(R) = Cardinality(t[p]) /\ Cardinality(t[p]) \in Nat
  BY <1>3, TaskRowCounts
<1>5. Each(t, D) = Apart(t, D, p) \cup R
  <2>1. ASSUME NEW m \in Task \X D PROVE m \in Each(t, D) <=> m \in Apart(t, D, p) \cup R
    <3>1. PICK q \in Task, v \in D : m = <<q, v>>
      OBVIOUS
    <3> QED  BY <3>1 DEF Each, Apart, TaskRow
  <2>2. Each(t, D) \subseteq Task \X D /\ Apart(t, D, p) \subseteq Task \X D
    BY DEF Each, Apart
  <2>3. R \subseteq Task \X D
    BY <1>3 DEF TaskRow
  <2> QED  BY <2>1, <2>2, <2>3
<1>6. Apart(t, D, p) \cap R = {}
  BY DEF Apart, TaskRow
<1>7. Cardinality(Apart(t, D, p) \cup R)
        = Cardinality(Apart(t, D, p)) + Cardinality(R) - Cardinality(Apart(t, D, p) \cap R)
  BY <1>2, <1>4, FS_Union
<1>8. Cardinality(Apart(t, D, p) \cap R) = 0
  BY <1>6, FS_EmptySet
<1> HIDE DEF R
<1> QED  BY <1>2, <1>4, <1>5, <1>7, <1>8

\* The set of one process changes.
Replaces(t, u, p, S) == u = [t EXCEPT ![p] = S]

LEMMA EachOne ==
  ASSUME NEW D, IsFiniteSet(D), NEW t \in [Task -> SUBSET D], NEW p \in Task,
         NEW S \in SUBSET D, NEW u, Replaces(t, u, p, S)
  PROVE  /\ Cardinality(Each(t, D)) \in Nat /\ Cardinality(Each(u, D)) \in Nat
         /\ Cardinality(S) \in Nat /\ Cardinality(t[p]) \in Nat
         /\ Cardinality(Each(u, D)) + Cardinality(t[p]) = Cardinality(Each(t, D)) + Cardinality(S)
<1>1. /\ u \in [Task -> SUBSET D] /\ u[p] = S
      /\ \A q \in Task : q # p => u[q] = t[q]
  BY DEF Replaces
<1>2. Apart(u, D, p) = Apart(t, D, p)
  <2>1. ASSUME NEW m \in Task \X D PROVE m \in Apart(u, D, p) <=> m \in Apart(t, D, p)
    <3>1. PICK q \in Task, v \in D : m = <<q, v>>
      OBVIOUS
    <3>2. q # p => u[q] = t[q]
      BY <1>1
    <3> QED  BY <3>1, <3>2 DEF Each, Apart
  <2>2. Apart(u, D, p) \subseteq Task \X D /\ Apart(t, D, p) \subseteq Task \X D
    BY DEF Each, Apart
  <2> QED  BY <2>1, <2>2
<1>3. /\ Cardinality(Each(t, D)) = Cardinality(Apart(t, D, p)) + Cardinality(t[p])
      /\ Cardinality(Apart(t, D, p)) \in Nat /\ Cardinality(t[p]) \in Nat
  BY EachSplits
<1>4. /\ Cardinality(Each(u, D)) = Cardinality(Apart(u, D, p)) + Cardinality(u[p])
      /\ Cardinality(u[p]) \in Nat
  BY <1>1, EachSplits
<1> QED  BY <1>1, <1>2, <1>3, <1>4

LEMMA EachNone ==
  ASSUME NEW D, NEW t, \A q \in Task : t[q] = {}
  PROVE  Cardinality(Each(t, D)) = 0
<1>1. ASSUME NEW m \in Each(t, D) PROVE FALSE
  <2>1. PICK q \in Task, v \in D : m = <<q, v>>
    BY DEF Each
  <2> QED  BY <2>1 DEF Each
<1>2. Each(t, D) = {}
  BY <1>1
<1> QED  BY <1>2, FS_EmptySet

\* One process joins a set of processes, or leaves it.
Whether(b) == IF b THEN 1 ELSE 0

LEMMA OneJoins ==
  ASSUME NEW A \in SUBSET Task, NEW B \in SUBSET Task, NEW p \in Task, A \ {p} = B \ {p}
  PROVE  /\ Cardinality(A) \in Nat /\ Cardinality(B) \in Nat
         /\ Cardinality(B) + Whether(p \in A) = Cardinality(A) + Whether(p \in B)
<1>1. /\ IsFiniteSet(A) /\ IsFiniteSet(B) /\ Cardinality(A) \in Nat /\ Cardinality(B) \in Nat
  BY TasksFinite, FS_Subset, FS_CardinalityType
<1>2. /\ Cardinality(A \ {p}) = IF p \in A THEN Cardinality(A) - 1 ELSE Cardinality(A)
      /\ Cardinality(B \ {p}) = IF p \in B THEN Cardinality(B) - 1 ELSE Cardinality(B)
  BY <1>1, FS_RemoveElement
<1>3. Cardinality(A \ {p}) = Cardinality(B \ {p})
  OBVIOUS
<1> DEFINE a == Cardinality(A)  b == Cardinality(B)  c == Cardinality(A \ {p})
<1>4. /\ c = IF p \in A THEN a - 1 ELSE a
      /\ c = IF p \in B THEN b - 1 ELSE b
  BY <1>2, <1>3
<1> HIDE DEF a, b, c
<1>5. b + Whether(p \in A) = a + Whether(p \in B)
  <2>1. a \in Nat /\ b \in Nat
    BY <1>1 DEF a, b
  <2> QED  BY <2>1, <1>4 DEF Whether
<1> QED  BY <1>1, <1>5 DEF a, b

LEMMA LeastNat ==
  ASSUME NEW S \in SUBSET Nat, S # {}
  PROVE  \E k \in S : \A j \in S : k <= j
<1>1. PICK k \in S : \A j \in S : ~(<<j, k>> \in OpToRel(<, Nat))
  BY NatLessThanWellFounded, WFMin
<1>2. \A j \in S : ~(j < k)
  BY <1>1 DEF OpToRel
<1> QED  BY <1>2

-----------------------------------------------------------------------------
(* Memory: what is known of each process.                                  *)
Below(n) == {v \in VPage : v < n}
Image == [map : SUBSET VPage, low : BOOLEAN, next : 0..MaxPage,
          pages : 0..MaxPage, mapped : 0..Start(MaxPage)]
Stage == {"none", "user", "args", "load", "stack", "argv", "grow", "zombie"}

\* What exec has built of the address space t.
ImageFits(s, t) ==
  /\ t \in Image
  /\ s \notin {"load", "stack", "argv"} => t = NoTable
  /\ s = "load" => /\ t.pages \in 1..(MaxPage - 1) /\ t.next <= t.pages /\ t.mapped = 0
                   /\ t.low <=> t.next > 0
  /\ s = "stack" => /\ t.pages \in 1..(MaxPage - 1) /\ t.next = t.pages
                    /\ t.low /\ t.mapped = Start(t.pages)
  /\ s = "argv" => /\ t.pages \in 1..(MaxPage - 1) /\ t.next = t.pages + 1
                   /\ t.low /\ t.mapped = Start(t.pages + 1)
  /\ t.map = Below(t.next)

\* The address space m of z half pages, and sbrk on its way to g at page x.
SpaceFits(s, m, z, g, x) ==
  /\ z \in 0..Start(MaxPage) /\ g \in 0..Start(MaxPage) /\ x \in 0..(MaxPage + 1)
  /\ s = "none" => m = {}
  /\ s \notin {"none", "grow"} => m = Below(PageUp(z))
  /\ s = "grow" => /\ m = Below(x) /\ z < g
                   /\ PageUp(z) <= x /\ x <= PageUp(g)

TaskFits(s, m, z, t, a, g, x) ==
  /\ s \in Stage
  /\ SpaceFits(s, m, z, g, x)
  /\ ImageFits(s, t)
  /\ a \in 0..MaxArgs
  /\ a # 0 => s \in {"args", "load", "stack", "argv"}

Images(nw) == [p \in Task |-> nw[p].map]
ArgSets(ar) == [p \in Task |-> 1..ar[p]]
Live(st) == {p \in Task : st[p] # "none"}
Makers(st) == {p \in Task : st[p] \in {"load", "stack", "argv"}}
Lows(st, nw) == {p \in Makers(st) : nw[p].low}

MemTables ==
  /\ stage \in [Task -> Stage] /\ map \in [Task -> SUBSET VPage]
  /\ size \in [Task -> 0..Start(MaxPage)] /\ goal \in [Task -> 0..Start(MaxPage)]
  /\ next \in [Task -> 0..(MaxPage + 1)] /\ args \in [Task -> 0..MaxArgs]
  /\ new \in [Task -> Image]

TasksFit == \A p \in Task : TaskFits(stage[p], map[p], size[p], new[p], args[p], goal[p], next[p])

MemInv ==
  /\ ufree \in Nat /\ kfree \in Nat /\ panicked \in BOOLEAN
  /\ MemTables /\ TasksFit
  /\ KernelPagesAccounted /\ Lost >= 0

\* The kernel pages a process has.
KernelOf(s, t, a) ==
  (IF s = "none" THEN 0 ELSE TaskPages + TopTables + LowTables) + a
  + IF s \in {"load", "stack", "argv"} THEN Tables(t) ELSE 0

LEMMA MemConstants ==
  /\ UserPages \in Nat /\ KernelPages \in Nat /\ MaxPage \in Nat /\ MaxArgs \in Nat
  /\ UserPages >= 2 /\ KernelPages >= 7 /\ MaxPage >= 2
  /\ IsFiniteSet(VPage) /\ IsFiniteSet(1..MaxArgs)
BY MemoryAssumption, FS_Interval DEF VPage

\* The sums in the properties, as they are counted here.
LEMMA SumsAre ==
  ASSUME MemTables
  PROVE  /\ Mapped = Each(map, VPage) /\ Built = Each(Images(new), VPage)
         /\ Saved = Each(ArgSets(args), 1..MaxArgs)
         /\ Task \ Idle = Live(stage) /\ Building = Makers(stage)
         /\ {p \in Building : new[p].low} = Lows(stage, new)
         /\ map \in [Task -> SUBSET VPage] /\ Images(new) \in [Task -> SUBSET VPage]
         /\ ArgSets(args) \in [Task -> SUBSET (1..MaxArgs)]
<1>1. Mapped = Each(map, VPage)
  BY DEF Mapped, Each
<1>2. Built = Each(Images(new), VPage)
  <2>1. ASSUME NEW m \in Task \X VPage PROVE m[2] \in new[m[1]].map <=> m[2] \in Images(new)[m[1]]
    BY DEF Images
  <2> QED  BY <2>1 DEF Built, Each
<1>3. Saved = Each(ArgSets(args), 1..MaxArgs)
  <2>1. ASSUME NEW m \in Task \X (1..MaxArgs)
        PROVE  m[2] <= args[m[1]] <=> m[2] \in ArgSets(args)[m[1]]
    <3>1. m[1] \in Task /\ m[2] \in 1..MaxArgs /\ args[m[1]] \in 0..MaxArgs
      BY DEF MemTables
    <3> QED  BY <3>1, MemConstants DEF ArgSets
  <2> QED  BY <2>1 DEF Saved, Each
<1>4. Task \ Idle = Live(stage) /\ Building = Makers(stage)
  BY DEF Idle, Live, Building, Makers
<1>5. {p \in Building : new[p].low} = Lows(stage, new)
  BY <1>4 DEF Lows
<1>6. map \in [Task -> SUBSET VPage] /\ Images(new) \in [Task -> SUBSET VPage]
  BY DEF MemTables, Images, Image
<1>7. ArgSets(args) \in [Task -> SUBSET (1..MaxArgs)]
  <2>1. ASSUME NEW p \in Task PROVE 1..args[p] \in SUBSET (1..MaxArgs)
    BY MemConstants DEF MemTables
  <2> QED  BY <2>1 DEF ArgSets
<1> QED  BY <1>1, <1>2, <1>3, <1>4, <1>5, <1>6, <1>7

\* One process changes.
OneTask(p, s, m, z, t, a, g, x) ==
  /\ stage' = [stage EXCEPT ![p] = s] /\ map' = [map EXCEPT ![p] = m]
  /\ size' = [size EXCEPT ![p] = z] /\ new' = [new EXCEPT ![p] = t]
  /\ args' = [args EXCEPT ![p] = a]
  /\ goal' = [goal EXCEPT ![p] = g] /\ next' = [next EXCEPT ![p] = x]

LEMMA TablesKept ==
  ASSUME MemTables, TasksFit, NEW p \in Task,
         NEW s, NEW m, NEW z, NEW t, NEW a, NEW g, NEW x,
         TaskFits(s, m, z, t, a, g, x), OneTask(p, s, m, z, t, a, g, x)
  PROVE  MemTables' /\ TasksFit' /\ m \in SUBSET VPage
<1>1. m \in SUBSET VPage
  BY DEF TaskFits, SpaceFits, Below, Stage
<1>2. /\ s \in Stage /\ z \in 0..Start(MaxPage) /\ g \in 0..Start(MaxPage)
      /\ x \in 0..(MaxPage + 1) /\ a \in 0..MaxArgs /\ t \in Image
  BY DEF TaskFits, SpaceFits, ImageFits
<1>3. MemTables'
  BY <1>1, <1>2 DEF MemTables, OneTask
<1>4. ASSUME NEW q \in Task
      PROVE  TaskFits(stage'[q], map'[q], size'[q], new'[q], args'[q], goal'[q], next'[q])
  <2>1. CASE q = p
    <3>1. /\ stage'[q] = s /\ map'[q] = m /\ size'[q] = z /\ new'[q] = t /\ args'[q] = a
          /\ goal'[q] = g /\ next'[q] = x
      BY <2>1 DEF OneTask, MemTables
    <3> QED  BY <3>1
  <2>2. CASE q # p
    <3>1. /\ stage'[q] = stage[q] /\ map'[q] = map[q] /\ size'[q] = size[q] /\ new'[q] = new[q]
          /\ args'[q] = args[q] /\ goal'[q] = goal[q] /\ next'[q] = next[q]
      BY <2>2 DEF OneTask, MemTables
    <3> QED  BY <3>1 DEF TasksFit
  <2> QED  BY <2>1, <2>2
<1>5. TasksFit'
  BY <1>4 DEF TasksFit
<1> QED  BY <1>1, <1>3, <1>5

-----------------------------------------------------------------------------
(* Memory: the sums, when one process changes.                            *)
KernelSum(kf, st, nw, ar) ==
  kf + Cardinality(Live(st)) * (TaskPages + TopTables + LowTables)
     + Cardinality(Each(ArgSets(ar), 1..MaxArgs)) + Cardinality(Makers(st)) * TopTables
     + Cardinality(Lows(st, nw)) * LowTables
UserSum(uf, mp, nw) == uf + Cardinality(Each(mp, VPage)) + Cardinality(Each(Images(nw), VPage))

LEMMA Sums ==
  MemTables => /\ KernelPagesAccounted <=> KernelSum(kfree, stage, new, args) = KernelPages
               /\ ufree \in Nat => Lost = UserPages - UserSum(ufree, map, new)
<1> SUFFICES ASSUME MemTables
             PROVE  /\ KernelPagesAccounted <=> KernelSum(kfree, stage, new, args) = KernelPages
                    /\ ufree \in Nat => Lost = UserPages - UserSum(ufree, map, new)
  OBVIOUS
<1>1. /\ Mapped = Each(map, VPage) /\ Built = Each(Images(new), VPage)
      /\ Saved = Each(ArgSets(args), 1..MaxArgs)
      /\ Task \ Idle = Live(stage) /\ Building = Makers(stage)
      /\ {p \in Building : new[p].low} = Lows(stage, new)
      /\ map \in [Task -> SUBSET VPage] /\ Images(new) \in [Task -> SUBSET VPage]
  BY SumsAre
<1>2. KernelPagesAccounted <=> KernelSum(kfree, stage, new, args) = KernelPages
  BY <1>1 DEF KernelPagesAccounted, KernelSum
<1>3. PICK p \in Task : TRUE
  BY MemoryAssumption
<1>4. /\ Cardinality(Mapped) \in Nat /\ Cardinality(Built) \in Nat
  <2>1. /\ Cardinality(Each(map, VPage)) \in Nat /\ Cardinality(Each(Images(new), VPage)) \in Nat
    <3>1. Replaces(map, map, p, map[p]) /\ Replaces(Images(new), Images(new), p, Images(new)[p])
      BY <1>1 DEF Replaces
    <3>2. map[p] \in SUBSET VPage /\ Images(new)[p] \in SUBSET VPage
      BY <1>1
    <3>3. Cardinality(Each(map, VPage)) \in Nat
      BY <1>1, <3>1, <3>2, MemConstants, EachOne
    <3>4. Cardinality(Each(Images(new), VPage)) \in Nat
      BY <1>1, <3>1, <3>2, MemConstants, EachOne
    <3> QED  BY <3>3, <3>4
  <2> QED  BY <2>1, <1>1
<1>5. ufree \in Nat => Lost = UserPages - UserSum(ufree, map, new)
  BY <1>1, <1>4, MemConstants DEF Lost, UserSum
<1> QED  BY <1>2, <1>5

LEMMA SumsNext == 
  MemTables' => /\ KernelPagesAccounted' <=> KernelSum(kfree', stage', new', args') = KernelPages
                /\ ufree' \in Nat => Lost' = UserPages - UserSum(ufree', map', new')
<1>1. (MemTables => /\ KernelPagesAccounted <=> KernelSum(kfree, stage, new, args) = KernelPages
                    /\ ufree \in Nat => Lost = UserPages - UserSum(ufree, map, new))'
  BY Sums, PTL
<1>2. KernelSum(kfree, stage, new, args)' = KernelSum(kfree', stage', new', args')
  BY DEF KernelSum, Live, Makers, Lows
<1>3. UserSum(ufree, map, new)' = UserSum(ufree', map', new')
  BY DEF UserSum, Each, Images
<1> QED  BY <1>1, <1>2, <1>3, MemConstants

\* What happens to the kernel's pages when one process changes.
LEMMA KernelKept ==
  ASSUME MemTables, MemTables', KernelPagesAccounted, kfree \in Nat, kfree' \in Nat, NEW p \in Task,
         NEW s \in Stage, NEW m, NEW z, NEW t \in Image, NEW a \in 0..MaxArgs, NEW g, NEW x,
         OneTask(p, s, m, z, t, a, g, x),
         kfree' = (kfree + KernelOf(stage[p], new[p], args[p])) - KernelOf(s, t, a)
  PROVE  KernelPagesAccounted'
<1> DEFINE s0 == stage[p]  t0 == new[p]  a0 == args[p]
<1>1. /\ stage \in [Task -> Stage] /\ new \in [Task -> Image] /\ args \in [Task -> 0..MaxArgs]
      /\ stage' = [stage EXCEPT ![p] = s] /\ new' = [new EXCEPT ![p] = t]
      /\ args' = [args EXCEPT ![p] = a]
      /\ s0 \in Stage /\ t0 \in Image /\ a0 \in 0..MaxArgs
  BY DEF MemTables, OneTask
<1>2. /\ \A q \in Task \ {p} : stage'[q] = stage[q] /\ new'[q] = new[q] /\ args'[q] = args[q]
      /\ stage'[p] = s /\ new'[p] = t /\ args'[p] = a
  BY <1>1
<1>3. /\ Cardinality(Live(stage)) \in Nat /\ Cardinality(Live(stage')) \in Nat
      /\ Cardinality(Live(stage')) + Whether(s0 # "none")
           = Cardinality(Live(stage)) + Whether(s # "none")
  <2>1. Live(stage) \in SUBSET Task /\ Live(stage') \in SUBSET Task
    BY DEF Live
  <2>2. Live(stage) \ {p} = Live(stage') \ {p}
    BY <1>2 DEF Live
  <2>3. (p \in Live(stage) <=> s0 # "none") /\ (p \in Live(stage') <=> s # "none")
    BY <1>2 DEF Live
  <2>4. /\ Cardinality(Live(stage)) \in Nat /\ Cardinality(Live(stage')) \in Nat
        /\ Cardinality(Live(stage')) + Whether(p \in Live(stage))
             = Cardinality(Live(stage)) + Whether(p \in Live(stage'))
    BY <2>1, <2>2, OneJoins
  <2> QED  BY <2>3, <2>4 DEF Whether
<1> DEFINE Making(st) == st \in {"load", "stack", "argv"}
<1>4. /\ Cardinality(Makers(stage)) \in Nat /\ Cardinality(Makers(stage')) \in Nat
      /\ Cardinality(Makers(stage')) + Whether(Making(s0)) = Cardinality(Makers(stage)) + Whether(Making(s))
  <2>1. Makers(stage) \in SUBSET Task /\ Makers(stage') \in SUBSET Task
    BY DEF Makers
  <2>2. Makers(stage) \ {p} = Makers(stage') \ {p}
    BY <1>2 DEF Makers
  <2>3. (p \in Makers(stage) <=> Making(s0)) /\ (p \in Makers(stage') <=> Making(s))
    BY <1>2 DEF Makers
  <2>4. /\ Cardinality(Makers(stage)) \in Nat /\ Cardinality(Makers(stage')) \in Nat
        /\ Cardinality(Makers(stage')) + Whether(p \in Makers(stage))
             = Cardinality(Makers(stage)) + Whether(p \in Makers(stage'))
    BY <2>1, <2>2, OneJoins
  <2> HIDE DEF Making
  <2> QED  BY <2>3, <2>4 DEF Whether
<1>5. /\ Cardinality(Lows(stage, new)) \in Nat /\ Cardinality(Lows(stage', new')) \in Nat
      /\ Cardinality(Lows(stage', new')) + Whether(Making(s0) /\ t0.low)
           = Cardinality(Lows(stage, new)) + Whether(Making(s) /\ t.low)
  <2>1. Lows(stage, new) \in SUBSET Task /\ Lows(stage', new') \in SUBSET Task
    BY DEF Lows, Makers
  <2>2. Lows(stage, new) \ {p} = Lows(stage', new') \ {p}
    BY <1>2 DEF Lows, Makers
  <2>3. /\ p \in Lows(stage, new) <=> (Making(s0) /\ t0.low)
        /\ p \in Lows(stage', new') <=> (Making(s) /\ t.low)
    BY <1>2 DEF Lows, Makers
  <2>4. /\ Cardinality(Lows(stage, new)) \in Nat /\ Cardinality(Lows(stage', new')) \in Nat
        /\ Cardinality(Lows(stage', new')) + Whether(p \in Lows(stage, new))
             = Cardinality(Lows(stage, new)) + Whether(p \in Lows(stage', new'))
    BY <2>1, <2>2, OneJoins
  <2> HIDE DEF Making
  <2> QED  BY <2>3, <2>4 DEF Whether
<1> DEFINE e == Cardinality(Each(ArgSets(args), 1..MaxArgs))
           e2 == Cardinality(Each(ArgSets(args'), 1..MaxArgs))
<1>6. e \in Nat /\ e2 \in Nat /\ e2 + a0 = e + a
  <2>1. ArgSets(args) \in [Task -> SUBSET (1..MaxArgs)]
    BY SumsAre
  <2>2. 1..a \in SUBSET (1..MaxArgs)
    BY MemConstants
  <2>3. Replaces(ArgSets(args), ArgSets(args'), p, 1..a)
    BY <1>1 DEF ArgSets, Replaces
  <2>4. ArgSets(args)[p] = 1..a0
    BY DEF ArgSets
  <2>5. /\ e \in Nat /\ e2 \in Nat
        /\ e2 + Cardinality(ArgSets(args)[p]) = e + Cardinality(1..a)
    <3> DEFINE A == ArgSets(args)  B == ArgSets(args')  D == 1..MaxArgs  S == 1..a
    <3>1. A \in [Task -> SUBSET D] /\ S \in SUBSET D /\ Replaces(A, B, p, S) /\ IsFiniteSet(D)
      BY <2>1, <2>2, <2>3, MemConstants
    <3> HIDE DEF A, B, D, S
    <3>2. /\ Cardinality(Each(A, D)) \in Nat /\ Cardinality(Each(B, D)) \in Nat
          /\ Cardinality(Each(B, D)) + Cardinality(A[p]) = Cardinality(Each(A, D)) + Cardinality(S)
      BY <3>1, EachOne
    <3> QED  BY <3>2 DEF A, B, D, S
  <2>6. Cardinality(1..a) = a
    <3>1. a \in Int /\ a >= 0
      BY MemConstants
    <3> HIDE DEF e, e2
    <3> QED  BY <3>1, FS_Interval
  <2>7. Cardinality(1..a0) = a0
    <3>1. a0 \in Int /\ a0 >= 0
      BY <1>1, MemConstants
    <3> HIDE DEF a0
    <3> QED  BY <3>1, FS_Interval
  <2> HIDE DEF e, e2
  <2> QED  BY <2>4, <2>5, <2>6, <2>7
<1>7. /\ KernelOf(s0, t0, a0) = 7 * Whether(s0 # "none") + a0 + 3 * Whether(Making(s0))
                                  + 2 * Whether(Making(s0) /\ t0.low)
      /\ KernelOf(s, t, a) = 7 * Whether(s # "none") + a + 3 * Whether(Making(s))
                               + 2 * Whether(Making(s) /\ t.low)
  <2>1. a0 \in Nat /\ a \in Nat
    BY <1>1, MemConstants
  <2> HIDE DEF s0, t0, a0
  <2> QED  BY <2>1 DEF KernelOf, Whether, Tables, TaskPages, TopTables, LowTables
<1>8. KernelSum(kfree, stage, new, args) = KernelPages
  BY Sums
<1>9. KernelSum(kfree', stage', new', args') = KernelSum(kfree, stage, new, args)
  <2> DEFINE l == Cardinality(Live(stage))  l2 == Cardinality(Live(stage'))
             k == Cardinality(Makers(stage))  k2 == Cardinality(Makers(stage'))
             o == Cardinality(Lows(stage, new))  o2 == Cardinality(Lows(stage', new'))
             wl == Whether(s0 # "none")  wl2 == Whether(s # "none")
             wk == Whether(Making(s0))  wk2 == Whether(Making(s))
             wo == Whether(Making(s0) /\ t0.low)  wo2 == Whether(Making(s) /\ t.low)
             f == kfree  f2 == kfree'
  <2>1. f2 = (f + (7 * wl + a0 + 3 * wk + 2 * wo)) - (7 * wl2 + a + 3 * wk2 + 2 * wo2)
    BY <1>7
  <2>2. /\ KernelSum(kfree, stage, new, args) = f + l * 7 + e + k * 3 + o * 2
        /\ KernelSum(kfree', stage', new', args') = f2 + l2 * 7 + e2 + k2 * 3 + o2 * 2
    BY DEF KernelSum, TaskPages, TopTables, LowTables
  <2>3. {wl, wl2, wk, wk2, wo, wo2} \subseteq 0..1
    BY DEF Whether
  <2>4. a0 \in Nat /\ a \in Nat
    BY <1>1, MemConstants
  <2>5. f \in Nat /\ f2 \in Nat /\ {l, l2, k, k2, o, o2, e, e2} \subseteq Nat
    BY <1>3, <1>4, <1>5, <1>6
  <2>6. l2 + wl = l + wl2 /\ k2 + wk = k + wk2 /\ o2 + wo = o + wo2 /\ e2 + a0 = e + a
    BY <1>3, <1>4, <1>5, <1>6
  <2> HIDE DEF l, l2, k, k2, o, o2, e, e2, wl, wl2, wk, wk2, wo, wo2, f, f2, a0
  <2>7. f2 + l2 * 7 + e2 + k2 * 3 + o2 * 2 = f + l * 7 + e + k * 3 + o * 2
    BY <2>1, <2>3, <2>4, <2>5, <2>6
  <2> QED  BY <2>2, <2>7
<1> QED  BY <1>8, <1>9, SumsNext

\* What happens to the users' pages.
LEMMA UserKept ==
  ASSUME MemTables, MemTables', ufree \in Nat, ufree' \in Nat, NEW p \in Task,
         NEW s, NEW m \in SUBSET VPage, NEW z, NEW t \in Image, NEW a, NEW g, NEW x,
         OneTask(p, s, m, z, t, a, g, x)
  PROVE  /\ Lost \in Int /\ Lost' \in Int
         /\ {Cardinality(map[p]), Cardinality(new[p].map), Cardinality(m), Cardinality(t.map)} \subseteq Nat
         /\ Lost' = Lost + (ufree + Cardinality(map[p]) + Cardinality(new[p].map))
                         - (ufree' + Cardinality(m) + Cardinality(t.map))
<1>1. /\ map \in [Task -> SUBSET VPage] /\ new \in [Task -> Image]
      /\ map' = [map EXCEPT ![p] = m] /\ new' = [new EXCEPT ![p] = t]
      /\ t.map \in SUBSET VPage
  BY DEF MemTables, OneTask, Image
<1> DEFINE i == Images(new)  c == Cardinality(Each(map, VPage))  c2 == Cardinality(Each(map', VPage))
           d == Cardinality(Each(Images(new), VPage))  d2 == Cardinality(Each(Images(new'), VPage))
<1>2. /\ c \in Nat /\ c2 \in Nat /\ Cardinality(map[p]) \in Nat /\ Cardinality(m) \in Nat
      /\ c2 + Cardinality(map[p]) = c + Cardinality(m)
  <2>1. Replaces(map, map', p, m)
    BY <1>1 DEF Replaces
  <2> QED  BY <1>1, <2>1, MemConstants, EachOne
<1>3. /\ d \in Nat /\ d2 \in Nat /\ Cardinality(new[p].map) \in Nat /\ Cardinality(t.map) \in Nat
      /\ d2 + Cardinality(new[p].map) = d + Cardinality(t.map)
  <2>1. i \in [Task -> SUBSET VPage]
    BY SumsAre
  <2>2. Replaces(i, Images(new'), p, t.map) /\ i[p] = new[p].map
    BY <1>1 DEF Images, Replaces
  <2>3. /\ d \in Nat /\ d2 \in Nat /\ Cardinality(i[p]) \in Nat /\ Cardinality(t.map) \in Nat
        /\ d2 + Cardinality(i[p]) = d + Cardinality(t.map)
    <3> DEFINE j == Images(new')  S == t.map
    <3>1. i \in [Task -> SUBSET VPage] /\ S \in SUBSET VPage /\ Replaces(i, j, p, S)
      BY <1>1, <2>1, <2>2
    <3> HIDE DEF i, j, S
    <3>2. /\ Cardinality(Each(i, VPage)) \in Nat /\ Cardinality(Each(j, VPage)) \in Nat
          /\ Cardinality(i[p]) \in Nat /\ Cardinality(S) \in Nat
          /\ Cardinality(Each(j, VPage)) + Cardinality(i[p]) = Cardinality(Each(i, VPage)) + Cardinality(S)
      BY <3>1, MemConstants, EachOne
    <3> QED  BY <3>2 DEF i, j, S
  <2> QED  BY <2>2, <2>3
<1>4. Lost = UserPages - (ufree + c + d) /\ Lost' = UserPages - (ufree' + c2 + d2)
  <2>1. Lost = UserPages - UserSum(ufree, map, new)
    BY Sums
  <2>2. Lost' = UserPages - UserSum(ufree', map', new')
    BY SumsNext
  <2> QED  BY <2>1, <2>2 DEF UserSum
<1> DEFINE u == ufree  u2 == ufree'  mp == Cardinality(map[p])  np == Cardinality(new[p].map)
           mc == Cardinality(m)  tc == Cardinality(t.map)
<1>5. /\ Lost = UserPages - (u + c + d) /\ Lost' = UserPages - (u2 + c2 + d2)
      /\ c2 + mp = c + mc /\ d2 + np = d + tc
      /\ {u, u2, c, c2, d, d2, mp, np, mc, tc, UserPages} \subseteq Nat
  BY <1>2, <1>3, <1>4, MemConstants
<1> HIDE DEF u, u2, c, c2, d, d2, mp, np, mc, tc
<1>6. Lost \in Int /\ Lost' \in Int /\ Lost' = Lost + (u + mp + np) - (u2 + mc + tc)
  BY <1>5
<1> QED  BY <1>5, <1>6 DEF u, u2, mp, np, mc, tc

LEMMA TaskStep ==
  ASSUME MemInv, NEW p \in Task,
         NEW s, NEW m, NEW z, NEW t, NEW a, NEW g, NEW x,
         TaskFits(s, m, z, t, a, g, x), OneTask(p, s, m, z, t, a, g, x),
         ufree' \in Nat, kfree' \in Nat, panicked' \in BOOLEAN,
         kfree' = (kfree + KernelOf(stage[p], new[p], args[p])) - KernelOf(s, t, a),
         ufree' + Cardinality(m) + Cardinality(t.map)
           <= ufree + Cardinality(map[p]) + Cardinality(new[p].map)
  PROVE  /\ MemInv'
         /\ Lost' = Lost + (ufree + Cardinality(map[p]) + Cardinality(new[p].map))
                         - (ufree' + Cardinality(m) + Cardinality(t.map))
<1>1. MemTables /\ TasksFit /\ KernelPagesAccounted /\ Lost >= 0 /\ ufree \in Nat /\ kfree \in Nat
  BY DEF MemInv
<1>2. MemTables' /\ TasksFit' /\ m \in SUBSET VPage
  BY <1>1, TablesKept
<1>3. s \in Stage /\ t \in Image /\ a \in 0..MaxArgs
  BY DEF TaskFits, ImageFits
<1>4. KernelPagesAccounted'
  BY <1>1, <1>2, <1>3, KernelKept
<1>5. /\ Lost \in Int /\ Lost' \in Int
      /\ {Cardinality(map[p]), Cardinality(new[p].map), Cardinality(m), Cardinality(t.map)} \subseteq Nat
      /\ Lost' = Lost + (ufree + Cardinality(map[p]) + Cardinality(new[p].map))
                      - (ufree' + Cardinality(m) + Cardinality(t.map))
  BY <1>1, <1>2, <1>3, UserKept
<1> DEFINE l == Lost  l2 == Lost'
           old == ufree + Cardinality(map[p]) + Cardinality(new[p].map)
           now == ufree' + Cardinality(m) + Cardinality(t.map)
<1>6. l2 >= 0
  <2>1. l \in Int /\ l2 \in Int /\ l >= 0 /\ old \in Int /\ now \in Int /\ now <= old /\ l2 = l + old - now
    BY <1>1, <1>5
  <2> HIDE DEF l, l2, old, now
  <2> QED  BY <2>1
<1> QED  BY <1>2, <1>4, <1>5, <1>6 DEF MemInv

-----------------------------------------------------------------------------
(* Memory: sizes and pages.                                                *)
LEMMA PageUpIs ==
  ASSUME NEW u \in Nat
  PROVE  /\ PageUp(u) \in Nat
         /\ \A v \in Nat : v < PageUp(u) <=> Start(v) < u
         /\ PageUp(Start(u)) = u /\ Start(u) \in Nat
         /\ (u = 0) <=> (PageUp(u) = 0)
BY DEF PageUp, Start

LEMMA PageUpGrows ==
  ASSUME NEW u \in Nat, NEW w \in Nat, u <= w
  PROVE  PageUp(u) <= PageUp(w)
BY DEF PageUp

LEMMA SizePages == ASSUME NEW z \in 0..Start(MaxPage) PROVE z \in Nat /\ PageUp(z) \in 0..MaxPage
<1>1. z \in Nat /\ MaxPage \in Nat
  BY MemConstants DEF Start
<1>2. PageUp(z) <= PageUp(Start(MaxPage)) /\ PageUp(Start(MaxPage)) = MaxPage /\ PageUp(z) \in Nat
  <2>1. PageUp(Start(MaxPage)) = MaxPage /\ Start(MaxPage) \in Nat /\ PageUp(z) \in Nat
    BY <1>1, PageUpIs
  <2> QED  BY <1>1, <2>1, PageUpGrows
<1> QED  BY <1>1, <1>2

LEMMA BelowCounts ==
  ASSUME NEW n \in 0..(MaxPage + 1)
  PROVE  Below(n) = 0..(n - 1) /\ Cardinality(Below(n)) = n /\ Below(n) \in SUBSET VPage
<1>1. Below(n) = 0..(n - 1)
  BY MemConstants DEF Below, VPage
<1>2. Cardinality(0..(n - 1)) = n
  <2>1. n \in Nat /\ n - 1 \in Int
    BY MemConstants
  <2>2. Cardinality(0..(n - 1)) = IF 0 > n - 1 THEN 0 ELSE (n - 1) - 0 + 1
    BY <2>1, FS_Interval
  <2> QED  BY <2>1, <2>2
<1> QED  BY <1>1, <1>2 DEF Below

\* uvmdealloc gives back what is between the two sizes.
LEMMA DeallocatedIs ==
  ASSUME NEW n \in 0..(MaxPage + 1), NEW old \in Nat, NEW to \in Nat, n = PageUp(old), to <= old
  PROVE  /\ Below(n) \ Deallocated(Below(n), old, to) = Below(PageUp(to))
         /\ Deallocated(Below(n), old, to) \in SUBSET Below(n)
         /\ Freed(Below(n), old, to) = n - PageUp(to)
         /\ PageUp(to) \in 0..n
<1>1. /\ PageUp(to) \in Nat /\ PageUp(to) <= n
      /\ \A v \in Nat : v < n <=> Start(v) < old
  BY PageUpIs, PageUpGrows
<1> DEFINE k == PageUp(to)  d == Deallocated(Below(n), old, to)
<1>2. d = k..(n - 1)
  <2>1. Below(n) = 0..(n - 1)
    BY BelowCounts
  <2>2. \A v \in 0..(n - 1) : Start(v) < old
    BY <1>1, MemConstants
  <2>3. d = {v \in 0..(n - 1) : k <= v /\ Start(v) < old}
    BY <2>1 DEF Deallocated
  <2>4. n \in Nat /\ k \in Nat
    BY <1>1, MemConstants
  <2> HIDE DEF k, d
  <2> QED  BY <2>2, <2>3, <2>4
<1>3. Below(n) \ d = Below(k)
  <2>1. Below(n) = 0..(n - 1) /\ Below(k) = 0..(k - 1)
    <3>1. k \in 0..(MaxPage + 1)
      BY <1>1, MemConstants
    <3> HIDE DEF k
    <3> QED  BY <3>1, BelowCounts
  <2>2. n \in Nat /\ k \in Nat /\ k <= n
    BY <1>1, MemConstants
  <2> HIDE DEF k, d
  <2> QED  BY <1>2, <2>1, <2>2
<1>4. Freed(Below(n), old, to) = n - k
  <2>1. n - 1 \in Int /\ k \in Int /\ n \in Nat
    BY <1>1, MemConstants
  <2>2. Cardinality(k..(n - 1)) = IF k > n - 1 THEN 0 ELSE (n - 1) - k + 1
    BY <2>1, FS_Interval
  <2>3. Freed(Below(n), old, to) = Cardinality(d)
    BY DEF Freed
  <2> HIDE DEF k, d
  <2> QED  BY <1>1, <1>2, <2>1, <2>2, <2>3 DEF k
<1>5. d \in SUBSET Below(n)
  BY DEF Deallocated
<1> QED  BY <1>1, <1>3, <1>4, <1>5, MemConstants

\* What was mapped and not yet counted is not given back.
LEMMA NotCountedNotFreed == ASSUME NEW m \in SUBSET VPage PROVE Freed(m, 0, 0) = 0
<1>1. \A v \in m : ~(Start(v) < 0)
  BY MemConstants DEF VPage, Start
<1>2. Deallocated(m, 0, 0) = {}
  BY <1>1 DEF Deallocated
<1> QED  BY <1>2, FS_EmptySet DEF Freed

\* uvmcopy copies the lowest pages, as many as there are.
LEMMA CopiedIs ==
  ASSUME MemInv, NEW n \in 0..(MaxPage + 1)
  PROVE  Copied(Below(n)) = IF n <= ufree THEN Below(n) ELSE Below(ufree)
<1>1. n \in Nat /\ ufree \in Nat /\ Below(n) = 0..(n - 1)
  BY BelowCounts, MemConstants DEF MemInv
<1>2. ASSUME NEW v \in 0..(n - 1) PROVE Cardinality({w \in Below(n) : w <= v}) = v + 1
  <2>1. {w \in Below(n) : w <= v} = 0..v
    BY <1>1
  <2>2. Cardinality(0..v) = v + 1
    <3>1. v \in Int /\ v >= 0
      BY <1>1
    <3>2. Cardinality(0..v) = IF 0 > v THEN 0 ELSE v - 0 + 1
      BY <3>1, FS_Interval
    <3> QED  BY <3>1, <3>2
  <2> QED  BY <2>1, <2>2
<1>3. Copied(Below(n)) = {v \in 0..(n - 1) : v + 1 <= ufree}
  BY <1>1, <1>2 DEF Copied
<1>4. ufree < n => Below(ufree) = 0..(ufree - 1)
  <2>1. ufree < n => ufree \in 0..(MaxPage + 1)
    BY <1>1, MemConstants
  <2> QED  BY <2>1, BelowCounts
<1>5. n <= ufree => {v \in 0..(n - 1) : v + 1 <= ufree} = 0..(n - 1)
  BY <1>1
<1>6. ufree < n => {v \in 0..(n - 1) : v + 1 <= ufree} = 0..(ufree - 1)
  BY <1>1
<1>7. CASE n <= ufree
  BY <1>1, <1>3, <1>5, <1>7
<1>8. CASE ~(n <= ufree)
  <2>1. ufree < n
    BY <1>1, <1>8
  <2> QED  BY <1>3, <1>4, <1>6, <1>8, <2>1
<1> QED  BY <1>7, <1>8

LEMMA LeastIs ==
  ASSUME NEW n \in Nat, NEW k \in Nat, k < n
  PROVE  Min((0..(n - 1)) \ (0..(k - 1))) = k
<1>1. (0..(n - 1)) \ (0..(k - 1)) = k..(n - 1)
  OBVIOUS
<1>2. k \in k..(n - 1) /\ \A y \in k..(n - 1) : k <= y
  OBVIOUS
<1>3. Min(k..(n - 1)) = CHOOSE x \in k..(n - 1) : \A y \in k..(n - 1) : x <= y
  BY DEF Min
<1>4. /\ Min(k..(n - 1)) \in k..(n - 1)
      /\ \A y \in k..(n - 1) : Min(k..(n - 1)) <= y
  BY <1>2, <1>3
<1> DEFINE m == Min(k..(n - 1))
<1>5. m \in k..(n - 1) /\ m <= k
  BY <1>2, <1>4
<1> HIDE DEF m
<1>6. m = k
  BY <1>5
<1> QED  BY <1>1, <1>6 DEF m

-----------------------------------------------------------------------------
(* Memory: the steps.                                                      *)
\* What the invariant says of one process.
LEMMA TaskIs ==
  ASSUME MemInv, NEW p \in Task
  PROVE  /\ TaskFits(stage[p], map[p], size[p], new[p], args[p], goal[p], next[p])
         /\ ufree \in Nat /\ kfree \in Nat /\ panicked \in BOOLEAN
         /\ stage \in [Task -> Stage] /\ map \in [Task -> SUBSET VPage]
         /\ size \in [Task -> 0..Start(MaxPage)] /\ goal \in [Task -> 0..Start(MaxPage)]
         /\ next \in [Task -> 0..(MaxPage + 1)] /\ args \in [Task -> 0..MaxArgs]
         /\ new \in [Task -> Image] /\ Lost \in Int
<1>1. MemTables /\ TasksFit /\ ufree \in Nat /\ kfree \in Nat /\ panicked \in BOOLEAN
  BY DEF MemInv
<1>2. Lost \in Int
  <2>1. Lost = UserPages - UserSum(ufree, map, new)
    BY <1>1, Sums
  <2>2. map \in [Task -> SUBSET VPage] /\ Images(new) \in [Task -> SUBSET VPage]
    BY <1>1, SumsAre
  <2>3. Replaces(map, map, p, map[p]) /\ Replaces(Images(new), Images(new), p, Images(new)[p])
    BY <2>2 DEF Replaces
  <2>4. map[p] \in SUBSET VPage /\ Images(new)[p] \in SUBSET VPage
    BY <2>2
  <2>5. Cardinality(Each(map, VPage)) \in Nat
    BY <2>2, <2>3, <2>4, MemConstants, EachOne
  <2>6. Cardinality(Each(Images(new), VPage)) \in Nat
    BY <2>2, <2>3, <2>4, MemConstants, EachOne
  <2> QED  BY <1>1, <2>1, <2>5, <2>6, MemConstants DEF UserSum
<1> QED  BY <1>1, <1>2 DEF MemTables, TasksFit

\* What a step must show: nothing is lost.
Kept == MemInv' /\ Lost' = Lost

LEMMA NoTableFits == NoTable \in Image /\ NoTable.map = {} /\ Cardinality(NoTable.map) = 0
                     /\ Below(0) = {} /\ PageUp(0) = 0
<1>1. 0 \in 0..MaxPage /\ 0 \in 0..Start(MaxPage)
  BY MemConstants DEF Start
<1>2. NoTable \in Image /\ NoTable.map = {}
  BY <1>1 DEF NoTable, Image
<1>3. Below(0) = {}
  BY MemConstants DEF Below, VPage
<1> QED  BY <1>2, <1>3, FS_EmptySet, PageUpIs

\* The invariant without a change of the user's pages or tables.
LEMMA SameTables ==
  ASSUME MemInv, UNCHANGED <<ufree, kfree, stage, map, size, new, args, goal, next>>,
         panicked' \in BOOLEAN
  PROVE  Kept
<1>1. MemTables' /\ TasksFit' /\ ufree' \in Nat /\ kfree' \in Nat
  BY DEF MemInv, MemTables, TasksFit
<1>2. KernelPagesAccounted' <=> KernelPagesAccounted
  BY DEF KernelPagesAccounted, Idle, Saved, Building
<1>3. Lost' = Lost
  BY DEF Lost, Mapped, Built
<1> QED  BY <1>1, <1>2, <1>3 DEF MemInv, Kept

LEMMA StepPanics == ASSUME MemInv, MemPanics PROVE Kept
BY SameTables DEF MemPanics

LEMMA SameAt ==
  ASSUME NEW A, NEW B, NEW f \in [A -> B], NEW p \in A
  PROVE  [f EXCEPT ![p] = f[p]] = f
OBVIOUS

\* What a step leaves alone, as a change of the process that steps.
LEMMA Unchanging ==
  ASSUME MemInv, NEW p \in Task
  PROVE  /\ map = [map EXCEPT ![p] = map[p]] /\ size = [size EXCEPT ![p] = size[p]]
         /\ new = [new EXCEPT ![p] = new[p]] /\ args = [args EXCEPT ![p] = args[p]]
         /\ goal = [goal EXCEPT ![p] = goal[p]] /\ next = [next EXCEPT ![p] = next[p]]
         /\ stage = [stage EXCEPT ![p] = stage[p]]
<1>1. /\ stage \in [Task -> Stage] /\ map \in [Task -> SUBSET VPage]
      /\ size \in [Task -> 0..Start(MaxPage)] /\ goal \in [Task -> 0..Start(MaxPage)]
      /\ next \in [Task -> 0..(MaxPage + 1)] /\ args \in [Task -> 0..MaxArgs]
      /\ new \in [Task -> Image]
  BY TaskIs
<1> QED  BY <1>1, SameAt

\* A process moves on, and nothing else changes.
LEMMA StepStage ==
  ASSUME MemInv, NEW p \in Task, NEW s,
         TaskFits(s, map[p], size[p], new[p], args[p], goal[p], next[p]),
         KernelOf(s, new[p], args[p]) = KernelOf(stage[p], new[p], args[p]),
         stage' = [stage EXCEPT ![p] = s],
         UNCHANGED <<ufree, kfree, map, size, new, args, goal, next, panicked>>
  PROVE  Kept
<1> DEFINE m == map[p]  z == size[p]  t == new[p]  a == args[p]  g == goal[p]  x == next[p]
<1>1. /\ ufree \in Nat /\ kfree \in Nat /\ panicked \in BOOLEAN /\ Lost \in Int
      /\ m \in SUBSET VPage /\ t \in Image /\ args \in [Task -> 0..MaxArgs]
  BY TaskIs
<1>2. OneTask(p, s, m, z, t, a, g, x)
  BY Unchanging DEF OneTask
<1>3. KernelOf(s, t, a) \in Int /\ Cardinality(m) \in Nat /\ Cardinality(t.map) \in Nat
  <2>1. a \in Nat
    BY <1>1, MemConstants
  <2>2. Cardinality(m) \in Nat /\ Cardinality(t.map) \in Nat
    BY <1>1, MemConstants, FS_Subset, FS_CardinalityType DEF Image
  <2> HIDE DEF a, t
  <2> QED  BY <2>1, <2>2 DEF KernelOf, Tables, TaskPages, TopTables, LowTables
<1>4. /\ ufree' = ufree /\ kfree' = (kfree + KernelOf(stage[p], t, a)) - KernelOf(s, t, a)
      /\ kfree' \in Nat /\ panicked' \in BOOLEAN
  BY <1>1, <1>3
<1>5. TaskFits(s, m, z, t, a, g, x)
  OBVIOUS
<1>6. /\ MemInv'
      /\ Lost' = Lost + (ufree + Cardinality(m) + Cardinality(t.map))
                      - (ufree' + Cardinality(m) + Cardinality(t.map))
  <2>1. ufree' + Cardinality(m) + Cardinality(t.map) <= ufree + Cardinality(m) + Cardinality(t.map)
    BY <1>1, <1>3, <1>4
  <2> QED  BY <1>1, <1>2, <1>4, <1>5, <2>1, TaskStep
<1> QED  BY <1>1, <1>3, <1>4, <1>6 DEF Kept

LEMMA StepExitTask == ASSUME MemInv, NEW p \in Task, ExitTask(p) PROVE Kept
<1>1. TaskFits("user", map[p], size[p], new[p], args[p], goal[p], next[p]) /\ stage[p] = "user"
  BY TaskIs DEF ExitTask
<1>2. TaskFits("zombie", map[p], size[p], new[p], args[p], goal[p], next[p])
  BY <1>1 DEF TaskFits, SpaceFits, ImageFits, Stage
<1>3. KernelOf("zombie", new[p], args[p]) = KernelOf(stage[p], new[p], args[p])
  BY <1>1 DEF KernelOf
<1> QED  BY <1>2, <1>3, StepStage DEF ExitTask

LEMMA StepSysExec == ASSUME MemInv, NEW p \in Task, SysExec(p) PROVE Kept
<1>1. TaskFits("user", map[p], size[p], new[p], args[p], goal[p], next[p]) /\ stage[p] = "user"
  BY TaskIs DEF SysExec, Runs
<1>2. TaskFits("args", map[p], size[p], new[p], args[p], goal[p], next[p])
  BY <1>1 DEF TaskFits, SpaceFits, ImageFits, Stage
<1>3. KernelOf("args", new[p], args[p]) = KernelOf(stage[p], new[p], args[p])
  BY <1>1 DEF KernelOf
<1> QED  BY <1>2, <1>3, StepStage DEF SysExec

\* The address space of a process that is not in sbrk, as its end gives it back.
LEMMA WholeSpace ==
  ASSUME MemInv, NEW p \in Task, stage[p] \notin {"none", "grow"}
  PROVE  /\ map[p] = Below(PageUp(size[p])) /\ PageUp(size[p]) \in 0..MaxPage
         /\ size[p] \in Nat
         /\ Cardinality(map[p]) = PageUp(size[p])
         /\ Freed(map[p], size[p], 0) = PageUp(size[p])
<1>1. TaskFits(stage[p], map[p], size[p], new[p], args[p], goal[p], next[p])
  BY TaskIs
<1>2. map[p] = Below(PageUp(size[p])) /\ size[p] \in 0..Start(MaxPage)
  BY <1>1 DEF TaskFits, SpaceFits
<1>3. PageUp(size[p]) \in 0..MaxPage /\ size[p] \in Nat
  BY <1>2, SizePages
<1> DEFINE n == PageUp(size[p])
<1>4. n \in 0..(MaxPage + 1) /\ n = PageUp(size[p])
  BY <1>3, MemConstants
<1> HIDE DEF n
<1>5. Cardinality(Below(n)) = n
  BY <1>4, BelowCounts
<1>6. Freed(Below(n), size[p], 0) = n - PageUp(0)
  BY <1>3, <1>4, DeallocatedIs
<1>7. Freed(Below(n), size[p], 0) = n
  <2>1. n \in Nat
    BY <1>4, MemConstants
  <2> QED  BY <1>6, <2>1, NoTableFits
<1> QED  BY <1>2, <1>3, <1>4, <1>5, <1>7

\* No image is being built.
LEMMA NoImage ==
  ASSUME MemInv, NEW p \in Task, stage[p] \notin {"load", "stack", "argv"}
  PROVE  new[p] = NoTable
<1>1. TaskFits(stage[p], map[p], size[p], new[p], args[p], goal[p], next[p])
  BY TaskIs
<1> QED  BY <1>1 DEF TaskFits, ImageFits

LEMMA StepFreeTask == ASSUME MemInv, NEW p \in Task, FreeTask(p) PROVE Kept
<1> DEFINE n == PageUp(size[p])
<1>1. stage[p] = "zombie" /\ TaskFits("zombie", map[p], size[p], new[p], args[p], goal[p], next[p])
  BY TaskIs DEF FreeTask
<1>2. new[p] = NoTable /\ args[p] = 0 /\ goal[p] \in 0..Start(MaxPage) /\ next[p] \in 0..(MaxPage + 1)
  BY <1>1, NoImage DEF TaskFits, SpaceFits
<1>3. n \in Nat /\ Cardinality(map[p]) = n /\ Freed(map[p], size[p], 0) = n
  BY <1>1, WholeSpace, MemConstants
<1>4. OneTask(p, "none", {}, 0, NoTable, 0, goal[p], next[p])
  <2>1. stage' = [stage EXCEPT ![p] = "none"] /\ map' = [map EXCEPT ![p] = {}]
        /\ size' = [size EXCEPT ![p] = 0] /\ UNCHANGED <<new, args, goal, next>>
    BY DEF FreeTask
  <2> QED  BY <1>2, <2>1, Unchanging DEF OneTask
<1>5. TaskFits("none", {}, 0, NoTable, 0, goal[p], next[p])
  <2>1. 0 \in 0..Start(MaxPage) /\ 0 \in 0..MaxArgs
    BY MemConstants DEF Start
  <2> QED  BY <1>2, <2>1, NoTableFits DEF TaskFits, SpaceFits, ImageFits, Stage, NoTable
<1>6. /\ ufree \in Nat /\ kfree \in Nat /\ panicked \in BOOLEAN /\ Lost \in Int
  BY TaskIs
<1>7. /\ ufree' = ufree + n /\ kfree' = kfree + 7 /\ panicked' \in BOOLEAN
  BY <1>3, <1>6 DEF FreeTask, TaskPages, TopTables, LowTables
<1>8. KernelOf(stage[p], new[p], args[p]) = 7 /\ KernelOf("none", NoTable, 0) = 0
  BY <1>1, <1>2 DEF KernelOf, TaskPages, TopTables, LowTables
<1>9. Cardinality({}) = 0 /\ Cardinality(new[p].map) = 0 /\ Cardinality(NoTable.map) = 0
  BY <1>2, NoTableFits, FS_EmptySet
<1> HIDE DEF n
<1>10. /\ MemInv'
       /\ Lost' = Lost + (ufree + Cardinality(map[p]) + Cardinality(new[p].map))
                       - (ufree' + Cardinality({}) + Cardinality(NoTable.map))
  <2>1. /\ kfree' = (kfree + KernelOf(stage[p], new[p], args[p])) - KernelOf("none", NoTable, 0)
        /\ kfree' \in Nat /\ ufree' \in Nat
    BY <1>3, <1>6, <1>7, <1>8
  <2>2. ufree' + Cardinality({}) + Cardinality(NoTable.map)
          <= ufree + Cardinality(map[p]) + Cardinality(new[p].map)
    BY <1>3, <1>6, <1>7, <1>9
  <2> QED  BY <1>4, <1>5, <1>7, <2>1, <2>2, TaskStep
<1> QED  BY <1>3, <1>6, <1>7, <1>9, <1>10 DEF Kept

LEMMA PagesCount ==
  ASSUME MemInv, NEW p \in Task
  PROVE  Cardinality(map[p]) \in Nat /\ Cardinality(new[p].map) \in Nat
<1>1. map[p] \in SUBSET VPage /\ new[p].map \in SUBSET VPage
  BY TaskIs DEF Image
<1> QED  BY <1>1, MemConstants, FS_Subset, FS_CardinalityType

LEMMA TaskKept ==
  ASSUME MemInv, NEW p \in Task,
         NEW s, NEW m, NEW z, NEW t, NEW a, NEW g, NEW x,
         TaskFits(s, m, z, t, a, g, x), OneTask(p, s, m, z, t, a, g, x),
         ufree' \in Nat, kfree' \in Nat, panicked' \in BOOLEAN,
         kfree' = (kfree + KernelOf(stage[p], new[p], args[p])) - KernelOf(s, t, a),
         ufree' + Cardinality(m) + Cardinality(t.map)
           = ufree + Cardinality(map[p]) + Cardinality(new[p].map)
  PROVE  Kept
<1> DEFINE old == ufree + Cardinality(map[p]) + Cardinality(new[p].map)
           now == ufree' + Cardinality(m) + Cardinality(t.map)
<1>1. Lost \in Int /\ old \in Int /\ now = old
  BY PagesCount, TaskIs
<1>2. now <= old
  <2> HIDE DEF now, old
  <2> QED  BY <1>1
<1>3. MemInv' /\ Lost' = Lost + old - now
  BY <1>2, TaskStep
<1> HIDE DEF now, old
<1> QED  BY <1>1, <1>3 DEF Kept

LEMMA StepFork ==
  ASSUME MemInv, NEW p \in Task, NEW q \in Task, Fork(p, q)
  PROVE  Kept
<1> DEFINE n == PageUp(size[p])  child == Copied(map[p])
           failsAt == Start(Min(map[p] \ child))
           left == child \ Deallocated(child, failsAt, 0)
<1>1. stage[p] = "user" /\ map[p] # {} /\ stage[q] = "none" /\ kfree > TaskPages
  BY DEF Fork, Runs, Idle
<1>2. /\ map[p] = Below(n) /\ n \in 0..MaxPage /\ size[p] \in Nat /\ Cardinality(map[p]) = n
  BY <1>1, WholeSpace
<1>3. /\ ufree \in Nat /\ kfree \in Nat /\ panicked \in BOOLEAN /\ Lost \in Int
      /\ size[p] \in 0..Start(MaxPage)
  BY TaskIs
<1>4. child = IF n <= ufree THEN Below(n) ELSE Below(ufree)
  <2>1. n \in 0..(MaxPage + 1)
    BY <1>2, MemConstants
  <2> HIDE DEF n
  <2> QED  BY <1>2, <2>1, CopiedIs
<1>5. \/ MemPanics
      \/ /\ child = map[p]
         /\ stage' = [stage EXCEPT ![q] = "user"]
         /\ map' = [map EXCEPT ![q] = child] /\ size' = [size EXCEPT ![q] = size[p]]
         /\ ufree' = ufree - Cardinality(child)
         /\ kfree' = kfree - (TaskPages + TopTables + LowTables)
         /\ UNCHANGED <<new, args, goal, next, panicked>>
         /\ kfree >= TaskPages + TopTables + (IF child = {} THEN 0 ELSE LowTables)
      \/ /\ child # map[p]
         /\ ufree' = ufree - Cardinality(child) + Freed(child, failsAt, 0) + Freed(left, size[p], 0)
         /\ UNCHANGED <<kfree, stage, map, size, new, args, goal, next, panicked>>
  BY <1>3 DEF Fork, TaskPages, TopTables, LowTables
<1>6. CASE MemPanics
  BY <1>6, StepPanics
<1>7. CASE /\ child = map[p]
           /\ stage' = [stage EXCEPT ![q] = "user"]
           /\ map' = [map EXCEPT ![q] = child] /\ size' = [size EXCEPT ![q] = size[p]]
           /\ ufree' = ufree - Cardinality(child)
           /\ kfree' = kfree - (TaskPages + TopTables + LowTables)
           /\ UNCHANGED <<new, args, goal, next, panicked>>
           /\ kfree >= TaskPages + TopTables + (IF child = {} THEN 0 ELSE LowTables)
  <2>1. /\ TaskFits("none", map[q], size[q], new[q], args[q], goal[q], next[q]) /\ stage[q] = "none"
        /\ new[q] = NoTable
    BY <1>1, TaskIs, NoImage
  <2>2. OneTask(q, "user", map[p], size[p], new[q], args[q], goal[q], next[q])
    BY <1>7, Unchanging DEF OneTask
  <2>3. TaskFits("user", map[p], size[p], new[q], args[q], goal[q], next[q])
    <3>1. args[q] = 0 /\ goal[q] \in 0..Start(MaxPage) /\ next[q] \in 0..(MaxPage + 1)
          /\ args[q] \in 0..MaxArgs
      BY <2>1 DEF TaskFits, SpaceFits
    <3>2. SpaceFits("user", map[p], size[p], goal[q], next[q])
      BY <1>2, <1>3, <3>1 DEF SpaceFits
    <3>3. ImageFits("user", new[q])
      BY <2>1 DEF TaskFits, ImageFits
    <3> QED  BY <3>1, <3>2, <3>3 DEF TaskFits, Stage
  <2>4. n <= ufree
    <3>1. CASE ~(n <= ufree)
      <4>1. ufree < n /\ ufree \in 0..MaxPage /\ n \in Nat
        BY <1>2, <1>3, <3>1, MemConstants
      <4>2. Below(ufree) # Below(n)
        <5>1. ufree \in Below(n) /\ ufree \notin Below(ufree)
          BY <4>1 DEF Below, VPage
        <5> QED  BY <5>1
      <4> QED  BY <1>2, <1>4, <1>7, <3>1, <4>2
    <3> QED  BY <3>1
  <2>5. /\ ufree' = ufree - n /\ kfree' = kfree - 7 /\ kfree >= 7 /\ panicked' \in BOOLEAN
    BY <1>1, <1>2, <1>3, <1>7 DEF TaskPages, TopTables, LowTables
  <2>6. n \in Nat
    BY <1>2, MemConstants
  <2>7. map[q] = {} /\ args[q] = 0
    BY <2>1 DEF TaskFits, SpaceFits
  <2>8. KernelOf(stage[q], new[q], args[q]) = 0 /\ KernelOf("user", new[q], args[q]) = 7
    BY <2>1, <2>7 DEF KernelOf, TaskPages, TopTables, LowTables
  <2>9. Cardinality(map[q]) = 0 /\ Cardinality(new[q].map) = 0
    BY <2>1, <2>7, NoTableFits, FS_EmptySet
  <2>10. /\ ufree' \in Nat /\ kfree' \in Nat
         /\ kfree' = (kfree + KernelOf(stage[q], new[q], args[q])) - KernelOf("user", new[q], args[q])
         /\ ufree' + Cardinality(map[p]) + Cardinality(new[q].map)
              = ufree + Cardinality(map[q]) + Cardinality(new[q].map)
    <3> HIDE DEF n
    <3> QED  BY <1>2, <1>3, <2>4, <2>5, <2>6, <2>8, <2>9
  <2> QED  BY <2>2, <2>3, <2>5, <2>10, TaskKept
<1>8. CASE /\ child # map[p]
           /\ ufree' = ufree - Cardinality(child) + Freed(child, failsAt, 0) + Freed(left, size[p], 0)
           /\ UNCHANGED <<kfree, stage, map, size, new, args, goal, next, panicked>>
  <2>1. ufree < n /\ ufree \in 0..MaxPage /\ ufree \in 0..(MaxPage + 1) /\ n \in Nat /\ n \in 0..(MaxPage + 1)
    <3>1. ~(n <= ufree)
      BY <1>2, <1>4, <1>8
    <3> QED  BY <3>1, <1>2, <1>3, MemConstants
  <2>2. child = Below(ufree)
    BY <1>4, <2>1
  <2>3. Min(map[p] \ child) = ufree
    <3>1. map[p] = 0..(n - 1) /\ child = 0..(ufree - 1)
      BY <1>2, <2>1, <2>2, BelowCounts
    <3> HIDE DEF n, child
    <3> QED  BY <1>3, <2>1, <3>1, LeastIs
  <2>4. failsAt = Start(ufree) /\ PageUp(failsAt) = ufree /\ failsAt \in Nat
    <3>1. PageUp(Start(ufree)) = ufree /\ Start(ufree) \in Nat
      BY <1>3, PageUpIs
    <3> QED  BY <2>3, <3>1
  <2> HIDE DEF failsAt, child
  <2>5. /\ child \ Deallocated(child, failsAt, 0) = Below(0)
        /\ Freed(child, failsAt, 0) = ufree
    <3>1. /\ Below(ufree) \ Deallocated(Below(ufree), failsAt, 0) = Below(PageUp(0))
          /\ Freed(Below(ufree), failsAt, 0) = ufree - PageUp(0)
      BY <1>3, <2>1, <2>4, DeallocatedIs
    <3> QED  BY <1>3, <2>2, <3>1, NoTableFits
  <2>6. left = {} /\ Freed(left, size[p], 0) = 0
    <3>1. left = {}
      BY <2>5, NoTableFits
    <3>2. Deallocated(left, size[p], 0) = {}
      <4> HIDE DEF left
      <4> QED  BY <3>1 DEF Deallocated
    <3> HIDE DEF left
    <3> QED  BY <3>1, <3>2, FS_EmptySet DEF Freed
  <2>7. Cardinality(child) = ufree
    BY <2>1, <2>2, BelowCounts
  <2>8. ufree' = ufree
    <3> HIDE DEF left
    <3> QED  BY <1>3, <1>8, <2>5, <2>6, <2>7
  <2> QED  BY <1>3, <1>8, <2>8, SameTables
<1> QED  BY <1>5, <1>6, <1>7, <1>8

\* A process that is not in exec, with its space.
LEMMA PlainFits ==
  ASSUME NEW s \in {"user", "grow"}, NEW m, NEW z, NEW g, NEW x, SpaceFits(s, m, z, g, x)
  PROVE  TaskFits(s, m, z, NoTable, 0, g, x)
<1>1. 0 \in 0..MaxArgs
  BY MemConstants
<1> QED  BY <1>1, NoTableFits DEF TaskFits, ImageFits, Stage, NoTable

LEMMA StepGrow ==
  ASSUME MemInv, NEW p \in Task, NEW n \in Int, Grow(p, n)
  PROVE  Kept
<1> DEFINE z == size[p]  g == size[p] + n  x == PageUp(size[p])
<1>1. stage[p] = "user" /\ n > 0 /\ g <= Start(MaxPage)
  BY DEF Grow, Runs
<1>2. /\ map[p] = Below(x) /\ x \in 0..MaxPage /\ z \in Nat
  BY <1>1, WholeSpace
<1>3. /\ ufree \in Nat /\ kfree \in Nat /\ panicked \in BOOLEAN
      /\ TaskFits("user", map[p], z, new[p], args[p], goal[p], next[p])
  BY <1>1, TaskIs
<1>4. new[p] = NoTable /\ args[p] = 0 /\ 0 \in 0..MaxArgs /\ z \in 0..Start(MaxPage)
  BY <1>1, <1>3, NoImage DEF TaskFits, SpaceFits
<1>5. g \in 0..Start(MaxPage) /\ z < g /\ x \in 0..(MaxPage + 1)
  BY <1>1, <1>2, MemConstants DEF Start
<1>6. x <= PageUp(g)
  <2>1. g \in Nat /\ z <= g
    BY <1>1, <1>2
  <2> HIDE DEF g
  <2> QED  BY <1>2, <2>1, PageUpGrows
<1>7. TaskFits("grow", map[p], z, new[p], args[p], g, x)
  <2>1. PageUp(z) <= x /\ x = PageUp(z)
    BY <1>2, MemConstants
  <2> HIDE DEF g, x, z
  <2>2. SpaceFits("grow", map[p], z, g, x)
    BY <1>2, <1>4, <1>5, <1>6, <2>1 DEF SpaceFits
  <2> QED  BY <1>4, <2>2, PlainFits
<1>8. OneTask(p, "grow", map[p], z, new[p], args[p], g, x)
  BY Unchanging DEF Grow, OneTask
<1>9. /\ kfree' = (kfree + KernelOf(stage[p], new[p], args[p])) - KernelOf("grow", new[p], args[p])
      /\ ufree' \in Nat /\ kfree' \in Nat /\ panicked' \in BOOLEAN
  BY <1>1, <1>3, <1>4 DEF Grow, KernelOf, TaskPages, TopTables, LowTables
<1>10. ufree' + Cardinality(map[p]) + Cardinality(new[p].map)
         = ufree + Cardinality(map[p]) + Cardinality(new[p].map)
  BY DEF Grow
<1> HIDE DEF g, x, z
<1> QED  BY <1>7, <1>8, <1>9, <1>10, TaskKept

\* A process in sbrk.
LEMMA Growing ==
  ASSUME MemInv, NEW p \in Task, stage[p] = "grow"
  PROVE  /\ map[p] = Below(next[p]) /\ next[p] \in 0..(MaxPage + 1) /\ next[p] \in Nat
         /\ Cardinality(map[p]) = next[p]
         /\ size[p] \in 0..Start(MaxPage) /\ goal[p] \in 0..Start(MaxPage)
         /\ size[p] \in Nat /\ goal[p] \in Nat /\ size[p] < goal[p]
         /\ PageUp(size[p]) <= next[p] /\ next[p] <= PageUp(goal[p])
         /\ PageUp(size[p]) \in 0..MaxPage /\ PageUp(goal[p]) \in 0..MaxPage
         /\ new[p] = NoTable /\ args[p] = 0
         /\ ufree \in Nat /\ kfree \in Nat /\ panicked \in BOOLEAN
         /\ KernelOf(stage[p], new[p], args[p]) = 7
<1>1. /\ TaskFits("grow", map[p], size[p], new[p], args[p], goal[p], next[p])
      /\ ufree \in Nat /\ kfree \in Nat /\ panicked \in BOOLEAN
  BY TaskIs
<1>2. /\ map[p] = Below(next[p]) /\ next[p] \in 0..(MaxPage + 1)
      /\ size[p] \in 0..Start(MaxPage) /\ goal[p] \in 0..Start(MaxPage)
      /\ size[p] < goal[p] /\ PageUp(size[p]) <= next[p] /\ next[p] <= PageUp(goal[p])
      /\ new[p] = NoTable /\ args[p] = 0
  BY <1>1, NoImage DEF TaskFits, SpaceFits
<1>3. /\ size[p] \in Nat /\ goal[p] \in Nat /\ next[p] \in Nat
      /\ PageUp(size[p]) \in 0..MaxPage /\ PageUp(goal[p]) \in 0..MaxPage
  BY <1>2, SizePages, MemConstants
<1>4. Cardinality(map[p]) = next[p]
  BY <1>2, BelowCounts
<1>5. KernelOf(stage[p], new[p], args[p]) = 7
  BY <1>2 DEF KernelOf, TaskPages, TopTables, LowTables
<1> QED  BY <1>1, <1>2, <1>3, <1>4, <1>5

LEMMA StepGrowPage == ASSUME MemInv, NEW p \in Task, GrowPage(p) PROVE Kept
<1> DEFINE x == next[p]  g == goal[p]  z == size[p]
<1>1. stage[p] = "grow" /\ Start(x) < g /\ ufree > 0
  BY DEF GrowPage
<1>2. /\ map[p] = Below(x) /\ x \in 0..(MaxPage + 1) /\ x \in Nat /\ Cardinality(map[p]) = x
      /\ z \in 0..Start(MaxPage) /\ g \in 0..Start(MaxPage) /\ z \in Nat /\ g \in Nat /\ z < g
      /\ PageUp(z) <= x /\ x <= PageUp(g) /\ PageUp(z) \in 0..MaxPage /\ PageUp(g) \in 0..MaxPage
      /\ new[p] = NoTable /\ args[p] = 0
      /\ ufree \in Nat /\ kfree \in Nat /\ panicked \in BOOLEAN
      /\ KernelOf(stage[p], new[p], args[p]) = 7
  BY <1>1, Growing
<1>3. x < PageUp(g) /\ x + 1 \in 0..(MaxPage + 1) /\ x \in VPage /\ x + 1 <= PageUp(g) /\ PageUp(z) <= x + 1
  <2>1. x < PageUp(g)
    BY <1>1, <1>2, PageUpIs
  <2> HIDE DEF x, g, z
  <2> QED  BY <2>1, <1>2, MemConstants DEF VPage
<1>4. x \notin map[p] /\ map[p] \cup {x} = Below(x + 1) /\ Cardinality(Below(x + 1)) = x + 1
  <2>1. x \notin Below(x) /\ Below(x) \cup {x} = Below(x + 1)
    <3> HIDE DEF x
    <3> QED  BY <1>2, <1>3 DEF Below, VPage
  <2> QED  BY <1>2, <1>3, <2>1, BelowCounts
<1>5. /\ map' = [map EXCEPT ![p] = map[p] \cup {x}] /\ ufree' = ufree - 1
      /\ next' = [next EXCEPT ![p] = next[p] + 1]
      /\ UNCHANGED <<kfree, stage, size, new, args, goal, panicked>>
  BY <1>4 DEF GrowPage
<1>6. OneTask(p, "grow", Below(x + 1), z, NoTable, 0, g, x + 1)
  BY <1>1, <1>2, <1>4, <1>5, Unchanging DEF OneTask
<1>7. TaskFits("grow", Below(x + 1), z, NoTable, 0, g, x + 1)
  <2>1. SpaceFits("grow", Below(x + 1), z, g, x + 1)
    BY <1>2, <1>3 DEF SpaceFits
  <2> QED  BY <2>1, PlainFits
<1>8. /\ kfree' = (kfree + KernelOf(stage[p], new[p], args[p])) - KernelOf("grow", NoTable, 0)
      /\ ufree' \in Nat /\ kfree' \in Nat /\ panicked' \in BOOLEAN
  BY <1>1, <1>2, <1>5 DEF KernelOf, TaskPages, TopTables, LowTables
<1>9. ufree' + Cardinality(Below(x + 1)) + Cardinality(NoTable.map)
        = ufree + Cardinality(map[p]) + Cardinality(new[p].map)
  <2>1. Cardinality(NoTable.map) = 0 /\ ufree' = ufree - 1
    BY <1>5, NoTableFits
  <2> HIDE DEF x
  <2> QED  BY <1>2, <1>4, <2>1
<1> HIDE DEF x, g, z
<1> QED  BY <1>6, <1>7, <1>8, <1>9, TaskKept

LEMMA StepGrowFails == ASSUME MemInv, NEW p \in Task, GrowFails(p) PROVE Kept
<1> DEFINE x == next[p]  z == size[p]  n == PageUp(z)
<1>1. stage[p] = "grow" /\ ufree = 0
  BY DEF GrowFails
<1>2. /\ map[p] = Below(x) /\ x \in 0..(MaxPage + 1) /\ x \in Nat /\ Cardinality(map[p]) = x
      /\ z \in 0..Start(MaxPage) /\ z \in Nat
      /\ n <= x /\ n \in 0..MaxPage
      /\ new[p] = NoTable /\ args[p] = 0
      /\ kfree \in Nat /\ panicked \in BOOLEAN
      /\ KernelOf(stage[p], new[p], args[p]) = 7
  BY <1>1, Growing
<1>3. /\ x = PageUp(Start(x)) /\ Start(x) \in Nat /\ z <= Start(x)
  <2>1. x = PageUp(Start(x)) /\ Start(x) \in Nat
    BY <1>2, PageUpIs
  <2>2. z <= Start(x)
    <3> HIDE DEF x, z
    <3> QED  BY <1>2 DEF Start, PageUp, n
  <2> QED  BY <2>1, <2>2
<1>4. /\ map[p] \ Deallocated(map[p], Start(x), z) = Below(n)
      /\ Freed(map[p], Start(x), z) = x - n
  <2> HIDE DEF x, z, n
  <2>1. /\ Below(x) \ Deallocated(Below(x), Start(x), z) = Below(PageUp(z))
        /\ Freed(Below(x), Start(x), z) = x - PageUp(z)
    BY <1>2, <1>3, DeallocatedIs
  <2> QED  BY <1>2, <2>1 DEF n
<1>5. OneTask(p, "user", Below(n), z, NoTable, 0, 0, 0)
  BY <1>2, <1>4, Unchanging DEF GrowFails, OneTask
<1>6. TaskFits("user", Below(n), z, NoTable, 0, 0, 0)
  <2>1. SpaceFits("user", Below(n), z, 0, 0)
    BY <1>2, MemConstants DEF SpaceFits, Start
  <2> QED  BY <2>1, PlainFits
<1>7. Cardinality(Below(n)) = n /\ Cardinality(NoTable.map) = 0
  <2>1. n \in 0..(MaxPage + 1)
    BY <1>2, MemConstants
  <2> HIDE DEF n
  <2> QED  BY <2>1, BelowCounts, NoTableFits
<1>8. /\ ufree' = x - n /\ ufree' \in Nat /\ kfree' = kfree /\ kfree' \in Nat /\ panicked' \in BOOLEAN
  <2>1. ufree' = x - n /\ kfree' = kfree /\ panicked' = panicked
    BY <1>4 DEF GrowFails
  <2> HIDE DEF x, n
  <2> QED  BY <1>2, <2>1, MemConstants
<1>9. kfree' = (kfree + KernelOf(stage[p], new[p], args[p])) - KernelOf("user", NoTable, 0)
  BY <1>2, <1>8 DEF KernelOf, TaskPages, TopTables, LowTables
<1>10. ufree' + Cardinality(Below(n)) + Cardinality(NoTable.map)
         = ufree + Cardinality(map[p]) + Cardinality(new[p].map)
  <2>1. n \in Nat
    BY <1>2, MemConstants
  <2> HIDE DEF x, n
  <2> QED  BY <1>1, <1>2, <1>7, <1>8, <2>1
<1> HIDE DEF x, z, n
<1> QED  BY <1>5, <1>6, <1>8, <1>9, <1>10, TaskKept

LEMMA StepGrowEnds == ASSUME MemInv, NEW p \in Task, GrowEnds(p) PROVE Kept
<1> DEFINE x == next[p]  g == goal[p]
<1>1. stage[p] = "grow" /\ Start(x) >= g
  BY DEF GrowEnds
<1>2. /\ map[p] = Below(x) /\ x \in 0..(MaxPage + 1) /\ x \in Nat
      /\ g \in 0..Start(MaxPage) /\ g \in Nat /\ x <= PageUp(g)
      /\ new[p] = NoTable /\ args[p] = 0
      /\ ufree \in Nat /\ kfree \in Nat /\ panicked \in BOOLEAN
      /\ KernelOf(stage[p], new[p], args[p]) = 7
  BY <1>1, Growing
<1>3. PageUp(g) = x
  <2> HIDE DEF x, g
  <2> QED  BY <1>1, <1>2 DEF PageUp, Start
<1>4. OneTask(p, "user", map[p], g, NoTable, 0, 0, 0)
  BY <1>2, Unchanging DEF GrowEnds, OneTask
<1>5. TaskFits("user", map[p], g, NoTable, 0, 0, 0)
  <2>1. SpaceFits("user", map[p], g, 0, 0)
    BY <1>2, <1>3, MemConstants DEF SpaceFits, Start
  <2> QED  BY <2>1, PlainFits
<1>6. /\ ufree' = ufree /\ kfree' = kfree /\ panicked' = panicked
  BY DEF GrowEnds
<1>7. kfree' = (kfree + KernelOf(stage[p], new[p], args[p])) - KernelOf("user", NoTable, 0)
  BY <1>2, <1>6 DEF KernelOf, TaskPages, TopTables, LowTables
<1>8. ufree' + Cardinality(map[p]) + Cardinality(NoTable.map)
         = ufree + Cardinality(map[p]) + Cardinality(new[p].map)
  BY <1>2, <1>6
<1> HIDE DEF x, g
<1> QED  BY <1>2, <1>4, <1>5, <1>6, <1>7, <1>8, TaskKept

LEMMA StepShrink ==
  ASSUME MemInv, NEW p \in Task, NEW k \in Int, Shrink(p, k)
  PROVE  Kept
<1> DEFINE z == size[p]  n == PageUp(z)  to == Max({0, z - k})  l == PageUp(to)
<1>1. stage[p] = "user" /\ k > 0
  BY DEF Shrink, Runs
<1>2. /\ map[p] = Below(n) /\ n \in 0..MaxPage /\ z \in Nat /\ Cardinality(map[p]) = n
  BY <1>1, WholeSpace
<1>3. /\ ufree \in Nat /\ kfree \in Nat /\ panicked \in BOOLEAN /\ new[p] = NoTable
      /\ TaskFits("user", map[p], z, new[p], args[p], goal[p], next[p])
  BY <1>1, TaskIs, NoImage
<1>4. /\ args[p] = 0 /\ z \in 0..Start(MaxPage) /\ goal[p] \in 0..Start(MaxPage)
      /\ next[p] \in 0..(MaxPage + 1)
  BY <1>3 DEF TaskFits, SpaceFits
<1>5. to \in Nat /\ to <= z
  <2> DEFINE S == {0, z - k}
  <2>1. \E y \in S : \A w \in S : y >= w
    BY <1>2
  <2>2. Max(S) \in S /\ \A w \in S : Max(S) >= w
    BY <2>1 DEF Max
  <2>3. to = Max(S)
    OBVIOUS
  <2> HIDE DEF to
  <2> QED  BY <1>1, <1>2, <2>2, <2>3
<1> HIDE DEF to
<1>6. /\ map[p] \ Deallocated(map[p], z, to) = Below(l)
      /\ Freed(map[p], z, to) = n - l /\ l \in 0..n
  <2>1. n \in 0..(MaxPage + 1) /\ n = PageUp(z)
    BY <1>2, MemConstants
  <2> HIDE DEF n, z
  <2>2. /\ Below(n) \ Deallocated(Below(n), z, to) = Below(PageUp(to))
        /\ Freed(Below(n), z, to) = n - PageUp(to) /\ PageUp(to) \in 0..n
    BY <1>2, <1>5, <2>1, DeallocatedIs
  <2> QED  BY <1>2, <2>2
<1>7. /\ size' = [size EXCEPT ![p] = to]
      /\ map' = [map EXCEPT ![p] = map[p] \ Deallocated(map[p], z, to)]
      /\ ufree' = ufree + Freed(map[p], z, to)
      /\ UNCHANGED <<kfree, stage, new, args, goal, next, panicked>>
  BY DEF Shrink, to
<1>8. OneTask(p, "user", Below(l), to, NoTable, 0, goal[p], next[p])
  BY <1>1, <1>3, <1>4, <1>6, <1>7, Unchanging DEF OneTask
<1>9. TaskFits("user", Below(l), to, NoTable, 0, goal[p], next[p])
  <2>1. to \in 0..Start(MaxPage)
    <3>1. z <= Start(MaxPage) /\ Start(MaxPage) \in Nat
      BY <1>4, MemConstants DEF Start
    <3> HIDE DEF z
    <3> QED  BY <1>2, <1>5, <3>1
  <2>2. SpaceFits("user", Below(l), to, goal[p], next[p])
    BY <1>4, <2>1 DEF SpaceFits
  <2> QED  BY <2>2, PlainFits
<1>10. Cardinality(Below(l)) = l /\ Cardinality(NoTable.map) = 0 /\ l \in Nat /\ n \in Nat /\ l <= n
  <2>1. l \in 0..(MaxPage + 1) /\ l \in Nat /\ n \in Nat /\ l <= n
    BY <1>2, <1>6, MemConstants
  <2> HIDE DEF n, l
  <2> QED  BY <2>1, BelowCounts, NoTableFits
<1>11. /\ ufree' = ufree + (n - l) /\ ufree' \in Nat /\ kfree' = kfree /\ panicked' = panicked
  <2>1. ufree' = ufree + (n - l) /\ kfree' = kfree /\ panicked' = panicked
    BY <1>6, <1>7
  <2> HIDE DEF l, n
  <2> QED  BY <1>3, <1>10, <2>1
<1>12. kfree' = (kfree + KernelOf(stage[p], new[p], args[p])) - KernelOf("user", NoTable, 0)
  BY <1>1, <1>3, <1>4, <1>11 DEF KernelOf, TaskPages, TopTables, LowTables
<1>13. ufree' + Cardinality(Below(l)) + Cardinality(NoTable.map)
         = ufree + Cardinality(map[p]) + Cardinality(new[p].map)
  <2> HIDE DEF l, n
  <2> QED  BY <1>2, <1>3, <1>10, <1>11
<1> HIDE DEF l, n, z
<1> QED  BY <1>3, <1>8, <1>9, <1>11, <1>12, <1>13, TaskKept

\* A process in sys_exec, with what exec has built.
LEMMA InExec ==
  ASSUME MemInv, NEW p \in Task, stage[p] \in {"args", "load", "stack", "argv"}
  PROVE  /\ SpaceFits("user", map[p], size[p], goal[p], next[p])
         /\ ImageFits(stage[p], new[p]) /\ new[p] \in Image
         /\ args[p] \in 0..MaxArgs /\ args[p] \in Nat
         /\ ufree \in Nat /\ kfree \in Nat /\ panicked \in BOOLEAN /\ Lost \in Int
         /\ Cardinality(map[p]) \in Nat
         /\ KernelOf(stage[p], new[p], args[p])
              = 7 + args[p] + (IF stage[p] = "args" THEN 0 ELSE IF new[p].low THEN 5 ELSE 3)
<1>1. /\ TaskFits(stage[p], map[p], size[p], new[p], args[p], goal[p], next[p])
      /\ ufree \in Nat /\ kfree \in Nat /\ panicked \in BOOLEAN /\ Lost \in Int
  BY TaskIs
<1>2. args[p] \in 0..MaxArgs /\ args[p] \in Nat
  BY <1>1, MemConstants DEF TaskFits
<1>3. KernelOf(stage[p], new[p], args[p])
        = 7 + args[p] + (IF stage[p] = "args" THEN 0 ELSE IF new[p].low THEN 5 ELSE 3)
  <2> DEFINE a == args[p]
  <2>1. a \in Nat
    BY <1>2
  <2> HIDE DEF a
  <2>2. KernelOf(stage[p], new[p], a)
          = 7 + a + (IF stage[p] = "args" THEN 0 ELSE IF new[p].low THEN 5 ELSE 3)
    BY <2>1 DEF KernelOf, Tables, TaskPages, TopTables, LowTables
  <2> QED  BY <2>2 DEF a
<1> QED  BY <1>1, <1>2, <1>3, PagesCount DEF TaskFits, SpaceFits, ImageFits

LEMMA ExecFits ==
  ASSUME NEW s \in {"user", "args", "load", "stack", "argv"}, NEW m, NEW z, NEW t, NEW a \in 0..MaxArgs,
         NEW g, NEW x, SpaceFits("user", m, z, g, x), ImageFits(s, t), s = "user" => a = 0
  PROVE  TaskFits(s, m, z, t, a, g, x)
<1>1. SpaceFits(s, m, z, g, x)
  BY DEF SpaceFits
<1> QED  BY <1>1 DEF TaskFits, Stage

LEMMA NoTableIsFit == ImageFits("user", NoTable) /\ ImageFits("args", NoTable)
BY NoTableFits DEF ImageFits, NoTable

LEMMA StepFetchArg == ASSUME MemInv, NEW p \in Task, FetchArg(p) PROVE Kept
<1> DEFINE a == args[p]  t == new[p]
<1>1. stage[p] = "args" /\ a < MaxArgs /\ kfree > 0
  BY DEF FetchArg
<1>2. /\ SpaceFits("user", map[p], size[p], goal[p], next[p]) /\ ImageFits("args", t)
      /\ a \in Nat /\ ufree \in Nat /\ kfree \in Nat /\ panicked \in BOOLEAN
      /\ KernelOf(stage[p], t, a) = 7 + a
  BY <1>1, InExec
<1>3. a + 1 \in 0..MaxArgs
  <2> HIDE DEF a
  <2> QED  BY <1>1, <1>2, MemConstants
<1>4. TaskFits("args", map[p], size[p], t, a + 1, goal[p], next[p])
  BY <1>2, <1>3, ExecFits
<1>5. OneTask(p, "args", map[p], size[p], t, a + 1, goal[p], next[p])
  BY <1>1, Unchanging DEF FetchArg, OneTask
<1>6. /\ kfree' = kfree - 1 /\ ufree' = ufree /\ panicked' = panicked
  BY DEF FetchArg
<1>7. kfree' = (kfree + KernelOf(stage[p], t, a)) - KernelOf("args", t, a + 1) /\ kfree' \in Nat
  <2>1. KernelOf("args", t, a + 1) = 7 + (a + 1)
    BY <1>2 DEF KernelOf, TaskPages, TopTables, LowTables
  <2> HIDE DEF a
  <2> QED  BY <1>1, <1>2, <1>6, <2>1
<1> HIDE DEF a
<1> QED  BY <1>2, <1>4, <1>5, <1>6, <1>7, TaskKept DEF a

LEMMA StepFetchFails == ASSUME MemInv, NEW p \in Task, FetchFails(p) PROVE Kept
<1> DEFINE a == args[p]  t == new[p]
<1>1. stage[p] = "args"
  BY DEF FetchFails
<1>2. /\ SpaceFits("user", map[p], size[p], goal[p], next[p])
      /\ a \in Nat /\ ufree \in Nat /\ kfree \in Nat /\ panicked \in BOOLEAN
      /\ KernelOf(stage[p], t, a) = 7 + a /\ t = NoTable
  BY <1>1, InExec, NoImage
<1>3. TaskFits("user", map[p], size[p], t, 0, goal[p], next[p])
  BY <1>2, PlainFits
<1>4. OneTask(p, "user", map[p], size[p], t, 0, goal[p], next[p])
  BY <1>1, Unchanging DEF FetchFails, Cleanup, OneTask
<1>5. /\ kfree' = kfree + a + 0 /\ ufree' = ufree /\ panicked' = panicked
  BY DEF FetchFails, Cleanup
<1>6. kfree' = (kfree + KernelOf(stage[p], t, a)) - KernelOf("user", t, 0) /\ kfree' \in Nat
  <2>1. KernelOf("user", t, 0) = 7
    BY <1>2 DEF KernelOf, TaskPages, TopTables, LowTables
  <2> HIDE DEF a
  <2> QED  BY <1>1, <1>2, <1>5, <2>1
<1> HIDE DEF a
<1> QED  BY <1>2, <1>3, <1>4, <1>5, <1>6, TaskKept DEF a

LEMMA StepStartExec ==
  ASSUME MemInv, NEW p \in Task, NEW pages \in ImagePages, StartExec(p, pages)
  PROVE  Kept
<1> DEFINE a == args[p]  t == [NoTable EXCEPT !.pages = pages]
<1>1. stage[p] = "args"
  BY DEF StartExec
<1>2. /\ SpaceFits("user", map[p], size[p], goal[p], next[p])
      /\ a \in Nat /\ a \in 0..MaxArgs /\ ufree \in Nat /\ kfree \in Nat /\ panicked \in BOOLEAN
      /\ KernelOf(stage[p], new[p], a) = 7 + a /\ new[p] = NoTable
  BY <1>1, InExec, NoImage
<1>3. CASE MemPanics
  BY <1>3, StepPanics
<1>4. CASE ~MemPanics
  <2>1. /\ kfree >= TopTables /\ kfree' = kfree - TopTables
        /\ new' = [new EXCEPT ![p] = t] /\ stage' = [stage EXCEPT ![p] = "load"]
        /\ UNCHANGED <<ufree, map, size, args, goal, next, panicked>>
    BY <1>2, <1>4 DEF StartExec, TopTables
  <2>2. pages \in 1..(MaxPage - 1)
    BY MemoryAssumption
  <2>3. t \in Image /\ t.pages = pages /\ t.next = 0 /\ t.mapped = 0 /\ t.low = FALSE /\ t.map = {}
    <3>1. pages \in 0..MaxPage
      BY <2>2, MemConstants
    <3> QED  BY <3>1, NoTableFits DEF NoTable, Image
  <2>4. ImageFits("load", t)
    <3>1. 0 <= t.pages /\ ~(t.next > 0) /\ ~t.low
      BY <2>2, <2>3, MemConstants
    <3> HIDE DEF t
    <3> QED  BY <2>2, <2>3, <3>1, NoTableFits DEF ImageFits
  <2>5. KernelOf("load", t, a) = 7 + a + 3
    <3> HIDE DEF t, a
    <3> QED  BY <1>2, <2>3 DEF KernelOf, Tables, TaskPages, TopTables, LowTables
  <2>6. OneTask(p, "load", map[p], size[p], t, a, goal[p], next[p])
    BY <2>1, Unchanging DEF OneTask
  <2>7. TaskFits("load", map[p], size[p], t, a, goal[p], next[p])
    <3> HIDE DEF t
    <3> QED  BY <1>2, <2>4, ExecFits
  <2>8. kfree' = (kfree + KernelOf(stage[p], new[p], a)) - KernelOf("load", t, a) /\ kfree' \in Nat
    <3> HIDE DEF a, t
    <3> QED  BY <1>2, <2>1, <2>5 DEF TopTables
  <2>9. ufree' + Cardinality(map[p]) + Cardinality(t.map)
          = ufree + Cardinality(map[p]) + Cardinality(new[p].map)
    <3> HIDE DEF t
    <3> QED  BY <1>2, <2>1, <2>3, NoTableFits
  <2> HIDE DEF t
  <2> QED  BY <1>2, <2>1, <2>6, <2>7, <2>8, <2>9, TaskKept
<1> QED  BY <1>3, <1>4

LEMMA StepMapPage == ASSUME MemInv, NEW p \in Task, MapPage(p) PROVE Kept
<1> DEFINE a == args[p]  t == new[p]  s == stage[p]  x == t.next
           u == [t EXCEPT !.map = @ \cup {t.next}, !.low = TRUE, !.next = @ + 1,
                       !.mapped = IF stage[p] = "stack" THEN Start(t.pages + 1) ELSE @]
           s2 == IF s = "stack" THEN "argv" ELSE "load"
           take == IF t.low THEN 0 ELSE LowTables
<1>1. s \in {"load", "stack"} /\ ufree > 0 /\ (s = "load" => x < t.pages)
  BY DEF MapPage
<1>2. /\ SpaceFits("user", map[p], size[p], goal[p], next[p]) /\ ImageFits(s, t) /\ t \in Image
      /\ a \in Nat /\ a \in 0..MaxArgs /\ ufree \in Nat /\ kfree \in Nat /\ panicked \in BOOLEAN
      /\ KernelOf(s, t, a) = 7 + a + (IF t.low THEN 5 ELSE 3)
      /\ Cardinality(map[p]) \in Nat
  BY <1>1, InExec
<1>3. CASE MemPanics
  BY <1>3, StepPanics
<1>4. CASE ~MemPanics
  <2>1. /\ kfree >= take /\ kfree' = kfree - take /\ ufree' = ufree - 1
        /\ new' = [new EXCEPT ![p] = u] /\ stage' = [stage EXCEPT ![p] = s2]
        /\ UNCHANGED <<map, size, args, goal, next, panicked>>
    <3>1. ~(kfree < take) /\ ufree' = ufree - 1 /\ kfree' = kfree - take
          /\ new' = [new EXCEPT ![p] = [t EXCEPT !.map = @ \cup {t.next}, !.low = TRUE, !.next = @ + 1,
                       !.mapped = IF stage[p] = "stack" THEN Start(t.pages + 1) ELSE @]]
          /\ stage' = [stage EXCEPT ![p] = IF @ = "stack" THEN "argv" ELSE @]
          /\ UNCHANGED <<map, size, args, goal, next, panicked>>
      BY <1>4 DEF MapPage
    <3>2. new' = [new EXCEPT ![p] = u]
      BY <3>1
    <3>3. stage' = [stage EXCEPT ![p] = s2]
      BY <1>1, <3>1
    <3>4. kfree >= take
      BY <1>2, <3>1 DEF LowTables
    <3> QED  BY <3>1, <3>2, <3>3, <3>4
  <2>2. /\ t.pages \in 1..(MaxPage - 1) /\ x <= t.pages /\ x \in 0..MaxPage /\ t.map = Below(x)
        /\ s = "stack" => x = t.pages
        /\ s = "load" => t.mapped = 0
    BY <1>1, <1>2 DEF ImageFits, Image
  <2>3. /\ x \in VPage /\ x + 1 \in 0..MaxPage /\ x + 1 \in 0..(MaxPage + 1) /\ x \in Nat
        /\ x \in 0..(MaxPage + 1)
        /\ Start(t.pages + 1) \in 0..Start(MaxPage)
    <3> DEFINE y == t.pages
    <3>1. y \in 1..(MaxPage - 1) /\ x <= y /\ x \in 0..MaxPage
      BY <2>2
    <3> HIDE DEF x, y
    <3>2. y \in Nat /\ x \in Nat /\ y + 1 <= MaxPage
      BY <3>1, MemConstants
    <3>3. Start(y + 1) \in 0..Start(MaxPage)
      BY <3>2, MemConstants DEF Start
    <3>4. /\ x \in VPage /\ x + 1 \in 0..MaxPage /\ x + 1 \in 0..(MaxPage + 1)
          /\ x \in 0..(MaxPage + 1)
      BY <3>1, <3>2, MemConstants DEF VPage
    <3> QED  BY <3>2, <3>3, <3>4 DEF y
  <2>4. /\ u \in Image /\ u.map = t.map \cup {x} /\ u.low = TRUE /\ u.next = x + 1
        /\ u.pages = t.pages
        /\ u.mapped = (IF s = "stack" THEN Start(t.pages + 1) ELSE t.mapped)
    BY <1>2, <2>3 DEF Image
  <2>5. t.map \cup {x} = Below(x + 1) /\ Cardinality(Below(x + 1)) = x + 1 /\ Cardinality(t.map) = x
    <3>1. Below(x) \cup {x} = Below(x + 1)
      <4> HIDE DEF x
      <4> QED  BY <2>3 DEF Below, VPage
    <3>2. Cardinality(Below(x + 1)) = x + 1 /\ Cardinality(Below(x)) = x
      <4> HIDE DEF x
      <4> QED  BY <2>3, BelowCounts
    <3> QED  BY <2>2, <3>1, <3>2
  <2>6. ImageFits(s2, u)
    <3>1. s = "load" => /\ s2 = "load" /\ u.next <= u.pages /\ u.mapped = 0 /\ u.next > 0
      <4>1. s = "load" => x + 1 <= t.pages
        <5> DEFINE y == t.pages
        <5>1. y \in Nat /\ (s = "load" => x < y)
          BY <1>1, <2>2, MemConstants
        <5> HIDE DEF x, y, s
        <5>2. s = "load" => x + 1 <= y
          BY <2>3, <5>1
        <5> QED  BY <5>2 DEF y
      <4>2. x + 1 > 0
        <5> HIDE DEF x
        <5> QED  BY <2>3
      <4>3. s = "load" => s2 = "load" /\ u.mapped = 0
        BY <2>2, <2>4
      <4> HIDE DEF s2, u
      <4> QED  BY <2>4, <4>1, <4>2, <4>3
    <3>2. s = "stack" => /\ s2 = "argv" /\ u.next = u.pages + 1 /\ u.mapped = Start(u.pages + 1)
      BY <2>2, <2>4
    <3>3. u.pages \in 1..(MaxPage - 1) /\ u.map = Below(u.next) /\ u.low /\ u \in Image
      BY <2>2, <2>4, <2>5
    <3> HIDE DEF u, s, s2
    <3>4. s2 = "load" \/ s2 = "argv"
      BY <1>1, <3>1, <3>2
    <3> QED  BY <1>1, <3>1, <3>2, <3>3, <3>4 DEF ImageFits
  <2>7. KernelOf(s2, u, a) = 7 + a + 5
    <3>1. s2 \in {"load", "argv"}
      OBVIOUS
    <3> HIDE DEF u, a, s2
    <3> QED  BY <1>2, <2>4, <3>1 DEF KernelOf, Tables, TaskPages, TopTables, LowTables
  <2>8. OneTask(p, s2, map[p], size[p], u, a, goal[p], next[p])
    BY <2>1, Unchanging DEF OneTask
  <2>9. TaskFits(s2, map[p], size[p], u, a, goal[p], next[p])
    <3>1. s2 \in {"load", "argv"}
      OBVIOUS
    <3> HIDE DEF u, s2
    <3> QED  BY <1>2, <2>6, <3>1, ExecFits
  <2>10. kfree' = (kfree + KernelOf(s, t, a)) - KernelOf(s2, u, a) /\ kfree' \in Nat /\ ufree' \in Nat
    <3>1. kfree' = kfree - (IF t.low THEN 0 ELSE 2) /\ kfree >= (IF t.low THEN 0 ELSE 2)
      BY <2>1 DEF LowTables
    <3> HIDE DEF a, t, u, s, s2
    <3> QED  BY <1>1, <1>2, <2>1, <2>7, <3>1
  <2>11. ufree' + Cardinality(map[p]) + Cardinality(u.map)
           = ufree + Cardinality(map[p]) + Cardinality(t.map)
    <3>1. Cardinality(u.map) = x + 1
      BY <2>4, <2>5
    <3> HIDE DEF t, u, x
    <3> QED  BY <1>1, <1>2, <2>1, <2>3, <2>5, <3>1
  <2> HIDE DEF u, s2
  <2> QED  BY <1>2, <2>1, <2>8, <2>9, <2>10, <2>11, TaskKept
<1> QED  BY <1>3, <1>4

LEMMA StepSegmentDone == ASSUME MemInv, NEW p \in Task, SegmentDone(p) PROVE Kept
<1> DEFINE a == args[p]  t == new[p]  u == [new[p] EXCEPT !.mapped = Start(new[p].pages)]
<1>1. stage[p] = "load" /\ t.next = t.pages
  BY DEF SegmentDone
<1>2. /\ SpaceFits("user", map[p], size[p], goal[p], next[p]) /\ ImageFits("load", t) /\ t \in Image
      /\ a \in Nat /\ a \in 0..MaxArgs /\ ufree \in Nat /\ kfree \in Nat /\ panicked \in BOOLEAN
      /\ KernelOf("load", t, a) = 7 + a + (IF t.low THEN 5 ELSE 3)
  BY <1>1, InExec
<1>3. t.pages \in 1..(MaxPage - 1) /\ t.low /\ t.map = Below(t.next)
  <2>1. t.pages \in 1..(MaxPage - 1) /\ (t.low <=> t.next > 0) /\ t.map = Below(t.next)
    BY <1>2 DEF ImageFits
  <2> QED  BY <1>1, <2>1
<1>4. Start(t.pages) \in 0..Start(MaxPage)
  <2> DEFINE y == t.pages
  <2>1. y \in Nat /\ y <= MaxPage
    BY <1>3, MemConstants
  <2> HIDE DEF y
  <2>2. Start(y) \in 0..Start(MaxPage)
    BY <2>1, MemConstants DEF Start
  <2> QED  BY <2>2 DEF y
<1>5. /\ u \in Image /\ u.map = t.map /\ u.low = t.low /\ u.next = t.next /\ u.pages = t.pages
      /\ u.mapped = Start(t.pages)
  BY <1>2, <1>4 DEF Image
<1> HIDE DEF u
<1>6. ImageFits("stack", u)
  BY <1>1, <1>3, <1>5 DEF ImageFits
<1>7. TaskFits("stack", map[p], size[p], u, a, goal[p], next[p])
  BY <1>2, <1>6, ExecFits
<1>8. OneTask(p, "stack", map[p], size[p], u, a, goal[p], next[p])
  <2>1. new' = [new EXCEPT ![p] = u]
    BY DEF SegmentDone, u
  <2> QED  BY <2>1, Unchanging DEF SegmentDone, OneTask
<1>9. /\ ufree' = ufree /\ kfree' = kfree /\ panicked' = panicked
  BY DEF SegmentDone
<1>10. kfree' = (kfree + KernelOf(stage[p], t, a)) - KernelOf("stack", u, a)
  <2>1. KernelOf("stack", u, a) = 7 + a + 5
    <3> HIDE DEF a
    <3> QED  BY <1>2, <1>3, <1>5 DEF KernelOf, Tables, TaskPages, TopTables, LowTables
  <2> HIDE DEF a, t
  <2> QED  BY <1>1, <1>2, <1>3, <1>9, <2>1 DEF t
<1>11. ufree' + Cardinality(map[p]) + Cardinality(u.map)
         = ufree + Cardinality(map[p]) + Cardinality(t.map)
  BY <1>5, <1>9
<1> QED  BY <1>2, <1>7, <1>8, <1>9, <1>10, <1>11, TaskKept

\* What exec gives back of what it has built.
LEMMA BuiltPages ==
  ASSUME MemInv, NEW p \in Task, stage[p] \in {"load", "stack", "argv"}
  PROVE  /\ new[p].map = Below(new[p].next) /\ new[p].next \in 0..MaxPage
         /\ Cardinality(new[p].map) = new[p].next
         /\ stage[p] = "load" => Freed(new[p].map, new[p].mapped, 0) = 0
         /\ stage[p] # "load" => Freed(new[p].map, new[p].mapped, 0) = new[p].next
<1> DEFINE t == new[p]  x == new[p].next  s == stage[p]
<1>1. ImageFits(s, t) /\ t \in Image
  BY InExec
<1>2. t.map = Below(x) /\ x \in 0..MaxPage /\ x \in 0..(MaxPage + 1) /\ x \in Nat
  <2>1. t.map = Below(x) /\ x \in 0..MaxPage
    BY <1>1 DEF ImageFits, Image
  <2> HIDE DEF x
  <2> QED  BY <2>1, MemConstants
<1>3. Cardinality(t.map) = x
  <2> HIDE DEF x
  <2> QED  BY <1>2, BelowCounts
<1>4. s = "load" => Freed(t.map, t.mapped, 0) = 0
  <2>1. s = "load" => t.mapped = 0
    BY <1>1 DEF ImageFits
  <2>2. t.map \in SUBSET VPage
    BY <1>1 DEF Image
  <2> HIDE DEF t
  <2> QED  BY <2>1, <2>2, NotCountedNotFreed
<1>5. s # "load" => Freed(t.map, t.mapped, 0) = x
  <2>1. s # "load" => t.mapped = Start(x)
    BY <1>1 DEF ImageFits
  <2>2. x = PageUp(Start(x)) /\ Start(x) \in Nat /\ 0 <= Start(x)
    <3> HIDE DEF x
    <3>1. x = PageUp(Start(x)) /\ Start(x) \in Nat
      BY <1>2, PageUpIs
    <3> QED  BY <3>1
  <2>3. Freed(Below(x), Start(x), 0) = x - PageUp(0)
    <3> HIDE DEF x
    <3> QED  BY <1>2, <2>2, DeallocatedIs
  <2>4. Freed(Below(x), Start(x), 0) = x
    <3> HIDE DEF x
    <3> QED  BY <1>2, <2>3, NoTableFits
  <2> HIDE DEF x, t
  <2> QED  BY <1>2, <2>1, <2>4
<1> QED  BY <1>2, <1>3, <1>4, <1>5

\* The failures of exec: the only step that loses pages, of a segment not yet whole.
LEMMA StepExecFails ==
  ASSUME MemInv, NEW p \in Task, ExecFails(p)
  PROVE  /\ MemInv'
         /\ Lost' # Lost => stage[p] = "load" /\ new[p].next > 0 /\ stage'[p] = "user"
<1> DEFINE a == args[p]  t == new[p]  x == t.next  s == stage[p]  f == Freed(t.map, t.mapped, 0)
           c == Cardinality(map[p])
<1>1. s \in {"load", "stack", "argv"} /\ Bad(p)
  BY DEF ExecFails
<1>2. /\ SpaceFits("user", map[p], size[p], goal[p], next[p]) /\ ImageFits(s, t) /\ t \in Image
      /\ a \in Nat /\ ufree \in Nat /\ kfree \in Nat /\ panicked \in BOOLEAN /\ Lost \in Int
      /\ c \in Nat
      /\ KernelOf(s, t, a) = 7 + a + (IF t.low THEN 5 ELSE 3)
  BY <1>1, InExec
<1>3. /\ Cardinality(t.map) = x /\ x \in 0..MaxPage /\ x \in Nat
      /\ s = "load" => f = 0
      /\ s # "load" => f = x
  BY <1>1, BuiltPages, MemConstants
<1>4. f \in 0..x
  <2> HIDE DEF f, x
  <2> QED  BY <1>3
<1>5. /\ stage' = [stage EXCEPT ![p] = "user"] /\ new' = [new EXCEPT ![p] = NoTable]
      /\ args' = [args EXCEPT ![p] = 0]
      /\ ufree' = ufree + f /\ kfree' = kfree + a + Tables(t)
      /\ UNCHANGED <<map, size, goal, next, panicked>>
  BY <1>1 DEF Bad, Cleanup
<1>6. OneTask(p, "user", map[p], size[p], NoTable, 0, goal[p], next[p])
  BY <1>5, Unchanging DEF OneTask
<1>7. TaskFits("user", map[p], size[p], NoTable, 0, goal[p], next[p])
  BY <1>2, PlainFits
<1>8. KernelOf("user", NoTable, 0) = 7 /\ Cardinality(NoTable.map) = 0
  BY NoTableFits DEF KernelOf, TaskPages, TopTables, LowTables
<1>9. Tables(t) = IF t.low THEN 5 ELSE 3
  BY DEF Tables, TopTables, LowTables
<1>10. /\ kfree' = (kfree + KernelOf(s, t, a)) - KernelOf("user", NoTable, 0)
       /\ kfree' \in Nat
  <2> HIDE DEF a, t, s
  <2> QED  BY <1>2, <1>5, <1>8, <1>9
<1> HIDE DEF f, x, c
<1>11. ufree' \in Nat /\ ufree' + c + 0 <= ufree + c + x
  BY <1>2, <1>3, <1>4, <1>5
<1>12. /\ MemInv'
       /\ Lost' = Lost + (ufree + c + Cardinality(t.map)) - (ufree' + c + Cardinality(NoTable.map))
  <2>1. panicked' \in BOOLEAN
    BY <1>2, <1>5
  <2>2. ufree' + c + Cardinality(NoTable.map) <= ufree + c + Cardinality(t.map)
    BY <1>3, <1>8, <1>11
  <2> QED  BY <1>6, <1>7, <1>10, <1>11, <2>1, <2>2, TaskStep DEF c
<1>13. Lost' = Lost + (x - f)
  <2> DEFINE l == Lost  l2 == Lost'
  <2>1. l \in Int /\ l2 = l + (ufree + c + x) - ((ufree + f) + c + 0)
    BY <1>2, <1>3, <1>5, <1>8, <1>12
  <2> HIDE DEF l, l2
  <2>2. l2 = l + (x - f)
    BY <1>2, <1>3, <1>4, <2>1
  <2> QED  BY <2>2 DEF l, l2
<1>14. Lost' # Lost => s = "load" /\ x > 0
  <2> DEFINE l == Lost  l2 == Lost'
  <2>1. l \in Int /\ l2 = l + (x - f)
    BY <1>2, <1>13
  <2> HIDE DEF l, l2, s
  <2>2. l2 # l => s = "load" /\ x > 0
    BY <1>3, <1>4, <2>1
  <2> QED  BY <2>2 DEF l, l2
<1>15. stage'[p] = "user"
  <2>1. stage \in [Task -> Stage]
    BY TaskIs
  <2> QED  BY <1>5, <2>1
<1> QED  BY <1>12, <1>14, <1>15 DEF x

LEMMA StepCommit == ASSUME MemInv, NEW p \in Task, Commit(p) PROVE Kept
<1> DEFINE a == args[p]  t == new[p]  x == t.next  n == PageUp(size[p])  z == Start(t.pages + 1)
<1>1. stage[p] = "argv"
  BY DEF Commit
<1>2. /\ SpaceFits("user", map[p], size[p], goal[p], next[p]) /\ ImageFits("argv", t) /\ t \in Image
      /\ a \in Nat /\ ufree \in Nat /\ kfree \in Nat /\ panicked \in BOOLEAN
      /\ KernelOf("argv", t, a) = 7 + a + (IF t.low THEN 5 ELSE 3)
  BY <1>1, InExec
<1>3. /\ t.pages \in 1..(MaxPage - 1) /\ x = t.pages + 1 /\ t.low /\ t.map = Below(x)
  BY <1>2 DEF ImageFits
<1>4. Cardinality(t.map) = x /\ x \in 0..MaxPage /\ x \in Nat
  BY <1>1, BuiltPages, MemConstants
<1>5. /\ Cardinality(map[p]) = n /\ Freed(map[p], size[p], 0) = n /\ n \in Nat
  BY <1>1, WholeSpace, MemConstants
<1>6. z = Start(x) /\ PageUp(z) = x /\ z \in 0..Start(MaxPage)
  <2>1. z = Start(x)
    BY <1>3
  <2>2. PageUp(Start(x)) = x /\ Start(x) \in 0..Start(MaxPage)
    <3> HIDE DEF x
    <3>1. PageUp(Start(x)) = x
      BY <1>4, PageUpIs
    <3>2. Start(x) \in 0..Start(MaxPage)
      BY <1>4, MemConstants DEF Start
    <3> QED  BY <3>1, <3>2
  <2> QED  BY <2>1, <2>2
<1> HIDE DEF n, z
<1>7. /\ stage' = [stage EXCEPT ![p] = "user"] /\ new' = [new EXCEPT ![p] = NoTable]
      /\ map' = [map EXCEPT ![p] = t.map] /\ size' = [size EXCEPT ![p] = z]
      /\ args' = [args EXCEPT ![p] = 0]
      /\ ufree' = ufree + n /\ kfree' = kfree + a + (TopTables + LowTables)
      /\ UNCHANGED <<goal, next, panicked>>
  BY <1>5 DEF Commit, Cleanup, z
<1>8. OneTask(p, "user", t.map, z, NoTable, 0, goal[p], next[p])
  BY <1>7, Unchanging DEF OneTask
<1>9. TaskFits("user", t.map, z, NoTable, 0, goal[p], next[p])
  <2>1. goal[p] \in 0..Start(MaxPage) /\ next[p] \in 0..(MaxPage + 1)
    BY <1>2 DEF SpaceFits
  <2>2. SpaceFits("user", t.map, z, goal[p], next[p])
    <3> HIDE DEF x
    <3> QED  BY <1>3, <1>6, <2>1 DEF SpaceFits
  <2> QED  BY <2>2, PlainFits
<1>10. KernelOf("user", NoTable, 0) = 7 /\ Cardinality(NoTable.map) = 0
  BY NoTableFits DEF KernelOf, TaskPages, TopTables, LowTables
<1>11. /\ kfree' = (kfree + KernelOf(stage[p], t, a)) - KernelOf("user", NoTable, 0)
       /\ kfree' \in Nat
  <2>1. KernelOf(stage[p], t, a) = 7 + a + 5
    BY <1>1, <1>2, <1>3
  <2>2. kfree' = kfree + a + 5
    BY <1>7 DEF TopTables, LowTables
  <2> HIDE DEF a, t
  <2> QED  BY <1>2, <1>10, <2>1, <2>2
<1>12. /\ ufree' \in Nat /\ panicked' \in BOOLEAN
       /\ ufree' + Cardinality(t.map) + Cardinality(NoTable.map)
            = ufree + Cardinality(map[p]) + Cardinality(t.map)
  <2> HIDE DEF x
  <2> QED  BY <1>2, <1>4, <1>5, <1>7, <1>10
<1> QED  BY <1>8, <1>9, <1>11, <1>12, TaskKept

-----------------------------------------------------------------------------
(* Memory: the theorem.                                                    *)
LEMMA MemInvInit == MemInit => MemInv
<1> SUFFICES ASSUME MemInit PROVE MemInv
  OBVIOUS
<1> DEFINE p == CHOOSE q \in Task : TRUE
<1>1. p \in Task
  BY MemoryAssumption
<1>2. /\ ufree = UserPages - 2 /\ kfree = KernelPages - 7
      /\ stage = [q \in Task |-> IF q = p THEN "user" ELSE "none"]
      /\ map = [q \in Task |-> IF q = p THEN {0, 1} ELSE {}]
      /\ size = [q \in Task |-> IF q = p THEN Start(2) ELSE 0]
      /\ new = [q \in Task |-> NoTable]
      /\ args = [q \in Task |-> 0] /\ goal = [q \in Task |-> 0] /\ next = [q \in Task |-> 0]
      /\ panicked = FALSE
  <2>1. KernelPages - TaskPages - TopTables - LowTables = KernelPages - 7
    BY MemConstants DEF TaskPages, TopTables, LowTables
  <2> QED  BY <2>1 DEF MemInit
<1> HIDE DEF p
<1>3. /\ ufree \in Nat /\ kfree \in Nat /\ panicked \in BOOLEAN
  <2>1. UserPages - 2 \in Nat /\ KernelPages - 7 \in Nat
    BY MemConstants
  <2> QED  BY <1>2, <2>1
<1>4. /\ Start(2) \in 0..Start(MaxPage) /\ 0 \in 0..Start(MaxPage) /\ 0 \in 0..(MaxPage + 1)
      /\ 0 \in 0..MaxArgs /\ PageUp(Start(2)) = 2
      /\ Below(2) = {0, 1} /\ {0, 1} \in SUBSET VPage /\ {0, 1} = 0..1
  <2>1. PageUp(Start(2)) = 2
    BY PageUpIs
  <2>2. 0 \in VPage /\ 1 \in VPage
    BY MemConstants DEF VPage
  <2>3. Below(2) = {0, 1}
    BY <2>2, MemConstants DEF Below, VPage
  <2>4. {0, 1} = 0..1
    OBVIOUS
  <2> QED  BY <2>1, <2>2, <2>3, <2>4, MemConstants DEF Start
<1>5. MemTables
  <2>1. {} \in SUBSET VPage /\ "user" \in Stage /\ "none" \in Stage
    BY DEF Stage
  <2>2. stage \in [Task -> Stage] /\ map \in [Task -> SUBSET VPage]
    BY <1>2, <1>4, <2>1
  <2>3. /\ size \in [Task -> 0..Start(MaxPage)] /\ goal \in [Task -> 0..Start(MaxPage)]
        /\ next \in [Task -> 0..(MaxPage + 1)] /\ args \in [Task -> 0..MaxArgs]
    BY <1>2, <1>4
  <2>4. new \in [Task -> Image]
    BY <1>2, NoTableFits
  <2> QED  BY <2>2, <2>3, <2>4 DEF MemTables
<1>6. TasksFit
  <2>1. ASSUME NEW q \in Task
        PROVE  TaskFits(stage[q], map[q], size[q], new[q], args[q], goal[q], next[q])
    <3>1. new[q] = NoTable /\ args[q] = 0 /\ goal[q] = 0 /\ next[q] = 0
      BY <1>2
    <3>2. CASE q = p
      <4>1. stage[q] = "user" /\ map[q] = Below(2) /\ size[q] = Start(2)
        BY <1>2, <1>4, <3>2
      <4>2. SpaceFits("user", Below(2), Start(2), 0, 0)
        BY <1>4 DEF SpaceFits
      <4> QED  BY <3>1, <4>1, <4>2, PlainFits
    <3>3. CASE q # p
      <4>1. stage[q] = "none" /\ map[q] = {} /\ size[q] = 0
        BY <1>2, <3>3
      <4>2. TaskFits("none", {}, 0, NoTable, 0, 0, 0)
        BY <1>4, NoTableFits DEF TaskFits, SpaceFits, ImageFits, Stage, NoTable
      <4> QED  BY <3>1, <4>1, <4>2
    <3> QED  BY <3>2, <3>3
  <2> QED  BY <2>1 DEF TasksFit
<1>7. Cardinality(Each(map, VPage)) = 2
  <2> DEFINE t == [q \in Task |-> {}]  S == {0, 1}
  <2>1. Cardinality(Each(t, VPage)) = 0
    <3>1. \A q \in Task : t[q] = {}
      OBVIOUS
    <3> HIDE DEF t
    <3> QED  BY <3>1, EachNone
  <2>2. t \in [Task -> SUBSET VPage] /\ S \in SUBSET VPage
    BY <1>4
  <2>6. t[p] = {}
    BY <1>1
  <2>3. Replaces(t, map, p, S)
    BY <1>1, <1>2 DEF Replaces
  <2>4. Cardinality(S) = 2 /\ Cardinality({}) = 0
    <3>1. Cardinality(0..1) = IF 0 > 1 THEN 0 ELSE 1 - 0 + 1
      <4>1. 0 \in Int /\ 1 \in Int
        OBVIOUS
      <4> QED  BY <4>1, FS_Interval
    <3> QED  BY <1>4, <3>1, FS_EmptySet
  <2>0. IsFiniteSet(VPage)
    BY MemConstants
  <2> HIDE DEF t, S
  <2>5. /\ Cardinality(Each(map, VPage)) \in Nat
        /\ Cardinality(Each(map, VPage)) + Cardinality(t[p]) = Cardinality(Each(t, VPage)) + Cardinality(S)
    BY <1>1, <2>0, <2>2, <2>3, EachOne
  <2> QED  BY <2>1, <2>4, <2>5, <2>6
<1>8. Cardinality(Each(Images(new), VPage)) = 0
  <2>1. \A q \in Task : Images(new)[q] = {}
    BY <1>2, NoTableFits DEF Images
  <2> QED  BY <2>1, EachNone
<1>9. Cardinality(Each(ArgSets(args), 1..MaxArgs)) = 0
  <2>1. \A q \in Task : ArgSets(args)[q] = {}
    BY <1>2 DEF ArgSets
  <2> QED  BY <2>1, EachNone
<1>10. Cardinality(Live(stage)) = 1
  <2>1. Live(stage) = {p}
    BY <1>1, <1>2 DEF Live
  <2> QED  BY <2>1, FS_Singleton
<1>11. Cardinality(Makers(stage)) = 0 /\ Cardinality(Lows(stage, new)) = 0
  <2>1. Makers(stage) = {} /\ Lows(stage, new) = {}
    BY <1>2 DEF Makers, Lows
  <2> QED  BY <2>1, FS_EmptySet
<1>12. KernelPagesAccounted
  <2>1. KernelSum(kfree, stage, new, args) = KernelPages
    BY <1>2, <1>9, <1>10, <1>11, MemConstants DEF KernelSum, TaskPages, TopTables, LowTables
  <2> QED  BY <1>5, <2>1, Sums
<1>13. Lost >= 0
  <2>1. Lost = UserPages - UserSum(ufree, map, new)
    BY <1>3, <1>5, Sums
  <2> QED  BY <1>2, <1>7, <1>8, <2>1, MemConstants DEF UserSum
<1> QED  BY <1>3, <1>5, <1>6, <1>12, <1>13 DEF MemInv

LossOnlyInExec ==
  Lost' # Lost => \E p \in Task : stage[p] = "load" /\ new[p].next > 0 /\ stage'[p] = "user"

LEMMA MemInvStep == MemInv /\ [MemNext]_memVars => MemInv' /\ LossOnlyInExec
<1> SUFFICES ASSUME MemInv, [MemNext]_memVars PROVE MemInv' /\ LossOnlyInExec
  OBVIOUS
<1>1. Kept => MemInv' /\ LossOnlyInExec
  BY DEF Kept, LossOnlyInExec
<1>2. CASE UNCHANGED memVars
  <2>1. panicked' \in BOOLEAN
    BY <1>2 DEF MemInv, memVars
  <2> QED  BY <1>1, <1>2, <2>1, SameTables DEF memVars
<1>3. CASE MemNext
  <2>1. PICK p \in Task :
          \/ \E q \in Task : Fork(p, q)
          \/ ExitTask(p) \/ FreeTask(p)
          \/ \E n \in Increments : Grow(p, n) \/ Shrink(p, -n)
          \/ GrowPage(p) \/ GrowFails(p) \/ GrowEnds(p)
          \/ SysExec(p) \/ FetchArg(p) \/ FetchFails(p)
          \/ \E pages \in ImagePages : StartExec(p, pages)
          \/ MapPage(p) \/ SegmentDone(p) \/ ExecFails(p) \/ Commit(p)
    BY <1>3 DEF MemNext
  <2>2. CASE \E q \in Task : Fork(p, q)
    BY <1>1, <2>2, StepFork
  <2>3. CASE ExitTask(p)
    BY <1>1, <2>3, StepExitTask
  <2>4. CASE FreeTask(p)
    BY <1>1, <2>4, StepFreeTask
  <2>5. CASE \E n \in Increments : Grow(p, n) \/ Shrink(p, -n)
    <3>1. PICK n \in Increments : Grow(p, n) \/ Shrink(p, -n)
      BY <2>5
    <3>2. n \in Int /\ -n \in Int
      BY MemoryAssumption
    <3>3. CASE Grow(p, n)
      BY <1>1, <3>2, <3>3, StepGrow
    <3>4. CASE Shrink(p, -n)
      <4> DEFINE k == -n
      <4>1. k \in Int /\ Shrink(p, k)
        BY <3>2, <3>4
      <4> HIDE DEF k
      <4> QED  BY <1>1, <4>1, StepShrink
    <3> QED  BY <3>1, <3>3, <3>4
  <2>6. CASE GrowPage(p)
    BY <1>1, <2>6, StepGrowPage
  <2>7. CASE GrowFails(p)
    BY <1>1, <2>7, StepGrowFails
  <2>8. CASE GrowEnds(p)
    BY <1>1, <2>8, StepGrowEnds
  <2>9. CASE SysExec(p)
    BY <1>1, <2>9, StepSysExec
  <2>10. CASE FetchArg(p)
    BY <1>1, <2>10, StepFetchArg
  <2>11. CASE FetchFails(p)
    BY <1>1, <2>11, StepFetchFails
  <2>12. CASE \E pages \in ImagePages : StartExec(p, pages)
    BY <1>1, <2>12, StepStartExec
  <2>13. CASE MapPage(p)
    BY <1>1, <2>13, StepMapPage
  <2>14. CASE SegmentDone(p)
    BY <1>1, <2>14, StepSegmentDone
  <2>15. CASE ExecFails(p)
    <3>1. /\ MemInv'
          /\ Lost' # Lost => stage[p] = "load" /\ new[p].next > 0 /\ stage'[p] = "user"
      BY <2>15, StepExecFails
    <3>2. LossOnlyInExec
      BY <3>1 DEF LossOnlyInExec
    <3> QED  BY <3>1, <3>2
  <2>16. CASE Commit(p)
    BY <1>1, <2>16, StepCommit
  <2> QED  BY <2>1, <2>2, <2>3, <2>4, <2>5, <2>6, <2>7, <2>8, <2>9, <2>10, <2>11, <2>12,
              <2>13, <2>14, <2>15, <2>16
<1> QED  BY <1>2, <1>3

LEMMA MemInvariance == MemSpec => []MemInv
<1>1. MemInv /\ [MemNext]_memVars => MemInv'
  BY MemInvStep
<1> QED  BY <1>1, MemInvInit, PTL DEF MemSpec

LEMMA MemInvSafe == MemInv => SizeCovers /\ KernelPagesAccounted /\ Lost >= 0
<1> SUFFICES ASSUME MemInv PROVE SizeCovers
  BY DEF MemInv
<1>1. ASSUME NEW p \in Task, stage[p] \notin {"none", "grow"}
      PROVE  map[p] = {v \in VPage : Start(v) < size[p]}
  <2>1. map[p] = Below(PageUp(size[p])) /\ size[p] \in Nat
    BY <1>1, WholeSpace
  <2>2. \A v \in VPage : v < PageUp(size[p]) <=> Start(v) < size[p]
    <3>1. VPage \subseteq Nat
      BY MemConstants DEF VPage
    <3> QED  BY <2>1, <3>1, PageUpIs
  <2> QED  BY <2>1, <2>2 DEF Below
<1> QED  BY <1>1 DEF SizeCovers

\* MemorySafe: every page is given back once by whoever fails or ends, except for the
\* part of a segment that exec_process had mapped when user memory ran out.
THEOREM PagesGivenBackOnce == MemSpec => MemorySafe
<1>1. MemInv /\ [MemNext]_memVars
        => (Lost' # Lost => \E p \in Task : stage[p] = "load" /\ new[p].next > 0 /\ stage'[p] = "user")
  BY MemInvStep DEF LossOnlyInExec
<1>2. MemInv /\ [MemNext]_memVars
        => [Lost' # Lost => \E p \in Task : stage[p] = "load" /\ new[p].next > 0 /\ stage'[p] = "user"]_memVars
  BY <1>1
<1> QED  BY <1>2, MemInvariance, MemInvSafe, PTL DEF MemSpec, MemorySafe

-----------------------------------------------------------------------------
(* The types.                                                              *)
\* No region has more free pages than it has pages.
LEMMA MemInvTypes == MemInv => MemTypeOK
<1> SUFFICES ASSUME MemInv PROVE MemTypeOK
  OBVIOUS
<1>1. /\ ufree \in Nat /\ kfree \in Nat /\ MemTables
      /\ KernelPagesAccounted /\ Lost >= 0 /\ panicked \in BOOLEAN
  BY DEF MemInv
<1>2. IsFiniteSet(Task) /\ IsFiniteSet(VPage) /\ IsFiniteSet(1..MaxArgs)
  <2>1. 0 \in Int /\ 1 \in Int /\ MaxPage \in Int /\ MaxArgs \in Int
    BY MemConstants
  <2>2. IsFiniteSet(0..MaxPage) /\ IsFiniteSet(1..MaxArgs)
    BY <2>1, FS_Interval
  <2> QED  BY <2>2, TasksFinite DEF VPage
<1>3. IsFiniteSet(Task \X VPage) /\ IsFiniteSet(Task \X (1..MaxArgs))
  BY <1>2, FS_Product
<1>4. /\ Mapped \in SUBSET (Task \X VPage) /\ Built \in SUBSET (Task \X VPage)
      /\ Saved \in SUBSET (Task \X (1..MaxArgs))
      /\ Task \ Idle \in SUBSET Task /\ Building \in SUBSET Task
      /\ {p \in Building : new[p].low} \in SUBSET Task
  BY DEF Mapped, Built, Saved, Building
<1>5. /\ IsFiniteSet(Mapped) /\ IsFiniteSet(Built) /\ IsFiniteSet(Saved)
      /\ IsFiniteSet(Task \ Idle) /\ IsFiniteSet(Building)
      /\ IsFiniteSet({p \in Building : new[p].low})
  BY <1>2, <1>3, <1>4, FS_Subset
<1> DEFINE a == Cardinality(Mapped)  b == Cardinality(Built)  c == Cardinality(Saved)
           l == Cardinality(Task \ Idle)  k == Cardinality(Building)
           o == Cardinality({p \in Building : new[p].low})
<1>6. a \in Nat /\ b \in Nat /\ c \in Nat /\ l \in Nat /\ k \in Nat /\ o \in Nat
  BY <1>5, FS_CardinalityType
<1>7. UserPages - ufree - a - b >= 0
  BY <1>1 DEF Lost
<1>8. kfree + l * 7 + c + k * 3 + o * 2 = KernelPages
  <2>1. kfree + l * (TaskPages + TopTables + LowTables) + c + k * TopTables + o * LowTables = KernelPages
    BY <1>1 DEF KernelPagesAccounted
  <2>2. TaskPages = 2 /\ TopTables = 3 /\ LowTables = 2
    BY DEF TaskPages, TopTables, LowTables
  <2> HIDE DEF a, b, c, l, k, o
  <2>3. TaskPages + TopTables + LowTables = 7
    BY <2>2
  <2> QED  BY <2>1, <2>2, <2>3
<1> HIDE DEF a, b, c, l, k, o
<1>9. ufree \in 0..UserPages
  BY <1>1, <1>6, <1>7, MemConstants
<1>10. kfree \in 0..KernelPages
  BY <1>1, <1>6, <1>8, MemConstants
<1> QED  BY <1>1, <1>9, <1>10 DEF MemTables, MemTypeOK, Stage, Image

LEMMA TrapInvTypes == TrapInv => TrapTypeOK
<1> SUFFICES ASSUME TrapInv PROVE TrapTypeOK
  OBVIOUS
<1>1. Scalars /\ StacksFit
  BY DEF TrapInv
<1>2. frames \in [Stack -> Seq(Frame)] /\ \A s \in Stack : Len(frames[s]) \in 1..MaxDepth
  BY <1>1 DEF StacksFit, StackFits
<1> QED  BY <1>1, <1>2 DEF Scalars, TrapTypeOK, Frame

-----------------------------------------------------------------------------
(* The five components side by side.                                       *)
machineVars == <<diskVars, klogVars, trapVars, memVars, inodeVars>>
MachineInv == DiskInv /\ KlogInv /\ TrapInv /\ MemInv /\ InodeInv

LEMMA MachineInvStep == MachineInv /\ [MachineNext]_machineVars => MachineInv'
<1> SUFFICES ASSUME MachineInv, [MachineNext]_machineVars PROVE MachineInv'
  OBVIOUS
<1>1. [DiskNext]_diskVars /\ [KlogNext]_klogVars /\ [TrapNext]_trapVars
      /\ [MemNext]_memVars /\ [InodeNext]_inodeVars
  BY DEF MachineNext, machineVars
<1> QED  BY <1>1, DiskInvStep, KlogInvStep, TrapInvStep, MemInvStep, InodeInvStep DEF MachineInv

\* Every state of the driver, the log ring, the traps, memory and the inodes is well
\* typed: counters stay inside the tables they count, for any size of these.
THEOREM TypeCorrect == Machine => []TypesOK
<1>1. MachineInit => MachineInv
  BY DiskInvInit, KlogInvInit, TrapInvInit, MemInvInit, InodeInvInit DEF MachineInit, MachineInv
<1>2. MachineInv => TypesOK
  <2>1. (DiskInv => DiskTypeOK) /\ (KlogInv => KlogTypeOK)
    BY DEF DiskInv, KlogInv
  <2> QED  BY <2>1, TrapInvTypes, MemInvTypes, InodeInvTypes DEF MachineInv, TypesOK
<1> QED  BY <1>1, <1>2, MachineInvStep, PTL DEF Machine, machineVars
=============================================================================
