---------------------------- MODULE StorageProofs ----------------------------
(***************************************************************************)
(* The disk driver (VirtioDisk) for any number of callers and descriptors  *)
(* and whatever order the device works in, and the inodes above it (Inode) *)
(* for any number of processes, names, descriptors and inodes.             *)
(*                                                                         *)
(* Driver.  The invariant gives each request in progress its own chain of  *)
(* three descriptors (ChainInv), puts each request that is not done in     *)
(* exactly one of the avail ring, the device and the used ring (RingInv),  *)
(* and says when buffer and block agree (DataInv).  The sums over chains   *)
(* and rings are kept by counting each step.                               *)
(*                                                                         *)
(* Inodes.  References and links are the sizes of sets, so that a last     *)
(* reference and a link count of zero tell that nobody else can reach the  *)
(* inode (FreeingInv).  From there on a name or a descriptor that leads to *)
(* it cannot come up before it is free (NeverFreedInUse).                  *)
(***************************************************************************)
EXTENDS VirtioDisk, Inode, FiniteSetTheorems, SequenceTheorems, TLAPS

Heads == {i \in Desc : info[i] # NoCaller}

Elems(s) == {s[n] : n \in 1..Len(s)}
Once(s) == \A m, n \in 1..Len(s) : s[m] = s[n] => m = n

Pending == working \cup Elems(used) \cup Elems(avail)

Busy == {c \in Caller : busy[c]}

\* A head leads to the three descriptors of its request, which nobody else has.
OwnChain(i) ==
  /\ info[i] \in InDisk
  /\ chain[i] \in Desc /\ chain[chain[i]] \in Desc
  /\ i # chain[i] /\ chain[chain[i]] # i /\ chain[chain[i]] # chain[i]
  /\ Chain(i) \cap FreeDescs = {}
  /\ cmd[i].of = info[i] /\ target[chain[i]] = info[i]

ChainInv ==
  /\ \A i \in Heads : OwnChain(i)
  /\ \A i, j \in Heads : info[i] = info[j] \/ Chain(i) \cap Chain(j) # {} => i = j
  /\ \A c \in InDisk : \E i \in Heads : info[i] = c
  /\ \A d \in Desc \ FreeDescs : \E i \in Heads : d \in Chain(i)

RingInv ==
  /\ Pending \subseteq Heads
  /\ \A i \in Pending : busy[info[i]]
  /\ \A c \in Busy : \E i \in Pending : info[i] = c
  /\ Once(avail) /\ Once(used)
  /\ working \cap Elems(avail) = {} /\ working \cap Elems(used) = {}
  /\ Elems(avail) \cap Elems(used) = {}

CountInv ==
  /\ IsFiniteSet(InDisk)
  /\ Cardinality(Desc \ FreeDescs) = 3 * Cardinality(InDisk)
  /\ Cardinality(Busy) = (Len(avail) + Cardinality(working)) + Len(used)

DataInv ==
  /\ \A c \in InDisk : ~busy[c] => buffer[c] = platter[c]
  /\ \A i \in Elems(used) : buffer[info[i]] = platter[info[i]]

DiskInv == DiskTypeOK /\ ChainInv /\ RingInv /\ CountInv /\ DataInv /\ DiskSleepersHaveWaker

-----------------------------------------------------------------------------
(* Rings, and counting.                                                    *)
LEMMA DiskConstants ==
  /\ NDesc \in Nat /\ NDesc >= 3 /\ NoCaller \notin Caller /\ NoDesc \notin Desc
  /\ IsFiniteSet(Desc) /\ Cardinality(Desc) = NDesc
<1>1. NDesc \in Nat /\ NDesc >= 3 /\ NoCaller \notin Caller /\ NoDesc \notin Desc
  BY DiskAssumption DEF Desc, NoDesc
<1>2. IsFiniteSet(0..(NDesc - 1)) /\ Cardinality(0..(NDesc - 1)) = NDesc
  BY <1>1, FS_Interval
<1> QED  BY <1>1, <1>2 DEF Desc

LEMMA ElemsEmpty == Elems(<<>>) = {} /\ Once(<<>>) /\ Len(<<>>) = 0
BY DEF Elems, Once

LEMMA ElemsAppend ==
  ASSUME NEW S, NEW s \in Seq(S), NEW x \in S
  PROVE  /\ Append(s, x) \in Seq(S) /\ Len(Append(s, x)) = Len(s) + 1
         /\ Elems(Append(s, x)) = Elems(s) \cup {x}
         /\ Once(s) /\ x \notin Elems(s) => Once(Append(s, x))
<1> DEFINE t == Append(s, x)  n == Len(s)
<1>1. t \in Seq(S) /\ Len(t) = n + 1 /\ n \in Nat /\ t[n + 1] = x /\ \A m \in 1..n : t[m] = s[m]
  BY AppendProperties, LenProperties
<1> HIDE DEF t
<1>2. Elems(t) = Elems(s) \cup {x}
  <2>1. 1..(n + 1) = 1..n \cup {n + 1}
    BY <1>1
  <2>2. \A m \in 1..n : t[m] = s[m] /\ t[m] \in Elems(s)
    BY <1>1 DEF Elems
  <2> QED  BY <1>1, <2>1, <2>2 DEF Elems
<1>3. ASSUME Once(s), x \notin Elems(s) PROVE Once(t)
  <2>1. \A m \in 1..n : s[m] # x
    BY <1>3 DEF Elems
  <2> QED  BY <1>1, <1>3, <2>1 DEF Once
<1> QED  BY <1>1, <1>2, <1>3 DEF t

LEMMA ElemsTail ==
  ASSUME NEW S, NEW s \in Seq(S), s # <<>>, Once(s)
  PROVE  /\ Head(s) \in S /\ Head(s) \in Elems(s)
         /\ Tail(s) \in Seq(S) /\ Len(Tail(s)) = Len(s) - 1 /\ Len(s) \in Nat /\ Len(s) > 0
         /\ Elems(Tail(s)) = Elems(s) \ {Head(s)}
         /\ Once(Tail(s))
<1> DEFINE t == Tail(s)  n == Len(s)
<1>1. /\ Head(s) = s[1] /\ t \in Seq(S) /\ Len(t) = n - 1 /\ n \in Nat /\ n > 0
      /\ \A m \in 1..(n - 1) : t[m] = s[m + 1]
      /\ s[1] \in S
  BY HeadTailProperties, LenProperties, ElementOfSeq, EmptySeq
<1> HIDE DEF t
<1>2. Head(s) \in Elems(s)
  BY <1>1 DEF Elems
<1>3. \A m \in 1..(n - 1) : m + 1 \in 1..n /\ m + 1 # 1
  BY <1>1
<1>4. Elems(t) = Elems(s) \ {Head(s)}
  <2>1. \A y \in Elems(t) : y \in Elems(s) /\ y # s[1]
    <3>1. 1 \in 1..n
      BY <1>1
    <3> QED  BY <1>1, <1>3, <3>1 DEF Elems, Once
  <2>2. ASSUME NEW y \in Elems(s), y # s[1] PROVE y \in Elems(t)
    <3>1. PICK m \in 1..n : s[m] = y
      BY DEF Elems
    <3>2. m # 1 /\ m - 1 \in 1..(n - 1) /\ (m - 1) + 1 = m
      BY <1>1, <2>2, <3>1
    <3>3. t[m - 1] = y
      BY <1>1, <3>1, <3>2
    <3> QED  BY <1>1, <3>2, <3>3 DEF Elems
  <2> QED  BY <1>1, <2>1, <2>2
<1>5. Once(t)
  BY <1>1, <1>3 DEF Once
<1> QED  BY <1>1, <1>2, <1>4, <1>5 DEF t

\* As many entries as different elements.
LEMMA OnceCounts ==
  ASSUME NEW s, Once(s), Len(s) \in Nat
  PROVE  IsFiniteSet(Elems(s)) /\ Cardinality(Elems(s)) = Len(s)
<1>1. IsFiniteSet(1..Len(s)) /\ Cardinality(1..Len(s)) = Len(s)
  <2> DEFINE m == Len(s)
  <2>1. m \in Int /\ 1 \in Int /\ m \in Nat
    OBVIOUS
  <2> HIDE DEF m
  <2>2. IsFiniteSet(1..m) /\ Cardinality(1..m) = IF 1 > m THEN 0 ELSE m - 1 + 1
    BY <2>1, FS_Interval
  <2>3. IsFiniteSet(1..m) /\ Cardinality(1..m) = m
    BY <2>1, <2>2
  <2> QED  BY <2>3 DEF m
<1> DEFINE f == [n \in 1..Len(s) |-> s[n]]
<1>2. f \in Bijection(1..Len(s), Elems(s))
  <2>1. f \in [1..Len(s) -> Elems(s)]
    BY DEF Elems
  <2>2. IsInjective(f)
    BY DEF IsInjective, Once
  <2>3. \A y \in Elems(s) : \E n \in 1..Len(s) : f[n] = y
    BY DEF Elems
  <2> QED  BY <2>1, <2>2, <2>3 DEF Bijection, Injection, Surjection, IsInjective
<1>3. ExistsBijection(1..Len(s), Elems(s))
  BY <1>2 DEF ExistsBijection
<1> QED  BY <1>1, <1>3, FS_Bijection

LEMMA SomeHead ==
  ASSUME ChainInv, NEW c \in InDisk
  PROVE  HeadOf(c) \in Heads /\ info[HeadOf(c)] = c
<1>1. \E i \in Desc : info[i] = c
  BY DEF ChainInv, Heads
<1>2. HeadOf(c) \in Desc /\ info[HeadOf(c)] = c
  BY <1>1 DEF HeadOf
<1> QED  BY <1>2, DiskConstants DEF Heads, InDisk

-----------------------------------------------------------------------------
(* What the invariant gives.                                               *)
LEMMA RingFacts ==
  ASSUME DiskInv
  PROVE  /\ avail \in Seq(Desc) /\ used \in Seq(Desc) /\ working \in SUBSET Desc
         /\ Len(avail) \in Nat /\ Len(used) \in Nat
         /\ IsFiniteSet(working) /\ Cardinality(working) \in Nat
         /\ Elems(used) = Entries
         /\ Busy \subseteq InDisk /\ IsFiniteSet(Busy) /\ Cardinality(Busy) \in Nat
         /\ Cardinality(Busy) <= Cardinality(InDisk) /\ Cardinality(InDisk) \in Nat
<1>1. avail \in Seq(Desc) /\ used \in Seq(Desc) /\ working \in SUBSET Desc
  BY DEF DiskInv, DiskTypeOK
<1>2. IsFiniteSet(working) /\ Cardinality(working) \in Nat
  BY <1>1, DiskConstants, FS_Subset, FS_CardinalityType
<1>3. Busy \subseteq InDisk
  <2> SUFFICES ASSUME NEW c \in Busy PROVE c \in InDisk
    OBVIOUS
  <2>1. PICK i \in Heads : info[i] = c
    BY DEF DiskInv, RingInv
  <2> QED  BY <2>1 DEF DiskInv, ChainInv, OwnChain
<1>4. /\ IsFiniteSet(Busy) /\ Cardinality(Busy) \in Nat
      /\ Cardinality(Busy) <= Cardinality(InDisk) /\ Cardinality(InDisk) \in Nat
  BY <1>3, FS_Subset, FS_CardinalityType DEF DiskInv, CountInv
<1> QED  BY <1>1, <1>2, <1>3, <1>4, LenProperties DEF Elems, Entries

LEMMA DiskInvSafe == ASSUME DiskInv PROVE RequestsAccounted
<1>1. ChainsApart
  <2>1. Cardinality(Desc \ FreeDescs) = 3 * Cardinality(InDisk)
    BY DEF DiskInv, CountInv
  <2>2. UNION {Chain(HeadOf(c)) : c \in InDisk} \subseteq Desc \ FreeDescs
    <3> SUFFICES ASSUME NEW c \in InDisk, NEW d \in Chain(HeadOf(c)) PROVE d \in Desc \ FreeDescs
      OBVIOUS
    <3>1. HeadOf(c) \in Heads
      BY SomeHead DEF DiskInv
    <3> QED  BY <3>1 DEF DiskInv, ChainInv, OwnChain, Chain, Heads
  <2>3. ASSUME NEW d \in Desc \ FreeDescs PROVE \E c \in InDisk : d \in Chain(HeadOf(c))
    <3>1. PICK i \in Heads : d \in Chain(i)
      BY DEF DiskInv, ChainInv
    <3>2. info[i] \in InDisk
      BY DEF DiskInv, ChainInv, OwnChain
    <3>3. HeadOf(info[i]) = i
      BY <3>2, SomeHead DEF DiskInv, ChainInv
    <3> QED  BY <3>1, <3>2, <3>3
  <2> QED  BY <2>1, <2>2, <2>3 DEF ChainsApart
<1>2. RequestsInOnePlace
  <2>1. {info[i] : i \in working \cup Entries \cup {avail[n] : n \in 1..Len(avail)}} = Busy
    <3>1. working \cup Entries \cup {avail[n] : n \in 1..Len(avail)} = Pending
      BY DEF Pending, Elems, Entries
    <3>2. \A i \in Pending : info[i] \in Busy
      BY DEF DiskInv, RingInv, ChainInv, OwnChain, InDisk, Busy
    <3>3. \A c \in Busy : \E i \in Pending : info[i] = c
      BY DEF DiskInv, RingInv
    <3> QED  BY <3>1, <3>2, <3>3
  <2>2. Cardinality(Busy) = Len(avail) + Cardinality(working) + Len(used)
    BY RingFacts DEF DiskInv, CountInv
  <2>3. Len(avail) <= NDesc /\ Len(used) <= NDesc
    <3>1. Cardinality(Desc \ FreeDescs) <= NDesc /\ Cardinality(Desc \ FreeDescs) \in Nat
      BY DiskConstants, FS_Subset, FS_CardinalityType
    <3> QED  BY <2>2, <3>1, RingFacts, DiskConstants DEF DiskInv, CountInv
  <2> QED  BY <2>1, <2>2, <2>3 DEF RequestsInOnePlace, Busy
<1> QED  BY <1>1, <1>2 DEF RequestsAccounted, DiskInv

-----------------------------------------------------------------------------
(* Every step keeps the invariant.                                         *)
LEMMA DiskInvInit == DiskInit => DiskInv
<1> SUFFICES ASSUME DiskInit PROVE DiskInv
  OBVIOUS
<1>1. InDisk = {} /\ Heads = {} /\ Busy = {} /\ Elems(avail) = {} /\ Elems(used) = {}
      /\ Pending = {} /\ Desc \ FreeDescs = {} /\ Once(avail) /\ Once(used)
      /\ Len(avail) = 0 /\ Len(used) = 0 /\ Entries = {}
  BY ElemsEmpty DEF DiskInit, InDisk, Heads, Busy, Pending, FreeDescs, Entries, Elems
<1>2. DiskTypeOK
  <2>1. avail \in Seq(Desc) /\ used \in Seq(Desc) /\ working \subseteq Desc
    BY EmptySeq DEF DiskInit
  <2>2. /\ free \in [Desc -> BOOLEAN] /\ chain \in [Desc -> Desc \cup {NoDesc}]
        /\ target \in [Desc -> Caller \cup {NoCaller}] /\ info \in [Desc -> Caller \cup {NoCaller}]
    BY DEF DiskInit
  <2>3. cmd \in [Desc -> [of : Caller \cup {NoCaller}, write : BOOLEAN]]
    BY DEF DiskInit
  <2>4. {irq, acked, boot} \subseteq BOOLEAN /\ busy \in [Caller -> BOOLEAN]
    BY DEF DiskInit
  <2>5. /\ call \in [Caller -> {"idle", "alloc", "nodesc", "asleep", "awake"}]
        /\ buffer \in [Caller -> {"mem", "disk"}] /\ platter \in [Caller -> {"mem", "disk"}]
    BY DEF DiskInit
  <2> QED  BY <2>1, <2>2, <2>3, <2>4, <2>5 DEF DiskTypeOK
<1>3. ChainInv
  BY <1>1 DEF ChainInv
<1>4. RingInv
  BY <1>1 DEF RingInv
<1>5. IsFiniteSet({}) /\ Cardinality({}) = 0
  BY FS_EmptySet
<1>6. CountInv
  <2>1. Cardinality(working) = 0
    BY <1>5 DEF DiskInit
  <2>2. Cardinality(InDisk) = 0 /\ Cardinality(Busy) = 0 /\ Cardinality(Desc \ FreeDescs) = 0
        /\ IsFiniteSet(InDisk)
    BY <1>1, <1>5
  <2> QED  BY <1>1, <2>1, <2>2 DEF CountInv
<1>7. DataInv /\ DiskSleepersHaveWaker
  BY <1>1 DEF DataInv, DiskSleepersHaveWaker, DiskInit
<1> QED  BY <1>2, <1>3, <1>4, <1>6, <1>7 DEF DiskInv

\* The chains depend on the descriptors and on who is in virtio_disk_rw.
LEMMA ChainsStay ==
  ASSUME ChainInv, UNCHANGED descVars, InDisk' = InDisk
  PROVE  ChainInv' /\ Heads' = Heads /\ FreeDescs' = FreeDescs
<1>1. free' = free /\ chain' = chain /\ target' = target /\ info' = info /\ cmd' = cmd
  BY DEF descVars
<1>2. Heads' = Heads /\ FreeDescs' = FreeDescs
  BY <1>1 DEF Heads, FreeDescs
<1>3. \A i \in Heads : Chain(i)' = Chain(i)
  BY <1>1 DEF Chain
<1>4. \A i \in Heads : OwnChain(i)'
  BY <1>1, <1>2, <1>3 DEF ChainInv, OwnChain
<1> QED  BY <1>1, <1>2, <1>3, <1>4 DEF ChainInv

LEMMA RingsStay ==
  ASSUME RingInv, UNCHANGED <<ringVars, info, busy>>
  PROVE  RingInv' /\ Busy' = Busy
<1>1. avail' = avail /\ used' = used /\ working' = working /\ info' = info /\ busy' = busy
  BY DEF ringVars
<1>2. Pending' = Pending /\ Heads' = Heads /\ Busy' = Busy /\ Elems(avail)' = Elems(avail)
      /\ Elems(used)' = Elems(used)
  BY <1>1 DEF Pending, Heads, Busy, Elems
<1>3. Once(avail)' /\ Once(used)'
  BY <1>1 DEF RingInv, Once
<1> QED  BY <1>1, <1>2, <1>3 DEF RingInv

\* A step that only moves callers about, none of them into or out of the driver.
LEMMA StepCalls ==
  ASSUME DiskInv, UNCHANGED <<ringVars, descVars, busy>>,
         call' \in [Caller -> {"idle", "alloc", "nodesc", "asleep", "awake"}], InDisk' = InDisk,
         \A c \in Caller : call'[c] = "asleep" => busy[c],
         (\E c \in Caller : call'[c] = "nodesc") => InDisk # {},
         irq' \in BOOLEAN, acked' \in BOOLEAN, boot' \in BOOLEAN,
         buffer' \in [Caller -> {"mem", "disk"}], platter' \in [Caller -> {"mem", "disk"}],
         \A c \in InDisk : buffer'[c] = buffer[c] /\ platter'[c] = platter[c],
         ~boot' /\ Entries # {} => irq' \/ acked'
  PROVE  DiskInv'
<1>1. DiskTypeOK'
  BY DEF DiskInv, DiskTypeOK, ringVars, descVars
<1>2. ChainInv' /\ Heads' = Heads
  BY ChainsStay DEF DiskInv
<1>3. RingInv' /\ Busy' = Busy
  BY RingsStay DEF DiskInv, descVars
<1>4. CountInv'
  <2>1. FreeDescs' = FreeDescs
    BY ChainsStay DEF DiskInv
  <2> QED  BY <1>3, <2>1 DEF DiskInv, CountInv, ringVars
<1>5. used' = used /\ info' = info /\ busy' = busy
  BY DEF ringVars, descVars
<1>6. DataInv'
  <2>1. \A i \in Elems(used) : info[i] \in InDisk
    BY DEF DiskInv, RingInv, ChainInv, OwnChain, Pending
  <2>2. Elems(used)' = Elems(used)
    BY <1>5
  <2> QED  BY <1>5, <2>1, <2>2 DEF DiskInv, DataInv
<1>7. DiskSleepersHaveWaker'
  <2>1. Entries' = Entries
    BY <1>5 DEF Entries
  <2> QED  BY <1>5, <2>1 DEF DiskSleepersHaveWaker
<1> QED  BY <1>1, <1>2, <1>3, <1>4, <1>6, <1>7 DEF DiskInv

LEMMA CallTypes ==
  ASSUME DiskInv
  PROVE  /\ call \in [Caller -> {"idle", "alloc", "nodesc", "asleep", "awake"}]
         /\ irq \in BOOLEAN /\ acked \in BOOLEAN /\ boot \in BOOLEAN
         /\ buffer \in [Caller -> {"mem", "disk"}] /\ platter \in [Caller -> {"mem", "disk"}]
         /\ \A c \in Caller : call[c] = "asleep" => busy[c]
         /\ ~boot /\ Entries # {} => irq \/ acked
         /\ \A c \in Caller : call[c] = "nodesc" => InDisk # {}
BY DEF DiskInv, DiskTypeOK, DiskSleepersHaveWaker

LEMMA StepRequest == ASSUME DiskInv, NEW c \in Caller, Request(c) PROVE DiskInv'
<1>1. /\ call[c] = "idle" /\ call' = [call EXCEPT ![c] = "alloc"]
      /\ buffer' = [buffer EXCEPT ![c] = "mem"] /\ platter' = [platter EXCEPT ![c] = "disk"]
      /\ UNCHANGED <<ringVars, descVars, irq, acked, busy, boot>>
  BY DEF Request, Moves
<1>2. c \notin InDisk /\ InDisk' = InDisk
  BY <1>1, CallTypes DEF InDisk
<1>3. /\ call' \in [Caller -> {"idle", "alloc", "nodesc", "asleep", "awake"}]
      /\ \A d \in Caller : call'[d] = "asleep" => busy[d]
      /\ (\E d \in Caller : call'[d] = "nodesc") => InDisk # {}
      /\ buffer' \in [Caller -> {"mem", "disk"}] /\ platter' \in [Caller -> {"mem", "disk"}]
      /\ \A d \in InDisk : buffer'[d] = buffer[d] /\ platter'[d] = platter[d]
  BY <1>1, <1>2, CallTypes DEF InDisk
<1> QED  BY <1>1, <1>2, <1>3, CallTypes, StepCalls

LEMMA StepNoThree == ASSUME DiskInv, NEW c \in Caller, NoThree(c) PROVE DiskInv'
<1>1. /\ call[c] = "alloc" /\ Cardinality(FreeDescs) < 3
      /\ call' = [d \in Caller |-> IF d = c THEN "nodesc"
                    ELSE IF d \in DescWaiters(c) /\ FreeDescs # {} THEN "alloc" ELSE call[d]]
      /\ UNCHANGED <<ringVars, descVars, irq, acked, busy, buffer, platter, boot>>
  BY DEF NoThree
<1>2. InDisk' = InDisk
  BY <1>1, CallTypes DEF InDisk, DescWaiters
<1>3. InDisk # {}
  <2> SUFFICES ASSUME InDisk = {} PROVE FALSE
    OBVIOUS
  <2>1. Heads = {}
    BY DEF DiskInv, ChainInv, OwnChain
  <2>2. FreeDescs = Desc
    BY <2>1 DEF DiskInv, ChainInv, FreeDescs
  <2> QED  BY <1>1, <2>2, DiskConstants
<1>4. /\ call' \in [Caller -> {"idle", "alloc", "nodesc", "asleep", "awake"}]
      /\ \A d \in Caller : call'[d] = "asleep" => busy[d]
  BY <1>1, CallTypes
<1> QED  BY <1>1, <1>2, <1>3, <1>4, CallTypes, StepCalls

LEMMA StepKillOrSleep ==
  ASSUME DiskInv, NEW c \in Caller, DiskKill(c) \/ SleepAgain(c)
  PROVE  DiskInv'
<1>1. /\ UNCHANGED <<ringVars, descVars, irq, acked, busy, buffer, platter, boot>>
      /\ \/ call[c] = "nodesc" /\ call' = [call EXCEPT ![c] = "alloc"]
         \/ call[c] = "asleep" /\ call' = [call EXCEPT ![c] = "awake"]
         \/ call[c] = "awake" /\ busy[c] /\ call' = [call EXCEPT ![c] = "asleep"]
  BY DEF DiskKill, SleepAgain, Moves, Stays
<1>2. InDisk' = InDisk
  BY <1>1, CallTypes DEF InDisk
<1>3. /\ call' \in [Caller -> {"idle", "alloc", "nodesc", "asleep", "awake"}]
      /\ \A d \in Caller : call'[d] = "asleep" => busy[d]
      /\ (\E d \in Caller : call'[d] = "nodesc") => InDisk # {}
  BY <1>1, CallTypes
<1> QED  BY <1>1, <1>2, <1>3, CallTypes, StepCalls

LEMMA StepAckOrBoot == ASSUME DiskInv, Ack \/ EndBoot PROVE DiskInv'
<1>1. UNCHANGED <<ringVars, descVars, call, busy, buffer, platter>>
  BY DEF Ack, EndBoot
<1>2. InDisk' = InDisk
  BY <1>1 DEF InDisk
<1>3. /\ irq' \in BOOLEAN /\ acked' \in BOOLEAN /\ boot' \in BOOLEAN
      /\ ~boot' /\ Entries # {} => irq' \/ acked'
  <2>1. CASE Ack
    BY <2>1, CallTypes DEF Ack
  <2>2. CASE EndBoot
    <3>1. InDisk = {} /\ irq' = irq /\ acked' = acked /\ boot' = FALSE
      BY <2>2, CallTypes DEF EndBoot, Locked, InDisk
    <3>2. Entries = {}
      <4>1. Elems(used) = {}
        BY <3>1 DEF DiskInv, RingInv, ChainInv, OwnChain, Pending
      <4> QED  BY <4>1 DEF Elems, Entries
    <3> QED  BY <3>1, <3>2, CallTypes
  <2> QED  BY <2>1, <2>2
<1> QED  BY <1>1, <1>2, <1>3, CallTypes, StepCalls

-----------------------------------------------------------------------------
(* A request gets three descriptors and enters the avail ring.             *)
LEMMA StepSubmit ==
  ASSUME DiskInv, NEW c \in Caller, NEW write \in BOOLEAN, Submit(c, write)
  PROVE  DiskInv'
<1>1. PICK i, j, k \in Desc :
       /\ Three(i, j, k)
       /\ free' = [d \in Desc |-> free[d] /\ d \notin {i, j, k}]
       /\ chain' = [chain EXCEPT ![i] = j, ![j] = k, ![k] = NoDesc]
       /\ target' = [target EXCEPT ![j] = c]
       /\ info' = [info EXCEPT ![i] = c]
       /\ cmd' = [cmd EXCEPT ![i] = [of |-> c, write |-> write]]
       /\ avail' = Append(avail, i)
  BY DEF Submit
<1>2. /\ call[c] = "alloc" /\ call' = [call EXCEPT ![c] = IF boot THEN "awake" ELSE "asleep"]
      /\ busy' = [busy EXCEPT ![c] = TRUE]
      /\ UNCHANGED <<used, working, irq, acked, buffer, platter, boot>>
  BY DEF Submit, Moves
<1>3. /\ {i, j, k} \subseteq FreeDescs /\ i # j /\ i # k /\ j # k
  BY <1>1 DEF Three, Desc
<1>4. DiskTypeOK /\ RingInv /\ ChainInv
  BY DEF DiskInv
<1>5. InDisk' = InDisk \cup {c} /\ c \notin InDisk
  BY <1>2, <1>4 DEF DiskTypeOK, InDisk
<1>6. FreeDescs' = FreeDescs \ {i, j, k} /\ FreeDescs \subseteq Desc
  BY <1>1, <1>4 DEF DiskTypeOK, FreeDescs
<1>7. /\ i \notin Heads /\ c # NoCaller
      /\ \A h \in Heads : h \in Desc /\ OwnChain(h) /\ Chain(h) \cap {i, j, k} = {}
  BY <1>3, <1>4, DiskConstants DEF ChainInv, OwnChain, Chain, Heads
<1>8. Heads' = Heads \cup {i}
  BY <1>1, <1>4, <1>7 DEF DiskTypeOK, Heads
<1>9. \A h \in Heads : /\ info'[h] = info[h] /\ cmd'[h] = cmd[h] /\ chain'[h] = chain[h]
                       /\ chain'[chain[h]] = chain[chain[h]] /\ target'[chain[h]] = target[chain[h]]
                       /\ Chain(h)' = Chain(h)
  <2> SUFFICES ASSUME NEW h \in Heads
               PROVE  /\ info'[h] = info[h] /\ cmd'[h] = cmd[h] /\ chain'[h] = chain[h]
                      /\ chain'[chain[h]] = chain[chain[h]] /\ target'[chain[h]] = target[chain[h]]
                      /\ Chain(h)' = Chain(h)
    OBVIOUS
  <2>1. h \notin {i, j, k} /\ chain[h] \notin {i, j, k} /\ h \in Desc /\ chain[h] \in Desc
    BY <1>7 DEF Chain, OwnChain
  <2>2. /\ info'[h] = info[h] /\ cmd'[h] = cmd[h] /\ chain'[h] = chain[h]
        /\ chain'[chain[h]] = chain[chain[h]] /\ target'[chain[h]] = target[chain[h]]
    BY <1>1, <1>4, <2>1 DEF DiskTypeOK
  <2> QED  BY <2>2 DEF Chain
<1>10. /\ info'[i] = c /\ cmd'[i].of = c /\ chain'[i] = j /\ chain'[j] = k /\ target'[j] = c
       /\ Chain(i)' = {i, j, k}
  <2>1. info'[i] = c /\ cmd'[i].of = c /\ chain'[i] = j /\ chain'[j] = k /\ target'[j] = c
    BY <1>1, <1>3, <1>4 DEF DiskTypeOK
  <2> QED  BY <2>1 DEF Chain
<1>11. ChainInv'
  <2>1. OwnChain(i)'
    BY <1>3, <1>5, <1>6, <1>10 DEF OwnChain
  <2>2. ASSUME NEW h \in Heads PROVE OwnChain(h)'
    <3>1. OwnChain(h) /\ Chain(h) \cap {i, j, k} = {}
      BY <1>7
    <3> QED  BY <1>5, <1>6, <1>9, <3>1 DEF OwnChain
  <2>3. \A h, g \in Heads' : info'[h] = info'[g] \/ Chain(h)' \cap Chain(g)' # {} => h = g
    <3>1. \A h \in Heads : info'[h] # c /\ Chain(h)' \cap Chain(i)' = {}
      BY <1>5, <1>7, <1>9, <1>10 DEF OwnChain
    <3>2. \A h, g \in Heads : info'[h] = info'[g] \/ Chain(h)' \cap Chain(g)' # {} => h = g
      BY <1>4, <1>9 DEF ChainInv
    <3> QED  BY <1>8, <1>10, <3>1, <3>2
  <2>4. \A d \in InDisk' : \E h \in Heads' : info'[h] = d
    BY <1>4, <1>5, <1>8, <1>9, <1>10 DEF ChainInv
  <2>5. \A d \in Desc \ FreeDescs' : \E h \in Heads' : d \in Chain(h)'
    BY <1>4, <1>6, <1>8, <1>9, <1>10 DEF ChainInv
  <2> QED  BY <1>8, <2>1, <2>2, <2>3, <2>4, <2>5 DEF ChainInv
<1>12. /\ avail' \in Seq(Desc) /\ Len(avail') = Len(avail) + 1
       /\ Elems(avail') = Elems(avail) \cup {i}
       /\ i \notin Elems(avail) => Once(avail')
  BY <1>1, <1>4, ElemsAppend DEF DiskTypeOK, RingInv
<1>13. i \notin Pending
  BY <1>4, <1>7 DEF RingInv
<1>14. Busy' = Busy \cup {c} /\ c \notin Busy
  <2>1. Busy' = Busy \cup {c}
    BY <1>2, <1>4 DEF DiskTypeOK, Busy
  <2> QED  BY <1>5, <2>1, RingFacts
<1>15. RingInv'
  <2>1. Pending' = Pending \cup {i}
    BY <1>2, <1>12 DEF Pending
  <2>2. Pending' \subseteq Heads'
    BY <1>4, <1>8, <2>1 DEF RingInv
  <2>3. \A h \in Pending : h \in Heads /\ busy[info[h]] /\ info[h] \in Caller
    BY <1>4, <1>7 DEF RingInv, OwnChain, InDisk
  <2>4. \A h \in Pending' : busy'[info'[h]]
    BY <1>2, <1>4, <1>9, <1>10, <2>1, <2>3 DEF DiskTypeOK
  <2>5. \A d \in Busy' : \E h \in Pending' : info'[h] = d
    BY <1>4, <1>9, <1>10, <1>14, <2>1, <2>3 DEF RingInv
  <2>6. used' = used /\ working' = working /\ Once(avail')
    BY <1>2, <1>12, <1>13 DEF Pending
  <2> QED  BY <1>4, <1>12, <1>13, <2>2, <2>4, <2>5, <2>6 DEF RingInv, Pending
<1>16. CountInv'
  <2>1. Desc \ FreeDescs' = (((Desc \ FreeDescs) \cup {i}) \cup {j}) \cup {k}
    BY <1>3, <1>6
  <2>2. IsFiniteSet(Desc \ FreeDescs)
    BY DiskConstants, FS_Subset
  <2> DEFINE A == Desc \ FreeDescs  B == A \cup {i}  C == B \cup {j}
  <2>3. i \notin A /\ j \notin B /\ k \notin C
    BY <1>3
  <2>4. IsFiniteSet(B) /\ Cardinality(B) = Cardinality(A) + 1
    BY <2>2, <2>3, FS_AddElement
  <2>5. IsFiniteSet(C) /\ Cardinality(C) = Cardinality(B) + 1
    <3> HIDE DEF B
    <3> QED  BY <2>3, <2>4, FS_AddElement
  <2>6. Cardinality(C \cup {k}) = Cardinality(C) + 1
    <3> HIDE DEF C
    <3> QED  BY <2>3, <2>5, FS_AddElement
  <2>7. Cardinality(A) \in Nat
    BY <2>2, FS_CardinalityType
  <2>8. IsFiniteSet(InDisk') /\ Cardinality(InDisk') = Cardinality(InDisk) + 1
    BY <1>5, FS_AddElement DEF DiskInv, CountInv
  <2>9. Cardinality(Busy') = Cardinality(Busy) + 1
    BY <1>14, RingFacts, FS_AddElement
  <2>10. Desc \ FreeDescs' = C \cup {k}
    BY <2>1
  <2>11. Cardinality(Desc \ FreeDescs) = 3 * Cardinality(InDisk)
         /\ Cardinality(Busy) = (Len(avail) + Cardinality(working)) + Len(used)
    BY DEF DiskInv, CountInv
  <2>12. Cardinality(A) = Cardinality(Desc \ FreeDescs)
    OBVIOUS
  <2> HIDE DEF A, B, C
  <2>13. Cardinality(Desc \ FreeDescs') = 3 * Cardinality(InDisk')
    <3>1. Cardinality(Desc \ FreeDescs') = ((Cardinality(A) + 1) + 1) + 1
      BY <2>4, <2>5, <2>6, <2>10
    <3>2. Cardinality(A) = 3 * Cardinality(InDisk) /\ Cardinality(InDisk) \in Nat
      BY <2>11, <2>12, RingFacts
    <3>3. \A a, n \in Nat : a = 3 * n => ((a + 1) + 1) + 1 = 3 * (n + 1)
      OBVIOUS
    <3> QED  BY <2>7, <2>8, <3>1, <3>2, <3>3
  <2>14. Cardinality(Busy') = (Len(avail') + Cardinality(working')) + Len(used')
    BY <1>2, <1>12, <2>9, <2>11, RingFacts
  <2> QED  BY <2>8, <2>13, <2>14 DEF CountInv
<1>17. DataInv'
  <2>1. \A h \in Elems(used) : h \in Heads
    BY <1>4 DEF RingInv, Pending
  <2>2. \A d \in InDisk' : ~busy'[d] => d \in InDisk /\ ~busy[d]
    BY <1>2, <1>4, <1>5 DEF DiskTypeOK, InDisk
  <2> QED  BY <1>2, <1>9, <2>1, <2>2 DEF DiskInv, DataInv
<1>18. DiskTypeOK'
  <2>1. [of |-> c, write |-> write] \in [of : Caller \cup {NoCaller}, write : BOOLEAN]
    OBVIOUS
  <2>2. /\ free' \in [Desc -> BOOLEAN] /\ chain' \in [Desc -> Desc \cup {NoDesc}]
        /\ target' \in [Desc -> Caller \cup {NoCaller}] /\ info' \in [Desc -> Caller \cup {NoCaller}]
    BY <1>1, <1>4 DEF DiskTypeOK
  <2>3. cmd' \in [Desc -> [of : Caller \cup {NoCaller}, write : BOOLEAN]]
    BY <1>1, <1>4, <2>1 DEF DiskTypeOK
  <2>4. /\ call' \in [Caller -> {"idle", "alloc", "nodesc", "asleep", "awake"}]
        /\ busy' \in [Caller -> BOOLEAN]
    BY <1>2, <1>4 DEF DiskTypeOK
  <2> QED  BY <1>2, <1>4, <1>12, <2>2, <2>3, <2>4 DEF DiskTypeOK
<1>19. DiskSleepersHaveWaker'
  <2>1. Entries' = Entries
    BY <1>2 DEF Entries
  <2>2. \A d \in Caller : call'[d] = "asleep" => busy'[d]
    BY <1>2, <1>4, CallTypes DEF DiskTypeOK
  <2> QED  BY <1>2, <1>5, <2>1, <2>2, CallTypes DEF DiskSleepersHaveWaker
<1> QED  BY <1>11, <1>15, <1>16, <1>17, <1>18, <1>19 DEF DiskInv

-----------------------------------------------------------------------------
(* A request that is done gives its descriptors back.                      *)
LEMMA StepReturn == ASSUME DiskInv, NEW c \in Caller, Return(c) PROVE DiskInv'
<1> DEFINE h == HeadOf(c)
<1>1. /\ call[c] = "awake" /\ ~busy[c]
      /\ info' = [info EXCEPT ![h] = NoCaller]
      /\ free' = [d \in Desc |-> free[d] \/ d \in Chain(h)]
      /\ call' = [d \in Caller |-> IF d = c THEN "idle"
                    ELSE IF d \in DescWaiters(c) THEN "alloc" ELSE call[d]]
      /\ UNCHANGED <<ringVars, chain, target, cmd, irq, acked, busy, buffer, platter, boot>>
  BY DEF Return, Stays
<1>2. DiskTypeOK /\ RingInv /\ ChainInv
  BY DEF DiskInv
<1>3. c \in InDisk
  BY <1>1 DEF InDisk
<1>4. h \in Heads /\ info[h] = c /\ h \in Desc /\ c # NoCaller
  BY <1>2, <1>3, SomeHead, DiskConstants DEF Heads
<1> HIDE DEF h
<1>5. InDisk' = InDisk \ {c}
  BY <1>1, <1>2 DEF DiskTypeOK, InDisk, DescWaiters
<1>6. FreeDescs' = FreeDescs \cup Chain(h) /\ OwnChain(h) /\ Chain(h) \subseteq Desc
  <2>1. OwnChain(h) /\ Chain(h) \subseteq Desc
    BY <1>2, <1>4 DEF ChainInv, OwnChain, Chain
  <2> QED  BY <1>1, <1>2, <2>1 DEF DiskTypeOK, FreeDescs
<1>7. Heads' = Heads \ {h} /\ \A g \in Heads \ {h} : info'[g] = info[g]
  BY <1>1, <1>2, <1>4 DEF DiskTypeOK, Heads
<1>8. \A g \in Heads : Chain(g)' = Chain(g)
  BY <1>1 DEF Chain
<1>9. \A g \in Heads \ {h} : info[g] # c /\ Chain(g) \cap Chain(h) = {} /\ OwnChain(g)
  BY <1>2, <1>4 DEF ChainInv
<1>10. ChainInv'
  <2>1. ASSUME NEW g \in Heads \ {h} PROVE OwnChain(g)'
    <3>1. OwnChain(g) /\ info[g] # c /\ Chain(g) \cap Chain(h) = {} /\ info'[g] = info[g] /\ Chain(g)' = Chain(g)
      BY <1>7, <1>8, <1>9
    <3> QED  BY <1>1, <1>5, <1>6, <3>1 DEF OwnChain
  <2>2. \A g, e \in Heads' : info'[g] = info'[e] \/ Chain(g)' \cap Chain(e)' # {} => g = e
    BY <1>2, <1>7, <1>8 DEF ChainInv
  <2>3. \A d \in InDisk' : \E g \in Heads' : info'[g] = d
    BY <1>2, <1>4, <1>5, <1>7 DEF ChainInv
  <2>4. \A d \in Desc \ FreeDescs' : \E g \in Heads' : d \in Chain(g)'
    BY <1>2, <1>6, <1>7, <1>8 DEF ChainInv
  <2> QED  BY <1>7, <2>1, <2>2, <2>3, <2>4 DEF ChainInv
<1>11. avail' = avail /\ used' = used /\ working' = working /\ busy' = busy
  BY <1>1 DEF ringVars
<1>12. Pending' = Pending /\ Busy' = Busy /\ h \notin Pending
  BY <1>1, <1>2, <1>4, <1>11 DEF Pending, Busy, RingInv
<1>13. RingInv'
  <2>1. \A g \in Pending : g \in Heads' /\ info'[g] = info[g]
    BY <1>2, <1>7, <1>12 DEF RingInv
  <2> QED  BY <1>2, <1>11, <1>12, <2>1 DEF RingInv
<1>14. CountInv'
  <2>1. IsFiniteSet(InDisk') /\ Cardinality(InDisk') = Cardinality(InDisk) - 1
    BY <1>3, <1>5, FS_RemoveElement DEF DiskInv, CountInv
  <2> DEFINE A == Desc \ FreeDescs  B == A \ {h}  C == B \ {chain[h]}  k == chain[chain[h]]
  <2>2. h \in A /\ chain[h] \in B /\ k \in C /\ Desc \ FreeDescs' = C \ {k}
    BY <1>4, <1>6 DEF OwnChain, Chain
  <2>3. IsFiniteSet(A)
    BY DiskConstants, FS_Subset
  <2>4. IsFiniteSet(B) /\ Cardinality(B) = Cardinality(A) - 1
    BY <2>2, <2>3, FS_RemoveElement
  <2>5. IsFiniteSet(C) /\ Cardinality(C) = Cardinality(B) - 1
    <3> HIDE DEF B
    <3> QED  BY <2>2, <2>4, FS_RemoveElement
  <2>6. Cardinality(C \ {k}) = Cardinality(C) - 1
    <3> HIDE DEF C, k
    <3> QED  BY <2>2, <2>5, FS_RemoveElement
  <2>7. Cardinality(A) \in Nat /\ Cardinality(A) = 3 * Cardinality(InDisk)
    BY <2>3, FS_CardinalityType DEF DiskInv, CountInv
  <2> HIDE DEF A, B, C, k
  <2>8. Cardinality(Desc \ FreeDescs') = ((Cardinality(A) - 1) - 1) - 1
    BY <2>2, <2>4, <2>5, <2>6
  <2>9. \A a, n \in Nat : a = 3 * n => ((a - 1) - 1) - 1 = 3 * (n - 1)
    OBVIOUS
  <2>10. Cardinality(Desc \ FreeDescs') = 3 * Cardinality(InDisk')
    BY <2>1, <2>7, <2>8, <2>9, RingFacts
  <2> QED  BY <1>11, <1>12, <2>1, <2>10 DEF CountInv, DiskInv
<1>15. DataInv'
  <2>1. \A g \in Elems(used) : info'[g] = info[g]
    BY <1>2, <1>7, <1>12 DEF RingInv, Pending
  <2> QED  BY <1>1, <1>5, <1>11, <2>1 DEF DiskInv, DataInv
<1>16. DiskTypeOK'
  <2>1. /\ call' \in [Caller -> {"idle", "alloc", "nodesc", "asleep", "awake"}]
        /\ info' \in [Desc -> Caller \cup {NoCaller}] /\ free' \in [Desc -> BOOLEAN]
    BY <1>1, <1>2 DEF DiskTypeOK
  <2> QED  BY <1>1, <1>2, <1>11, <2>1 DEF DiskTypeOK
<1>17. DiskSleepersHaveWaker'
  <2>1. Entries' = Entries
    BY <1>11 DEF Entries
  <2>2. \A d \in Caller : call'[d] # "nodesc" /\ (call'[d] = "asleep" => busy'[d])
    BY <1>1, <1>11, CallTypes DEF DescWaiters
  <2> QED  BY <1>1, <2>1, <2>2, CallTypes DEF DiskSleepersHaveWaker
<1> QED  BY <1>10, <1>13, <1>14, <1>15, <1>16, <1>17 DEF DiskInv

-----------------------------------------------------------------------------
(* The interrupt handler, or a caller that polls, empties the used ring.   *)
LEMMA StepProcess ==
  ASSUME DiskInv, ProcessUsed, UNCHANGED <<avail, working, descVars, buffer, platter, boot>>,
         irq' = irq, acked' \in BOOLEAN
  PROVE  DiskInv'
<1>1. /\ busy' = [c \in Caller |-> busy[c] /\ c \notin Completed]
      /\ call' = [c \in Caller |-> IF c \in Completed /\ call[c] = "asleep" THEN "awake" ELSE call[c]]
      /\ used' = <<>> /\ avail' = avail /\ working' = working /\ info' = info
  BY DEF ProcessUsed, descVars
<1>2. DiskTypeOK /\ RingInv /\ ChainInv
  BY DEF DiskInv
<1>3. InDisk' = InDisk
  BY <1>1, <1>2 DEF DiskTypeOK, InDisk
<1>4. ChainInv' /\ Heads' = Heads /\ FreeDescs' = FreeDescs
  BY <1>2, <1>3, ChainsStay
<1>5. \A i \in Pending : i \in Heads /\ info[i] \in Busy /\ info[i] # NoCaller
  BY <1>2 DEF RingInv, ChainInv, OwnChain, InDisk, Busy, Heads
<1>6. Completed = {info[i] : i \in Elems(used)} /\ Completed \subseteq Busy
  BY <1>5, RingFacts DEF Completed, Pending
<1>7. Busy' = Busy \ Completed
  BY <1>1 DEF Busy
<1>8. Elems(used') = {} /\ Once(used') /\ Len(used') = 0
  BY <1>1, ElemsEmpty
<1>9. \A i \in Pending : info[i] \in Completed <=> i \in Elems(used)
  BY <1>2, <1>5, <1>6 DEF ChainInv, Pending
<1>10. RingInv'
  <2>1. Pending' = working \cup Elems(avail) /\ Pending' = Pending \ Elems(used)
    BY <1>1, <1>2, <1>8 DEF Pending, RingInv
  <2>2. Pending' \subseteq Heads' /\ \A i \in Pending' : busy'[info'[i]]
    BY <1>1, <1>4, <1>5, <1>9, <2>1 DEF Busy
  <2>3. \A c \in Busy' : \E i \in Pending' : info'[i] = c
    BY <1>1, <1>2, <1>7, <1>9, <2>1 DEF RingInv
  <2> QED  BY <1>1, <1>2, <1>8, <2>2, <2>3 DEF RingInv
<1>11. CountInv'
  <2>1. IsFiniteSet(Elems(used)) /\ Cardinality(Elems(used)) = Len(used)
    BY <1>2, OnceCounts, RingFacts DEF RingInv
  <2>2. ExistsBijection(Elems(used), Completed)
    <3> DEFINE f == [i \in Elems(used) |-> info[i]]
    <3>1. f \in [Elems(used) -> Completed]
      BY <1>6
    <3>2. \A i, j \in Elems(used) : f[i] = f[j] => i = j
      BY <1>2, <1>5 DEF ChainInv, Pending
    <3>3. \A c \in Completed : \E i \in Elems(used) : f[i] = c
      BY <1>6
    <3> HIDE DEF f
    <3>4. f \in Bijection(Elems(used), Completed)
      BY <3>1, <3>2, <3>3 DEF Bijection, Injection, Surjection, IsInjective
    <3> QED  BY <3>4 DEF ExistsBijection
  <2>3. IsFiniteSet(Completed) /\ Cardinality(Completed) = Len(used)
    BY <2>1, <2>2, FS_Bijection
  <2>4. Cardinality(Busy \ Completed) = Cardinality(Busy) - Len(used)
    <3>1. Busy \cap Completed = Completed
      BY <1>6
    <3>2. IsFiniteSet(Busy)
      BY RingFacts
    <3>3. Cardinality(Busy \ Completed) = Cardinality(Busy) - Cardinality(Busy \cap Completed)
      BY <3>2, FS_Difference
    <3> QED  BY <2>3, <3>1, <3>3
  <2>5. Cardinality(Busy) = (Len(avail) + Cardinality(working)) + Len(used)
    BY DEF DiskInv, CountInv
  <2>6. Cardinality(Busy') = (Len(avail') + Cardinality(working')) + Len(used')
    BY <1>1, <1>7, <1>8, <2>4, <2>5, RingFacts
  <2> QED  BY <1>3, <1>4, <2>6 DEF DiskInv, CountInv
<1>12. DataInv'
  <2>1. \A c \in InDisk : ~busy'[c] => buffer[c] = platter[c]
    BY <1>1, <1>6 DEF DiskInv, DataInv, InDisk
  <2> QED  BY <1>3, <1>8, <2>1 DEF DataInv
<1>13. DiskTypeOK'
  <2>1. /\ call' \in [Caller -> {"idle", "alloc", "nodesc", "asleep", "awake"}]
        /\ busy' \in [Caller -> BOOLEAN] /\ used' \in Seq(Desc)
    BY <1>1, <1>2, EmptySeq DEF DiskTypeOK
  <2> QED  BY <1>2, <2>1 DEF DiskTypeOK, descVars
<1>14. DiskSleepersHaveWaker'
  <2>1. Entries' = {}
    BY <1>8 DEF Entries, Elems
  <2>2. \A c \in Caller : /\ call'[c] = "asleep" => busy'[c]
                          /\ call'[c] = "nodesc" => InDisk # {}
    BY <1>1, CallTypes
  <2> QED  BY <1>3, <2>1, <2>2 DEF DiskSleepersHaveWaker
<1> QED  BY <1>4, <1>10, <1>11, <1>12, <1>13, <1>14 DEF DiskInv

-----------------------------------------------------------------------------
(* The device.                                                             *)
LEMMA StepFetch == ASSUME DiskInv, Fetch PROVE DiskInv'
<1>1. /\ avail # <<>> /\ working' = working \cup {Head(avail)} /\ avail' = Tail(avail)
      /\ UNCHANGED <<used, descVars, irq, acked, call, busy, buffer, platter, boot>>
  BY DEF Fetch
<1>2. DiskTypeOK /\ RingInv /\ ChainInv
  BY DEF DiskInv
<1>3. /\ Head(avail) \in Desc /\ Head(avail) \in Elems(avail)
      /\ Tail(avail) \in Seq(Desc) /\ Len(Tail(avail)) = Len(avail) - 1
      /\ Elems(Tail(avail)) = Elems(avail) \ {Head(avail)}
      /\ Once(Tail(avail))
  BY <1>1, <1>2, ElemsTail DEF DiskTypeOK, RingInv
<1>4. InDisk' = InDisk /\ Busy' = Busy /\ info' = info /\ Entries' = Entries
  BY <1>1 DEF InDisk, Busy, descVars, Entries
<1>5. ChainInv' /\ Heads' = Heads /\ FreeDescs' = FreeDescs
  BY <1>1, <1>2, <1>4, ChainsStay
<1>6. RingInv'
  <2>1. Pending' = Pending
    BY <1>1, <1>3 DEF Pending
  <2> QED  BY <1>1, <1>2, <1>3, <1>4, <1>5, <2>1 DEF RingInv
<1>7. CountInv'
  <2>1. Head(avail) \notin working
    BY <1>2, <1>3 DEF RingInv
  <2>2. Cardinality(working') = Cardinality(working) + 1
    BY <1>1, <2>1, RingFacts, FS_AddElement
  <2>3. Cardinality(Busy) = (Len(avail) + Cardinality(working)) + Len(used)
    BY DEF DiskInv, CountInv
  <2>4. Cardinality(Busy') = (Len(avail') + Cardinality(working')) + Len(used')
    BY <1>1, <1>3, <1>4, <2>2, <2>3, RingFacts
  <2> QED  BY <1>4, <1>5, <2>4 DEF DiskInv, CountInv
<1>8. DataInv'
  BY <1>1, <1>4 DEF DiskInv, DataInv
<1>9. DiskTypeOK'
  BY <1>1, <1>2, <1>3 DEF DiskTypeOK, descVars
<1>10. DiskSleepersHaveWaker'
  BY <1>1, <1>4, CallTypes DEF DiskSleepersHaveWaker
<1> QED  BY <1>5, <1>6, <1>7, <1>8, <1>9, <1>10 DEF DiskInv

\* What the device does with a request: buffer and block of its caller agree.
LEMMA FinishMoves ==
  ASSUME DiskInv, NEW i \in Desc, Finish(i)
  PROVE  /\ i \in working /\ i \in Pending /\ i \in Heads /\ info[i] \in Busy /\ info[i] \in InDisk
         /\ buffer' \in [Caller -> {"mem", "disk"}] /\ platter' \in [Caller -> {"mem", "disk"}]
         /\ buffer'[info[i]] = platter'[info[i]]
         /\ \A c \in Caller \ {info[i]} : buffer'[c] = buffer[c] /\ platter'[c] = platter[c]
<1>1. i \in working /\ i \in Pending /\ i \in Heads
  BY DEF Finish, Pending, DiskInv, RingInv
<1>2. info[i] \in Busy /\ info[i] \in InDisk /\ cmd[i].of = info[i] /\ target[chain[i]] = info[i]
  BY <1>1 DEF DiskInv, RingInv, ChainInv, OwnChain, InDisk, Busy
<1>3. /\ cmd[i].write => platter' = [platter EXCEPT ![info[i]] = buffer[info[i]]] /\ buffer' = buffer
      /\ ~cmd[i].write => buffer' = [buffer EXCEPT ![info[i]] = platter[info[i]]] /\ platter' = platter
  BY <1>2 DEF Finish
<1>4. info[i] \in Caller
  BY <1>2 DEF InDisk
<1>5. CASE cmd[i].write
  BY <1>1, <1>2, <1>3, <1>4, <1>5, CallTypes
<1>6. CASE ~cmd[i].write
  BY <1>1, <1>2, <1>3, <1>4, <1>6, CallTypes
<1> QED  BY <1>5, <1>6

LEMMA StepFinish == ASSUME DiskInv, NEW i \in Desc, Finish(i) PROVE DiskInv'
<1>1. /\ working' = working \ {i} /\ used' = Append(used, i) /\ irq' = TRUE
      /\ UNCHANGED <<avail, descVars, acked, call, busy, boot>>
  BY DEF Finish
<1>2. DiskTypeOK /\ RingInv /\ ChainInv
  BY DEF DiskInv
<1>3. /\ i \in working /\ i \in Pending /\ i \in Heads /\ info[i] \in Busy /\ info[i] \in InDisk
      /\ buffer' \in [Caller -> {"mem", "disk"}] /\ platter' \in [Caller -> {"mem", "disk"}]
      /\ buffer'[info[i]] = platter'[info[i]]
      /\ \A c \in Caller \ {info[i]} : buffer'[c] = buffer[c] /\ platter'[c] = platter[c]
  BY FinishMoves
<1>4. InDisk' = InDisk /\ Busy' = Busy /\ info' = info /\ busy' = busy /\ InDisk \subseteq Caller
  BY <1>1 DEF InDisk, Busy, descVars
<1>5. ChainInv' /\ Heads' = Heads /\ FreeDescs' = FreeDescs
  BY <1>1, <1>2, <1>4, ChainsStay
<1>6. /\ used' \in Seq(Desc) /\ Len(used') = Len(used) + 1
      /\ Elems(used') = Elems(used) \cup {i}
      /\ i \notin Elems(used) => Once(used')
  BY <1>1, <1>2, ElemsAppend DEF DiskTypeOK, RingInv
<1>7. i \notin Elems(used) /\ i \notin Elems(avail)
  BY <1>2, <1>3 DEF RingInv
<1>8. RingInv'
  <2>1. Pending' = Pending
    BY <1>1, <1>3, <1>6 DEF Pending
  <2>2. avail' = avail /\ Once(used')
    BY <1>1, <1>6, <1>7
  <2> QED  BY <1>1, <1>2, <1>3, <1>4, <1>5, <1>6, <1>7, <2>1, <2>2 DEF RingInv
<1>9. CountInv'
  <2>1. Cardinality(working') = Cardinality(working) - 1
    BY <1>1, <1>3, RingFacts, FS_RemoveElement
  <2>2. Cardinality(Busy) = (Len(avail) + Cardinality(working)) + Len(used)
    BY DEF DiskInv, CountInv
  <2>3. Cardinality(Busy') = (Len(avail') + Cardinality(working')) + Len(used')
    BY <1>1, <1>4, <1>6, <2>1, <2>2, RingFacts
  <2> QED  BY <1>4, <1>5, <2>3 DEF DiskInv, CountInv
<1>10. DataInv'
  <2>1. \A c \in InDisk : ~busy[c] => buffer'[c] = platter'[c]
    BY <1>3, <1>4 DEF DiskInv, DataInv, Busy
  <2>2. \A j \in Elems(used) : j \in Heads /\ info[j] \in Caller /\ info[j] # info[i]
    BY <1>2, <1>3, <1>7 DEF RingInv, ChainInv, OwnChain, InDisk, Pending
  <2>3. \A j \in Elems(used') : buffer'[info[j]] = platter'[info[j]]
    BY <1>3, <1>6, <2>2 DEF DiskInv, DataInv
  <2> QED  BY <1>4, <2>1, <2>3 DEF DataInv
<1>11. DiskTypeOK'
  BY <1>1, <1>2, <1>3, <1>6 DEF DiskTypeOK, descVars
<1>12. DiskSleepersHaveWaker'
  BY <1>1, <1>4, CallTypes DEF DiskSleepersHaveWaker
<1> QED  BY <1>5, <1>8, <1>9, <1>10, <1>11, <1>12 DEF DiskInv

-----------------------------------------------------------------------------
(* The theorems.                                                           *)
LEMMA DiskInvStep == DiskInv /\ [DiskNext]_diskVars => DiskInv'
<1> SUFFICES ASSUME DiskInv, [DiskNext]_diskVars PROVE DiskInv'
  OBVIOUS
<1>1. CASE UNCHANGED diskVars
  <2>1. InDisk' = InDisk /\ UNCHANGED <<ringVars, descVars, irq, acked, call, busy, buffer, platter, boot>>
    BY <1>1 DEF diskVars, InDisk
  <2> QED  BY <2>1, CallTypes, StepCalls
<1>2. ASSUME NEW c \in Caller, Request(c) \/ InCall(c) \/ DiskKill(c) PROVE DiskInv'
  <2>1. CASE Poll(c)
    BY <2>1, StepProcess, CallTypes DEF Poll
  <2>2. ASSUME NEW w \in BOOLEAN, Submit(c, w) PROVE DiskInv'
    BY <2>2, StepSubmit
  <2> QED  BY <1>2, <2>1, <2>2, StepRequest, StepNoThree, StepReturn, StepKillOrSleep DEF InCall
<1>3. CASE Ack \/ EndBoot
  BY <1>3, StepAckOrBoot
<1>4. CASE Scan
  BY <1>4, StepProcess, CallTypes DEF Scan
<1>5. CASE Fetch
  BY <1>5, StepFetch
<1>6. ASSUME NEW i \in Desc, Finish(i) PROVE DiskInv'
  BY <1>6, StepFinish
<1> QED  BY <1>1, <1>2, <1>3, <1>4, <1>5, <1>6 DEF DiskNext, DeviceOrHandler

(* Every request has three descriptors of its own, is in one place until it *)
(* is done, and whoever sleeps will be woken: free_chain frees nothing      *)
(* twice, no ring is overrun, no completion is missed.                      *)
THEOREM NothingLost == DiskSpec => []RequestsAccounted
<1>1. DiskInv => RequestsAccounted
  BY DiskInvSafe
<1> QED  BY <1>1, DiskInvInit, DiskInvStep, PTL DEF DiskSpec

\* Buffers and blocks change in the course of a request only.
LEMMA OnlyRequestsMove ==
  DiskInv /\ [DiskNext]_diskVars =>
    [\A c \in Caller : buffer'[c] # buffer[c] \/ platter'[c] # platter[c] => Transfers(c)]_diskVars
<1> SUFFICES ASSUME DiskInv, DiskNext,
                    NEW c \in Caller, buffer'[c] # buffer[c] \/ platter'[c] # platter[c]
             PROVE  Transfers(c)
  OBVIOUS
<1>1. CASE UNCHANGED <<buffer, platter>>
  BY <1>1
<1>2. ASSUME NEW d \in Caller, Request(d) PROVE Transfers(c)
  BY <1>2, CallTypes DEF Request, Moves, Transfers
<1>3. ASSUME NEW i \in Desc, Finish(i) PROVE Transfers(c)
  BY <1>3, FinishMoves DEF Transfers, Busy
<1> QED  BY <1>1, <1>2, <1>3 DEF DiskNext, DeviceOrHandler, InCall, Submit, NoThree, Return,
                                 SleepAgain, Poll, DiskKill, Ack, Scan, Fetch, EndBoot

(* When virtio_disk_rw returns, the buffer and the block agree, and nothing *)
(* touches either of them but the request that was made for them.           *)
THEOREM TransfersInTime == DiskSpec => TransferInTime
<1>1. DiskInv => \A c \in Caller : call[c] = "awake" /\ ~busy[c] => buffer[c] = platter[c]
  BY DEF DiskInv, DataInv, InDisk
<1> QED  BY <1>1, DiskInvInit, DiskInvStep, OnlyRequestsMove, PTL DEF DiskSpec, TransferInTime


-----------------------------------------------------------------------------
(* Inodes.                                                                 *)

Locking == {"opened", "unlinked", "trunc", "freed"}

InodeTables ==
  /\ names \in [File -> INum \cup {NoInode}]
  /\ itype \in [INum -> BOOLEAN] /\ ivalid \in [INum -> BOOLEAN]
  /\ nlink \in [INum -> Nat] /\ iref \in [INum -> Nat]
  /\ ilocked \in [INum -> User \cup {NoHolder}] /\ rootLocked \in User \cup {NoHolder}
  /\ fds \in [User -> [Fd -> INum \cup {NoInode}]]
  /\ at \in [User -> {"out", "opening", "opened", "creating", "unlinking", "unlinked", "linking",
                      "linked", "undoing", "iput", "freeing", "trunc", "freed", "unref"}]
  /\ ip \in [User -> INum \cup {NoInode}]
  /\ inOp \in [User -> BOOLEAN] /\ want \in [User -> File \cup {NoName}]
  /\ trouble \in {"no", "open", "close", "link", "ialloc"}

\* What a call has in hand.
CallInv == \A p \in User :
  /\ at[p] = "out" <=> ip[p] = NoInode
  /\ at[p] \in {"creating", "unlinking", "linking", "linked"} => want[p] \in File
  /\ at[p] = "creating" => names[want[p]] = NoInode
  /\ at[p] = "unlinking" => names[want[p]] = ip[p]

\* Who has a lock is at a place that has one.
LockInv ==
  /\ \A p \in User : at[p] \in {"creating", "unlinking"} <=> rootLocked = p
  /\ \A p \in User, i \in INum : ilocked[i] = p <=> (ip[p] = i /\ at[p] \in Locking)

\* The inode i is reached by calls at these places, and by nothing else.
OnlyCalls(i, places, p) ==
  /\ \A n \in File : names[n] # i
  /\ \A q \in User, f \in Fd : fds[q][f] # i
  /\ \A q \in User \ {p} : ip[q] = i => at[q] \in places

\* An inode without links that is being freed is its last user's; one that has been
\* freed, and is made again, is nobody else's until its lock is given up.
FreeingInv == \A p \in User :
  /\ at[p] \in {"freeing", "trunc"} => OnlyCalls(ip[p], {}, p)
  /\ at[p] = "freed" => OnlyCalls(ip[p], {"creating"}, p)
  /\ at[p] = "creating" => OnlyCalls(ip[p], {"freed", "unref"}, p)

\* What has been locked once has been read.
ValidInv ==
  /\ \A p \in User : at[p] \in Ahead \cup {"opened", "iput"} => ivalid[ip[p]]
  /\ \A p \in User, f \in Fd : fds[p][f] # NoInode => ivalid[fds[p][f]]

Linking(i) == {p \in User : ip[p] = i /\ at[p] \in Ahead}

LinkInv == \A i \in INum : /\ nlink[i] = Cardinality(NamesOf(i)) + Cardinality(Linking(i))
                           /\ ~itype[i] => nlink[i] = 0

InodeInv == /\ InodeTables /\ CallInv /\ LockInv /\ FreeingInv /\ ValidInv
            /\ IrefsAddUp /\ LinkInv /\ NeverFreedInUse

Places == {"out", "opening", "opened", "creating", "unlinking", "unlinked", "linking", "linked",
           "undoing", "iput", "freeing", "trunc", "freed", "unref"}

\* What the sets that are counted are made of.
LEMMA InodeSets ==
  ASSUME NEW i
  PROVE  /\ IsFiniteSet(FdsOf(i)) /\ Cardinality(FdsOf(i)) \in Nat
         /\ IsFiniteSet(CallsOn(i)) /\ Cardinality(CallsOn(i)) \in Nat
         /\ IsFiniteSet(NamesOf(i)) /\ Cardinality(NamesOf(i)) \in Nat
         /\ IsFiniteSet(Linking(i)) /\ Cardinality(Linking(i)) \in Nat
<1>1. /\ IsFiniteSet(User) /\ IsFiniteSet(File) /\ Fds \in Nat
  BY InodeAssumption
<1>2. IsFiniteSet(Fd)
  BY <1>1, FS_Interval DEF Fd
<1>3. IsFiniteSet(User \X Fd)
  BY <1>1, <1>2, FS_Product
<1>4. FdsOf(i) \in SUBSET (User \X Fd) /\ CallsOn(i) \in SUBSET User
      /\ NamesOf(i) \in SUBSET File /\ Linking(i) \in SUBSET User
  BY DEF FdsOf, CallsOn, NamesOf, Linking
<1>5. IsFiniteSet(FdsOf(i)) /\ IsFiniteSet(CallsOn(i)) /\ IsFiniteSet(NamesOf(i)) /\ IsFiniteSet(Linking(i))
  BY <1>1, <1>3, <1>4, FS_Subset
<1> QED
  BY <1>5, FS_CardinalityType

\* The types of the inode's parts, for the proofs below.
LEMMA InodeBasics ==
  /\ INodes \in Nat /\ Fds \in Nat /\ NoHolder \notin User /\ NoName \notin File
  /\ NoInode \notin INum /\ NoInode = 0 /\ INum \subseteq Nat /\ Fd \subseteq Nat
BY InodeAssumption DEF NoInode, INum, Fd

\* Who is in a call has an inode, which somebody refers to.
LEMMA InHand ==
  ASSUME InodeInv, NEW p \in User, at[p] # "out"
  PROVE  /\ ip[p] \in INum /\ p \in CallsOn(ip[p]) /\ iref[ip[p]] \in Nat \ {0}
<1>1. ip[p] \in INum
  BY DEF InodeInv, InodeTables, CallInv
<1>2. p \in CallsOn(ip[p])
  BY DEF CallsOn
<1>3. Cardinality(CallsOn(ip[p])) # 0
  BY <1>2, InodeSets, FS_EmptySet
<1>4. iref[ip[p]] = Cardinality(FdsOf(ip[p])) + Cardinality(CallsOn(ip[p]))
  BY <1>1 DEF InodeInv, IrefsAddUp
<1> HIDE DEF FdsOf, CallsOn
<1> DEFINE a == Cardinality(FdsOf(ip[p]))
<1> DEFINE b == Cardinality(CallsOn(ip[p]))
<1>5. a \in Nat /\ b \in Nat /\ b # 0 /\ iref[ip[p]] = a + b
  BY <1>3, <1>4, InodeSets
<1> HIDE DEF a, b
<1>6. iref[ip[p]] \in Nat \ {0}
  BY <1>5
<1> QED
  BY <1>1, <1>2, <1>6

\* The last reference, if it is a call's, is the only way to the inode.
LEMMA LastReference ==
  ASSUME InodeInv, NEW p \in User, at[p] # "out", iref[ip[p]] = 1
  PROVE  FdsOf(ip[p]) = {} /\ CallsOn(ip[p]) = {p}
<1> DEFINE A == FdsOf(ip[p])
<1> DEFINE B == CallsOn(ip[p])
<1>1. ip[p] \in INum /\ p \in B
  BY InHand
<1>2. IsFiniteSet(A) /\ IsFiniteSet(B) /\ Cardinality(A) \in Nat /\ Cardinality(B) \in Nat
  BY InodeSets
<1>3. 1 = Cardinality(A) + Cardinality(B)
  BY <1>1 DEF InodeInv, IrefsAddUp
<1> HIDE DEF A, B
<1>4. Cardinality(B) # 0
  BY <1>1, <1>2, FS_EmptySet
<1>5. Cardinality(A) = 0 /\ Cardinality(B) = 1
  BY <1>2, <1>3, <1>4
<1>6. A = {}
  BY <1>2, <1>5, FS_EmptySet
<1>7. PICK x : B = {x}
  BY <1>2, <1>5, FS_Singleton
<1>8. B = {p}
  BY <1>1, <1>7
<1> QED
  BY <1>6, <1>8 DEF A, B

\* An inode with a descriptor has a reference.
LEMMA DescriptorHolds ==
  ASSUME InodeInv, NEW i \in INum, FdsOf(i) # {}
  PROVE  iref[i] \in Nat \ {0}
<1> DEFINE a == Cardinality(FdsOf(i))
<1> DEFINE b == Cardinality(CallsOn(i))
<1>1. a # 0
  BY InodeSets, FS_EmptySet
<1>2. a \in Nat /\ b \in Nat /\ iref[i] = a + b
  BY InodeSets DEF InodeInv, IrefsAddUp
<1> HIDE DEF a, b
<1> QED
  BY <1>1, <1>2

\* An unused slot is nobody's.
LEMMA Unreferenced ==
  ASSUME InodeInv, NEW i \in INum, ~(iref[i] > 0)
  PROVE  FdsOf(i) = {} /\ CallsOn(i) = {}
<1>1. FdsOf(i) = {}
  BY DescriptorHolds
<1>2. ASSUME NEW p \in CallsOn(i) PROVE FALSE
  <2>1. p \in User /\ ip[p] = i
    BY DEF CallsOn
  <2>2. at[p] # "out"
    BY <2>1, InodeBasics DEF InodeInv, CallInv
  <2> QED
    BY <2>1, <2>2, InHand
<1> QED
  BY <1>1, <1>2

\* An inode without links has neither names nor links in the making.
LEMMA Unlinked ==
  ASSUME InodeInv, NEW i \in INum
  PROVE  nlink[i] = 0 <=> NamesOf(i) = {} /\ Linking(i) = {}
<1> DEFINE A == NamesOf(i)
<1> DEFINE B == Linking(i)
<1>1. /\ nlink[i] = Cardinality(A) + Cardinality(B)
      /\ IsFiniteSet(A) /\ IsFiniteSet(B)
      /\ Cardinality(A) \in Nat /\ Cardinality(B) \in Nat
  BY InodeSets DEF InodeInv, LinkInv
<1> HIDE DEF A, B
<1>2. (A = {} <=> Cardinality(A) = 0) /\ (B = {} <=> Cardinality(B) = 0)
  BY <1>1, FS_EmptySet
<1>3. nlink[i] = 0 <=> A = {} /\ B = {}
  BY <1>1, <1>2
<1> QED
  BY <1>3 DEF A, B

\* Only who has just freed an inode, or is about to leave it, has one without a type.
LEMMA HasType ==
  ASSUME InodeInv, NEW p \in User, at[p] \notin {"out", "freed", "unref"}
  PROVE  itype[ip[p]] = TRUE
<1>1. ip[p] \in INum /\ p \in CallsOn(ip[p])
  BY InHand
<1>2. itype[ip[p]]
  BY <1>1 DEF InodeInv, NeverFreedInUse
<1>3. itype[ip[p]] \in BOOLEAN
  BY <1>1 DEF InodeInv, InodeTables
<1> QED
  BY <1>2, <1>3

LEMMA TypeFound ==
  ASSUME InodeInv, NEW p \in User, at[p] \in {"opening", "unlinking", "linking"}
  PROVE  ~NoType(p)
BY HasType DEF NoType

\* A name counts.
LEMMA NamedHasLink ==
  ASSUME InodeInv, NEW n \in File, names[n] \in INum
  PROVE  nlink[names[n]] \in Nat \ {0}
<1>1. n \in NamesOf(names[n])
  BY DEF NamesOf
<1>2. nlink[names[n]] # 0
  BY <1>1, Unlinked
<1>3. nlink[names[n]] \in Nat
  BY DEF InodeInv, InodeTables
<1> QED
  BY <1>2, <1>3

LEMMA LinkFound ==
  ASSUME InodeInv, NEW p \in User, at[p] = "unlinking"
  PROVE  want[p] \in File /\ names[want[p]] = ip[p] /\ nlink[ip[p]] \in Nat \ {0}
<1>1. want[p] \in File /\ names[want[p]] = ip[p]
  BY DEF InodeInv, CallInv
<1>2. ip[p] \in INum
  BY InHand
<1> QED
  BY <1>1, <1>2, NamedHasLink

\* Who has removed a name has not counted it.
LEMMA CountFound ==
  ASSUME InodeInv, NEW p \in User, at[p] = "unlinked"
  PROVE  ip[p] \in INum /\ nlink[ip[p]] \in Nat \ {0}
<1>1. ip[p] \in INum
  BY InHand
<1>2. p \in Linking(ip[p])
  BY DEF Linking, Ahead
<1>3. nlink[ip[p]] # 0
  BY <1>1, <1>2, Unlinked
<1> QED
  BY <1>1, <1>3 DEF InodeInv, InodeTables

LEMMA InodeInvInit == InodeInit => InodeInv
<1> SUFFICES ASSUME InodeInit PROVE InodeInv
  OBVIOUS
<1> USE InodeBasics
<1>1. InodeTables
  BY DEF InodeInit, InodeTables
<1>2. CallInv /\ LockInv /\ FreeingInv /\ ValidInv
  <2>1. CallInv
    BY DEF InodeInit, CallInv
  <2>2. LockInv
    <3>1. \A p \in User : p # NoHolder
      BY InodeBasics
    <3> QED
      BY <3>1 DEF InodeInit, LockInv, Locking
  <2>3. FreeingInv
    BY DEF InodeInit, FreeingInv, OnlyCalls
  <2>4. ValidInv
    BY DEF InodeInit, ValidInv, Ahead
  <2> QED
    BY <2>1, <2>2, <2>3, <2>4
<1>3. \A i \in INum : /\ NamesOf(i) = {} /\ FdsOf(i) = {}
                      /\ CallsOn(i) = {} /\ Linking(i) = {}
  BY DEF InodeInit, NamesOf, FdsOf, CallsOn, Linking
<1>4. IrefsAddUp
  <2> SUFFICES ASSUME NEW i \in INum
               PROVE  iref[i] = Cardinality(FdsOf(i)) + Cardinality(CallsOn(i))
    BY DEF IrefsAddUp
  <2>1. FdsOf(i) = {} /\ CallsOn(i) = {} /\ iref[i] = 0
    BY <1>3 DEF InodeInit
  <2>2. Cardinality({}) = 0
    BY FS_EmptySet
  <2> QED
    BY <2>1, <2>2
<1>5. LinkInv
  <2> SUFFICES ASSUME NEW i \in INum
               PROVE  /\ nlink[i] = Cardinality(NamesOf(i)) + Cardinality(Linking(i))
                      /\ nlink[i] = 0
    BY DEF LinkInv
  <2>1. NamesOf(i) = {} /\ Linking(i) = {} /\ nlink[i] = 0
    BY <1>3 DEF InodeInit
  <2>2. Cardinality({}) = 0
    BY FS_EmptySet
  <2> QED
    BY <2>1, <2>2
<1>6. NeverFreedInUse
  BY <1>3 DEF NeverFreedInUse
<1> QED
  BY <1>1, <1>2, <1>4, <1>5, <1>6 DEF InodeInv

LEMMA OneMore ==
  ASSUME NEW t \in [INum -> Nat], NEW i \in INum
  PROVE  [t EXCEPT ![i] = @ + 1] \in [INum -> Nat]
OBVIOUS

LEMMA OneLess ==
  ASSUME NEW t \in [INum -> Nat], NEW i \in INum, t[i] \in Nat \ {0}
  PROVE  [t EXCEPT ![i] = @ - 1] \in [INum -> Nat]
OBVIOUS

LEMMA FindsCounts ==
  ASSUME InodeTables, NEW p \in User, NEW n \in File, NEW to, Finds(p, n, to)
  PROVE  iref' \in [INum -> Nat] /\ nlink' \in [INum -> Nat]
<1>1. names[n] \in INum /\ iref \in [INum -> Nat]
  BY InodeBasics DEF Finds, InodeTables
<1>2. iref' \in [INum -> Nat]
  <2>1. iref' = [iref EXCEPT ![names[n]] = @ + 1]
    BY DEF Finds, Iget
  <2> QED
    BY <1>1, <2>1, OneMore
<1> QED
  BY <1>2 DEF Finds, fileVars, InodeTables

\* The steps that lead on.
GoesOn(p) ==
  \/ \E n \in File : Open(p, n) \/ Create(p, n) \/ Unlink(p, n)
  \/ \E old, n \in File : Link(p, old, n)
  \/ CreateLock(p) \/ OpenLock(p) \/ OpenedNoFile(p)
  \/ UnlinkLock(p) \/ UnlinkCount(p) \/ LinkLock(p) \/ LinkName(p)
  \/ \E f \in Fd : Opened(p, f) \/ Close(p, f)
  \/ IputLast(p) \/ Iput(p) \/ FreeLock(p) \/ FreeUnlock(p) \/ FreeUnref(p)
  \/ FreeInode(p) /\ ~Panics("close")

LEMMA InodeTablesKept ==
  ASSUME InodeInv, NEW p \in User, GoesOn(p)
  PROVE  InodeTables'
<1> USE InodeBasics
<1>1. InodeTables
  BY DEF InodeInv
<1>2. at[p] # "out" => ip[p] \in INum /\ iref[ip[p]] \in Nat \ {0}
  BY InHand
<1>3. at[p] \in {"opening", "unlinking", "linking"} => ~NoType(p)
  BY TypeFound
<1>4. at[p] = "unlinking" =>
       want[p] \in File /\ names[want[p]] = ip[p] /\ nlink[ip[p]] \in Nat \ {0}
  BY LinkFound
<1>5. CASE \E n \in File : Open(p, n)
  <2>1. iref' \in [INum -> Nat] /\ nlink' \in [INum -> Nat]
    BY FindsCounts, <1>5, <1>1, <1>2 DEF Open
  <2>2. itype' \in [INum -> BOOLEAN] /\ ivalid' \in [INum -> BOOLEAN]
    BY <1>5, <1>1, <1>2 DEF InodeTables, Open, Finds, Step, Iget, fileVars, slotVars, callVars
  <2>3. at' \in [User -> Places] /\ ip' \in [User -> INum \cup {NoInode}]
    BY <1>5, <1>1, <1>2 DEF InodeTables, Places, Open, Finds, Step, Iget, fileVars, slotVars, callVars
  <2> QED
    BY <2>1, <2>2, <2>3, <1>5, <1>1, <1>2 DEF InodeTables, Places, Open, Finds, Step, Iget, fileVars, slotVars, callVars
<1>6. CASE \E n \in File : Create(p, n)
  BY <1>6, <1>1, <1>2
  DEF InodeTables, Create, Step, Iget, fileVars, slotVars, callVars
<1>7. CASE \E n \in File : Unlink(p, n)
  <2>1. iref' \in [INum -> Nat] /\ nlink' \in [INum -> Nat]
    BY FindsCounts, <1>7, <1>1, <1>2 DEF Unlink
  <2>2. itype' \in [INum -> BOOLEAN] /\ ivalid' \in [INum -> BOOLEAN]
    BY <1>7, <1>1, <1>2 DEF InodeTables, Unlink, Finds, Step, Iget, fileVars, slotVars, callVars
  <2>3. at' \in [User -> Places] /\ ip' \in [User -> INum \cup {NoInode}]
    BY <1>7, <1>1, <1>2 DEF InodeTables, Places, Unlink, Finds, Step, Iget, fileVars, slotVars, callVars
  <2> QED
    BY <2>1, <2>2, <2>3, <1>7, <1>1, <1>2 DEF InodeTables, Places, Unlink, Finds, Step, Iget, fileVars, slotVars, callVars
<1>8. CASE \E old, n \in File : Link(p, old, n)
  <2>1. iref' \in [INum -> Nat] /\ nlink' \in [INum -> Nat]
    BY FindsCounts, <1>8, <1>1, <1>2 DEF Link
  <2>2. itype' \in [INum -> BOOLEAN] /\ ivalid' \in [INum -> BOOLEAN]
    BY <1>8, <1>1, <1>2 DEF InodeTables, Link, Finds, Step, Iget, fileVars, slotVars, callVars
  <2>3. at' \in [User -> Places] /\ ip' \in [User -> INum \cup {NoInode}]
    BY <1>8, <1>1, <1>2 DEF InodeTables, Places, Link, Finds, Step, Iget, fileVars, slotVars, callVars
  <2> QED
    BY <2>1, <2>2, <2>3, <1>8, <1>1, <1>2 DEF InodeTables, Places, Link, Finds, Step, Iget, fileVars, slotVars, callVars
<1>9. CASE CreateLock(p)
  BY <1>9, <1>1, <1>2
  DEF InodeTables, CreateLock, Step, Reads, fileVars, slotVars, callVars
<1>10. CASE OpenLock(p)
  <2>1. iref' \in [INum -> Nat] /\ nlink' \in [INum -> Nat]
    BY OneMore, OneLess, <1>10, <1>1, <1>2, <1>3 DEF InodeTables, OpenLock, Step, Reads, Panics, fileVars, slotVars, callVars
  <2>2. itype' \in [INum -> BOOLEAN] /\ ivalid' \in [INum -> BOOLEAN]
    BY <1>10, <1>1, <1>2, <1>3 DEF InodeTables, OpenLock, Step, Reads, Panics, fileVars, slotVars, callVars
  <2>3. at' \in [User -> Places] /\ ip' \in [User -> INum \cup {NoInode}]
    BY <1>10, <1>1, <1>2, <1>3 DEF InodeTables, Places, OpenLock, Step, Reads, Panics, fileVars, slotVars, callVars
  <2> QED
    BY <2>1, <2>2, <2>3, <1>10, <1>1, <1>2, <1>3 DEF InodeTables, Places, OpenLock, Step, Reads, Panics, fileVars, slotVars, callVars
<1>11. CASE OpenedNoFile(p)
  BY <1>11, <1>1, <1>2
  DEF InodeTables, OpenedNoFile, Step, fileVars, slotVars, callVars
<1>12. CASE UnlinkLock(p)
  <2>1. iref' \in [INum -> Nat] /\ nlink' \in [INum -> Nat]
    BY OneMore, OneLess, <1>12, <1>1, <1>2, <1>3, <1>4 DEF InodeTables, UnlinkLock, Step, Reads, Panics, fileVars, slotVars, callVars
  <2>2. itype' \in [INum -> BOOLEAN] /\ ivalid' \in [INum -> BOOLEAN]
    BY <1>12, <1>1, <1>2, <1>3, <1>4 DEF InodeTables, UnlinkLock, Step, Reads, Panics, fileVars, slotVars, callVars
  <2>3. at' \in [User -> Places] /\ ip' \in [User -> INum \cup {NoInode}]
    BY <1>12, <1>1, <1>2, <1>3, <1>4 DEF InodeTables, Places, UnlinkLock, Step, Reads, Panics, fileVars, slotVars, callVars
  <2>4. /\ ilocked' = [ilocked EXCEPT ![ip[p]] = p] /\ rootLocked' = NoHolder
        /\ names' = [names EXCEPT ![want[p]] = NoInode] /\ UNCHANGED <<fds, inOp, want, trouble>>
    BY <1>12, <1>3, <1>4 DEF UnlinkLock, Panics
  <2> QED
    BY <2>1, <2>2, <2>3, <2>4, <1>1, <1>2 DEF InodeTables, Places
<1>23. CASE UnlinkCount(p)
  <2>1. nlink[ip[p]] \in Nat \ {0} /\ ip[p] \in INum
    BY <1>23, CountFound DEF UnlinkCount, Step
  <2>2. nlink' \in [INum -> Nat]
    BY <1>23, <1>1, <2>1, OneLess DEF InodeTables, UnlinkCount
  <2> QED
    BY <2>1, <2>2, <1>23, <1>1
    DEF InodeTables, UnlinkCount, Step
<1>13. CASE LinkLock(p)
  <2>1. iref' \in [INum -> Nat] /\ nlink' \in [INum -> Nat]
    BY OneMore, OneLess, <1>13, <1>1, <1>2, <1>3 DEF InodeTables, LinkLock, Step, Reads, Panics, fileVars, slotVars, callVars
  <2>2. itype' \in [INum -> BOOLEAN] /\ ivalid' \in [INum -> BOOLEAN]
    BY <1>13, <1>1, <1>2, <1>3 DEF InodeTables, LinkLock, Step, Reads, Panics, fileVars, slotVars, callVars
  <2>3. at' \in [User -> Places] /\ ip' \in [User -> INum \cup {NoInode}]
    BY <1>13, <1>1, <1>2, <1>3 DEF InodeTables, Places, LinkLock, Step, Reads, Panics, fileVars, slotVars, callVars
  <2> QED
    BY <2>1, <2>2, <2>3, <1>13, <1>1, <1>2, <1>3 DEF InodeTables, Places, LinkLock, Step, Reads, Panics, fileVars, slotVars, callVars
<1>14. CASE LinkName(p)
  BY <1>14, <1>1, <1>2
  DEF InodeTables, LinkName, Step, fileVars, slotVars, callVars
<1>15. CASE \E f \in Fd : Opened(p, f)
  BY <1>15, <1>1, <1>2
  DEF InodeTables, Opened, Step, fileVars, slotVars, callVars
<1>16. CASE \E f \in Fd : Close(p, f)
  BY <1>16, <1>1, <1>2
  DEF InodeTables, Close, Step, fileVars, slotVars, callVars
<1>17. CASE IputLast(p)
  BY <1>17, <1>1, <1>2
  DEF InodeTables, IputLast, Step, fileVars, slotVars, callVars
<1>18. CASE Iput(p)
  <2>1. iref' \in [INum -> Nat] /\ nlink' \in [INum -> Nat]
    BY OneMore, OneLess, <1>18, <1>1, <1>2 DEF InodeTables, Iput, Step, LeaveCall, fileVars, slotVars, callVars
  <2>2. itype' \in [INum -> BOOLEAN] /\ ivalid' \in [INum -> BOOLEAN]
    BY <1>18, <1>1, <1>2 DEF InodeTables, Iput, Step, LeaveCall, fileVars, slotVars, callVars
  <2>3. at' \in [User -> Places] /\ ip' \in [User -> INum \cup {NoInode}]
    BY <1>18, <1>1, <1>2 DEF InodeTables, Places, Iput, Step, LeaveCall, fileVars, slotVars, callVars
  <2> QED
    BY <2>1, <2>2, <2>3, <1>18, <1>1, <1>2 DEF InodeTables, Places, Iput, Step, LeaveCall, fileVars, slotVars, callVars
<1>19. CASE FreeLock(p)
  BY <1>19, <1>1, <1>2
  DEF InodeTables, FreeLock, Step, fileVars, slotVars, callVars
<1>20. CASE FreeInode(p) /\ ~Panics("close")
  <2>1. iref' \in [INum -> Nat] /\ nlink' \in [INum -> Nat]
    BY OneMore, OneLess, <1>20, <1>1, <1>2 DEF InodeTables, FreeInode, Step, Panics, fileVars, slotVars, callVars
  <2>2. itype' \in [INum -> BOOLEAN] /\ ivalid' \in [INum -> BOOLEAN]
    BY <1>20, <1>1, <1>2 DEF InodeTables, FreeInode, Step, Panics, fileVars, slotVars, callVars
  <2>3. at' \in [User -> Places] /\ ip' \in [User -> INum \cup {NoInode}]
    BY <1>20, <1>1, <1>2 DEF InodeTables, Places, FreeInode, Step, Panics, fileVars, slotVars, callVars
  <2> QED
    BY <2>1, <2>2, <2>3, <1>20, <1>1, <1>2 DEF InodeTables, Places, FreeInode, Step, Panics, fileVars, slotVars, callVars
<1>21. CASE FreeUnlock(p)
  BY <1>21, <1>1, <1>2
  DEF InodeTables, FreeUnlock, Step, fileVars, slotVars, callVars
<1>22. CASE FreeUnref(p)
  <2>1. iref' \in [INum -> Nat] /\ nlink' \in [INum -> Nat]
    BY OneMore, OneLess, <1>22, <1>1, <1>2 DEF InodeTables, FreeUnref, Step, LeaveCall, fileVars, slotVars, callVars
  <2>2. itype' \in [INum -> BOOLEAN] /\ ivalid' \in [INum -> BOOLEAN]
    BY <1>22, <1>1, <1>2 DEF InodeTables, FreeUnref, Step, LeaveCall, fileVars, slotVars, callVars
  <2>3. at' \in [User -> Places] /\ ip' \in [User -> INum \cup {NoInode}]
    BY <1>22, <1>1, <1>2 DEF InodeTables, Places, FreeUnref, Step, LeaveCall, fileVars, slotVars, callVars
  <2> QED
    BY <2>1, <2>2, <2>3, <1>22, <1>1, <1>2 DEF InodeTables, Places, FreeUnref, Step, LeaveCall, fileVars, slotVars, callVars
<1> QED
  BY <1>5, <1>6, <1>7, <1>8, <1>9, <1>10, <1>11, <1>12, <1>13, <1>14, <1>15, <1>16, <1>17, <1>18, <1>19, <1>20, <1>21, <1>22, <1>23 DEF GoesOn

LEMMA CallsKept ==
  ASSUME InodeInv, NEW p \in User, GoesOn(p)
  PROVE  CallInv'
<1> USE InodeBasics
<1>1. InodeTables
  BY DEF InodeInv
<1>2. CallInv /\ LockInv
  BY DEF InodeInv
<1>3. at[p] \in {"opening", "unlinking", "linking"} => ~NoType(p)
  BY TypeFound
<1>4. at[p] = "unlinking" =>
       want[p] \in File /\ names[want[p]] = ip[p] /\ nlink[ip[p]] \in Nat \ {0}
  BY LinkFound
<1>5. CASE \E n \in File : Open(p, n)
  BY <1>5, <1>1, <1>2
  DEF InodeTables, CallInv, LockInv, Open, Finds, Step, Iget, fileVars, slotVars, callVars
<1>6. CASE \E n \in File : Create(p, n)
  BY <1>6, <1>1, <1>2
  DEF InodeTables, CallInv, LockInv, Create, Step, Iget, fileVars, slotVars, callVars
<1>7. CASE \E n \in File : Unlink(p, n)
  BY <1>7, <1>1, <1>2
  DEF InodeTables, CallInv, LockInv, Unlink, Finds, Step, Iget, fileVars, slotVars, callVars
<1>8. CASE \E old, n \in File : Link(p, old, n)
  BY <1>8, <1>1, <1>2
  DEF InodeTables, CallInv, LockInv, Link, Finds, Step, Iget, fileVars, slotVars, callVars
<1>9. CASE CreateLock(p)
  BY <1>9, <1>1, <1>2
  DEF InodeTables, CallInv, LockInv, CreateLock, Step, Reads, fileVars, slotVars, callVars
<1>10. CASE OpenLock(p)
  BY <1>10, <1>1, <1>2, <1>3
  DEF InodeTables, CallInv, LockInv, OpenLock, Step, Reads, Panics, fileVars, slotVars, callVars
<1>11. CASE OpenedNoFile(p)
  BY <1>11, <1>1, <1>2
  DEF InodeTables, CallInv, LockInv, OpenedNoFile, Step, fileVars, slotVars, callVars
<1>12. CASE UnlinkLock(p)
  BY <1>12, <1>1, <1>2, <1>3, <1>4
  DEF InodeTables, CallInv, LockInv, UnlinkLock, Step, Reads, Panics, fileVars, slotVars, callVars
<1>23. CASE UnlinkCount(p)
  BY <1>23, <1>1, <1>2
  DEF InodeTables, CallInv, LockInv, UnlinkCount, Step, fileVars, slotVars, callVars
<1>13. CASE LinkLock(p)
  BY <1>13, <1>1, <1>2, <1>3
  DEF InodeTables, CallInv, LockInv, LinkLock, Step, Reads, Panics, fileVars, slotVars, callVars
<1>14. CASE LinkName(p)
  BY <1>14, <1>1, <1>2
  DEF InodeTables, CallInv, LockInv, LinkName, Step, fileVars, slotVars, callVars
<1>15. CASE \E f \in Fd : Opened(p, f)
  BY <1>15, <1>1, <1>2
  DEF InodeTables, CallInv, LockInv, Opened, Step, fileVars, slotVars, callVars
<1>16. CASE \E f \in Fd : Close(p, f)
  BY <1>16, <1>1, <1>2
  DEF InodeTables, CallInv, LockInv, Close, Step, fileVars, slotVars, callVars
<1>17. CASE IputLast(p)
  BY <1>17, <1>1, <1>2
  DEF InodeTables, CallInv, LockInv, IputLast, Step, fileVars, slotVars, callVars
<1>18. CASE Iput(p)
  BY <1>18, <1>1, <1>2
  DEF InodeTables, CallInv, LockInv, Iput, Step, LeaveCall, fileVars, slotVars, callVars
<1>19. CASE FreeLock(p)
  BY <1>19, <1>1, <1>2
  DEF InodeTables, CallInv, LockInv, FreeLock, Step, fileVars, slotVars, callVars
<1>20. CASE FreeInode(p) /\ ~Panics("close")
  BY <1>20, <1>1, <1>2
  DEF InodeTables, CallInv, LockInv, FreeInode, Step, Panics, fileVars, slotVars, callVars
<1>21. CASE FreeUnlock(p)
  BY <1>21, <1>1, <1>2
  DEF InodeTables, CallInv, LockInv, FreeUnlock, Step, fileVars, slotVars, callVars
<1>22. CASE FreeUnref(p)
  BY <1>22, <1>1, <1>2
  DEF InodeTables, CallInv, LockInv, FreeUnref, Step, LeaveCall, fileVars, slotVars, callVars
<1> QED
  BY <1>5, <1>6, <1>7, <1>8, <1>9, <1>10, <1>11, <1>12, <1>13, <1>14, <1>15, <1>16, <1>17, <1>18, <1>19, <1>20, <1>21, <1>22, <1>23 DEF GoesOn

LEMMA LocksKept ==
  ASSUME InodeInv, NEW p \in User, GoesOn(p)
  PROVE  LockInv'
<1> USE InodeBasics
<1>1. InodeTables
  BY DEF InodeInv
<1>2. CallInv /\ LockInv
  BY DEF InodeInv
<1>3. at[p] # "out" => ip[p] \in INum /\ iref[ip[p]] \in Nat \ {0}
  BY InHand
<1>4. at[p] \in {"opening", "unlinking", "linking"} => ~NoType(p)
  BY TypeFound
<1>5. at[p] = "unlinking" =>
       want[p] \in File /\ names[want[p]] = ip[p] /\ nlink[ip[p]] \in Nat \ {0}
  BY LinkFound
<1>6. CASE \E n \in File : Open(p, n)
  BY <1>6, <1>1, <1>2, <1>3
  DEF InodeTables, CallInv, LockInv, Locking, Unlocked, Open, Finds, Step, Iget, fileVars, slotVars, callVars
<1>7. CASE \E n \in File : Create(p, n)
  BY <1>7, <1>1, <1>2, <1>3
  DEF InodeTables, CallInv, LockInv, Locking, Unlocked, Create, Step, Iget, fileVars, slotVars, callVars
<1>8. CASE \E n \in File : Unlink(p, n)
  BY <1>8, <1>1, <1>2, <1>3
  DEF InodeTables, CallInv, LockInv, Locking, Unlocked, Unlink, Finds, Step, Iget, fileVars, slotVars, callVars
<1>9. CASE \E old, n \in File : Link(p, old, n)
  BY <1>9, <1>1, <1>2, <1>3
  DEF InodeTables, CallInv, LockInv, Locking, Unlocked, Link, Finds, Step, Iget, fileVars, slotVars, callVars
<1>10. CASE CreateLock(p)
  BY <1>10, <1>1, <1>2, <1>3
  DEF InodeTables, CallInv, LockInv, Locking, Unlocked, CreateLock, Step, Reads, fileVars, slotVars, callVars
<1>11. CASE OpenLock(p)
  BY <1>11, <1>1, <1>2, <1>3, <1>4
  DEF InodeTables, CallInv, LockInv, Locking, Unlocked, OpenLock, Step, Reads, Panics, fileVars, slotVars, callVars
<1>12. CASE OpenedNoFile(p)
  BY <1>12, <1>1, <1>2, <1>3
  DEF InodeTables, CallInv, LockInv, Locking, Unlocked, OpenedNoFile, Step, fileVars, slotVars, callVars
<1>13. CASE UnlinkLock(p)
  BY <1>13, <1>1, <1>2, <1>3, <1>4, <1>5
  DEF InodeTables, CallInv, LockInv, Locking, Unlocked, UnlinkLock, Step, Reads, Panics, fileVars, slotVars, callVars
<1>24. CASE UnlinkCount(p)
  BY <1>24, <1>1, <1>2, <1>3
  DEF InodeTables, CallInv, LockInv, Locking, Unlocked, UnlinkCount, Step, fileVars, slotVars, callVars
<1>14. CASE LinkLock(p)
  BY <1>14, <1>1, <1>2, <1>3, <1>4
  DEF InodeTables, CallInv, LockInv, Locking, Unlocked, LinkLock, Step, Reads, Panics, fileVars, slotVars, callVars
<1>15. CASE LinkName(p)
  BY <1>15, <1>1, <1>2, <1>3
  DEF InodeTables, CallInv, LockInv, Locking, Unlocked, LinkName, Step, fileVars, slotVars, callVars
<1>16. CASE \E f \in Fd : Opened(p, f)
  BY <1>16, <1>1, <1>2, <1>3
  DEF InodeTables, CallInv, LockInv, Locking, Unlocked, Opened, Step, fileVars, slotVars, callVars
<1>17. CASE \E f \in Fd : Close(p, f)
  BY <1>17, <1>1, <1>2, <1>3
  DEF InodeTables, CallInv, LockInv, Locking, Unlocked, Close, Step, fileVars, slotVars, callVars
<1>18. CASE IputLast(p)
  BY <1>18, <1>1, <1>2, <1>3
  DEF InodeTables, CallInv, LockInv, Locking, Unlocked, IputLast, Step, fileVars, slotVars, callVars
<1>19. CASE Iput(p)
  BY <1>19, <1>1, <1>2, <1>3
  DEF InodeTables, CallInv, LockInv, Locking, Unlocked, Iput, Step, LeaveCall, fileVars, slotVars, callVars
<1>20. CASE FreeLock(p)
  BY <1>20, <1>1, <1>2, <1>3
  DEF InodeTables, CallInv, LockInv, Locking, Unlocked, FreeLock, Step, fileVars, slotVars, callVars
<1>21. CASE FreeInode(p) /\ ~Panics("close")
  BY <1>21, <1>1, <1>2, <1>3
  DEF InodeTables, CallInv, LockInv, Locking, Unlocked, FreeInode, Step, Panics, fileVars, slotVars, callVars
<1>22. CASE FreeUnlock(p)
  BY <1>22, <1>1, <1>2, <1>3
  DEF InodeTables, CallInv, LockInv, Locking, Unlocked, FreeUnlock, Step, fileVars, slotVars, callVars
<1>23. CASE FreeUnref(p)
  BY <1>23, <1>1, <1>2, <1>3
  DEF InodeTables, CallInv, LockInv, Locking, Unlocked, FreeUnref, Step, LeaveCall, fileVars, slotVars, callVars
<1> QED
  BY <1>6, <1>7, <1>8, <1>9, <1>10, <1>11, <1>12, <1>13, <1>14, <1>15, <1>16, <1>17, <1>18, <1>19, <1>20, <1>21, <1>22, <1>23, <1>24 DEF GoesOn

\* The same, inode by inode and without sets.
NeverFreedOf(i) ==
  /\ \A n \in File : names[n] # i
  /\ \A q \in User, f \in Fd : fds[q][f] # i
  /\ \A q \in User : ip[q] = i => at[q] \in {"freed", "unref"}

NeverFreed == \A i \in INum : ~itype[i] => NeverFreedOf(i)

LEMMA ReachedBy ==
  ASSUME NEW i
  PROVE  /\ (FdsOf(i) = {}) <=> (\A q \in User, f \in Fd : fds[q][f] # i)
         /\ (NamesOf(i) = {}) <=> (\A n \in File : names[n] # i)
         /\ (CallsOn(i) = {}) <=> (\A q \in User : ip[q] # i)
<1>1. (FdsOf(i) = {}) <=> (\A q \in User, f \in Fd : fds[q][f] # i)
  <2>1. ASSUME NEW q \in User, NEW f \in Fd, fds[q][f] = i PROVE <<q, f>> \in FdsOf(i)
    BY <2>1 DEF FdsOf
  <2>2. ASSUME NEW d \in FdsOf(i) PROVE \E q \in User, f \in Fd : fds[q][f] = i
    BY DEF FdsOf
  <2> QED
    BY <2>1, <2>2
<1>2. (NamesOf(i) = {}) <=> (\A n \in File : names[n] # i)
  <2>1. \A n : n \in NamesOf(i) <=> n \in File /\ names[n] = i
    BY DEF NamesOf
  <2> QED
    BY <2>1
<1>3. (CallsOn(i) = {}) <=> (\A q \in User : ip[q] # i)
  <2>1. \A q : q \in CallsOn(i) <=> q \in User /\ ip[q] = i
    BY DEF CallsOn
  <2> QED
    BY <2>1
<1> QED
  BY <1>1, <1>2, <1>3

LEMMA NeverFreedIs == NeverFreedInUse <=> NeverFreed
<1>1. ASSUME NEW i \in INum
      PROVE  (/\ NamesOf(i) = {} /\ FdsOf(i) = {}
              /\ \A p \in CallsOn(i) : at[p] \in {"freed", "unref"})
             <=> NeverFreedOf(i)
  <2>1. (\A p \in CallsOn(i) : at[p] \in {"freed", "unref"})
        <=> (\A q \in User : ip[q] = i => at[q] \in {"freed", "unref"})
    BY DEF CallsOn
  <2>2. (FdsOf(i) = {}) <=> (\A q \in User, f \in Fd : fds[q][f] # i)
    BY ReachedBy
  <2>3. (NamesOf(i) = {}) <=> (\A n \in File : names[n] # i)
    BY ReachedBy
  <2> HIDE DEF NamesOf, FdsOf, CallsOn
  <2> QED
    BY <2>1, <2>2, <2>3 DEF NeverFreedOf
<1> QED
  BY <1>1 DEF NeverFreedInUse, NeverFreed

LEMMA NeverFreedNext == NeverFreedInUse' <=> NeverFreed'
BY NeverFreedIs, PTL

\* The inode that iput is about to free is nobody else's.
LEMMA OnlyTheLast ==
  ASSUME InodeInv, NEW p \in User, at[p] = "iput", LastOfUnlinked(ip[p])
  PROVE  OnlyCalls(ip[p], {}, p)
<1>1. FdsOf(ip[p]) = {} /\ CallsOn(ip[p]) = {p} /\ ip[p] \in INum
  BY LastReference, InHand DEF LastOfUnlinked
<1>2. NamesOf(ip[p]) = {}
  BY <1>1, Unlinked DEF LastOfUnlinked
<1>3. \A q \in User \ {p} : ip[q] # ip[p]
  BY <1>1 DEF CallsOn
<1> QED
  BY <1>1, <1>2, <1>3, ReachedBy DEF OnlyCalls

LEMMA FreeingKept ==
  ASSUME InodeInv, NEW p \in User, GoesOn(p)
  PROVE  FreeingInv'
<1> USE InodeBasics
<1>1. InodeTables
  BY DEF InodeInv
<1>2. at[p] # "out" => ip[p] \in INum /\ iref[ip[p]] \in Nat \ {0}
  BY InHand
<1>3. CallInv /\ LockInv /\ NeverFreed
  BY NeverFreedIs DEF InodeInv
<1>4. FreeingInv
  BY DEF InodeInv
<1>5. at[p] = "iput" /\ LastOfUnlinked(ip[p]) => OnlyCalls(ip[p], {}, p)
  BY OnlyTheLast
<1>6. at[p] \in {"opening", "unlinking", "linking"} => ~NoType(p)
  BY TypeFound
<1>7. at[p] = "unlinking" =>
       want[p] \in File /\ names[want[p]] = ip[p] /\ nlink[ip[p]] \in Nat \ {0}
  BY LinkFound
<1>8. CASE \E n \in File : Open(p, n)
  BY <1>8, <1>1, <1>2, <1>3, <1>4
  DEF InodeTables, CallInv, LockInv, FreeingInv, OnlyCalls, NeverFreed, NeverFreedOf, Unlocked, Locking, Open, Finds, Step, Iget, fileVars, slotVars, callVars
<1>9. CASE \E n \in File : Create(p, n)
  BY <1>9, <1>1, <1>2, <1>3, <1>4
  DEF InodeTables, CallInv, LockInv, FreeingInv, OnlyCalls, NeverFreed, NeverFreedOf, Unlocked, Locking, Create, Step, Iget, fileVars, slotVars, callVars
<1>10. CASE \E n \in File : Unlink(p, n)
  BY <1>10, <1>1, <1>2, <1>3, <1>4
  DEF InodeTables, CallInv, LockInv, FreeingInv, OnlyCalls, NeverFreed, NeverFreedOf, Unlocked, Locking, Unlink, Finds, Step, Iget, fileVars, slotVars, callVars
<1>11. CASE \E old, n \in File : Link(p, old, n)
  BY <1>11, <1>1, <1>2, <1>3, <1>4
  DEF InodeTables, CallInv, LockInv, FreeingInv, OnlyCalls, NeverFreed, NeverFreedOf, Unlocked, Locking, Link, Finds, Step, Iget, fileVars, slotVars, callVars
<1>12. CASE CreateLock(p)
  <2> SUFFICES ASSUME NEW q \in User, at'[q] \in {"freeing", "trunc", "freed", "creating"}
               PROVE  /\ at'[q] \in {"freeing", "trunc"} => OnlyCalls(ip[q], {}, q)'
                      /\ at'[q] = "freed" => OnlyCalls(ip[q], {"creating"}, q)'
                      /\ at'[q] = "creating" => OnlyCalls(ip[q], {"freed", "unref"}, q)'
    BY DEF FreeingInv, OnlyCalls
  <2>1. at[p] = "creating" /\ at' = [at EXCEPT ![p] = "opened"] /\ ip' = ip /\ fds' = fds
        /\ names' = [names EXCEPT ![want[p]] = ip[p]] /\ ilocked[ip[p]] = NoHolder
    BY <1>12 DEF CreateLock, Step, Unlocked
  <2>2. q # p /\ at'[q] = at[q] /\ q # NoHolder /\ p # NoHolder
    BY <2>1, <1>1, <1>2, <1>3, <1>4 DEF InodeTables
  <2>3. at[q] # "creating"
    BY <2>1, <2>2, <1>1, <1>2, <1>3, <1>4 DEF LockInv
  <2>4. ip[q] # ip[p]
    <3>1. CASE at[q] = "freed"
      <4>1. ip[p] \in INum
        BY <2>1, <1>1, <1>2, <1>3, <1>4
      <4>2. ip[q] = ip[p] => ilocked[ip[p]] = q
        BY <3>1, <4>1, <1>1, <1>2, <1>3, <1>4 DEF LockInv, Locking
      <4> QED
        BY <2>1, <2>2, <4>2
    <3>2. CASE at[q] \in {"freeing", "trunc"}
      <4>1. OnlyCalls(ip[q], {}, q)
        BY <3>2, <1>1, <1>2, <1>3, <1>4 DEF FreeingInv
      <4> QED
        BY <2>2, <4>1 DEF OnlyCalls
    <3> QED
      BY <2>2, <2>3, <3>1, <3>2
  <2> QED
    BY <2>1, <2>2, <2>3, <2>4, <1>1, <1>2, <1>3, <1>4 DEF InodeTables, FreeingInv, OnlyCalls
<1>13. CASE OpenLock(p)
  <2>1. /\ at[p] = "opening" /\ at' = [at EXCEPT ![p] = "opened"]
        /\ ip' = ip /\ fds' = fds /\ names' = names
    BY <1>13, <1>6 DEF OpenLock, Step, fileVars
  <2> QED
    BY <2>1, <1>1, <1>4 DEF InodeTables, FreeingInv, OnlyCalls
<1>14. CASE OpenedNoFile(p)
  BY <1>14, <1>1, <1>2, <1>3, <1>4
  DEF InodeTables, CallInv, LockInv, FreeingInv, OnlyCalls, NeverFreed, NeverFreedOf, Unlocked, Locking, OpenedNoFile, Step, fileVars, slotVars, callVars
<1>15. CASE UnlinkLock(p)
  BY <1>15, <1>1, <1>2, <1>3, <1>4, <1>6, <1>7
  DEF InodeTables, CallInv, LockInv, FreeingInv, OnlyCalls, NeverFreed, NeverFreedOf, Unlocked, Locking, UnlinkLock, Step, Reads, Panics, fileVars, slotVars, callVars
<1>26. CASE UnlinkCount(p)
  BY <1>26, <1>1, <1>2, <1>3, <1>4
  DEF InodeTables, CallInv, LockInv, FreeingInv, OnlyCalls, NeverFreed, NeverFreedOf, Unlocked, Locking, UnlinkCount, Step, fileVars, slotVars, callVars
<1>16. CASE LinkLock(p)
  BY <1>16, <1>1, <1>2, <1>3, <1>4, <1>6
  DEF InodeTables, CallInv, LockInv, FreeingInv, OnlyCalls, NeverFreed, NeverFreedOf, Unlocked, Locking, LinkLock, Step, Reads, Panics, fileVars, slotVars, callVars
<1>17. CASE LinkName(p)
  BY <1>17, <1>1, <1>2, <1>3, <1>4
  DEF InodeTables, CallInv, LockInv, FreeingInv, OnlyCalls, NeverFreed, NeverFreedOf, Unlocked, Locking, LinkName, Step, fileVars, slotVars, callVars
<1>18. CASE \E f \in Fd : Opened(p, f)
  BY <1>18, <1>1, <1>2, <1>3, <1>4
  DEF InodeTables, CallInv, LockInv, FreeingInv, OnlyCalls, NeverFreed, NeverFreedOf, Unlocked, Locking, Opened, Step, fileVars, slotVars, callVars
<1>19. CASE \E f \in Fd : Close(p, f)
  BY <1>19, <1>1, <1>2, <1>3, <1>4
  DEF InodeTables, CallInv, LockInv, FreeingInv, OnlyCalls, NeverFreed, NeverFreedOf, Unlocked, Locking, Close, Step, fileVars, slotVars, callVars
<1>20. CASE IputLast(p)
  BY <1>20, <1>1, <1>2, <1>3, <1>4, <1>5
  DEF InodeTables, CallInv, LockInv, FreeingInv, OnlyCalls, NeverFreed, NeverFreedOf, Unlocked, Locking, IputLast, Step, fileVars, slotVars, callVars
<1>21. CASE Iput(p)
  BY <1>21, <1>1, <1>2, <1>3, <1>4
  DEF InodeTables, CallInv, LockInv, FreeingInv, OnlyCalls, NeverFreed, NeverFreedOf, Unlocked, Locking, Iput, Step, LeaveCall, fileVars, slotVars, callVars
<1>22. CASE FreeLock(p)
  BY <1>22, <1>1, <1>2, <1>3, <1>4
  DEF InodeTables, CallInv, LockInv, FreeingInv, OnlyCalls, NeverFreed, NeverFreedOf, Unlocked, Locking, FreeLock, Step, fileVars, slotVars, callVars
<1>23. CASE FreeInode(p) /\ ~Panics("close")
  <2>1. /\ at[p] = "trunc" /\ at' = [at EXCEPT ![p] = "freed"]
        /\ ip' = ip /\ fds' = fds /\ names' = names
    BY <1>23 DEF FreeInode, Step
  <2> QED
    BY <2>1, <1>1, <1>4 DEF InodeTables, FreeingInv, OnlyCalls
<1>24. CASE FreeUnlock(p)
  BY <1>24, <1>1, <1>2, <1>3, <1>4
  DEF InodeTables, CallInv, LockInv, FreeingInv, OnlyCalls, NeverFreed, NeverFreedOf, Unlocked, Locking, FreeUnlock, Step, fileVars, slotVars, callVars
<1>25. CASE FreeUnref(p)
  BY <1>25, <1>1, <1>2, <1>3, <1>4
  DEF InodeTables, CallInv, LockInv, FreeingInv, OnlyCalls, NeverFreed, NeverFreedOf, Unlocked, Locking, FreeUnref, Step, LeaveCall, fileVars, slotVars, callVars
<1> QED
  BY <1>8, <1>9, <1>10, <1>11, <1>12, <1>13, <1>14, <1>15, <1>16, <1>17, <1>18, <1>19, <1>20, <1>21, <1>22, <1>23, <1>24, <1>25, <1>26 DEF GoesOn

LEMMA ValidKept ==
  ASSUME InodeInv, NEW p \in User, GoesOn(p)
  PROVE  ValidInv'
<1> USE InodeBasics
<1>1. InodeTables
  BY DEF InodeInv
<1>2. at[p] # "out" => ip[p] \in INum /\ iref[ip[p]] \in Nat \ {0}
  BY InHand
<1>3. CallInv /\ LockInv /\ NeverFreed
  BY NeverFreedIs DEF InodeInv
<1>4. FreeingInv
  BY DEF InodeInv
<1>5. ValidInv
  BY DEF InodeInv
<1>6. \A i \in INum : ~(iref[i] > 0) =>
       (\A q \in User : ip[q] # i) /\ (\A q \in User, f \in Fd : fds[q][f] # i)
  BY Unreferenced, ReachedBy
<1>7. \A q \in User : at[q] # "out" => ip[q] \in INum /\ iref[ip[q]] > 0
  <2> SUFFICES ASSUME NEW q \in User, at[q] # "out" PROVE ip[q] \in INum /\ iref[ip[q]] > 0
    OBVIOUS
  <2>1. ip[q] \in INum /\ iref[ip[q]] \in Nat \ {0}
    BY InHand
  <2> QED
    BY <2>1
<1>8. \A q \in User, f \in Fd : fds[q][f] # NoInode => fds[q][f] \in INum /\ iref[fds[q][f]] > 0
  <2> SUFFICES ASSUME NEW q \in User, NEW f \in Fd, fds[q][f] # NoInode
               PROVE  fds[q][f] \in INum /\ iref[fds[q][f]] > 0
    OBVIOUS
  <2>1. fds[q][f] \in INum
    BY <1>1 DEF InodeTables
  <2> QED
    BY <2>1, <1>6
<1>9. ASSUME NEW n \in File, NEW to \in {"opening", "unlinking", "linking"}, Finds(p, n, to)
      PROVE  ValidInv'
  <2>1. /\ names[n] # NoInode /\ at[p] = "out" /\ fds' = fds /\ ip' = [ip EXCEPT ![p] = names[n]]
        /\ at' = [at EXCEPT ![p] = to] /\ ivalid' = [ivalid EXCEPT ![names[n]] = @ /\ iref[names[n]] > 0]
    BY <1>9 DEF Finds, Step, Iget
  <2>2. \A j \in INum : ivalid[j] /\ iref[j] > 0 => ivalid'[j]
    BY <2>1, <1>1 DEF InodeTables
  <2>3. \A q \in User : q # p => ip'[q] = ip[q] /\ at'[q] = at[q]
    BY <2>1, <1>1 DEF InodeTables
  <2>4. at'[p] = to /\ to \notin Ahead \cup {"opened", "iput"}
    BY <2>1, <1>1 DEF InodeTables, Ahead
  <2>5. \A q \in User : at'[q] \in Ahead \cup {"opened", "iput"} => ivalid'[ip'[q]]
    BY <2>2, <2>3, <2>4, <1>5, <1>7 DEF ValidInv, Ahead
  <2>6. \A q \in User, f \in Fd : fds'[q][f] # NoInode => ivalid'[fds'[q][f]]
    BY <2>1, <2>2, <1>5, <1>8 DEF ValidInv
  <2> QED
    BY <2>5, <2>6 DEF ValidInv
<1>10. at[p] \in {"opening", "unlinking", "linking"} => ~NoType(p)
  BY TypeFound
<1>11. at[p] = "unlinking" =>
       want[p] \in File /\ names[want[p]] = ip[p] /\ nlink[ip[p]] \in Nat \ {0}
  BY LinkFound
<1>12. CASE \E n \in File : Open(p, n)
  BY <1>12, <1>9 DEF Open
<1>13. CASE \E n \in File : Create(p, n)
  BY <1>13, <1>1, <1>2, <1>3, <1>4, <1>5, <1>6
  DEF InodeTables, CallInv, LockInv, FreeingInv, OnlyCalls, NeverFreed, NeverFreedOf, ValidInv, Create, Step, Iget, fileVars, slotVars, callVars, Ahead
<1>14. CASE \E n \in File : Unlink(p, n)
  BY <1>14, <1>9 DEF Unlink
<1>15. CASE \E old, n \in File : Link(p, old, n)
  BY <1>15, <1>9 DEF Link
<1>16. CASE CreateLock(p)
  BY <1>16, <1>1, <1>2, <1>3, <1>4, <1>5
  DEF InodeTables, CallInv, LockInv, FreeingInv, OnlyCalls, NeverFreed, NeverFreedOf, ValidInv, CreateLock, Step, Reads, fileVars, slotVars, callVars
<1>17. CASE OpenLock(p)
  <2>1. ip' = ip /\ fds' = fds /\ \E to : at' = [at EXCEPT ![p] = to]
    BY <1>17, <1>1, <1>2, <1>3, <1>4, <1>5, <1>10 DEF OpenLock, Panics, Step, fileVars, slotVars, callVars
  <2>2. ivalid' = [ivalid EXCEPT ![ip[p]] = TRUE] /\ at[p] # "out"
    BY <1>17, <1>1, <1>2, <1>3, <1>4, <1>5, <1>10 DEF OpenLock, Panics, Step, Reads
  <2> QED
    BY <2>1, <2>2, <1>1, <1>2, <1>3, <1>4, <1>5 DEF InodeTables, CallInv, ValidInv
<1>18. CASE OpenedNoFile(p)
  BY <1>18, <1>1, <1>2, <1>3, <1>4, <1>5
  DEF InodeTables, CallInv, LockInv, FreeingInv, OnlyCalls, NeverFreed, NeverFreedOf, ValidInv, OpenedNoFile, Step, fileVars, slotVars, callVars
<1>19. CASE UnlinkLock(p)
  <2>1. ip' = ip /\ fds' = fds /\ \E to : at' = [at EXCEPT ![p] = to]
    BY <1>19, <1>1, <1>2, <1>3, <1>4, <1>5, <1>10, <1>11 DEF UnlinkLock, Panics, Step, fileVars, slotVars, callVars
  <2>2. ivalid' = [ivalid EXCEPT ![ip[p]] = TRUE] /\ at[p] # "out"
    BY <1>19, <1>1, <1>2, <1>3, <1>4, <1>5, <1>10, <1>11 DEF UnlinkLock, Panics, Step, Reads
  <2> QED
    BY <2>1, <2>2, <1>1, <1>2, <1>3, <1>4, <1>5 DEF InodeTables, CallInv, ValidInv
<1>30. CASE UnlinkCount(p)
  BY <1>30, <1>1, <1>2, <1>5
  DEF InodeTables, CallInv, ValidInv, Ahead, UnlinkCount, Step, fileVars, slotVars, callVars
<1>20. CASE LinkLock(p)
  <2>1. ip' = ip /\ fds' = fds /\ \E to : at' = [at EXCEPT ![p] = to]
    BY <1>20, <1>1, <1>2, <1>3, <1>4, <1>5, <1>10 DEF LinkLock, Panics, Step, fileVars, slotVars, callVars
  <2>2. ivalid' = [ivalid EXCEPT ![ip[p]] = TRUE] /\ at[p] # "out"
    BY <1>20, <1>1, <1>2, <1>3, <1>4, <1>5, <1>10 DEF LinkLock, Panics, Step, Reads
  <2> QED
    BY <2>1, <2>2, <1>1, <1>2, <1>3, <1>4, <1>5 DEF InodeTables, CallInv, ValidInv
<1>21. CASE LinkName(p)
  BY <1>21, <1>1, <1>2, <1>3, <1>4, <1>5
  DEF InodeTables, CallInv, LockInv, FreeingInv, OnlyCalls, NeverFreed, NeverFreedOf, ValidInv, LinkName, Step, fileVars, slotVars, callVars, Ahead
<1>22. CASE \E f \in Fd : Opened(p, f)
  BY <1>22, <1>1, <1>2, <1>3, <1>4, <1>5
  DEF InodeTables, CallInv, LockInv, FreeingInv, OnlyCalls, NeverFreed, NeverFreedOf, ValidInv, Opened, Step, fileVars, slotVars, callVars, Ahead
<1>23. CASE \E f \in Fd : Close(p, f)
  BY <1>23, <1>1, <1>2, <1>3, <1>4, <1>5
  DEF InodeTables, CallInv, LockInv, FreeingInv, OnlyCalls, NeverFreed, NeverFreedOf, ValidInv, Close, Step, fileVars, slotVars, callVars
<1>24. CASE IputLast(p)
  BY <1>24, <1>1, <1>2, <1>3, <1>4, <1>5
  DEF InodeTables, CallInv, LockInv, FreeingInv, OnlyCalls, NeverFreed, NeverFreedOf, ValidInv, IputLast, Step, fileVars, slotVars, callVars
<1>25. CASE Iput(p)
  BY <1>25, <1>1, <1>2, <1>3, <1>4, <1>5
  DEF InodeTables, CallInv, LockInv, FreeingInv, OnlyCalls, NeverFreed, NeverFreedOf, ValidInv, Iput, Step, LeaveCall, fileVars, slotVars, callVars, Ahead
<1>26. CASE FreeLock(p)
  BY <1>26, <1>1, <1>2, <1>3, <1>4, <1>5
  DEF InodeTables, CallInv, LockInv, FreeingInv, OnlyCalls, NeverFreed, NeverFreedOf, ValidInv, FreeLock, Step, fileVars, slotVars, callVars, Ahead
<1>27. CASE FreeInode(p) /\ ~Panics("close")
  BY <1>27, <1>1, <1>2, <1>3, <1>4, <1>5
  DEF InodeTables, CallInv, LockInv, FreeingInv, OnlyCalls, NeverFreed, NeverFreedOf, ValidInv, FreeInode, Step, Panics, fileVars, slotVars, callVars, Ahead
<1>28. CASE FreeUnlock(p)
  BY <1>28, <1>1, <1>2, <1>3, <1>4, <1>5
  DEF InodeTables, CallInv, LockInv, FreeingInv, OnlyCalls, NeverFreed, NeverFreedOf, ValidInv, FreeUnlock, Step, fileVars, slotVars, callVars, Ahead
<1>29. CASE FreeUnref(p)
  BY <1>29, <1>1, <1>2, <1>3, <1>4, <1>5
  DEF InodeTables, CallInv, LockInv, FreeingInv, OnlyCalls, NeverFreed, NeverFreedOf, ValidInv, FreeUnref, Step, LeaveCall, fileVars, slotVars, callVars, Ahead
<1> QED
  BY <1>12, <1>13, <1>14, <1>15, <1>16, <1>17, <1>18, <1>19, <1>20, <1>21, <1>22, <1>23, <1>24, <1>25, <1>26, <1>27, <1>28, <1>29, <1>30 DEF GoesOn

LEMMA NeverFreedKept ==
  ASSUME InodeInv, NEW p \in User, GoesOn(p)
  PROVE  NeverFreed'
<1> USE InodeBasics
<1>1. InodeTables
  BY DEF InodeInv
<1>2. at[p] # "out" => ip[p] \in INum /\ iref[ip[p]] \in Nat \ {0}
  BY InHand
<1>3. CallInv /\ LockInv /\ NeverFreed
  BY NeverFreedIs DEF InodeInv
<1>4. FreeingInv
  BY DEF InodeInv
<1>5. at[p] \in {"opening", "unlinking", "linking"} => ~NoType(p)
  BY TypeFound
<1>6. at[p] = "unlinking" =>
       want[p] \in File /\ names[want[p]] = ip[p] /\ nlink[ip[p]] \in Nat \ {0}
  BY LinkFound
<1>7. CASE \E n \in File : Open(p, n)
  BY <1>7, <1>1, <1>2, <1>3, <1>4
  DEF InodeTables, CallInv, LockInv, FreeingInv, OnlyCalls, NeverFreed, NeverFreedOf, Open, Finds, Step, Iget, fileVars, slotVars, callVars
<1>8. CASE \E n \in File : Create(p, n)
  <2>1. PICK n \in File : Create(p, n)
    BY <1>8
  <2>2. PICK i \in INum : itype' = [itype EXCEPT ![i] = TRUE] /\ ip' = [ip EXCEPT ![p] = i]
    BY <2>1 DEF Create, Iget
  <2>3. names' = names /\ fds' = fds /\ at' = [at EXCEPT ![p] = "creating"]
    BY <2>1 DEF Create, Step
  <2> QED
    BY <2>2, <2>3, <1>1, <1>2, <1>3, <1>4 DEF InodeTables, NeverFreed, NeverFreedOf
<1>9. CASE \E n \in File : Unlink(p, n)
  BY <1>9, <1>1, <1>2, <1>3, <1>4
  DEF InodeTables, CallInv, LockInv, FreeingInv, OnlyCalls, NeverFreed, NeverFreedOf, Unlink, Finds, Step, Iget, fileVars, slotVars, callVars
<1>10. CASE \E old, n \in File : Link(p, old, n)
  BY <1>10, <1>1, <1>2, <1>3, <1>4
  DEF InodeTables, CallInv, LockInv, FreeingInv, OnlyCalls, NeverFreed, NeverFreedOf, Link, Finds, Step, Iget, fileVars, slotVars, callVars
<1>11. CASE CreateLock(p)
  BY <1>11, <1>1, <1>2, <1>3, <1>4
  DEF InodeTables, CallInv, LockInv, FreeingInv, OnlyCalls, NeverFreed, NeverFreedOf, CreateLock, Step, Reads, fileVars, slotVars, callVars
<1>12. CASE OpenLock(p)
  BY <1>12, <1>1, <1>2, <1>3, <1>4, <1>5
  DEF InodeTables, CallInv, LockInv, FreeingInv, OnlyCalls, NeverFreed, NeverFreedOf, OpenLock, Step, Reads, Panics, fileVars, slotVars, callVars
<1>13. CASE OpenedNoFile(p)
  BY <1>13, <1>1, <1>2, <1>3, <1>4
  DEF InodeTables, CallInv, LockInv, FreeingInv, OnlyCalls, NeverFreed, NeverFreedOf, OpenedNoFile, Step, fileVars, slotVars, callVars
<1>14. CASE UnlinkLock(p)
  BY <1>14, <1>1, <1>2, <1>3, <1>4, <1>5, <1>6
  DEF InodeTables, CallInv, LockInv, FreeingInv, OnlyCalls, NeverFreed, NeverFreedOf, UnlinkLock, Step, Reads, Panics, fileVars, slotVars, callVars
<1>25. CASE UnlinkCount(p)
  BY <1>25, <1>1, <1>2, <1>3, <1>4
  DEF InodeTables, CallInv, LockInv, FreeingInv, OnlyCalls, NeverFreed, NeverFreedOf, UnlinkCount, Step, fileVars, slotVars, callVars
<1>15. CASE LinkLock(p)
  BY <1>15, <1>1, <1>2, <1>3, <1>4, <1>5
  DEF InodeTables, CallInv, LockInv, FreeingInv, OnlyCalls, NeverFreed, NeverFreedOf, LinkLock, Step, Reads, Panics, fileVars, slotVars, callVars
<1>16. CASE LinkName(p)
  BY <1>16, <1>1, <1>2, <1>3, <1>4
  DEF InodeTables, CallInv, LockInv, FreeingInv, OnlyCalls, NeverFreed, NeverFreedOf, LinkName, Step, fileVars, slotVars, callVars
<1>17. CASE \E f \in Fd : Opened(p, f)
  BY <1>17, <1>1, <1>2, <1>3, <1>4
  DEF InodeTables, CallInv, LockInv, FreeingInv, OnlyCalls, NeverFreed, NeverFreedOf, Opened, Step, fileVars, slotVars, callVars
<1>18. CASE \E f \in Fd : Close(p, f)
  BY <1>18, <1>1, <1>2, <1>3, <1>4
  DEF InodeTables, CallInv, LockInv, FreeingInv, OnlyCalls, NeverFreed, NeverFreedOf, Close, Step, fileVars, slotVars, callVars
<1>19. CASE IputLast(p)
  BY <1>19, <1>1, <1>2, <1>3, <1>4
  DEF InodeTables, CallInv, LockInv, FreeingInv, OnlyCalls, NeverFreed, NeverFreedOf, IputLast, Step, fileVars, slotVars, callVars
<1>20. CASE Iput(p)
  BY <1>20, <1>1, <1>2, <1>3, <1>4
  DEF InodeTables, CallInv, LockInv, FreeingInv, OnlyCalls, NeverFreed, NeverFreedOf, Iput, Step, LeaveCall, fileVars, slotVars, callVars
<1>21. CASE FreeLock(p)
  BY <1>21, <1>1, <1>2, <1>3, <1>4
  DEF InodeTables, CallInv, LockInv, FreeingInv, OnlyCalls, NeverFreed, NeverFreedOf, FreeLock, Step, fileVars, slotVars, callVars
<1>22. CASE FreeInode(p) /\ ~Panics("close")
  <2>1. /\ at[p] = "trunc" /\ at' = [at EXCEPT ![p] = "freed"]
        /\ itype' = [itype EXCEPT ![ip[p]] = FALSE]
        /\ names' = names /\ fds' = fds /\ ip' = ip
    BY <1>22 DEF FreeInode, Step, Panics, fileVars, slotVars, callVars
  <2>2. OnlyCalls(ip[p], {}, p)
    BY <2>1, <1>4 DEF FreeingInv
  <2>3. ASSUME NEW i \in INum, i = ip[p] PROVE NeverFreedOf(i)'
    BY <2>3, <2>1, <2>2, <1>1 DEF InodeTables, OnlyCalls, NeverFreedOf
  <2>4. ASSUME NEW i \in INum, i # ip[p], ~itype'[i] PROVE NeverFreedOf(i)'
    <3>1. NeverFreedOf(i)
      BY <2>1, <2>4, <1>1, <1>3 DEF InodeTables, NeverFreed
    <3> QED
      BY <2>1, <2>4, <3>1, <1>1 DEF InodeTables, NeverFreedOf
  <2> QED
    BY <2>3, <2>4 DEF NeverFreed
<1>23. CASE FreeUnlock(p)
  BY <1>23, <1>1, <1>2, <1>3, <1>4
  DEF InodeTables, CallInv, LockInv, FreeingInv, OnlyCalls, NeverFreed, NeverFreedOf, FreeUnlock, Step, fileVars, slotVars, callVars
<1>24. CASE FreeUnref(p)
  BY <1>24, <1>1, <1>2, <1>3, <1>4
  DEF InodeTables, CallInv, LockInv, FreeingInv, OnlyCalls, NeverFreed, NeverFreedOf, FreeUnref, Step, LeaveCall, fileVars, slotVars, callVars
<1> QED
  BY <1>7, <1>8, <1>9, <1>10, <1>11, <1>12, <1>13, <1>14, <1>15, <1>16, <1>17, <1>18, <1>19, <1>20, <1>21, <1>22, <1>23, <1>24, <1>25 DEF GoesOn

LEMMA AddOne ==
  ASSUME NEW S, IsFiniteSet(S), NEW x, x \notin S
  PROVE  Cardinality(S \cup {x}) = Cardinality(S) + 1
BY FS_AddElement

LEMMA DropOne ==
  ASSUME NEW S, IsFiniteSet(S), NEW x, x \in S
  PROVE  Cardinality(S \ {x}) = Cardinality(S) - 1
BY FS_RemoveElement

\* The call of p goes over to the inode j.
LEMMA CallMoves ==
  ASSUME InodeTables, NEW p \in User, NEW j, ip' = [ip EXCEPT ![p] = j], NEW i
  PROVE  CallsOn(i)' = IF i = j THEN CallsOn(i) \cup {p} ELSE CallsOn(i) \ {p}
<1>1. \A q \in User : ip'[q] = IF q = p THEN j ELSE ip[q]
  BY DEF InodeTables
<1> QED
  BY <1>1 DEF CallsOn

\* The descriptor f of p goes over to the inode j.
LEMMA DescriptorMoves ==
  ASSUME InodeTables, NEW p \in User, NEW f \in Fd, NEW j, fds' = [fds EXCEPT ![p][f] = j], NEW i
  PROVE  FdsOf(i)' = IF i = j THEN FdsOf(i) \cup {<<p, f>>} ELSE FdsOf(i) \ {<<p, f>>}
<1>1. \A q \in User, g \in Fd : fds'[q][g] = IF <<q, g>> = <<p, f>> THEN j ELSE fds[q][g]
  BY DEF InodeTables
<1>2. \A d \in User \X Fd : d = <<d[1], d[2]>> /\ d[1] \in User /\ d[2] \in Fd
  OBVIOUS
<1>3. \A d \in User \X Fd : fds'[d[1]][d[2]] = IF d = <<p, f>> THEN j ELSE fds[d[1]][d[2]]
  BY <1>1, <1>2
<1>4. <<p, f>> \in User \X Fd
  OBVIOUS
<1>5. \A d : d \in FdsOf(i) <=> d \in User \X Fd /\ fds[d[1]][d[2]] = i
  BY DEF FdsOf
<1>6. \A d : d \in FdsOf(i)' <=> d \in User \X Fd /\ fds'[d[1]][d[2]] = i
  BY DEF FdsOf
<1> QED
  BY <1>3, <1>4, <1>5, <1>6

\* iget and iput: a reference for a call, one for none.
LEMMA ReferenceTaken ==
  ASSUME InodeInv, NEW p \in User, NEW j \in INum, ip[p] = NoInode, UNCHANGED fds,
         iref' = [iref EXCEPT ![j] = @ + 1], ip' = [ip EXCEPT ![p] = j]
  PROVE  IrefsAddUp'
<1> SUFFICES ASSUME NEW i \in INum
             PROVE  iref'[i] = Cardinality(FdsOf(i)') + Cardinality(CallsOn(i)')
  BY DEF IrefsAddUp
<1>1. FdsOf(i)' = FdsOf(i)
  BY DEF FdsOf
<1>2. iref[i] = Cardinality(FdsOf(i)) + Cardinality(CallsOn(i)) /\ iref \in [INum -> Nat]
  BY DEF InodeInv, IrefsAddUp, InodeTables
<1>3. /\ IsFiniteSet(CallsOn(i)) /\ Cardinality(CallsOn(i)) \in Nat
      /\ Cardinality(FdsOf(i)) \in Nat
  BY InodeSets
<1>4. p \notin CallsOn(i)
  BY InodeBasics DEF CallsOn
<1>5. CallsOn(i)' = IF i = j THEN CallsOn(i) \cup {p} ELSE CallsOn(i)
  <2>1. InodeTables
    BY DEF InodeInv
  <2>2. CallsOn(i)' = IF i = j THEN CallsOn(i) \cup {p} ELSE CallsOn(i) \ {p}
    BY <2>1, CallMoves
  <2> QED
    BY <1>4, <2>2
<1>6. Cardinality(CallsOn(i)') = IF i = j THEN Cardinality(CallsOn(i)) + 1 ELSE Cardinality(CallsOn(i))
  BY <1>3, <1>4, <1>5, AddOne
<1>7. iref'[i] = IF i = j THEN iref[i] + 1 ELSE iref[i]
  BY <1>2
<1> DEFINE a == Cardinality(FdsOf(i))
<1> DEFINE b == Cardinality(CallsOn(i))
<1>8. iref'[i] = a + Cardinality(CallsOn(i)')
  <2>1. a \in Nat /\ b \in Nat /\ iref[i] = a + b
        /\ Cardinality(CallsOn(i)') = IF i = j THEN b + 1 ELSE b
    BY <1>2, <1>3, <1>6
  <2> HIDE DEF a, b
  <2> QED
    BY <1>7, <2>1
<1> QED
  BY <1>1, <1>8

LEMMA ReferenceGiven ==
  ASSUME InodeInv, NEW p \in User, at[p] # "out", UNCHANGED fds,
         iref' = [iref EXCEPT ![ip[p]] = @ - 1], ip' = [ip EXCEPT ![p] = NoInode]
  PROVE  IrefsAddUp'
<1> SUFFICES ASSUME NEW i \in INum
             PROVE  iref'[i] = Cardinality(FdsOf(i)') + Cardinality(CallsOn(i)')
  BY DEF IrefsAddUp
<1>1. FdsOf(i)' = FdsOf(i)
  BY DEF FdsOf
<1>2. iref[i] = Cardinality(FdsOf(i)) + Cardinality(CallsOn(i)) /\ iref \in [INum -> Nat]
  BY DEF InodeInv, IrefsAddUp, InodeTables
<1>3. /\ IsFiniteSet(CallsOn(i)) /\ Cardinality(CallsOn(i)) \in Nat
      /\ Cardinality(FdsOf(i)) \in Nat
  BY InodeSets
<1>4. p \in CallsOn(i) <=> i = ip[p]
  BY DEF CallsOn
<1>5. CallsOn(i)' = CallsOn(i) \ {p}
  BY CallMoves, InodeBasics DEF InodeInv
<1>6. Cardinality(CallsOn(i)') = IF i = ip[p] THEN Cardinality(CallsOn(i)) - 1 ELSE Cardinality(CallsOn(i))
  <2>1. CASE i = ip[p]
    BY <2>1, <1>3, <1>4, <1>5, DropOne
  <2>2. CASE i # ip[p]
    <3>1. CallsOn(i)' = CallsOn(i)
      BY <2>2, <1>4, <1>5
    <3> QED
      BY <2>2, <3>1
  <2> QED
    BY <2>1, <2>2
<1>7. iref'[i] = IF i = ip[p] THEN iref[i] - 1 ELSE iref[i]
  BY <1>2
<1> DEFINE a == Cardinality(FdsOf(i))
<1> DEFINE b == Cardinality(CallsOn(i))
<1>8. iref'[i] = a + Cardinality(CallsOn(i)')
  <2>1. a \in Nat /\ b \in Nat /\ iref[i] = a + b
        /\ Cardinality(CallsOn(i)') = IF i = ip[p] THEN b - 1 ELSE b
    BY <1>2, <1>3, <1>6
  <2> HIDE DEF a, b
  <2> QED
    BY <1>7, <2>1
<1> QED
  BY <1>1, <1>8

\* A descriptor takes over the reference of the call, and a close the other way round.
LEMMA ReferenceToDescriptor ==
  ASSUME InodeInv, NEW p \in User, at[p] # "out", NEW f \in Fd, fds[p][f] = NoInode, UNCHANGED iref,
         fds' = [fds EXCEPT ![p][f] = ip[p]], ip' = [ip EXCEPT ![p] = NoInode]
  PROVE  IrefsAddUp'
<1> SUFFICES ASSUME NEW i \in INum
             PROVE  iref[i] = Cardinality(FdsOf(i)') + Cardinality(CallsOn(i)')
  BY DEF IrefsAddUp
<1>1. iref[i] = Cardinality(FdsOf(i)) + Cardinality(CallsOn(i))
  BY DEF InodeInv, IrefsAddUp
<1>2. /\ IsFiniteSet(CallsOn(i)) /\ Cardinality(CallsOn(i)) \in Nat
      /\ IsFiniteSet(FdsOf(i)) /\ Cardinality(FdsOf(i)) \in Nat
  BY InodeSets
<1>3. CallsOn(i)' = CallsOn(i) \ {p} /\ (p \in CallsOn(i) <=> i = ip[p])
  <2>1. InodeTables
    BY DEF InodeInv
  <2>2. CallsOn(i)' = IF i = NoInode THEN CallsOn(i) \cup {p} ELSE CallsOn(i) \ {p}
    BY <2>1, CallMoves
  <2>3. p \in CallsOn(i) <=> i = ip[p]
    BY DEF CallsOn
  <2> QED
    BY <2>2, <2>3, InodeBasics
<1>4. <<p, f>> \notin FdsOf(i)
  BY InodeBasics DEF FdsOf
<1>5. FdsOf(i)' = IF i = ip[p] THEN FdsOf(i) \cup {<<p, f>>} ELSE FdsOf(i)
  <2>1. InodeTables
    BY DEF InodeInv
  <2>2. FdsOf(i)' = IF i = ip[p] THEN FdsOf(i) \cup {<<p, f>>} ELSE FdsOf(i) \ {<<p, f>>}
    BY <2>1, DescriptorMoves
  <2> QED
    BY <1>4, <2>2
<1>6. CASE i = ip[p]
  <2>1. Cardinality(CallsOn(i)') = Cardinality(CallsOn(i)) - 1
    BY <1>2, <1>3, <1>6, DropOne
  <2>2. Cardinality(FdsOf(i)') = Cardinality(FdsOf(i)) + 1
    BY <1>2, <1>4, <1>5, <1>6, AddOne
  <2> QED
    BY <1>1, <1>2, <2>1, <2>2
<1>7. CASE i # ip[p]
  <2>1. CallsOn(i)' = CallsOn(i) /\ FdsOf(i)' = FdsOf(i)
    BY <1>3, <1>5, <1>7
  <2> QED
    BY <1>1, <2>1
<1> QED
  BY <1>6, <1>7

LEMMA ReferenceFromDescriptor ==
  ASSUME InodeInv, NEW p \in User, ip[p] = NoInode, NEW f \in Fd, fds[p][f] \in INum, UNCHANGED iref,
         fds' = [fds EXCEPT ![p][f] = NoInode], ip' = [ip EXCEPT ![p] = fds[p][f]]
  PROVE  IrefsAddUp'
<1> SUFFICES ASSUME NEW i \in INum
             PROVE  iref[i] = Cardinality(FdsOf(i)') + Cardinality(CallsOn(i)')
  BY DEF IrefsAddUp
<1>1. iref[i] = Cardinality(FdsOf(i)) + Cardinality(CallsOn(i))
  BY DEF InodeInv, IrefsAddUp
<1>2. /\ IsFiniteSet(CallsOn(i)) /\ Cardinality(CallsOn(i)) \in Nat
      /\ IsFiniteSet(FdsOf(i)) /\ Cardinality(FdsOf(i)) \in Nat
  BY InodeSets
<1>3. FdsOf(i)' = FdsOf(i) \ {<<p, f>>}
  <2>1. InodeTables
    BY DEF InodeInv
  <2>2. FdsOf(i)' = IF i = NoInode THEN FdsOf(i) \cup {<<p, f>>} ELSE FdsOf(i) \ {<<p, f>>}
    BY <2>1, DescriptorMoves
  <2> QED
    BY <2>2, InodeBasics
<1>4. <<p, f>> \in FdsOf(i) <=> i = fds[p][f]
  BY DEF FdsOf
<1>5. p \notin CallsOn(i)
  BY InodeBasics DEF CallsOn
<1>6. CallsOn(i)' = IF i = fds[p][f] THEN CallsOn(i) \cup {p} ELSE CallsOn(i)
  <2>1. InodeTables
    BY DEF InodeInv
  <2>2. CallsOn(i)' = IF i = fds[p][f] THEN CallsOn(i) \cup {p} ELSE CallsOn(i) \ {p}
    BY <2>1, CallMoves
  <2> QED
    BY <1>5, <2>2
<1>7. CASE i = fds[p][f]
  <2>1. Cardinality(CallsOn(i)') = Cardinality(CallsOn(i)) + 1
    BY <1>2, <1>5, <1>6, <1>7, AddOne
  <2>2. Cardinality(FdsOf(i)') = Cardinality(FdsOf(i)) - 1
    BY <1>2, <1>3, <1>4, <1>7, DropOne
  <2> QED
    BY <1>1, <1>2, <2>1, <2>2
<1>8. CASE i # fds[p][f]
  <2>1. CallsOn(i)' = CallsOn(i) /\ FdsOf(i)' = FdsOf(i)
    BY <1>3, <1>4, <1>6, <1>8
  <2> QED
    BY <1>1, <2>1
<1> QED
  BY <1>7, <1>8

LEMMA ReferencesStay ==
  ASSUME IrefsAddUp, UNCHANGED <<iref, ip, fds>>
  PROVE  IrefsAddUp'
BY DEF IrefsAddUp, FdsOf, CallsOn

LEMMA IrefsKept ==
  ASSUME InodeInv, NEW p \in User, GoesOn(p)
  PROVE  IrefsAddUp'
<1> USE InodeBasics
<1>1. InodeTables /\ IrefsAddUp /\ (at[p] = "out" <=> ip[p] = NoInode)
  BY DEF InodeInv, CallInv
<1>2. ASSUME NEW n \in File, NEW to, Finds(p, n, to) PROVE IrefsAddUp'
  <2>1. names[n] \in INum /\ ip[p] = NoInode
    BY <1>1, <1>2 DEF Finds, Step, InodeTables
  <2>2. UNCHANGED fds /\ iref' = [iref EXCEPT ![names[n]] = @ + 1] /\ ip' = [ip EXCEPT ![p] = names[n]]
    BY <1>2 DEF Finds, Iget
  <2> QED
    BY <2>1, <2>2, ReferenceTaken
<1>3. CASE \E n \in File : Open(p, n) \/ Unlink(p, n)
  BY <1>2, <1>3 DEF Open, Unlink
<1>4. CASE \E old, n \in File : Link(p, old, n)
  BY <1>2, <1>4 DEF Link
<1>5. CASE \E n \in File : Create(p, n)
  <2>1. PICK j \in INum : iref' = [iref EXCEPT ![j] = @ + 1] /\ ip' = [ip EXCEPT ![p] = j]
    BY <1>5 DEF Create, Iget
  <2>2. ip[p] = NoInode /\ UNCHANGED fds
    BY <1>1, <1>5 DEF Create, Step
  <2> QED
    BY <2>1, <2>2, ReferenceTaken
<1>6. CASE Iput(p) \/ FreeUnref(p)
  BY <1>6, ReferenceGiven DEF Iput, FreeUnref, Step, LeaveCall
<1>7. CASE \E f \in Fd : Opened(p, f)
  BY <1>7, ReferenceToDescriptor DEF Opened, Step
<1>8. CASE \E f \in Fd : Close(p, f)
  <2>1. PICK f \in Fd : Close(p, f)
    BY <1>8
  <2>2. fds[p][f] \in INum /\ ip[p] = NoInode /\ UNCHANGED iref
    BY <1>1, <2>1 DEF Close, Step, InodeTables, slotVars
  <2> QED
    BY <2>1, <2>2, ReferenceFromDescriptor DEF Close
<1>9. CASE CreateLock(p) \/ OpenLock(p) \/ OpenedNoFile(p) \/ UnlinkLock(p) \/ UnlinkCount(p)
           \/ LinkLock(p) \/ LinkName(p)
  <2>1. UNCHANGED <<iref, ip, fds>>
    BY <1>9 DEF CreateLock, OpenLock, OpenedNoFile, UnlinkLock, UnlinkCount, LinkLock, LinkName, Panics, slotVars, callVars
  <2> QED
    BY <1>1, <2>1, ReferencesStay
<1>10. CASE IputLast(p) \/ FreeLock(p) \/ FreeInode(p) \/ FreeUnlock(p)
  <2>1. UNCHANGED <<iref, ip, fds>>
    BY <1>10 DEF IputLast, FreeLock, FreeInode, FreeUnlock, Panics, slotVars, callVars
  <2> QED
    BY <1>1, <2>1, ReferencesStay
<1> QED
  BY <1>3, <1>4, <1>5, <1>6, <1>7, <1>8, <1>9, <1>10 DEF GoesOn

LinkedOne(i) == /\ nlink[i] = Cardinality(NamesOf(i)) + Cardinality(Linking(i))
                /\ ~itype[i] => nlink[i] = 0

\* The name n goes over to the inode j.
LEMMA NameMoves ==
  ASSUME InodeTables, NEW n \in File, NEW j, names' = [names EXCEPT ![n] = j], NEW i
  PROVE  NamesOf(i)' = IF i = j THEN NamesOf(i) \cup {n} ELSE NamesOf(i) \ {n}
<1>1. \A m \in File : names'[m] = IF m = n THEN j ELSE names[m]
  BY DEF InodeTables
<1> QED
  BY <1>1 DEF NamesOf

\* sys_link counts before it names: who comes to and leaves that place.
LEMMA LinkingMoves ==
  ASSUME InodeTables, NEW p \in User, NEW to, at' = [at EXCEPT ![p] = to],
         \A q \in User \ {p} : ip'[q] = ip[q], NEW i
  PROVE  Linking(i)' = IF ip'[p] = i /\ to \in Ahead THEN Linking(i) \cup {p} ELSE Linking(i) \ {p}
<1>1. \A q \in User : at'[q] = IF q = p THEN to ELSE at[q]
  BY DEF InodeTables
<1> QED
  BY <1>1 DEF Linking, Ahead

LEMMA LinksStay ==
  ASSUME InodeInv, NEW i \in INum, nlink'[i] = nlink[i], NamesOf(i)' = NamesOf(i), Linking(i)' = Linking(i),
         itype[i] => itype'[i] \/ nlink[i] = 0
  PROVE  LinkedOne(i)'
BY DEF InodeInv, LinkInv, LinkedOne

LEMMA NameCounted ==
  ASSUME InodeInv, NEW n \in File, names[n] = NoInode, NEW j \in INum, itype[j],
         names' = [names EXCEPT ![n] = j], nlink' = [nlink EXCEPT ![j] = @ + 1], UNCHANGED itype,
         NEW i \in INum, Linking(i)' = Linking(i)
  PROVE  LinkedOne(i)'
<1>1. InodeTables
  BY DEF InodeInv
<1>2. n \notin NamesOf(i)
  BY InodeBasics DEF NamesOf
<1>3. NamesOf(i)' = IF i = j THEN NamesOf(i) \cup {n} ELSE NamesOf(i) \ {n}
  BY <1>1, NameMoves
<1>4. CASE i # j
  <2>1. NamesOf(i)' = NamesOf(i) /\ nlink'[i] = nlink[i]
    BY <1>1, <1>2, <1>3, <1>4 DEF InodeTables
  <2> QED
    BY <2>1, LinksStay
<1>5. CASE i = j
  <2>1. /\ nlink[i] = Cardinality(NamesOf(i)) + Cardinality(Linking(i))
        /\ IsFiniteSet(NamesOf(i)) /\ Cardinality(NamesOf(i)) \in Nat
        /\ Cardinality(Linking(i)) \in Nat
    BY InodeSets DEF InodeInv, LinkInv
  <2>2. Cardinality(NamesOf(i)') = Cardinality(NamesOf(i)) + 1
    BY <1>2, <1>3, <1>5, <2>1, AddOne
  <2>3. nlink'[i] = nlink[i] + 1
    BY <1>1, <1>5 DEF InodeTables
  <2>4. nlink'[i] = Cardinality(NamesOf(i)') + Cardinality(Linking(i)')
    BY <2>1, <2>2, <2>3
  <2> QED
    BY <1>5, <2>4 DEF LinkedOne
<1> QED
  BY <1>4, <1>5

\* sys_unlink: the name goes first, the count comes down later.
LEMMA NameDropped ==
  ASSUME InodeInv, NEW p \in User, at[p] = "unlinking", at' = [at EXCEPT ![p] = "unlinked"],
         NEW n \in File, names[n] = ip[p], names' = [names EXCEPT ![n] = NoInode],
         UNCHANGED <<nlink, itype, ip>>, NEW i \in INum
  PROVE  LinkedOne(i)'
<1>1. InodeTables /\ ip[p] \in INum
  BY InHand DEF InodeInv
<1>2. p \notin Linking(i)
  BY DEF Linking, Ahead
<1>3. Linking(i)' = IF ip[p] = i THEN Linking(i) \cup {p} ELSE Linking(i) \ {p}
  <2>1. Linking(i)' = IF ip'[p] = i /\ "unlinked" \in Ahead THEN Linking(i) \cup {p} ELSE Linking(i) \ {p}
    BY <1>1, LinkingMoves
  <2> QED
    BY <2>1 DEF Ahead
<1>4. n \in NamesOf(i) <=> i = ip[p]
  BY DEF NamesOf
<1>5. NamesOf(i)' = NamesOf(i) \ {n}
  <2>1. NamesOf(i)' = IF i = NoInode THEN NamesOf(i) \cup {n} ELSE NamesOf(i) \ {n}
    BY <1>1, NameMoves
  <2> QED
    BY <2>1, InodeBasics
<1>6. CASE i # ip[p]
  <2>1. Linking(i)' = Linking(i) /\ NamesOf(i)' = NamesOf(i)
    BY <1>2, <1>3, <1>4, <1>5, <1>6
  <2> QED
    BY <2>1, LinksStay
<1>7. CASE i = ip[p]
  <2>1. /\ nlink[i] = Cardinality(NamesOf(i)) + Cardinality(Linking(i))
        /\ IsFiniteSet(Linking(i)) /\ Cardinality(Linking(i)) \in Nat
        /\ IsFiniteSet(NamesOf(i)) /\ Cardinality(NamesOf(i)) \in Nat
    BY InodeSets DEF InodeInv, LinkInv
  <2>2. Cardinality(Linking(i)') = Cardinality(Linking(i)) + 1
    BY <1>2, <1>3, <1>7, <2>1, AddOne
  <2>3. Cardinality(NamesOf(i)') = Cardinality(NamesOf(i)) - 1
    BY <1>4, <1>5, <1>7, <2>1, DropOne
  <2>4. nlink'[i] = Cardinality(NamesOf(i)') + Cardinality(Linking(i)')
    BY <2>1, <2>2, <2>3
  <2>5. itype[i]
    BY <1>7, HasType
  <2> QED
    BY <2>4, <2>5 DEF LinkedOne
<1> QED
  BY <1>6, <1>7

LEMMA LinkUncounted ==
  ASSUME InodeInv, NEW p \in User, at[p] = "unlinked", at' = [at EXCEPT ![p] = "iput"],
         nlink' = [nlink EXCEPT ![ip[p]] = @ - 1], UNCHANGED <<names, itype, ip>>,
         NEW i \in INum
  PROVE  LinkedOne(i)'
<1>1. InodeTables
  BY DEF InodeInv
<1>2. p \in Linking(i) <=> ip[p] = i
  BY DEF Linking, Ahead
<1>3. Linking(i)' = Linking(i) \ {p}
  <2>1. Linking(i)' = IF ip'[p] = i /\ "iput" \in Ahead THEN Linking(i) \cup {p} ELSE Linking(i) \ {p}
    BY <1>1, LinkingMoves
  <2> QED
    BY <2>1 DEF Ahead
<1>4. NamesOf(i)' = NamesOf(i)
  BY DEF NamesOf
<1>5. CASE i # ip[p]
  <2>1. Linking(i)' = Linking(i) /\ nlink'[i] = nlink[i]
    BY <1>1, <1>2, <1>3, <1>5 DEF InodeTables
  <2> QED
    BY <1>4, <2>1, LinksStay
<1>6. CASE i = ip[p]
  <2>1. /\ nlink[i] = Cardinality(NamesOf(i)) + Cardinality(Linking(i))
        /\ IsFiniteSet(Linking(i)) /\ Cardinality(Linking(i)) \in Nat
        /\ Cardinality(NamesOf(i)) \in Nat
    BY InodeSets DEF InodeInv, LinkInv
  <2>2. Cardinality(Linking(i)') = Cardinality(Linking(i)) - 1
    BY <1>2, <1>3, <1>6, <2>1, DropOne
  <2>3. nlink'[i] = nlink[i] - 1
    BY <1>1, <1>6 DEF InodeTables
  <2>4. nlink'[i] = Cardinality(NamesOf(i)') + Cardinality(Linking(i)')
    BY <1>4, <2>1, <2>2, <2>3
  <2>5. itype[i]
    BY <1>6, HasType
  <2> QED
    BY <2>4, <2>5 DEF LinkedOne
<1> QED
  BY <1>5, <1>6

\* sys_link: the count goes up first, the name comes later.
LEMMA LinkCounted ==
  ASSUME InodeInv, NEW p \in User, at[p] = "linking", at' = [at EXCEPT ![p] = "linked"],
         nlink' = [nlink EXCEPT ![ip[p]] = @ + 1], UNCHANGED <<names, itype, ip>>,
         NEW i \in INum
  PROVE  LinkedOne(i)'
<1>1. InodeTables
  BY DEF InodeInv
<1>2. p \notin Linking(i)
  BY DEF Linking, Ahead
<1>3. Linking(i)' = IF ip[p] = i THEN Linking(i) \cup {p} ELSE Linking(i) \ {p}
  BY <1>1, LinkingMoves DEF Ahead
<1>4. NamesOf(i)' = NamesOf(i)
  BY DEF NamesOf
<1>5. CASE i # ip[p]
  <2>1. Linking(i)' = Linking(i) /\ nlink'[i] = nlink[i]
    BY <1>1, <1>2, <1>3, <1>5 DEF InodeTables
  <2> QED
    BY <1>4, <2>1, LinksStay
<1>6. CASE i = ip[p]
  <2>1. /\ nlink[i] = Cardinality(NamesOf(i)) + Cardinality(Linking(i))
        /\ IsFiniteSet(Linking(i)) /\ Cardinality(Linking(i)) \in Nat
        /\ Cardinality(NamesOf(i)) \in Nat
    BY InodeSets DEF InodeInv, LinkInv
  <2>2. Cardinality(Linking(i)') = Cardinality(Linking(i)) + 1
    BY <1>2, <1>3, <1>6, <2>1, AddOne
  <2>3. nlink'[i] = nlink[i] + 1
    BY <1>1, <1>6 DEF InodeTables
  <2>4. nlink'[i] = Cardinality(NamesOf(i)') + Cardinality(Linking(i)')
    BY <1>4, <2>1, <2>2, <2>3
  <2>5. itype[i]
    BY <1>6, HasType
  <2> QED
    BY <2>4, <2>5 DEF LinkedOne
<1> QED
  BY <1>5, <1>6

LEMMA LinkNamed ==
  ASSUME InodeInv, NEW p \in User, at[p] = "linked", at' = [at EXCEPT ![p] = "iput"],
         NEW n \in File, names[n] = NoInode, names' = [names EXCEPT ![n] = ip[p]],
         UNCHANGED <<nlink, itype, ip>>, NEW i \in INum
  PROVE  LinkedOne(i)'
<1>1. InodeTables /\ ip[p] \in INum
  BY InHand DEF InodeInv
<1>2. p \in Linking(i) <=> ip[p] = i
  BY DEF Linking, Ahead
<1>3. Linking(i)' = Linking(i) \ {p}
  <2>1. Linking(i)' = IF ip'[p] = i /\ "iput" \in Ahead THEN Linking(i) \cup {p} ELSE Linking(i) \ {p}
    BY <1>1, LinkingMoves
  <2> QED
    BY <2>1 DEF Ahead
<1>4. n \notin NamesOf(i)
  BY InodeBasics DEF NamesOf
<1>5. NamesOf(i)' = IF i = ip[p] THEN NamesOf(i) \cup {n} ELSE NamesOf(i) \ {n}
  BY <1>1, NameMoves
<1>6. CASE i # ip[p]
  <2>1. Linking(i)' = Linking(i) /\ NamesOf(i)' = NamesOf(i)
    BY <1>2, <1>3, <1>4, <1>5, <1>6
  <2> QED
    BY <2>1, LinksStay
<1>7. CASE i = ip[p]
  <2>1. /\ nlink[i] = Cardinality(NamesOf(i)) + Cardinality(Linking(i))
        /\ IsFiniteSet(Linking(i)) /\ Cardinality(Linking(i)) \in Nat
        /\ IsFiniteSet(NamesOf(i)) /\ Cardinality(NamesOf(i)) \in Nat
    BY InodeSets DEF InodeInv, LinkInv
  <2>2. Cardinality(Linking(i)') = Cardinality(Linking(i)) - 1
    BY <1>2, <1>3, <1>7, <2>1, DropOne
  <2>3. Cardinality(NamesOf(i)') = Cardinality(NamesOf(i)) + 1
    BY <1>4, <1>5, <1>7, <2>1, AddOne
  <2>4. nlink'[i] = Cardinality(NamesOf(i)') + Cardinality(Linking(i)')
    BY <2>1, <2>2, <2>3
  <2>5. itype[i]
    BY <1>7, HasType
  <2> QED
    BY <2>4, <2>5 DEF LinkedOne
<1> QED
  BY <1>6, <1>7

\* An inode about to be made or freed has no links.
LEMMA NoLinks ==
  ASSUME InodeInv, NEW p \in User, at[p] \in {"creating", "trunc"}
  PROVE  ip[p] \in INum /\ nlink[ip[p]] = 0
<1>1. ip[p] \in INum
  BY InHand
<1>2. OnlyCalls(ip[p], {"freed", "unref"}, p)
  BY DEF InodeInv, FreeingInv, OnlyCalls
<1>3. NamesOf(ip[p]) = {} /\ Linking(ip[p]) = {}
  BY <1>2 DEF OnlyCalls, NamesOf, Linking, Ahead
<1> QED
  BY <1>1, <1>3, Unlinked

LEMMA LinksKept ==
  ASSUME InodeInv, NEW p \in User, GoesOn(p)
  PROVE  LinkInv'
<1> SUFFICES ASSUME NEW i \in INum PROVE LinkedOne(i)'
  BY DEF LinkInv, LinkedOne
<1> USE InodeBasics
<1>1. InodeTables /\ CallInv
  BY DEF InodeInv
<1>2. at[p] # "out" => ip[p] \in INum
  BY InHand
<1>3. ASSUME UNCHANGED <<names, nlink, itype>>, NEW to \in Places \ Ahead,
             at[p] \notin Ahead, at' = [at EXCEPT ![p] = to],
             \A q \in User \ {p} : ip'[q] = ip[q]
      PROVE  LinkedOne(i)'
  <2>1. NamesOf(i)' = NamesOf(i)
    BY <1>3 DEF NamesOf
  <2>2. p \notin Linking(i)
    BY <1>3 DEF Linking, Ahead
  <2>3. Linking(i)' = Linking(i)
    <3>1. Linking(i)' = IF ip'[p] = i /\ to \in Ahead THEN Linking(i) \cup {p} ELSE Linking(i) \ {p}
      BY <1>1, <1>3, LinkingMoves
    <3>2. to \notin Ahead
      BY <1>3
    <3> QED
      BY <2>2, <3>1, <3>2
  <2> QED
    BY <1>3, <2>1, <2>3, LinksStay
<1>4. ASSUME NEW n \in File, NEW to \in {"opening", "unlinking", "linking"}, Finds(p, n, to)
      PROVE  LinkedOne(i)'
  <2>1. UNCHANGED <<names, nlink, itype>> /\ at[p] = "out" /\ at' = [at EXCEPT ![p] = to]
    BY <1>4 DEF Finds, Step, fileVars
  <2>2. \A q \in User \ {p} : ip'[q] = ip[q]
    BY <1>1, <1>4 DEF Finds, Iget, InodeTables
  <2>3. to \in Places \ Ahead
    BY DEF Places, Ahead
  <2> QED
    BY <1>3, <2>1, <2>2, <2>3 DEF Ahead
<1>5. CASE \E n \in File : Open(p, n) \/ Unlink(p, n)
  BY <1>4, <1>5 DEF Open, Unlink
<1>6. CASE \E old, n \in File : Link(p, old, n)
  BY <1>4, <1>6 DEF Link
<1>7. CASE \E n \in File : Create(p, n)
  <2>1. PICK j \in INum : /\ ~itype[j] /\ itype' = [itype EXCEPT ![j] = TRUE]
                          /\ nlink' = [nlink EXCEPT ![j] = 0] /\ ip' = [ip EXCEPT ![p] = j]
    BY <1>7 DEF Create, Iget
  <2>2. at[p] = "out" /\ at' = [at EXCEPT ![p] = "creating"] /\ UNCHANGED names
    BY <1>7 DEF Create, Step
  <2>3. nlink[j] = 0
    BY <2>1 DEF InodeInv, LinkInv
  <2>4. nlink'[i] = nlink[i] /\ (itype[i] => itype'[i])
    BY <1>1, <2>1, <2>3 DEF InodeTables
  <2>5. NamesOf(i)' = NamesOf(i)
    BY <2>2 DEF NamesOf
  <2>6. \A q \in User \ {p} : ip'[q] = ip[q]
    BY <1>1, <2>1 DEF InodeTables
  <2>7. Linking(i)' = Linking(i)
    <3>1. p \notin Linking(i)
      BY <2>2 DEF Linking, Ahead
    <3>2. Linking(i)' = IF ip'[p] = i /\ "creating" \in Ahead THEN Linking(i) \cup {p} ELSE Linking(i) \ {p}
      BY <1>1, <2>2, <2>6, LinkingMoves
    <3> QED
      BY <3>1, <3>2 DEF Ahead
  <2> QED
    BY <2>4, <2>5, <2>7, LinksStay
<1>8. CASE CreateLock(p)
  <2>1. /\ at[p] = "creating" /\ at' = [at EXCEPT ![p] = "opened"] /\ UNCHANGED <<itype, ip>>
        /\ nlink' = [nlink EXCEPT ![ip[p]] = 1] /\ names' = [names EXCEPT ![want[p]] = ip[p]]
    BY <1>8 DEF CreateLock, Step
  <2>2. want[p] \in File /\ names[want[p]] = NoInode
    BY <1>1, <2>1 DEF CallInv
  <2>3. ip[p] \in INum /\ nlink[ip[p]] = 0
    BY <2>1, NoLinks
  <2>4. nlink' = [nlink EXCEPT ![ip[p]] = @ + 1]
    BY <1>1, <2>1, <2>3 DEF InodeTables
  <2>5. itype[ip[p]]
    BY <2>1, HasType
  <2>6. Linking(i)' = Linking(i)
    <3>1. p \notin Linking(i)
      BY <2>1 DEF Linking, Ahead
    <3>2. Linking(i)' = IF ip'[p] = i /\ "opened" \in Ahead THEN Linking(i) \cup {p} ELSE Linking(i) \ {p}
      BY <1>1, <2>1, LinkingMoves
    <3> QED
      BY <3>1, <3>2 DEF Ahead
  <2> QED
    BY <2>1, <2>2, <2>3, <2>4, <2>5, <2>6, NameCounted
<1>9. CASE UnlinkLock(p)
  <2>1. want[p] \in File /\ names[want[p]] = ip[p] /\ nlink[ip[p]] \in Nat \ {0} /\ at[p] = "unlinking"
    BY <1>9, LinkFound DEF UnlinkLock
  <2>2. ~NoType(p)
    BY <2>1, TypeFound
  <2>3. /\ at' = [at EXCEPT ![p] = "unlinked"] /\ UNCHANGED <<nlink, itype, ip>>
        /\ names' = [names EXCEPT ![want[p]] = NoInode]
    BY <1>9, <2>1, <2>2 DEF UnlinkLock, Step
  <2> QED
    BY <2>1, <2>3, NameDropped
<1>21. CASE UnlinkCount(p)
  BY <1>21, LinkUncounted DEF UnlinkCount, Step
<1>10. CASE LinkLock(p)
  BY <1>10, TypeFound, LinkCounted DEF LinkLock, Step
<1>11. CASE LinkName(p)
  <2>1. at[p] = "linked" /\ want[p] \in File /\ UNCHANGED <<nlink, itype, ip>>
    BY <1>1, <1>11 DEF LinkName, Step, CallInv
  <2>2. CASE names[want[p]] = NoInode
    <3>1. at' = [at EXCEPT ![p] = "iput"] /\ names' = [names EXCEPT ![want[p]] = ip[p]]
      BY <1>11, <2>1, <2>2 DEF LinkName, Step, InodeTables
    <3> QED
      BY <2>1, <2>2, <3>1, LinkNamed
  <2>3. CASE names[want[p]] # NoInode
    <3>1. at' = [at EXCEPT ![p] = "undoing"] /\ names' = names
      BY <1>1, <1>11, <2>1, <2>3 DEF LinkName, Step, InodeTables
    <3>2. Linking(i)' = Linking(i)
      <4>1. p \in Linking(i) <=> ip[p] = i
        BY <2>1 DEF Linking, Ahead
      <4>2. Linking(i)' = IF ip'[p] = i THEN Linking(i) \cup {p} ELSE Linking(i) \ {p}
        BY <1>1, <2>1, <3>1, LinkingMoves DEF Ahead
      <4> QED
        BY <2>1, <4>1, <4>2
    <3>3. NamesOf(i)' = NamesOf(i)
      BY <3>1 DEF NamesOf
    <3> QED
      BY <2>1, <3>2, <3>3, LinksStay
  <2> QED
    BY <2>2, <2>3
<1>12. CASE FreeInode(p) /\ ~Panics("close")
  <2>1. /\ at[p] = "trunc" /\ at' = [at EXCEPT ![p] = "freed"] /\ UNCHANGED <<names, nlink, ip>>
        /\ itype' = [itype EXCEPT ![ip[p]] = FALSE]
    BY <1>12 DEF FreeInode, Step
  <2>2. nlink[ip[p]] = 0 /\ ip[p] \in INum
    BY <2>1, NoLinks
  <2>3. itype[i] => itype'[i] \/ nlink[i] = 0
    BY <1>1, <2>1, <2>2 DEF InodeTables
  <2>4. Linking(i)' = Linking(i)
    <3>1. p \notin Linking(i)
      BY <2>1 DEF Linking, Ahead
    <3>2. Linking(i)' = IF ip'[p] = i /\ "freed" \in Ahead THEN Linking(i) \cup {p} ELSE Linking(i) \ {p}
      BY <1>1, <2>1, LinkingMoves
    <3> QED
      BY <3>1, <3>2 DEF Ahead
  <2>5. NamesOf(i)' = NamesOf(i)
    BY <2>1 DEF NamesOf
  <2> QED
    BY <2>1, <2>3, <2>4, <2>5, LinksStay
<1>13. CASE OpenLock(p)
  <2>1. at[p] = "opening" /\ at' = [at EXCEPT ![p] = "opened"] /\ UNCHANGED <<names, nlink, itype, ip>>
    BY <1>13, TypeFound DEF OpenLock, Step, fileVars
  <2> QED
    BY <1>3, <2>1 DEF Places, Ahead
<1>14. CASE OpenedNoFile(p)
  BY <1>3, <1>14 DEF OpenedNoFile, Step, Places, fileVars, Ahead
<1>15. CASE \E f \in Fd : Opened(p, f)
  <2>1. at[p] = "opened" /\ at' = [at EXCEPT ![p] = "out"] /\ UNCHANGED <<names, nlink, itype>>
        /\ \A q \in User \ {p} : ip'[q] = ip[q]
    BY <1>1, <1>15 DEF Opened, Step, fileVars, InodeTables
  <2> QED
    BY <1>3, <2>1 DEF Places, Ahead
<1>16. CASE \E f \in Fd : Close(p, f)
  <2>1. at[p] = "out" /\ at' = [at EXCEPT ![p] = "iput"] /\ UNCHANGED <<names, nlink, itype>>
        /\ \A q \in User \ {p} : ip'[q] = ip[q]
    BY <1>1, <1>16 DEF Close, Step, fileVars, InodeTables
  <2> QED
    BY <1>3, <2>1 DEF Places, Ahead
<1>17. CASE IputLast(p)
  BY <1>3, <1>17 DEF IputLast, Step, Places, fileVars, Ahead
<1>18. CASE Iput(p) \/ FreeUnref(p)
  <2>1. at[p] \in {"iput", "unref"} /\ at' = [at EXCEPT ![p] = "out"] /\ UNCHANGED <<names, nlink, itype>>
        /\ \A q \in User \ {p} : ip'[q] = ip[q]
    BY <1>1, <1>18 DEF Iput, FreeUnref, LeaveCall, Step, fileVars, InodeTables
  <2> QED
    BY <1>3, <2>1 DEF Places, Ahead
<1>19. CASE FreeLock(p)
  BY <1>3, <1>19 DEF FreeLock, Step, Places, fileVars, Ahead
<1>20. CASE FreeUnlock(p)
  BY <1>3, <1>20 DEF FreeUnlock, Step, Places, fileVars, Ahead
<1> QED
  BY <1>5, <1>6, <1>7, <1>8, <1>9, <1>10, <1>11, <1>12, <1>13, <1>14, <1>15, <1>16, <1>17, <1>18, <1>19, <1>20, <1>21 DEF GoesOn

\* A panic changes nothing but trouble.
LEMMA StopKept ==
  ASSUME InodeInv, NEW why \in {"open", "close", "link", "ialloc"}, Panics(why)
  PROVE  InodeInv'
<1>1. UNCHANGED <<fileVars, slotVars, callVars>> /\ trouble' = why
  BY DEF Panics
<1>2. InodeTables'
  BY <1>1 DEF InodeInv, InodeTables, fileVars, slotVars, callVars
<1>3. CallInv' /\ LockInv' /\ FreeingInv' /\ ValidInv'
  BY <1>1 DEF InodeInv, CallInv, LockInv, FreeingInv, OnlyCalls, ValidInv, fileVars, slotVars, callVars
<1>4. IrefsAddUp' /\ LinkInv' /\ NeverFreedInUse'
  BY <1>1 DEF InodeInv, IrefsAddUp, LinkInv, NeverFreedInUse, FdsOf, CallsOn, NamesOf, Linking,
              fileVars, slotVars, callVars
<1> QED
  BY <1>2, <1>3, <1>4 DEF InodeInv

\* A step leads on, or stops in one of the three known ways.
LEMMA GoesOnOrStops ==
  ASSUME InodeInv, InodeNext
  PROVE  (\E p \in User : GoesOn(p)) \/ \E why \in {"open", "close", "link", "ialloc"} : Panics(why)
BY DEF InodeNext, GoesOn, FreeInode, OpenedNoFd, LinkUndo, NoInodes

LEMMA InodeInvStep == InodeInv /\ [InodeNext]_inodeVars => InodeInv'
<1> SUFFICES ASSUME InodeInv, [InodeNext]_inodeVars PROVE InodeInv'
  OBVIOUS
<1>1. CASE UNCHANGED inodeVars
  <2>1. UNCHANGED <<fileVars, slotVars, callVars>> /\ UNCHANGED trouble
    BY <1>1 DEF inodeVars
  <2>2. InodeTables'
    BY <2>1 DEF InodeInv, InodeTables, fileVars, slotVars, callVars
  <2>3. CallInv' /\ LockInv' /\ FreeingInv' /\ ValidInv'
    BY <2>1 DEF InodeInv, CallInv, LockInv, FreeingInv, OnlyCalls, ValidInv, fileVars, slotVars, callVars
  <2>4. IrefsAddUp' /\ LinkInv' /\ NeverFreedInUse'
    BY <2>1 DEF InodeInv, IrefsAddUp, LinkInv, NeverFreedInUse, FdsOf, CallsOn, NamesOf, Linking,
                fileVars, slotVars, callVars
  <2> QED
    BY <2>2, <2>3, <2>4 DEF InodeInv
<1>2. ASSUME NEW p \in User, GoesOn(p) PROVE InodeInv'
  <2>1. NeverFreedInUse'
    BY <1>2, NeverFreedKept, NeverFreedNext
  <2> QED
    BY <1>2, <2>1, InodeTablesKept, CallsKept, LocksKept, FreeingKept, ValidKept, IrefsKept, LinksKept DEF InodeInv
<1>3. CASE InodeNext
  BY <1>2, <1>3, GoesOnOrStops, StopKept
<1> QED
  BY <1>1, <1>3

FilesAgree == /\ IrefsAddUp /\ NeverFreedInUse /\ LinksAddUp /\ LocksInUse
              /\ trouble \notin {"no type", "nlink"}

LEMMA InodeInvSafe == InodeInv => FilesAgree
<1> SUFFICES ASSUME InodeInv PROVE FilesAgree
  OBVIOUS
<1>1. IrefsAddUp /\ NeverFreedInUse /\ trouble \notin {"no type", "nlink"}
  BY DEF InodeInv, InodeTables
<1>2. LinksAddUp
  <2>1. \A i : {p \in CallsOn(i) : at[p] \in Ahead} = Linking(i)
    BY DEF CallsOn, Linking
  <2> QED
    BY <2>1 DEF LinksAddUp, InodeInv, LinkInv
<1>3. LocksInUse
  <2>1. InodeTables /\ LockInv
    BY DEF InodeInv
  <2> QED
    BY <2>1 DEF LocksInUse, LockInv, Locking, InodeTables
<1> QED
  BY <1>1, <1>2, <1>3 DEF FilesAgree

\* A reference less is a call less.
LEMMA LastOneGoes ==
  ASSUME InodeInv, NEW p \in User, GoesOn(p), NEW i \in INum, iref[i] > 0, ~(iref'[i] > 0)
  PROVE  ip[p] = i /\ iref[i] = 1 /\ (Iput(p) \/ FreeUnref(p))
<1> USE InodeBasics
<1>1. InodeTables /\ (at[p] # "out" => ip[p] \in INum)
  BY InHand DEF InodeInv
<1>2. CASE UNCHANGED iref
  BY <1>2
<1>3. ASSUME NEW j \in INum, iref' = [iref EXCEPT ![j] = @ + 1] PROVE FALSE
  <2>1. iref[i] \in Nat /\ iref'[i] = IF i = j THEN iref[i] + 1 ELSE iref[i]
    BY <1>1, <1>3 DEF InodeTables
  <2> QED
    BY <2>1
<1>4. ASSUME NEW n \in File, NEW to, Finds(p, n, to) PROVE FALSE
  <2>1. names[n] \in INum /\ iref' = [iref EXCEPT ![names[n]] = @ + 1]
    BY <1>1, <1>4 DEF Finds, Iget, InodeTables
  <2> QED
    BY <1>3, <2>1
<1>5. CASE \E n \in File : Open(p, n) \/ Unlink(p, n)
  BY <1>4, <1>5 DEF Open, Unlink
<1>6. CASE \E old, n \in File : Link(p, old, n)
  BY <1>4, <1>6 DEF Link
<1>7. CASE \E n \in File : Create(p, n)
  BY <1>3, <1>7 DEF Create, Iget
<1>8. CASE CreateLock(p) \/ OpenLock(p) \/ OpenedNoFile(p) \/ UnlinkLock(p) \/ UnlinkCount(p)
           \/ LinkLock(p) \/ LinkName(p)
  BY <1>2, <1>8 DEF CreateLock, OpenLock, OpenedNoFile, UnlinkLock, UnlinkCount, LinkLock, LinkName, Panics, slotVars
<1>9. CASE (\E f \in Fd : Opened(p, f) \/ Close(p, f)) \/ IputLast(p) \/ FreeLock(p) \/ FreeInode(p) \/ FreeUnlock(p)
  BY <1>2, <1>9 DEF Opened, Close, IputLast, FreeLock, FreeInode, FreeUnlock, Panics, slotVars
<1>10. CASE Iput(p) \/ FreeUnref(p)
  <2>1. ip[p] \in INum /\ iref' = [iref EXCEPT ![ip[p]] = @ - 1]
    BY <1>1, <1>10 DEF Iput, FreeUnref, Step, LeaveCall
  <2>2. iref[i] \in Nat /\ iref'[i] = IF i = ip[p] THEN iref[i] - 1 ELSE iref[i]
    BY <1>1, <2>1 DEF InodeTables
  <2> QED
    BY <1>10, <2>2
<1> QED
  BY <1>5, <1>6, <1>7, <1>8, <1>9, <1>10 DEF GoesOn

LEMMA FreedLast == InodeInv /\ [InodeNext]_inodeVars => [FreedByTheLast]_inodeVars
<1> SUFFICES ASSUME InodeInv, InodeNext PROVE FreedByTheLast
  OBVIOUS
<1> SUFFICES ASSUME NEW i \in INum, itype[i], nlink[i] = 0, iref[i] > 0, iref'[i] = 0
             PROVE  \E p \in CallsOn(i) : at[p] = "unref"
  BY DEF FreedByTheLast
<1>1. ~(\E why \in {"open", "close", "link", "ialloc"} : Panics(why))
  BY DEF Panics, slotVars
<1>2. PICK p \in User : GoesOn(p)
  BY <1>1, GoesOnOrStops
<1>3. ip[p] = i /\ iref[i] = 1 /\ (Iput(p) \/ FreeUnref(p))
  BY <1>2, LastOneGoes
<1>4. CASE FreeUnref(p)
  BY <1>3, <1>4 DEF FreeUnref, Step, CallsOn
<1>5. CASE Iput(p)
  <2>1. at[p] = "iput" /\ ~LastOfUnlinked(ip[p])
    BY <1>5 DEF Iput, Step
  <2>2. ivalid[ip[p]]
    BY <2>1 DEF InodeInv, ValidInv
  <2> QED
    BY <1>3, <2>1, <2>2 DEF LastOfUnlinked
<1> QED
  BY <1>3, <1>4, <1>5

\* Until one of the three bad paths of sysfile.c is taken or ialloc finds no inode, references,
\* links, types and locks of inodes agree, and the last reference to a file without a name frees it,
\* unless a call that has just freed the inode drops it: for any number of processes,
\* names, descriptors and inodes.
THEOREM FreedByTheLastUser == InodeSpec => FilesSafe
<1>1. InodeSpec => []InodeInv
  BY InodeInvInit, InodeInvStep, PTL DEF InodeSpec
<1>2. InodeSpec => []FilesAgree
  BY <1>1, InodeInvSafe, PTL
<1>3. InodeSpec => [][FreedByTheLast]_inodeVars
  BY <1>1, FreedLast, PTL DEF InodeSpec
<1> QED
  BY <1>2, <1>3, PTL DEF FilesSafe, FilesAgree

\* No more links than names and calls, no more references than descriptors and calls.
LEMMA InodeInvTypes == InodeInv => InodeTypeOK
<1> SUFFICES ASSUME InodeInv PROVE InodeTypeOK
  OBVIOUS
<1>1. InodeTables
  BY DEF InodeInv
<1>2. IsFiniteSet(File) /\ IsFiniteSet(User) /\ IsFiniteSet(Fd) /\ Fds \in Nat /\ Cardinality(Fd) = Fds
  <2>1. 1 \in Int /\ Fds \in Int /\ Fds \in Nat
    BY InodeAssumption
  <2>2. IsFiniteSet(1..Fds) /\ Cardinality(1..Fds) = IF 1 > Fds THEN 0 ELSE Fds - 1 + 1
    BY <2>1, FS_Interval
  <2> QED
    BY <2>1, <2>2, InodeAssumption DEF Fd
<1>3. Cardinality(File) \in Nat /\ Cardinality(User) \in Nat
  BY <1>2, FS_CardinalityType
<1>4. ASSUME NEW i \in INum PROVE nlink[i] \in 0..(Cardinality(File) + Cardinality(User))
  <2> DEFINE a == Cardinality(NamesOf(i))
  <2> DEFINE b == Cardinality(Linking(i))
  <2> DEFINE f == Cardinality(File)
  <2> DEFINE u == Cardinality(User)
  <2>1. NamesOf(i) \in SUBSET File /\ Linking(i) \in SUBSET User
    BY DEF NamesOf, Linking
  <2>2. a <= f /\ b <= u
    BY <1>2, <2>1, FS_Subset
  <2>3. nlink[i] = a + b /\ a \in Nat /\ b \in Nat /\ f \in Nat /\ u \in Nat
    BY <1>3, InodeSets DEF InodeInv, LinkInv
  <2> HIDE DEF a, b, f, u
  <2>4. nlink[i] \in 0..(f + u)
    BY <2>2, <2>3
  <2> QED
    BY <2>4 DEF f, u
<1>5. ASSUME NEW i \in INum PROVE iref[i] \in 0..((Fds + 1) * Cardinality(User))
  <2> DEFINE a == Cardinality(FdsOf(i))
  <2> DEFINE b == Cardinality(CallsOn(i))
  <2> DEFINE u == Cardinality(User)
  <2>1. FdsOf(i) \in SUBSET (User \X Fd) /\ CallsOn(i) \in SUBSET User
    BY DEF FdsOf, CallsOn
  <2>2. IsFiniteSet(User \X Fd) /\ Cardinality(User \X Fd) = u * Fds
    BY <1>2, FS_Product
  <2>3. a <= u * Fds /\ b <= u
    <3>1. a <= Cardinality(User \X Fd)
      BY <2>1, <2>2, FS_Subset
    <3>2. b <= u
      BY <1>2, <2>1, FS_Subset
    <3> QED
      BY <2>2, <3>1, <3>2
  <2>4. iref[i] = a + b /\ a \in Nat /\ b \in Nat /\ u \in Nat
    BY <1>3, InodeSets DEF InodeInv, IrefsAddUp
  <2> HIDE DEF a, b, u
  <2>5. (Fds + 1) * u = u * Fds + u /\ u * Fds \in Nat
    BY <1>2, <2>4
  <2> DEFINE m == u * Fds
  <2>6. iref[i] \in 0..(m + u)
    <3>1. a <= m /\ b <= u /\ m \in Nat
      BY <2>3, <2>5
    <3> HIDE DEF m
    <3> QED
      BY <2>4, <3>1
  <2>7. iref[i] \in 0..((Fds + 1) * u)
    BY <2>5, <2>6
  <2> QED
    BY <2>7 DEF u
<1>6. nlink \in [INum -> 0..(Cardinality(File) + Cardinality(User))]
  BY <1>1, <1>4 DEF InodeTables
<1>7. iref \in [INum -> 0..((Fds + 1) * Cardinality(User))]
  BY <1>1, <1>5 DEF InodeTables
<1> QED
  BY <1>1, <1>6, <1>7 DEF InodeTables, InodeTypeOK
=============================================================================
