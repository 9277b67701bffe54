---------------------------- MODULE BcacheProofs ----------------------------
(***************************************************************************)
(* The buffer cache, for any number of processes, buffers and blocks: its  *)
(* references add up, a block has one copy, nobody sleeps for a free       *)
(* buffer, and the cache implements BlockStore.                            *)
(***************************************************************************)
EXTENDS Bcache, FiniteSetTheorems, WellFoundedInduction, TLAPS

\* What each place in the code says of the process and its buffer.
PlaceInv ==
  /\ \A p \in Proc : InBio(p) => buf[p] \in Buf /\ blk[p] \in Block
  /\ \A p \in Proc : pc[p] = "read" => ~valid[buf[p]]
  /\ \A p \in Proc : pc[p] \in Locks \ {"read"} => valid[buf[p]]
  /\ \A p \in Proc : pc[p] = "unpin" => /\ blk[p] \in logged
                                        /\ data[buf[p]] = disk[blk[p]]

\* The log's header names pinned blocks, and a pinned block is in a buffer.
PinInv ==
  /\ \A b \in logged : pins[b] > 0
  /\ \A b \in Block : pins[b] > 0 => \E i \in Buf : blockno[i] = b /\ valid[i]

\* A buffer is ahead of the disk only while somebody is about to log or write
\* it, or the log is.
CleanInv ==
  \A i \in Buf : valid[i] =>
    /\ blockno[i] \in Block
    /\ \/ data[i] = disk[blockno[i]]
       \/ blockno[i] \in logged
       \/ \E p \in Proc : pc[p] \in {"changed", "write"} /\ buf[p] = i

IInv == /\ TypeOK /\ PlaceInv /\ PinInv /\ CleanInv
        /\ CacheCoherent /\ SleepersBlocked

-----------------------------------------------------------------------------
(* Searching the list.                                                     *)
LEMMA LeastOf ==
  ASSUME NEW S \in SUBSET Nat, S # {}
  PROVE  \E k \in S : \A j \in S : k <= j
<1>1. PICK k \in S : \A j \in S : ~(<<j, k>> \in OpToRel(<, Nat))
  BY NatLessThanWellFounded, WFMin
<1>2. \A j \in S : ~(j < k)
  BY <1>1 DEF OpToRel
<1> QED  BY <1>2

LEMMA GreatestOf ==
  ASSUME NEW S \in SUBSET Buf, S # {}
  PROVE  \E k \in S : \A j \in S : j <= k
<1> DEFINE T == {NBuf - k : k \in S}
<1>1. T \in SUBSET Nat /\ T # {}
  BY BcacheAssumption DEF Buf
<1>2. PICK m \in T : \A j \in T : m <= j
  BY <1>1, LeastOf
<1>3. PICK k \in S : m = NBuf - k
  BY <1>2
<1>4. \A j \in S : NBuf - k <= NBuf - j
  BY <1>2, <1>3
<1>5. \A j \in S : j <= k
  BY <1>4, BcacheAssumption DEF Buf
<1> QED  BY <1>5

\* bget takes the buffer it has found, and the unused one it has found.
LEMMA FirstCached ==
  ASSUME TypeOK, NEW b, Cached(b) # {}
  PROVE  FirstOf(Cached(b)) \in Buf /\ blockno[FirstOf(Cached(b))] = b
<1>1. Cached(b) \in SUBSET Nat
  BY BcacheAssumption DEF Cached, Buf
<1>2. \E k \in Cached(b) : \A j \in Cached(b) : k <= j
  BY <1>1, LeastOf
<1> QED  BY <1>2 DEF FirstOf, Cached, TypeOK

LEMMA LastUnused ==
  ASSUME TypeOK, Unused # {}
  PROVE  LastOf(Unused) \in Buf /\ refcnt[LastOf(Unused)] = 0
<1>1. Unused \in SUBSET Buf
  BY DEF Unused
<1>2. \E k \in Unused : \A j \in Unused : j <= k
  BY <1>1, GreatestOf
<1> QED  BY <1>2 DEF LastOf, Unused, TypeOK

\* A block that is not found is in no buffer: every buffer is in the list.
LEMMA NotCached ==
  ASSUME TypeOK, NEW b, Cached(b) = {}
  PROVE  \A i \in Buf : blockno[i] # b
BY DEF Cached, TypeOK

LEMMA AllUsed ==
  ASSUME TypeOK, Unused = {}
  PROVE  \A i \in Buf : refcnt[i] # 0
BY DEF Unused, TypeOK

\* A buffer that is moved to the front stays in the list, and so do the others.
LEMMA ToFrontPermutes ==
  ASSUME TypeOK, NEW i \in Buf
  PROVE  /\ ToFront(i) \in [Buf -> Buf]
         /\ \A j \in Buf : \E k \in Buf : ToFront(i)[k] = j
<1>1. 1 \in Buf /\ \A k \in Buf : k # 1 => k - 1 \in Buf
  BY BcacheAssumption DEF Buf
<1>2. Position(i) \in Buf /\ order[Position(i)] = i
  BY DEF TypeOK, Position
<1>3. ToFront(i) \in [Buf -> Buf]
  BY <1>1 DEF TypeOK, ToFront
<1>4. ASSUME NEW j \in Buf PROVE \E k \in Buf : ToFront(i)[k] = j
  <2>1. CASE j = i
    BY <1>1, <2>1 DEF ToFront
  <2>2. CASE j # i
    <3>1. PICK k \in Buf : order[k] = j
      BY DEF TypeOK
    <3>2. CASE k < Position(i)
      <4>1. k + 1 \in Buf /\ k + 1 # 1 /\ k + 1 <= Position(i) /\ (k + 1) - 1 = k
        BY <1>2, <3>2, BcacheAssumption DEF Buf
      <4> QED  BY <3>1, <4>1 DEF ToFront
    <3>3. CASE k > Position(i)
      <4>1. k # 1 /\ ~(k <= Position(i))
        BY <1>2, <3>3, BcacheAssumption DEF Buf
      <4> QED  BY <3>1, <4>1 DEF ToFront
    <3>4. k # Position(i)
      BY <1>2, <2>2, <3>1
    <3> QED  BY <1>2, <3>2, <3>3, <3>4, BcacheAssumption DEF Buf
  <2> QED  BY <2>1, <2>2
<1> QED  BY <1>3, <1>4

-----------------------------------------------------------------------------
(* Counting the users of a buffer.                                         *)
LEMMA UsersFinite ==
  ASSUME NEW i
  PROVE  IsFiniteSet(Users(i)) /\ Cardinality(Users(i)) \in Nat
<1>1. Users(i) \in SUBSET Proc
  BY DEF Users
<1> QED  BY <1>1, BcacheAssumption, FS_Subset, FS_CardinalityType

\* Who is in bio.c is counted.
LEMMA Counted ==
  ASSUME IInv, NEW p \in Proc, InBio(p)
  PROVE  refcnt[buf[p]] \in Nat \ {0}
<1>1. p \in Users(buf[p])
  BY DEF Users
<1>2. Cardinality(Users(buf[p])) \in Nat \ {0}
  BY <1>1, UsersFinite, FS_EmptySet
<1>3. buf[p] \in Buf
  BY DEF IInv, PlaceInv
<1> DEFINE m == IF blockno[buf[p]] \in Block THEN pins[blockno[buf[p]]] ELSE 0
<1>4. m \in Nat
  BY <1>3 DEF IInv, TypeOK
<1>5. refcnt[buf[p]] = Cardinality(Users(buf[p])) + m
  BY <1>3 DEF IInv, CacheCoherent, RefsAddUp
<1> QED  BY <1>2, <1>4, <1>5

\* An unused buffer has no user, and its block no pin.
LEMMA UnusedIsFree ==
  ASSUME IInv, NEW i \in Buf, refcnt[i] = 0
  PROVE  /\ Users(i) = {}
         /\ blockno[i] \in Block => pins[blockno[i]] = 0
<1> DEFINE n == Cardinality(Users(i))
           m == IF blockno[i] \in Block THEN pins[blockno[i]] ELSE 0
<1>1. n \in Nat /\ m \in Nat
  BY UsersFinite DEF IInv, TypeOK
<1>2. n + m = 0
  BY DEF IInv, CacheCoherent, RefsAddUp
<1>3. n = 0 /\ m = 0
  BY <1>1, <1>2
<1> QED  BY <1>3, UsersFinite, FS_EmptySet

\* What is asked for after a miss is not pinned.
LEMMA MissedIsUnpinned ==
  ASSUME IInv, NEW b \in Block, Cached(b) = {}
  PROVE  pins[b] = 0
<1>1. ~(pins[b] > 0)
  BY NotCached DEF IInv, PinInv
<1> QED  BY <1>1 DEF IInv, TypeOK

-----------------------------------------------------------------------------
(* Types.                                                                  *)
LEMMA TypeInit == Init => TypeOK
<1> SUFFICES ASSUME Init PROVE TypeOK
  OBVIOUS
<1>1. order \in [Buf -> Buf] /\ \A i \in Buf : \E k \in Buf : order[k] = i
  <2>1. \A i \in Buf : NBuf + 1 - i \in Buf /\ NBuf + 1 - (NBuf + 1 - i) = i
    BY BcacheAssumption DEF Buf
  <2> QED  BY <2>1 DEF Init
<1>2. \A v \in Data : /\ [i \in Buf |-> v] \in [Buf -> Data]
                      /\ [b \in Block |-> v] \in [Block -> Data]
  OBVIOUS
<1>3. data \in [Buf -> Data] /\ disk \in [Block -> Data]
  BY <1>2 DEF Init
<1> QED  BY <1>1, <1>3 DEF Init, TypeOK, Where

LEMMA BgetType ==
  ASSUME IInv, NEW p \in Proc, NEW b \in Block, Bget(p, b)
  PROVE  TypeOK'
<1> USE DEF TypeOK, Where
<1>1. TypeOK
  BY DEF IInv
<1>2. CASE Hit(p, b)
  <2>1. FirstOf(Cached(b)) \in Buf
    BY <1>1, <1>2, FirstCached DEF Hit
  <2> QED  BY <1>1, <1>2, <2>1 DEF Bget, Hit, Goes, logVars, Miss
<1>3. CASE Miss(p, b)
  <2>1. LastOf(Unused) \in Buf
    BY <1>1, <1>3, LastUnused DEF Miss
  <2> QED  BY <1>1, <1>3, <2>1 DEF Bget, Miss, Invalid, Goes, logVars, Hit
<1>4. CASE ~Hit(p, b) /\ ~Miss(p, b)
  BY <1>1, <1>4 DEF Bget, logVars
<1> QED  BY <1>2, <1>3, <1>4

LEMMA TypeStep == IInv /\ [Next]_vars => TypeOK'
<1> SUFFICES ASSUME IInv, [Next]_vars PROVE TypeOK'
  OBVIOUS
<1>0. TypeOK
  BY DEF IInv
<1> USE DEF TypeOK, Where, At, Goes, logVars, bufVars
<1>1. ASSUME NEW p \in Proc, NEW b \in Block, Bget(p, b) PROVE TypeOK'
  BY <1>1, BgetType
<1>2. ASSUME NEW p \in Proc, Acquire(p) PROVE TypeOK'
  BY <1>0, <1>2 DEF Acquire
<1>3. ASSUME NEW p \in Proc, Kill(p) \/ Write(p) PROVE TypeOK'
  BY <1>0, <1>3 DEF Kill, Write
<1>4. ASSUME NEW p \in Proc, ReadDone(p) PROVE TypeOK'
  <2>1. /\ buf[p] \in Buf /\ blockno[buf[p]] \in Block
    BY <1>4 DEF ReadDone, IInv, PlaceInv, InBio, CacheCoherent, NotRecycled
  <2> QED  BY <1>0, <1>4, <2>1 DEF ReadDone
<1>5. ASSUME NEW p \in Proc, NEW v \in Data, Change(p, v) PROVE TypeOK'
  BY <1>0, <1>5 DEF Change
<1>6. ASSUME NEW p \in Proc, LogWrite(p) PROVE TypeOK'
  <2>1. buf[p] \in Buf /\ blk[p] \in Block
    BY <1>6 DEF LogWrite, IInv, PlaceInv, InBio
  <2>2. /\ logged' = logged \cup {blk[p]}
        /\ pins' = [pins EXCEPT ![blk[p]] = @ + 1]
        /\ refcnt' = [refcnt EXCEPT ![buf[p]] = @ + 1]
        /\ pc' = [pc EXCEPT ![p] = "done"]
        /\ UNCHANGED <<blockno, valid, data, holder, order, disk, blk, buf, panicked>>
    BY <1>6 DEF LogWrite
  <2> QED  BY <1>0, <2>1, <2>2
<1>7. ASSUME NEW p \in Proc, WriteDone(p) PROVE TypeOK'
  <2>1. /\ buf[p] \in Buf /\ blockno[buf[p]] \in Block
    BY <1>7 DEF WriteDone, IInv, PlaceInv, InBio, CacheCoherent, NotRecycled
  <2> QED  BY <1>0, <1>7, <2>1 DEF WriteDone
<1>8. ASSUME NEW p \in Proc, Unpin(p) PROVE TypeOK'
  <2>1. refcnt[buf[p]] \in Nat \ {0}
    BY <1>8, Counted DEF Unpin, InBio
  <2>2. blk[p] \in logged
    BY <1>8 DEF Unpin, IInv, PlaceInv
  <2>3. pins[blk[p]] > 0
    BY <2>2 DEF IInv, PinInv
  <2>4. refcnt[buf[p]] - 1 \in Nat /\ pins[blk[p]] - 1 \in Nat
    BY <1>0, <2>1, <2>2, <2>3
  <2> QED  BY <1>0, <1>8, <2>4 DEF Unpin
<1>9. ASSUME NEW p \in Proc, Brelse(p) PROVE TypeOK'
  <2>1. holder' \in [Buf -> Proc \cup {NoProc}] /\ pc' \in [Proc -> Where]
    BY <1>0, <1>9 DEF Brelse, Released
  <2>2. panicked' \in BOOLEAN
    BY <1>0, <1>9 DEF Brelse
  <2> QED  BY <1>0, <1>9, <2>1, <2>2 DEF Brelse
<1>10. ASSUME NEW p \in Proc, Drop(p) PROVE TypeOK'
  <2>1. refcnt[buf[p]] \in Nat \ {0}
    BY <1>10, Counted DEF Drop, InBio
  <2>2. refcnt[buf[p]] - 1 \in Nat
    BY <2>1
  <2>3. buf[p] \in Buf
    BY <1>10 DEF Drop, IInv, PlaceInv, InBio
  <2>4. order' \in [Buf -> Buf] /\ \A i \in Buf : \E k \in Buf : order'[k] = i
    <3>1. order' \in {ToFront(buf[p]), order}
      BY <1>10 DEF Drop
    <3>2. order \in [Buf -> Buf] /\ \A i \in Buf : \E k \in Buf : order[k] = i
      BY <1>0
    <3>3. ToFront(buf[p]) \in [Buf -> Buf] /\ \A i \in Buf : \E k \in Buf : ToFront(buf[p])[k] = i
      <4> HIDE DEF TypeOK
      <4> QED  BY <1>0, <2>3, ToFrontPermutes
    <3> QED  BY <3>1, <3>2, <3>3
  <2> QED  BY <1>0, <1>10, <2>2, <2>4 DEF Drop
<1>11. CASE UNCHANGED vars
  BY <1>0, <1>11 DEF vars, procVars
<1> QED
  BY <1>1, <1>2, <1>3, <1>4, <1>5, <1>6, <1>7, <1>8, <1>9, <1>10, <1>11 DEF Next

-----------------------------------------------------------------------------
(* Sleep locks: bget gives a buffer to wait for, never the lock; the lock  *)
(* goes to one process, and its release wakes all who sleep for it.        *)
LEMMA BgetPlaces ==
  ASSUME IInv, NEW p \in Proc, NEW b \in Block, Bget(p, b)
  PROVE  /\ pc[p] = "user"
         /\ \A q \in Proc : q # p => pc'[q] = pc[q] /\ buf'[q] = buf[q] /\ blk'[q] = blk[q]
         /\ \/ /\ pc'[p] = "lock" /\ buf'[p] \in Buf /\ blk'[p] = b /\ ~panicked'
               /\ Hit(p, b) \/ Miss(p, b)
            \/ /\ panicked' /\ Cached(b) = {} /\ Unused = {} /\ blk'[p] = b
               /\ UNCHANGED <<blockno, valid, refcnt, buf, pc>>
         /\ UNCHANGED <<data, holder, order, disk, logged, pins>>
<1> USE DEF TypeOK, At, Goes, logVars
<1>1. TypeOK
  BY DEF IInv
<1>2. CASE Hit(p, b) /\ Goes(p, "lock") /\ UNCHANGED panicked
  <2>1. FirstOf(Cached(b)) \in Buf
    BY <1>1, <1>2, FirstCached DEF Hit
  <2> QED  BY <1>1, <1>2, <2>1 DEF Bget, Hit
<1>3. CASE Miss(p, b) /\ Goes(p, "lock") /\ UNCHANGED panicked
  <2>1. LastOf(Unused) \in Buf
    BY <1>1, <1>3, LastUnused DEF Miss
  <2> QED  BY <1>1, <1>3, <2>1 DEF Bget, Miss
<1>4. CASE /\ Cached(b) = {} /\ Unused = {} /\ panicked'
           /\ UNCHANGED <<blockno, valid, refcnt, buf, pc>>
  BY <1>1, <1>4 DEF Bget
<1> QED  BY <1>2, <1>3, <1>4 DEF Bget

LEMMA SleepersStep == IInv /\ [Next]_vars => SleepersBlocked'
<1> SUFFICES ASSUME IInv, [Next]_vars PROVE SleepersBlocked'
  OBVIOUS
<1>0. /\ TypeOK /\ SleepersBlocked
      /\ \A p \in Proc : pc[p] # "user" => buf[p] \in Buf
  BY DEF IInv, PlaceInv, InBio
<1> USE DEF SleepersBlocked, TypeOK, Where, At, Goes, logVars, bufVars, Locks
<1>1. ASSUME NEW p \in Proc, NEW b \in Block, Bget(p, b) PROVE SleepersBlocked'
  BY <1>0, <1>1, BgetPlaces
<1>2. ASSUME NEW p \in Proc, Acquire(p) PROVE SleepersBlocked'
  <2>1. CASE holder[buf[p]] = NoProc
    <3>1. PICK to \in {"held", "read"} : pc' = [pc EXCEPT ![p] = to]
      BY <1>2, <2>1 DEF Acquire
    <3>2. /\ holder' = [holder EXCEPT ![buf[p]] = p] /\ buf' = buf
          /\ pc[p] = "lock" /\ buf[p] \in Buf /\ p # NoProc
      BY <1>0, <1>2, <2>1, BcacheAssumption DEF Acquire
    <3>3. \A q \in Proc : /\ q # p => pc'[q] = pc[q]
                         /\ pc'[p] \in Locks /\ pc[p] \notin Locks /\ pc'[p] # "sleep"
      BY <1>0, <3>1, <3>2
    <3>4. \A i \in Buf : holder'[i] = IF i = buf[p] THEN p ELSE holder[i]
      BY <1>0, <3>2
    <3>5. ASSUME NEW q \in Proc, pc'[q] = "sleep" PROVE holder'[buf'[q]] # NoProc
      BY <1>0, <2>1, <3>2, <3>3, <3>4, <3>5
    <3>6. ASSUME NEW i \in Buf, NEW q \in Proc
          PROVE  (holder'[i] = q) <=> (pc'[q] \in Locks /\ buf'[q] = i)
      <4> HIDE DEF Locks
      <4>1. (holder[i] = q) <=> (pc[q] \in Locks /\ buf[q] = i)
        BY <1>0
      <4>2. (holder[i] = p) <=> (pc[p] \in Locks /\ buf[p] = i)
        BY <1>0
      <4>3. holder[buf[p]] # q
        BY <2>1, BcacheAssumption
      <4> QED  BY <2>1, <3>2, <3>3, <3>4, <4>1, <4>2, <4>3
    <3> QED  BY <3>5, <3>6
  <2>2. CASE holder[buf[p]] # NoProc
    BY <1>0, <1>2, <2>2 DEF Acquire
  <2> QED  BY <2>1, <2>2
<1>3. ASSUME NEW p \in Proc, Kill(p) \/ Write(p) PROVE SleepersBlocked'
  BY <1>0, <1>3 DEF Kill, Write
<1>4. ASSUME NEW p \in Proc, ReadDone(p) PROVE SleepersBlocked'
  BY <1>0, <1>4 DEF ReadDone
<1>5. ASSUME NEW p \in Proc, NEW v \in Data, Change(p, v) PROVE SleepersBlocked'
  BY <1>0, <1>5 DEF Change
<1>6. ASSUME NEW p \in Proc, LogWrite(p) PROVE SleepersBlocked'
  <2>1. /\ pc[p] = "changed" /\ pc' = [pc EXCEPT ![p] = "done"]
        /\ UNCHANGED <<holder, buf>>
    BY <1>6 DEF LogWrite
  <2> QED  BY <1>0, <2>1
<1>7. ASSUME NEW p \in Proc, WriteDone(p) PROVE SleepersBlocked'
  BY <1>0, <1>7 DEF WriteDone
<1>8. ASSUME NEW p \in Proc, Unpin(p) PROVE SleepersBlocked'
  BY <1>0, <1>8 DEF Unpin
<1>9. ASSUME NEW p \in Proc, Brelse(p) PROVE SleepersBlocked'
  <2>1. holder[buf[p]] = p /\ buf[p] \in Buf /\ pc[p] \in {"held", "done"}
    BY <1>0, <1>9 DEF Brelse
  <2>2. /\ holder' = [holder EXCEPT ![buf[p]] = NoProc] /\ buf' = buf
        /\ pc' = [q \in Proc |-> IF q = p THEN "drop"
                                 ELSE IF Woken(q, buf[p]) THEN "lock" ELSE pc[q]]
    BY <1>9, <2>1 DEF Brelse, Released
  <2>3. ASSUME NEW q \in Proc, pc'[q] = "sleep" PROVE holder'[buf'[q]] # NoProc
    BY <1>0, <2>1, <2>2, <2>3 DEF Woken
  <2>4. ASSUME NEW q \in Proc, NEW i \in Buf
        PROVE  holder'[i] = q <=> pc'[q] \in Locks /\ buf'[q] = i
    <3>1. pc[q] = "sleep" => holder[buf[q]] # q
      <4>1. SleepersBlocked /\ (pc[q] = "sleep" => buf[q] \in Buf)
        BY <1>0
      <4>2. buf[q] \in Buf => (holder[buf[q]] = q => pc[q] \in Locks)
        BY <4>1
      <4> QED  BY <4>1, <4>2
    <3>2. CASE q = p
      BY <1>0, <2>1, <2>2, <3>2, BcacheAssumption
    <3>3. CASE q # p
      BY <1>0, <2>1, <2>2, <3>3, BcacheAssumption DEF Woken
    <3> QED  BY <3>2, <3>3
  <2> QED  BY <2>3, <2>4
<1>10. ASSUME NEW p \in Proc, Drop(p) PROVE SleepersBlocked'
  BY <1>0, <1>10 DEF Drop
<1>11. CASE UNCHANGED vars
  BY <1>0, <1>11 DEF vars, procVars
<1> QED
  BY <1>1, <1>2, <1>3, <1>4, <1>5, <1>6, <1>7, <1>8, <1>9, <1>10, <1>11 DEF Next

-----------------------------------------------------------------------------
(* Where each process is, and which block its buffer is for.               *)

\* Who has the lock has it alone.
LEMMA HoldsAlone ==
  ASSUME IInv, NEW p \in Proc, NEW q \in Proc, pc[p] \in Locks, pc[q] \in Locks,
         buf[p] = buf[q]
  PROVE  p = q
<1>1. buf[p] \in Buf
  BY DEF IInv, PlaceInv, InBio, Locks
<1> QED  BY <1>1 DEF IInv, SleepersBlocked

\* Two buffers in use are for two blocks.
LEMMA BlocksApart ==
  ASSUME IInv, NEW p \in Proc, NEW q \in Proc, InBio(p), InBio(q), blk[p] = blk[q]
  PROVE  buf[p] = buf[q]
<1>1. /\ buf[p] \in Buf /\ buf[q] \in Buf /\ blk[p] \in Block
      /\ blockno[buf[p]] = blk[p] /\ blockno[buf[q]] = blk[q]
  BY DEF IInv, PlaceInv, CacheCoherent, NotRecycled
<1>2. blk[p] # 0
  BY <1>1, BcacheAssumption
<1> QED  BY <1>1, <1>2 DEF IInv, CacheCoherent, OneCopy

\* What bget does to a buffer it does not recycle, and to one it does.
LEMMA BgetBuffers ==
  ASSUME IInv, NEW p \in Proc, NEW b \in Block, Bget(p, b), ~panicked'
  PROVE  LET i == buf'[p] IN
         /\ i \in Buf
         /\ \A j \in Buf : j # i => /\ blockno'[j] = blockno[j] /\ valid'[j] = valid[j]
                                    /\ refcnt'[j] = refcnt[j]
         /\ blockno'[i] = b
         /\ \/ blockno[i] = b /\ valid'[i] = valid[i] /\ refcnt'[i] = refcnt[i] + 1
            \/ /\ refcnt[i] = 0 /\ ~valid'[i] /\ refcnt'[i] = 1
               /\ Cached(b) = {} /\ pins[b] = 0
<1> USE DEF TypeOK
<1>1. TypeOK
  BY DEF IInv
<1>2. CASE Hit(p, b)
  <2>1. FirstOf(Cached(b)) \in Buf /\ blockno[FirstOf(Cached(b))] = b
    BY <1>1, <1>2, FirstCached DEF Hit
  <2> QED  BY <1>1, <1>2, <2>1 DEF Hit
<1>3. CASE Miss(p, b)
  <2>1. LastOf(Unused) \in Buf /\ refcnt[LastOf(Unused)] = 0
    BY <1>1, <1>3, LastUnused DEF Miss
  <2>2. Cached(b) = {} /\ pins[b] = 0
    BY <1>3, MissedIsUnpinned DEF Miss
  <2> QED  BY <1>1, <1>3, <2>1, <2>2 DEF Miss, Invalid
<1> QED  BY <1>2, <1>3, BgetPlaces

\* The steps of a process that is in bio.c and stays there leave alone which
\* buffer is whose, and for which block.
Stays(p) == \/ Acquire(p) \/ Kill(p) \/ ReadDone(p) \/ \E v \in Data : Change(p, v)
            \/ LogWrite(p) \/ Write(p) \/ WriteDone(p) \/ Unpin(p) \/ Brelse(p)

LEMMA StaysInBio ==
  ASSUME IInv, NEW p \in Proc, Stays(p)
  PROVE  /\ UNCHANGED <<blockno, buf, blk>>
         /\ \A q \in Proc : InBio(q)' <=> InBio(q)
         /\ \A i \in Buf : Users(i)' = Users(i)
<1> USE DEF At, Goes, InBio
<1>0. pc \in [Proc -> Where]
  BY DEF IInv, TypeOK
<1>1. UNCHANGED <<blockno, buf, blk>>
  BY DEF Stays, Acquire, Kill, ReadDone, Change, LogWrite, Write, WriteDone, Unpin,
         Brelse, bufVars
<1>2. ASSUME NEW q \in Proc PROVE InBio(q)' <=> InBio(q)
  <2>1. CASE LogWrite(p)
    BY <1>0, <2>1 DEF LogWrite
  <2>2. CASE Brelse(p)
    BY <1>0, <2>2 DEF Brelse, Released, Woken
  <2>3. CASE ~LogWrite(p) /\ ~Brelse(p)
    BY <1>0, <2>3 DEF Stays, Acquire, Kill, ReadDone, Change, Write, WriteDone, Unpin
  <2> QED  BY <2>1, <2>2, <2>3
<1>3. \A i \in Buf : Users(i)' = Users(i)
  BY <1>1, <1>2 DEF Users
<1> QED  BY <1>1, <1>2, <1>3

LEMMA DropPlaces ==
  ASSUME IInv, NEW p \in Proc, Drop(p)
  PROVE  /\ pc[p] = "drop" /\ pc'[p] = "user" /\ InBio(p)
         /\ \A q \in Proc : q # p => pc'[q] = pc[q] /\ buf'[q] = buf[q] /\ blk'[q] = blk[q]
         /\ refcnt' = [refcnt EXCEPT ![buf[p]] = @ - 1]
         /\ UNCHANGED <<blockno, valid, data, holder, disk, logged, pins, panicked>>
BY DEF IInv, TypeOK, Drop, At, Goes, logVars, InBio

LEMMA NextCases ==
  ASSUME Next
  PROVE  \E p \in Proc : Stays(p) \/ Drop(p) \/ \E b \in Block : Bget(p, b)
BY DEF Next, Stays

LEMMA NotRecycledStep == IInv /\ [Next]_vars => NotRecycled'
<1> SUFFICES ASSUME IInv, [Next]_vars, NEW q \in Proc, InBio(q)'
             PROVE  blockno'[buf'[q]] = blk'[q]
  BY DEF NotRecycled
<1>0. NotRecycled
  BY DEF IInv, CacheCoherent
<1>1. ASSUME NEW p \in Proc, Stays(p) PROVE blockno'[buf'[q]] = blk'[q]
  BY <1>0, <1>1, StaysInBio DEF NotRecycled
<1>2. ASSUME NEW p \in Proc, Drop(p) PROVE blockno'[buf'[q]] = blk'[q]
  BY <1>0, <1>2, DropPlaces DEF NotRecycled, InBio
<1>3. ASSUME NEW p \in Proc, NEW b \in Block, Bget(p, b)
      PROVE  blockno'[buf'[q]] = blk'[q]
  <2>1. CASE panicked'
    <3>1. UNCHANGED <<blockno, buf>> /\ pc'[q] # "user" /\ q # p
      BY <1>3, <2>1, BgetPlaces DEF InBio
    <3> QED  BY <1>0, <1>3, <3>1, BgetPlaces DEF NotRecycled, InBio
  <2>2. CASE ~panicked' /\ q = p
    BY <1>3, <2>2, BgetPlaces, BgetBuffers
  <2>3. CASE ~panicked' /\ q # p
    <3>1. /\ InBio(q) /\ buf'[q] = buf[q] /\ blk'[q] = blk[q]
          /\ buf[q] \in Buf /\ blockno[buf[q]] = blk[q]
      BY <1>0, <1>3, <2>3, BgetPlaces DEF NotRecycled, InBio, IInv, PlaceInv
    <3>2. refcnt[buf[q]] # 0
      BY <3>1, Counted
    <3>3. blockno'[buf[q]] = blockno[buf[q]]
      BY <1>3, <2>3, <3>1, <3>2, BgetBuffers
    <3> QED  BY <3>1, <3>3
  <2> QED  BY <2>1, <2>2, <2>3
<1>4. CASE UNCHANGED vars
  BY <1>0, <1>4 DEF NotRecycled, InBio, vars, bufVars, procVars
<1> QED  BY <1>1, <1>2, <1>3, <1>4, NextCases

LEMMA RefsStep == IInv /\ [Next]_vars => RefsAddUp'
<1> SUFFICES ASSUME IInv, [Next]_vars, NEW i \in Buf
             PROVE  refcnt'[i] = Cardinality(Users(i)')
                                 + (IF blockno'[i] \in Block THEN pins'[blockno'[i]] ELSE 0)
  BY DEF RefsAddUp
<1> DEFINE Pinned == IF blockno[i] \in Block THEN pins[blockno[i]] ELSE 0
           Goal == refcnt'[i] = Cardinality(Users(i)')
                                + (IF blockno'[i] \in Block THEN pins'[blockno'[i]] ELSE 0)
<1>0. /\ refcnt[i] = Cardinality(Users(i)) + Pinned
      /\ Cardinality(Users(i)) \in Nat /\ Pinned \in Nat
  BY UsersFinite DEF IInv, CacheCoherent, RefsAddUp, TypeOK
<1> HIDE DEF Goal
<1>1. ASSUME NEW p \in Proc, Stays(p), refcnt' = refcnt, pins' = pins PROVE Goal
  BY <1>0, <1>1, StaysInBio DEF Goal
<1>2. ASSUME NEW p \in Proc, Stays(p), LogWrite(p) \/ Unpin(p) PROVE Goal
  <2>1. /\ InBio(p) /\ buf[p] \in Buf /\ blk[p] \in Block /\ blockno[buf[p]] = blk[p]
    BY <1>2 DEF LogWrite, Unpin, At, InBio, IInv, PlaceInv, CacheCoherent, NotRecycled
  <2>2. PICK d \in {1, -1} : /\ refcnt' = [refcnt EXCEPT ![buf[p]] = @ + d]
                             /\ pins' = [pins EXCEPT ![blk[p]] = @ + d]
    <3>1. CASE LogWrite(p)
      BY <3>1 DEF LogWrite
    <3>2. CASE Unpin(p)
      <4>1. /\ refcnt' = [refcnt EXCEPT ![buf[p]] = @ - 1]
            /\ pins' = [pins EXCEPT ![blk[p]] = @ - 1]
        BY <3>2 DEF Unpin
      <4>2. /\ refcnt[buf[p]] - 1 = refcnt[buf[p]] + (-1)
            /\ pins[blk[p]] - 1 = pins[blk[p]] + (-1)
        BY <2>1 DEF IInv, TypeOK
      <4> QED  BY <4>1, <4>2
    <3> QED  BY <1>2, <3>1, <3>2
  <2>3. blockno'[i] = blockno[i] /\ Users(i)' = Users(i)
    BY <1>2, StaysInBio
  <2>4. CASE i = buf[p]
    <3>1. refcnt'[i] = refcnt[i] + d /\ pins'[blockno[i]] = pins[blockno[i]] + d
      BY <2>1, <2>2, <2>4 DEF IInv, TypeOK
    <3>2. pins[blockno[i]] \in Nat
      BY <2>1, <2>4 DEF IInv, TypeOK
    <3> QED  BY <1>0, <2>1, <2>2, <2>3, <2>4, <3>1, <3>2 DEF Goal
  <2>5. CASE i # buf[p]
    <3>1. blockno[i] # blk[p]
      BY <2>1, <2>5, BcacheAssumption DEF IInv, CacheCoherent, OneCopy
    <3>2. refcnt'[i] = refcnt[i]
      BY <2>2, <2>5 DEF IInv, TypeOK
    <3>3. blockno[i] \in Block => pins'[blockno[i]] = pins[blockno[i]]
      BY <2>2, <3>1 DEF IInv, TypeOK
    <3> QED  BY <1>0, <2>3, <3>2, <3>3 DEF Goal
  <2> QED  BY <2>4, <2>5
<1>3. ASSUME NEW p \in Proc, Drop(p) PROVE Goal
  <2>1. blockno'[i] = blockno[i] /\ pins' = pins
    BY <1>3, DropPlaces
  <2>2. CASE i = buf[p]
    <3>1. p \in Users(i) /\ Users(i)' = Users(i) \ {p}
      BY <1>3, <2>2, DropPlaces DEF Users, InBio
    <3>2. Cardinality(Users(i)') = Cardinality(Users(i)) - 1
      BY <3>1, UsersFinite, FS_RemoveElement
    <3>3. refcnt'[i] = refcnt[i] - 1
      BY <1>3, <2>2, DropPlaces DEF IInv, TypeOK
    <3> QED  BY <1>0, <2>1, <3>2, <3>3 DEF Goal
  <2>3. CASE i # buf[p]
    <3>1. Users(i)' = Users(i)
      BY <1>3, <2>3, DropPlaces DEF Users, InBio
    <3>2. refcnt'[i] = refcnt[i]
      BY <1>3, <2>3, DropPlaces DEF IInv, TypeOK
    <3> QED  BY <1>0, <2>1, <3>1, <3>2 DEF Goal
  <2> QED  BY <2>2, <2>3
<1>4. ASSUME NEW p \in Proc, NEW b \in Block, Bget(p, b) PROVE Goal
  <2>1. pins' = pins /\ pc[p] = "user"
    BY <1>4, BgetPlaces
  <2>2. CASE panicked'
    <3>1. UNCHANGED <<blockno, refcnt, buf, pc>>
      BY <1>4, <2>2, BgetPlaces
    <3> QED  BY <1>0, <2>1, <3>1 DEF Goal, Users, InBio
  <2>3. CASE ~panicked' /\ i = buf'[p]
    <3>1. p \notin Users(i) /\ Users(i)' = Users(i) \cup {p}
      BY <1>4, <2>1, <2>3, BgetPlaces DEF Users, InBio
    <3>2. Cardinality(Users(i)') = Cardinality(Users(i)) + 1
      BY <3>1, UsersFinite, FS_AddElement
    <3>3. CASE blockno[i] = b /\ refcnt'[i] = refcnt[i] + 1
      <4>1. blockno'[i] = b
        BY <1>4, <2>3, BgetBuffers
      <4> QED  BY <1>0, <2>1, <3>2, <3>3, <4>1 DEF Goal
    <3>4. CASE refcnt[i] = 0 /\ refcnt'[i] = 1 /\ pins[b] = 0
      <4>1. blockno'[i] = b
        BY <1>4, <2>3, BgetBuffers
      <4>2. Cardinality(Users(i)) = 0
        BY <3>4, UnusedIsFree, FS_EmptySet
      <4> QED  BY <2>1, <3>2, <3>4, <4>1, <4>2 DEF Goal
    <3> QED  BY <1>4, <2>3, <3>3, <3>4, BgetBuffers
  <2>4. CASE ~panicked' /\ i # buf'[p]
    <3>1. Users(i)' = Users(i)
      BY <1>4, <2>1, <2>4, BgetPlaces DEF Users, InBio
    <3>2. blockno'[i] = blockno[i] /\ refcnt'[i] = refcnt[i]
      BY <1>4, <2>4, BgetBuffers
    <3> QED  BY <1>0, <2>1, <3>1, <3>2 DEF Goal
  <2> QED  BY <2>2, <2>3, <2>4
<1>5. CASE UNCHANGED vars
  BY <1>0, <1>5 DEF Goal, Users, InBio, vars, bufVars, procVars, logVars
<1>6. ASSUME NEW p \in Proc, Stays(p)
      PROVE  LogWrite(p) \/ Unpin(p) \/ (refcnt' = refcnt /\ pins' = pins)
  BY <1>6 DEF Stays, Acquire, Kill, ReadDone, Change, Write, WriteDone, Brelse,
              bufVars, logVars
<1> QED  BY <1>1, <1>2, <1>3, <1>4, <1>5, <1>6, NextCases DEF Goal

\* What a process that stays in bio.c does to the others, and they to it.
LEMMA StaysPlaces ==
  ASSUME IInv, NEW p \in Proc, Stays(p)
  PROVE  /\ buf[p] \in Buf /\ blk[p] \in Block /\ blockno[buf[p]] = blk[p]
         /\ \A q \in Proc : q # p => \/ pc'[q] = pc[q]
                                     \/ pc[q] = "sleep" /\ pc'[q] = "lock"
         /\ \A i \in Buf : i # buf[p] => valid'[i] = valid[i] /\ data'[i] = data[i]
         /\ \A b \in Block : b # blk[p] => /\ disk'[b] = disk[b] /\ pins'[b] = pins[b]
                                           /\ b \in logged' <=> b \in logged
<1> USE DEF At, Goes, bufVars, logVars
<1>0. TypeOK
  BY DEF IInv
<1>1. InBio(p)
  BY DEF Stays, Acquire, Kill, ReadDone, Change, LogWrite, Write, WriteDone, Unpin,
         Brelse, InBio
<1>2. buf[p] \in Buf /\ blk[p] \in Block /\ blockno[buf[p]] = blk[p]
  BY <1>1 DEF IInv, PlaceInv, CacheCoherent, NotRecycled
<1> USE DEF TypeOK
<1>3. ASSUME NEW q \in Proc, q # p
      PROVE  pc'[q] = pc[q] \/ (pc[q] = "sleep" /\ pc'[q] = "lock")
  <2>1. CASE LogWrite(p)
    BY <1>0, <1>3, <2>1 DEF LogWrite
  <2>2. CASE Brelse(p)
    BY <1>0, <1>3, <2>2 DEF Brelse, Released, Woken
  <2>3. CASE ~LogWrite(p) /\ ~Brelse(p)
    BY <1>0, <1>3, <2>3
       DEF Stays, Acquire, Kill, ReadDone, Change, Write, WriteDone, Unpin
  <2> QED  BY <2>1, <2>2, <2>3
<1>4. ASSUME NEW i \in Buf, i # buf[p] PROVE valid'[i] = valid[i] /\ data'[i] = data[i]
  BY <1>0, <1>4 DEF Stays, Acquire, Kill, ReadDone, Change, LogWrite, Write, WriteDone,
                    Unpin, Brelse
<1>5. ASSUME NEW b \in Block, b # blk[p]
      PROVE  disk'[b] = disk[b] /\ pins'[b] = pins[b] /\ (b \in logged' <=> b \in logged)
  <2>1. CASE LogWrite(p) \/ Unpin(p)
    BY <1>0, <1>5, <2>1 DEF LogWrite, Unpin
  <2>2. CASE ~LogWrite(p) /\ ~Unpin(p)
    BY <1>0, <1>2, <1>5, <2>2 DEF Stays, Acquire, Kill, ReadDone, Change, Write, WriteDone,
                                  Brelse
  <2> QED  BY <2>1, <2>2
<1> QED  BY <1>2, <1>3, <1>4, <1>5

\* What it does to itself.
LEMMA StaysOwn ==
  ASSUME IInv, NEW p \in Proc, Stays(p), pc'[p] # "user"
  PROVE  /\ pc'[p] = "read" => ~valid'[buf[p]]
         /\ pc'[p] \in Locks \ {"read"} => valid'[buf[p]]
         /\ pc'[p] = "unpin" => blk[p] \in logged' /\ data'[buf[p]] = disk'[blk[p]]
<1> USE DEF At, Goes, bufVars, logVars, Locks
<1>0. /\ TypeOK
      /\ buf[p] \in Buf /\ blk[p] \in Block /\ blockno[buf[p]] = blk[p]
      /\ pc[p] = "read" => ~valid[buf[p]]
      /\ pc[p] \in Locks \ {"read"} => valid[buf[p]]
  BY StaysPlaces DEF IInv, PlaceInv
<1> USE DEF TypeOK
<1>1. CASE Acquire(p)
  BY <1>0, <1>1 DEF Acquire
<1>2. CASE Kill(p) \/ Write(p)
  BY <1>0, <1>2 DEF Kill, Write
<1>3. CASE ReadDone(p) \/ \E v \in Data : Change(p, v)
  BY <1>0, <1>3 DEF ReadDone, Change
<1>4. CASE LogWrite(p) \/ Unpin(p)
  BY <1>0, <1>4 DEF LogWrite, Unpin
<1>5. CASE WriteDone(p)
  BY <1>0, <1>5 DEF WriteDone
<1>6. CASE Brelse(p)
  BY <1>0, <1>6 DEF Brelse, Released
<1> QED  BY <1>1, <1>2, <1>3, <1>4, <1>5, <1>6 DEF Stays

LEMMA PlaceStep == IInv /\ [Next]_vars => PlaceInv'
<1> SUFFICES ASSUME IInv, [Next]_vars, NEW q \in Proc, pc'[q] # "user"
             PROVE  /\ buf'[q] \in Buf /\ blk'[q] \in Block
                    /\ pc'[q] = "read" => ~valid'[buf'[q]]
                    /\ pc'[q] \in Locks \ {"read"} => valid'[buf'[q]]
                    /\ pc'[q] = "unpin" => /\ blk'[q] \in logged'
                                           /\ data'[buf'[q]] = disk'[blk'[q]]
  BY DEF PlaceInv, InBio, Locks
<1> DEFINE Goal == /\ buf'[q] \in Buf /\ blk'[q] \in Block
                   /\ pc'[q] = "read" => ~valid'[buf'[q]]
                   /\ pc'[q] \in Locks \ {"read"} => valid'[buf'[q]]
                   /\ pc'[q] = "unpin" => /\ blk'[q] \in logged'
                                          /\ data'[buf'[q]] = disk'[blk'[q]]
           Now == /\ buf[q] \in Buf /\ blk[q] \in Block /\ blockno[buf[q]] = blk[q]
                  /\ pc[q] = "read" => ~valid[buf[q]]
                  /\ pc[q] \in Locks \ {"read"} => valid[buf[q]]
                  /\ pc[q] = "unpin" => /\ blk[q] \in logged
                                        /\ data[buf[q]] = disk[blk[q]]
<1>0. pc[q] # "user" => Now
  BY DEF IInv, PlaceInv, InBio, CacheCoherent, NotRecycled
<1>1. ASSUME NEW p \in Proc, Stays(p) PROVE Goal
  <2>1. buf' = buf /\ blk' = blk /\ pc[q] # "user"
    BY <1>1, StaysInBio DEF InBio
  <2>2. CASE q = p
    BY <1>0, <1>1, <2>1, <2>2, StaysOwn
  <2>3. CASE q # p /\ pc'[q] \notin Locks
    BY <1>0, <2>1, <2>3 DEF Locks
  <2>4. CASE q # p /\ pc'[q] \in Locks
    <3>1. pc'[q] = pc[q]
      BY <1>1, <2>4, StaysPlaces DEF Locks
    <3>2. CASE buf[q] = buf[p]
      <4>1. pc[p] \notin Locks
        BY <2>4, <3>1, <3>2, HoldsAlone
      <4>2. UNCHANGED <<valid, data, disk, logged>>
        BY <1>1, <4>1 DEF Stays, Acquire, Kill, ReadDone, Change, LogWrite, Write,
             WriteDone, Unpin, Brelse, At, bufVars, logVars, Locks
      <4> QED  BY <1>0, <2>1, <3>1, <4>2
    <3>3. CASE buf[q] # buf[p]
      <4>1. blk[q] # blk[p]
        BY <1>0, <1>1, <2>1, <3>3, BlocksApart, StaysPlaces, BcacheAssumption
           DEF IInv, CacheCoherent, OneCopy
      <4> QED  BY <1>0, <1>1, <2>1, <3>1, <3>3, <4>1, StaysPlaces
    <3> QED  BY <3>2, <3>3
  <2> QED  BY <2>2, <2>3, <2>4
<1>2. ASSUME NEW p \in Proc, Drop(p) PROVE Goal
  <2>1. q # p
    BY <1>2, DropPlaces
  <2> QED  BY <1>0, <1>2, <2>1, DropPlaces
<1>3. ASSUME NEW p \in Proc, NEW b \in Block, Bget(p, b) PROVE Goal
  <2>1. CASE panicked'
    <3>1. UNCHANGED <<blockno, valid, buf, pc>> /\ q # p
      BY <1>3, <2>1, BgetPlaces
    <3> QED  BY <1>0, <1>3, <3>1, BgetPlaces
  <2>2. CASE ~panicked' /\ q = p
    BY <1>3, <2>2, BgetPlaces DEF Locks
  <2>3. CASE ~panicked' /\ q # p
    <3>1. /\ pc'[q] = pc[q] /\ buf'[q] = buf[q] /\ blk'[q] = blk[q] /\ Now
      BY <1>0, <1>3, <2>3, BgetPlaces
    <3>2. refcnt[buf[q]] # 0
      BY <3>1, Counted DEF InBio
    <3>3. valid'[buf[q]] = valid[buf[q]]
      BY <1>3, <2>3, <3>1, <3>2, BgetBuffers
    <3> QED  BY <1>3, <3>1, <3>3, BgetPlaces
  <2> QED  BY <2>1, <2>2, <2>3
<1>4. CASE UNCHANGED vars
  BY <1>0, <1>4 DEF vars, bufVars, procVars, logVars
<1> QED  BY <1>1, <1>2, <1>3, <1>4, NextCases

-----------------------------------------------------------------------------
(* One copy of a block, pinned while the log's header names it.            *)
LEMMA ApartStep ==
  ASSUME IInv, [Next]_vars, NEW i \in Buf, NEW j \in Buf, i # j, blockno'[i] = blockno'[j]
  PROVE  blockno'[i] = 0
<1>0. blockno[i] = blockno[j] => blockno[i] = 0
  BY DEF IInv, CacheCoherent, OneCopy
<1>1. ASSUME NEW p \in Proc, Stays(p) \/ Drop(p) PROVE blockno' = blockno
  BY <1>1, StaysInBio, DropPlaces
<1>2. ASSUME NEW p \in Proc, NEW b \in Block, Bget(p, b) PROVE blockno'[i] = 0
  <2>1. CASE panicked'
    BY <1>0, <1>2, <2>1, BgetPlaces
  <2>2. CASE ~panicked' /\ i # buf'[p] /\ j # buf'[p]
    BY <1>0, <1>2, <2>2, BgetBuffers
  <2>3. ASSUME ~panicked', NEW k \in Buf, k # buf'[p], blockno'[k] = b PROVE FALSE
    <3>1. blockno[k] = b
      BY <1>2, <2>3, BgetBuffers
    <3>2. buf'[p] \in Buf /\ blockno[buf'[p]] = b
      BY <1>2, <2>3, <3>1, BgetBuffers, NotCached DEF IInv
    <3> QED  BY <2>3, <3>1, <3>2, BcacheAssumption DEF IInv, CacheCoherent, OneCopy
  <2> QED  BY <1>2, <2>1, <2>2, <2>3, BgetBuffers
<1>3. CASE UNCHANGED vars
  BY <1>0, <1>3 DEF vars, bufVars
<1> QED  BY <1>0, <1>1, <1>2, <1>3, NextCases

\* A pinned block keeps its buffer.
LEMMA PinnedStays ==
  ASSUME IInv, [Next]_vars, NEW c \in Block, pins[c] > 0
  PROVE  \E i \in Buf : blockno'[i] = c /\ valid'[i]
<1>0. PICK i \in Buf : blockno[i] = c /\ valid[i]
  BY DEF IInv, PinInv
<1>1. ASSUME NEW p \in Proc, Stays(p) PROVE blockno'[i] = c /\ valid'[i]
  <2>1. blockno' = blockno
    BY <1>1, StaysInBio
  <2>2. valid'[i] = valid[i] \/ ReadDone(p)
    BY <1>1 DEF Stays, Acquire, Kill, Change, LogWrite, Write, WriteDone, Unpin, Brelse,
                bufVars
  <2>3. ReadDone(p) => valid'[i]
    BY <1>0 DEF ReadDone, IInv, TypeOK
  <2> QED  BY <1>0, <2>1, <2>2, <2>3
<1>2. ASSUME NEW p \in Proc, Drop(p) PROVE blockno'[i] = c /\ valid'[i]
  BY <1>0, <1>2, DropPlaces
<1>3. ASSUME NEW p \in Proc, NEW b \in Block, Bget(p, b)
      PROVE  blockno'[i] = c /\ valid'[i]
  <2>1. refcnt[i] # 0
    BY <1>0, UnusedIsFree
  <2>2. CASE panicked'
    BY <1>0, <1>3, <2>2, BgetPlaces
  <2>3. CASE ~panicked' /\ i # buf'[p]
    BY <1>0, <1>3, <2>3, BgetBuffers
  <2>4. CASE ~panicked' /\ i = buf'[p]
    <3>1. blockno[i] = b /\ valid'[i] = valid[i] /\ blockno'[i] = b
      BY <1>3, <2>1, <2>4, BgetBuffers
    <3> QED  BY <1>0, <3>1
  <2> QED  BY <2>2, <2>3, <2>4
<1>4. CASE UNCHANGED vars
  BY <1>0, <1>4 DEF vars, bufVars
<1> QED  BY <1>1, <1>2, <1>3, <1>4, NextCases

\* Only log_write adds a pin.
LEMMA PinnedStep ==
  ASSUME IInv, [Next]_vars, NEW c \in Block, pins'[c] > 0
  PROVE  \/ pins[c] > 0
         \/ \E p \in Proc : LogWrite(p) /\ c = blk[p]
<1>0. /\ c \in logged => pins[c] > 0
      /\ pins[c] \in Nat
  BY DEF IInv, PinInv, TypeOK
<1>1. ASSUME NEW p \in Proc, Stays(p), ~LogWrite(p) PROVE pins[c] > 0
  <2>1. CASE Unpin(p)
    BY <1>0, <2>1 DEF Unpin, IInv, TypeOK
  <2>2. CASE ~Unpin(p)
    BY <1>0, <1>1, <2>2 DEF Stays, Acquire, Kill, ReadDone, Change, Write, WriteDone,
                            Brelse, logVars
  <2> QED  BY <2>1, <2>2
<1>2. ASSUME NEW p \in Proc, LogWrite(p) PROVE c = blk[p] \/ pins[c] > 0
  BY <1>0, <1>2 DEF LogWrite, IInv, TypeOK
<1>3. ASSUME NEW p \in Proc, Drop(p) \/ \E b \in Block : Bget(p, b) PROVE pins[c] > 0
  BY <1>0, <1>3, DropPlaces, BgetPlaces
<1>4. CASE UNCHANGED vars
  BY <1>0, <1>4 DEF vars, logVars
<1> QED  BY <1>1, <1>2, <1>3, <1>4, NextCases

LEMMA PinStep == IInv /\ [Next]_vars => PinInv'
<1> SUFFICES ASSUME IInv, [Next]_vars PROVE PinInv'
  OBVIOUS
<1>0. TypeOK'
  BY TypeStep
<1> SUFFICES ASSUME NEW c \in Block
             PROVE  /\ c \in logged' => pins'[c] > 0
                    /\ pins'[c] > 0 => \E i \in Buf : blockno'[i] = c /\ valid'[i]
  BY <1>0 DEF PinInv, TypeOK
<1>1. pins'[c] > 0 => \E i \in Buf : blockno'[i] = c /\ valid'[i]
  <2> SUFFICES ASSUME pins'[c] > 0 PROVE \E i \in Buf : blockno'[i] = c /\ valid'[i]
    OBVIOUS
  <2>1. CASE pins[c] > 0
    BY <2>1, PinnedStays
  <2>2. ASSUME NEW p \in Proc, LogWrite(p), c = blk[p]
        PROVE  blockno'[buf[p]] = c /\ valid'[buf[p]] /\ buf[p] \in Buf
    BY <2>2, StaysPlaces DEF Stays, LogWrite, At, IInv, PlaceInv, Locks
  <2> QED  BY <2>1, <2>2, PinnedStep
<1>2. c \in logged' => pins'[c] > 0
  <2> SUFFICES ASSUME c \in logged' PROVE pins'[c] > 0
    OBVIOUS
  <2>0. /\ c \in logged => pins[c] > 0
        /\ pins[c] \in Nat
    BY DEF IInv, PinInv, TypeOK
  <2>1. ASSUME NEW p \in Proc, Stays(p) PROVE pins'[c] > 0
    <3>1. CASE LogWrite(p)
      <4>1. /\ logged' = logged \cup {blk[p]}
            /\ pins' = [pins EXCEPT ![blk[p]] = @ + 1]
        BY <3>1 DEF LogWrite
      <4> QED  BY <2>0, <4>1 DEF IInv, TypeOK
    <3>2. CASE Unpin(p)
      BY <2>0, <3>2 DEF Unpin, IInv, TypeOK
    <3>3. CASE ~LogWrite(p) /\ ~Unpin(p)
      BY <2>0, <2>1, <3>3 DEF Stays, Acquire, Kill, ReadDone, Change, Write, WriteDone,
                              Brelse, logVars
    <3> QED  BY <3>1, <3>2, <3>3
  <2>2. ASSUME NEW p \in Proc, Drop(p) \/ \E b \in Block : Bget(p, b) PROVE pins'[c] > 0
    BY <2>0, <2>2, DropPlaces, BgetPlaces
  <2>3. CASE UNCHANGED vars
    BY <2>0, <2>3 DEF vars, logVars
  <2> QED  BY <2>1, <2>2, <2>3, NextCases
<1> QED  BY <1>1, <1>2

LEMMA OneCopyStep == IInv /\ [Next]_vars => OneCopy'
<1> SUFFICES ASSUME IInv, [Next]_vars PROVE OneCopy'
  OBVIOUS
<1>1. PinInv' /\ logged' \in SUBSET Block
  BY PinStep, TypeStep DEF TypeOK
<1>2. \A b \in logged' : \E i \in Buf : blockno'[i] = b /\ valid'[i]
  BY <1>1 DEF PinInv
<1> QED  BY <1>2, ApartStep DEF OneCopy

\* A buffer is ahead of the disk only while that is known.
LEMMA CleanStep == IInv /\ [Next]_vars => CleanInv'
<1> SUFFICES ASSUME IInv, [Next]_vars, NEW i \in Buf, valid'[i]
             PROVE  /\ blockno'[i] \in Block
                    /\ \/ data'[i] = disk'[blockno'[i]]
                       \/ blockno'[i] \in logged'
                       \/ \E p \in Proc : pc'[p] \in {"changed", "write"} /\ buf'[p] = i
  BY DEF CleanInv
<1> DEFINE Goal == /\ blockno'[i] \in Block
                   /\ \/ data'[i] = disk'[blockno'[i]]
                      \/ blockno'[i] \in logged'
                      \/ \E p \in Proc : pc'[p] \in {"changed", "write"} /\ buf'[p] = i
           Now == /\ blockno[i] \in Block
                  /\ \/ data[i] = disk[blockno[i]]
                     \/ blockno[i] \in logged
                     \/ \E p \in Proc : pc[p] \in {"changed", "write"} /\ buf[p] = i
<1>0. valid[i] => Now
  BY DEF IInv, CleanInv
<1>1. ASSUME NEW p \in Proc, Stays(p), i # buf[p] PROVE Goal
  <2>1. blockno' = blockno /\ buf' = buf /\ valid[i] /\ data'[i] = data[i]
    BY <1>1, StaysInBio, StaysPlaces
  <2>2. blockno[i] # blk[p]
    BY <1>1, StaysPlaces, BcacheAssumption DEF IInv, CacheCoherent, OneCopy
  <2>3. \A q \in Proc : pc[q] \in {"changed", "write"} /\ buf[q] = i => pc'[q] = pc[q]
    BY <1>1, StaysPlaces
  <2>4. disk'[blockno[i]] = disk[blockno[i]] /\ (blockno[i] \in logged' <=> blockno[i] \in logged)
    BY <1>0, <1>1, <2>1, <2>2, StaysPlaces
  <2> QED  BY <1>0, <2>1, <2>3, <2>4
<1>2. ASSUME NEW p \in Proc, Stays(p), i = buf[p] PROVE Goal
  <2> USE DEF At, Goes, bufVars, logVars
  <2>0. blockno' = blockno /\ buf' = buf /\ blockno[i] = blk[p] /\ blk[p] \in Block
    BY <1>2, StaysInBio, StaysPlaces
  <2>1. CASE Acquire(p) \/ Kill(p) \/ Brelse(p)
    <3>1. UNCHANGED <<valid, data, disk, logged>> /\ pc[p] \notin {"changed", "write"}
      BY <2>1 DEF Acquire, Kill, Brelse
    <3>2. \A q \in Proc : pc[q] \in {"changed", "write"} => pc'[q] = pc[q]
      BY <1>2, <3>1, StaysPlaces
    <3> QED  BY <1>0, <2>0, <3>1, <3>2
  <2>2. CASE ReadDone(p)
    BY <1>2, <2>0, <2>2 DEF ReadDone, IInv, TypeOK
  <2>3. CASE (\E v \in Data : Change(p, v)) \/ Write(p)
    <3>1. pc'[p] \in {"changed", "write"}
      BY <2>3 DEF Change, Write, IInv, TypeOK
    <3> QED  BY <1>2, <2>0, <3>1
  <2>4. CASE LogWrite(p)
    <3>1. blk[p] \in logged'
      BY <2>4 DEF LogWrite
    <3> QED  BY <2>0, <3>1
  <2>5. CASE WriteDone(p)
    BY <1>2, <2>0, <2>5 DEF WriteDone, IInv, TypeOK
  <2>6. CASE Unpin(p)
    BY <1>2, <2>0, <2>6 DEF Unpin, IInv, PlaceInv
  <2> QED  BY <1>2, <2>1, <2>2, <2>3, <2>4, <2>5, <2>6 DEF Stays
<1>3. ASSUME NEW p \in Proc, Drop(p) PROVE Goal
  BY <1>0, <1>3, DropPlaces
<1>4. ASSUME NEW p \in Proc, NEW b \in Block, Bget(p, b) PROVE Goal
  <2>0. /\ UNCHANGED <<data, disk, logged>> /\ pc[p] = "user"
        /\ \A q \in Proc : q # p => pc'[q] = pc[q] /\ buf'[q] = buf[q]
    BY <1>4, BgetPlaces
  <2>1. CASE blockno'[i] = blockno[i] /\ valid[i]
    BY <1>0, <2>0, <2>1
  <2>2. CASE panicked'
    BY <1>4, <2>1, <2>2, BgetPlaces
  <2>3. CASE ~panicked'
    <3>1. i # buf'[p] => blockno'[i] = blockno[i] /\ valid'[i] = valid[i]
      BY <1>4, <2>3, BgetBuffers
    <3>2. i = buf'[p] => blockno'[i] = blockno[i] /\ valid'[i] = valid[i]
      BY <1>4, <2>3, BgetBuffers
    <3> QED  BY <2>1, <3>1, <3>2
  <2> QED  BY <2>2, <2>3
<1>5. CASE UNCHANGED vars
  BY <1>0, <1>5 DEF vars, bufVars, logVars, procVars
<1> QED  BY <1>1, <1>2, <1>3, <1>4, <1>5, NextCases

-----------------------------------------------------------------------------
(* bget gives up only when the cache is too small.                         *)
LEMMA WantedFinite ==
  ASSUME IInv PROVE IsFiniteSet(Wanted)
<1> DEFINE asked == {blk[p] : p \in Proc}
           pinned == {b \in Block : pins[b] > 0}
           held == {blockno[i] : i \in Buf}
<1>1. IsFiniteSet(asked)
  <2>1. [p \in Proc |-> blk[p]] \in Surjection(Proc, asked)
    BY DEF Surjection
  <2> QED  BY <2>1, BcacheAssumption, FS_Surjection
<1>2. IsFiniteSet(held)
  <2>1. [i \in Buf |-> blockno[i]] \in Surjection(Buf, held)
    BY DEF Surjection
  <2>2. IsFiniteSet(Buf)
    BY FS_Interval, BcacheAssumption DEF Buf
  <2> QED  BY <2>1, <2>2, FS_Surjection
<1>3. pinned \in SUBSET held
  BY DEF IInv, PinInv
<1>4. IsFiniteSet(pinned)
  BY <1>2, <1>3, FS_Subset
<1>5. IsFiniteSet(asked \cup pinned)
  BY <1>1, <1>4, FS_Union
<1>6. Wanted \in SUBSET (asked \cup pinned)
  BY DEF Wanted
<1> QED  BY <1>5, <1>6, FS_Subset

\* Every buffer is for a block that is wanted, and b is one more.
LEMMA FullCache ==
  ASSUME IInv, NEW p \in Proc, NEW b \in Block, Bget(p, b), panicked'
  PROVE  Cardinality(Wanted') > NBuf
<1> DEFINE T == Wanted \cup {b}
           f == [i \in 1..(NBuf + 1) |-> IF i = NBuf + 1 THEN b ELSE blockno[i]]
<1>0. /\ pc[p] = "user" /\ Cached(b) = {} /\ Unused = {} /\ blk'[p] = b /\ pins' = pins
      /\ \A q \in Proc : q # p => blk'[q] = blk[q]
  BY BgetPlaces
<1>1. ASSUME NEW i \in Buf PROVE blockno[i] \in Wanted' /\ blockno[i] # b
  <2>1. refcnt[i] # 0
    BY <1>0, AllUsed DEF IInv
  <2>2. CASE \E q \in Proc : q \in Users(i)
    <3>1. PICK q \in Proc : InBio(q) /\ buf[q] = i
      BY <2>2 DEF Users
    <3>2. blk[q] = blockno[i] /\ blk[q] \in Block /\ q # p
      BY <1>0, <3>1 DEF InBio, IInv, PlaceInv, CacheCoherent, NotRecycled
    <3>3. blk'[q] = blockno[i] /\ blockno[i] \in Block
      BY <1>0, <3>2
    <3> QED  BY <1>0, <3>3, NotCached DEF Wanted, IInv
  <2>3. CASE Users(i) = {}
    <3>1. Cardinality(Users(i)) = 0
      BY <2>3, FS_EmptySet
    <3>2. blockno[i] \in Block /\ pins[blockno[i]] > 0
      BY <2>1, <3>1 DEF IInv, TypeOK, CacheCoherent, RefsAddUp
    <3> QED  BY <1>0, <3>2, NotCached DEF Wanted, IInv
  <2> QED  BY <2>2, <2>3 DEF Users
<1>2. b \in Wanted'
  BY <1>0 DEF Wanted
<1>3. IsFiniteSet(Wanted')
  <2>1. Wanted' \in SUBSET T
    BY <1>0 DEF Wanted
  <2>2. IsFiniteSet(T)
    BY WantedFinite, FS_AddElement
  <2> QED  BY <2>1, <2>2, FS_Subset
<1>4. \A i, j \in Buf : blockno[i] = blockno[j] => i = j
  <2>1. \A i \in Buf : blockno[i] \in Block
    BY <1>1 DEF Wanted
  <2> QED  BY <2>1, BcacheAssumption DEF IInv, CacheCoherent, OneCopy
<1>5. \A i \in 1..(NBuf + 1) : i \in Buf \/ i = NBuf + 1
  BY BcacheAssumption DEF Buf
<1>6. f \in Injection(1..(NBuf + 1), Wanted')
  <2>1. f \in [1..(NBuf + 1) -> Wanted']
    BY <1>1, <1>2, <1>5
  <2>2. ASSUME NEW i \in 1..(NBuf + 1), NEW j \in 1..(NBuf + 1), f[i] = f[j] PROVE i = j
    BY <1>1, <1>4, <1>5, <2>2
  <2> HIDE DEF f
  <2> QED  BY <2>1, <2>2 DEF Injection, IsInjective
<1>7. Cardinality(1..(NBuf + 1)) <= Cardinality(Wanted')
  BY <1>3, <1>6, FS_Injection
<1>8. Cardinality(1..(NBuf + 1)) = NBuf + 1 /\ Cardinality(Wanted') \in Nat
  BY <1>3, FS_Interval, FS_CardinalityType, BcacheAssumption
<1> QED  BY <1>7, <1>8, BcacheAssumption

LEMMA PanicStep == IInv /\ [Next]_vars => PanicsOnlyWhenFull'
<1> SUFFICES ASSUME IInv, [Next]_vars, panicked' PROVE Cardinality(Wanted') > NBuf
  BY DEF PanicsOnlyWhenFull
<1>1. ASSUME NEW p \in Proc, Stays(p) PROVE FALSE
  <2>1. Brelse(p)
    BY <1>1 DEF Stays, Acquire, Kill, ReadDone, Change, LogWrite, Write, WriteDone, Unpin,
                At
  <2>2. holder[buf[p]] = p
    BY <2>1 DEF Brelse, At, IInv, PlaceInv, InBio, SleepersBlocked, Locks
  <2> QED  BY <2>1, <2>2 DEF Brelse, At
<1>2. ASSUME NEW p \in Proc, Drop(p) PROVE FALSE
  BY <1>2 DEF Drop, At
<1>3. ASSUME NEW p \in Proc, NEW b \in Block, Bget(p, b)
      PROVE  Cardinality(Wanted') > NBuf
  BY <1>3, FullCache
<1>4. CASE UNCHANGED vars
  <2>1. Wanted' = Wanted
    BY <1>4 DEF Wanted, vars, logVars, procVars
  <2> QED  BY <1>4, <2>1 DEF vars, IInv, CacheCoherent, PanicsOnlyWhenFull
<1> QED  BY <1>1, <1>2, <1>3, <1>4, NextCases

-----------------------------------------------------------------------------
LEMMA InvInit == Init => IInv
<1> SUFFICES ASSUME Init PROVE IInv
  OBVIOUS
<1>1. TypeOK
  BY TypeInit
<1>2. PlaceInv /\ PinInv /\ CleanInv
  BY DEF Init, PlaceInv, PinInv, CleanInv, InBio, Locks
<1>3. RefsAddUp
  <2>1. \A i \in Buf : Users(i) = {}
    BY DEF Init, Users, InBio
  <2>2. \A i \in Buf : Cardinality(Users(i)) = 0
    BY <2>1, FS_EmptySet
  <2> QED  BY <2>2 DEF Init, RefsAddUp
<1>4. OneCopy /\ NotRecycled /\ PanicsOnlyWhenFull
  BY DEF Init, OneCopy, NotRecycled, PanicsOnlyWhenFull, InBio
<1>5. SleepersBlocked
  BY BcacheAssumption DEF Init, SleepersBlocked, Locks
<1> QED  BY <1>1, <1>2, <1>3, <1>4, <1>5 DEF IInv, CacheCoherent

LEMMA InvStep == IInv /\ [Next]_vars => IInv'
BY TypeStep, PlaceStep, PinStep, CleanStep, RefsStep, OneCopyStep, NotRecycledStep,
   PanicStep, SleepersStep DEF IInv, CacheCoherent

LEMMA Invariance == Spec => []IInv
BY InvInit, InvStep, PTL DEF Spec

\* Every state of the cache is well typed, and its list always names every buffer.
THEOREM TypeCorrect == Spec => []TypeOK
<1>1. IInv => TypeOK
  BY DEF IInv
<1> QED  BY <1>1, Invariance, PTL

\* The references of bget, brelse, bpin and bunpin add up; no two buffers have
\* one block, none in use is recycled, and a pinned block stays; bget panics only
\* when more blocks are wanted than there are buffers.
THEOREM OneCopyOfEach == Spec => []CacheCoherent
<1>1. IInv => CacheCoherent
  BY DEF IInv
<1> QED  BY <1>1, Invariance, PTL

\* sleeplock_release wakes everybody who sleeps for the buffer, and who has the
\* lock is on the way from bread to the end of brelse.
THEOREM NoSleeperForgotten == Spec => []SleepersBlocked
<1>1. IInv => SleepersBlocked
  BY DEF IInv
<1> QED  BY <1>1, Invariance, PTL

-----------------------------------------------------------------------------
(* The cache implements BlockStore: a block is taken when bread has its    *)
(* content, changed by who has it, and given back when brelse is called;   *)
(* every other step is a stutter.                                          *)
LEMMA CopyIs ==
  ASSUME IInv, NEW c \in Block, NEW i \in Copies(c)
  PROVE  Copies(c) = {i}
<1>1. c # 0
  BY BcacheAssumption
<1> QED  BY <1>1 DEF Copies, IInv, CacheCoherent, OneCopy

LEMMA OwnerIs ==
  ASSUME IInv, NEW c \in Block, NEW p \in Owners(c)
  PROVE  Owners(c) = {p}
<1>1. ASSUME NEW q \in Owners(c) PROVE q = p
  <2>1. buf[q] = buf[p]
    BY BlocksApart DEF Owners, InBio, Locks
  <2> QED  BY <2>1, HoldsAlone DEF Owners, Locks
<1> QED  BY <1>1

LEMMA SameContent ==
  ASSUME NEW c, Copies(c)' = Copies(c), \A i \in Copies(c) : data'[i] = data[i],
         Copies(c) = {} => disk'[c] = disk[c]
  PROVE  Content(c)' = Content(c)
BY DEF Content

LEMMA SameOwner ==
  ASSUME NEW c, Owners(c)' = Owners(c)
  PROVE  Owner(c)' = Owner(c)
BY DEF Owner

\* Nothing happens to another block than that of the process that moves.
LEMMA OtherBlocks ==
  ASSUME IInv, NEW p \in Proc, Stays(p), NEW c \in Block, c # blk[p]
  PROVE  Content(c)' = Content(c) /\ Owner(c)' = Owner(c)
<1>1. ASSUME NEW i \in Buf, blockno[i] = c PROVE i # buf[p]
  BY <1>1, StaysPlaces
<1>2. Copies(c)' = Copies(c) /\ \A i \in Copies(c) : data'[i] = data[i]
  BY <1>1, StaysPlaces, StaysInBio DEF Copies
<1>3. disk'[c] = disk[c]
  BY StaysPlaces
<1>4. Owners(c)' = Owners(c)
  <2>1. \A q \in Proc : q # p => (pc'[q] \in Locks \ {"read"} <=> pc[q] \in Locks \ {"read"})
    BY StaysPlaces DEF Locks
  <2> QED  BY <2>1, StaysInBio DEF Owners
<1> QED  BY <1>2, <1>3, <1>4, SameContent, SameOwner

\* The buffer of the process that moves is the only one for its block.
LEMMA OwnCopies ==
  ASSUME IInv, NEW p \in Proc, Stays(p), NEW c, c = blk[p]
  PROVE  /\ Copies(c) = IF valid[buf[p]] THEN {buf[p]} ELSE {}
         /\ Copies(c)' = IF valid'[buf[p]] THEN {buf[p]} ELSE {}
<1>1. ASSUME NEW i \in Buf, blockno[i] = blk[p] PROVE i = buf[p]
  BY <1>1, StaysPlaces, BcacheAssumption DEF IInv, CacheCoherent, OneCopy
<1>2. /\ buf[p] \in Buf /\ blockno[buf[p]] = blk[p]
      /\ blockno' = blockno /\ blk' = blk
  BY StaysPlaces, StaysInBio
<1> QED  BY <1>1, <1>2 DEF Copies

LEMMA StaysUser ==
  ASSUME IInv, NEW p \in Proc, Stays(p)
  PROVE  InBio(p) /\ (pc[p] \in Locks => pc'[p] \in Locks \/ pc'[p] = "drop")
<1> USE DEF At, Goes, InBio, Locks, Where
<1>0. pc \in [Proc -> Where]
  BY DEF IInv, TypeOK
<1>1. CASE LogWrite(p)
  BY <1>0, <1>1 DEF LogWrite
<1>2. CASE Brelse(p)
  BY <1>0, <1>2 DEF Brelse, Released
<1>3. CASE ~LogWrite(p) /\ ~Brelse(p)
  BY <1>0, <1>3 DEF Stays, Acquire, Kill, ReadDone, Change, Write, WriteDone, Unpin
<1> QED  BY <1>1, <1>2, <1>3

\* A process that has a block has it until it calls brelse.
LEMMA StaysLeaves ==
  ASSUME IInv, NEW p \in Proc, Stays(p), pc[p] \in Locks \ {"read"}
  PROVE  pc'[p] # "read"
<1> USE DEF At, Goes, Locks
<1>0. pc \in [Proc -> Where]
  BY DEF IInv, TypeOK
<1>1. CASE LogWrite(p)
  BY <1>0, <1>1 DEF LogWrite
<1>2. CASE Brelse(p)
  BY <1>0, <1>2 DEF Brelse, Released
<1>3. CASE ~LogWrite(p) /\ ~Brelse(p)
  BY <1>0, <1>3 DEF Stays, Acquire, Kill, ReadDone, Change, Write, WriteDone, Unpin
<1> QED  BY <1>1, <1>2, <1>3

\* An unused buffer is not ahead of the disk.
LEMMA Unneeded ==
  ASSUME IInv, NEW i \in Buf, refcnt[i] = 0, valid[i]
  PROVE  data[i] = disk[blockno[i]]
<1>1. Users(i) = {} /\ blockno[i] \in Block /\ pins[blockno[i]] = 0
  BY UnusedIsFree DEF IInv, CleanInv
<1>2. blockno[i] \notin logged
  BY <1>1 DEF IInv, PinInv
<1>3. \A q \in Proc : ~(pc[q] \in {"changed", "write"} /\ buf[q] = i)
  BY <1>1 DEF Users, InBio
<1> QED  BY <1>2, <1>3 DEF IInv, CleanInv

\* A process that has the lock of its buffer, or finds it free, shares the block
\* with nobody who has it.
LEMMA HadByNoOther ==
  ASSUME IInv, NEW p \in Proc, Stays(p), pc[p] \in Locks \/ holder[buf[p]] = NoProc
  PROVE  Owners(blk[p]) \ {p} = {}
<1>1. ASSUME NEW q \in Owners(blk[p]) PROVE q = p
  <2>1. InBio(p) /\ InBio(q) /\ blk[q] = blk[p] /\ pc[q] \in Locks
    BY StaysUser DEF Owners, InBio, Locks
  <2>2. buf[q] = buf[p] /\ q \in Proc
    BY <2>1, BlocksApart DEF Owners
  <2>3. holder[buf[p]] = q
    BY <2>1, <2>2, StaysPlaces DEF IInv, SleepersBlocked
  <2>4. pc[p] \in Locks
    BY <2>2, <2>3, BcacheAssumption
  <2> QED  BY <2>1, <2>2, <2>4, HoldsAlone
<1> QED  BY <1>1

LEMMA OwnOwners ==
  ASSUME IInv, NEW p \in Proc, Stays(p), NEW c, c = blk[p]
  PROVE  Owners(c)' = IF pc'[p] \in Locks \ {"read"} THEN Owners(c) \cup {p}
                                                     ELSE Owners(c) \ {p}
<1>1. \A q \in Proc : q # p => (pc'[q] \in Locks \ {"read"} <=> pc[q] \in Locks \ {"read"})
  BY StaysPlaces DEF Locks
<1> QED  BY <1>1, StaysInBio DEF Owners

LEMMA OwnerOf ==
  ASSUME NEW c
  PROVE  /\ Owners(c) = {} => Owner(c) = NoProc
         /\ \A p : Owners(c) = {p} => Owner(c) = p
BY DEF Owner

LEMMA StoreSame ==
  ASSUME \A c \in Block : Content(c)' = Content(c) /\ Owner(c)' = Owner(c)
  PROVE  UNCHANGED Store!vars
BY DEF Store!vars

\* The buffer has the content of the disk, or keeps its own: bread returns.
LEMMA TakeRefines ==
  ASSUME IInv, NEW p \in Proc, Stays(p), NEW b, b = blk[p],
         Content(b)' = Content(b), Owners(b) = {}, pc'[p] \in Locks \ {"read"}
  PROVE  Store!Take(p, b)
<1>1. b \in Block /\ Owners(b)' = {p}
  BY StaysPlaces, OwnOwners
<1>2. Owner(b) = NoProc /\ Owner(b)' = p
  BY <1>1, OwnerOf DEF Owner
<1>3. \A c \in Block : c # b => Content(c)' = Content(c) /\ Owner(c)' = Owner(c)
  BY OtherBlocks
<1>4. [c \in Block |-> Owner(c)]' = [[c \in Block |-> Owner(c)] EXCEPT ![b] = p]
  BY <1>1, <1>2, <1>3
<1>5. UNCHANGED [c \in Block |-> Content(c)]
  BY <1>3
<1> QED  BY <1>1, <1>2, <1>4, <1>5 DEF Store!Take

\* brelse is called.
LEMMA GiveRefines ==
  ASSUME IInv, NEW p \in Proc, Stays(p), NEW b, b = blk[p],
         Content(b)' = Content(b), Owners(b) = {p}, pc'[p] \notin Locks
  PROVE  Store!Give(p, b)
<1>1. b \in Block /\ Owners(b)' = {}
  BY StaysPlaces, OwnOwners
<1>2. Owner(b) = p /\ Owner(b)' = NoProc
  BY <1>1, OwnerOf DEF Owner
<1>3. \A c \in Block : c # b => Content(c)' = Content(c) /\ Owner(c)' = Owner(c)
  BY OtherBlocks
<1>4. [c \in Block |-> Owner(c)]' = [[c \in Block |-> Owner(c)] EXCEPT ![b] = NoProc]
  BY <1>1, <1>2, <1>3
<1>5. UNCHANGED [c \in Block |-> Content(c)]
  BY <1>3
<1> QED  BY <1>1, <1>2, <1>4, <1>5 DEF Store!Give

LEMMA ChangeRefines ==
  ASSUME IInv, NEW p \in Proc, NEW v \in Data, Change(p, v), NEW b, b = blk[p]
  PROVE  Store!Change(p, b)
<1>0. Stays(p)
  BY DEF Stays
<1>1. /\ pc[p] = "held" /\ pc'[p] = "changed" /\ data'[buf[p]] = v
      /\ valid[buf[p]] /\ valid'[buf[p]] /\ b \in Block
  BY <1>0, StaysPlaces DEF Change, At, Goes, IInv, TypeOK, PlaceInv, Locks
<1>2. Owners(b) = {p} /\ Owners(b)' = {p}
  BY <1>0, <1>1, HadByNoOther, OwnOwners DEF Owners, Locks
<1>3. Copies(b)' = {buf[p]}
  BY <1>0, <1>1, OwnCopies
<1>4. Content(b)' = v /\ Owner(b) = p /\ Owner(b)' = p
  BY <1>1, <1>2, <1>3, OwnerOf DEF Content, Owner
<1>5. \A c \in Block : c # b => Content(c)' = Content(c) /\ Owner(c)' = Owner(c)
  BY <1>0, OtherBlocks
<1>6. [c \in Block |-> Content(c)]' = [[c \in Block |-> Content(c)] EXCEPT ![b] = v]
  BY <1>1, <1>4, <1>5
<1>7. UNCHANGED [c \in Block |-> Owner(c)]
  BY <1>4, <1>5
<1> QED  BY <1>1, <1>4, <1>6, <1>7 DEF Store!Change

\* What a block holds is changed by nothing but Change.
LEMMA StaysContent ==
  ASSUME IInv, NEW p \in Proc, Stays(p), \A v \in Data : ~Change(p, v),
         NEW b, b = blk[p]
  PROVE  Content(b)' = Content(b)
<1> DEFINE i == buf[p]
<1> USE DEF At, bufVars
<1>1. /\ i \in Buf /\ b \in Block /\ blockno[i] = b
      /\ Copies(b) = IF valid[i] THEN {i} ELSE {}
      /\ Copies(b)' = IF valid'[i] THEN {i} ELSE {}
      /\ blk' = blk
  BY StaysPlaces, OwnCopies, StaysInBio
<1>2. CASE ReadDone(p)
  <2>1. ~valid[i] /\ valid'[i] /\ data'[i] = disk[b]
    BY <1>1, <1>2 DEF ReadDone, IInv, TypeOK, PlaceInv
  <2> QED  BY <1>1, <2>1 DEF Content
<1>3. CASE ~ReadDone(p)
  <2>1. UNCHANGED <<valid, data>>
    BY <1>3 DEF Stays, Acquire, Kill, LogWrite, Write, WriteDone, Unpin, Brelse
  <2>2. disk' = disk \/ valid[i]
    BY <1>3 DEF Stays, Acquire, Kill, LogWrite, Write, WriteDone, Unpin, Brelse, IInv,
                PlaceInv, Locks
  <2> QED  BY <1>1, <2>1, <2>2 DEF Content
<1> QED  BY <1>2, <1>3

LEMMA StaysRefines ==
  ASSUME IInv, NEW p \in Proc, Stays(p)
  PROVE  [Store!Next]_(Store!vars)
<1> PICK b \in Block : b = blk[p]
  BY StaysPlaces
<1> DEFINE Has == pc[p] \in Locks \ {"read"}
           Had == pc'[p] \in Locks \ {"read"}
<1>0. pc \in [Proc -> Where]
  BY DEF IInv, TypeOK
<1>1. ASSUME NEW v \in Data, Change(p, v) PROVE Store!Next
  BY <1>0, <1>1, ChangeRefines DEF Store!Next
<1>2. ASSUME \A v \in Data : ~Change(p, v) PROVE [Store!Next]_(Store!vars)
  <2>1. Content(b)' = Content(b)
    BY <1>2, StaysContent
  <2>2. CASE Has <=> Had
    <3>1. Owners(b)' = Owners(b)
      BY <2>2, OwnOwners DEF Owners
    <3>2. \A c \in Block : Content(c)' = Content(c) /\ Owner(c)' = Owner(c)
      BY <2>1, <3>1, OtherBlocks, SameOwner
    <3> QED  BY <3>2, StoreSame
  <2>3. CASE ~Has /\ Had
    <3>1. pc[p] \in Locks \/ holder[buf[p]] = NoProc
      BY <1>0, <2>3 DEF Stays, Acquire, Kill, ReadDone, Change, LogWrite, Write, WriteDone,
                     Unpin, Brelse, Released, At, Goes, Locks
    <3>2. Owners(b) = {}
      BY <2>3, <3>1, HadByNoOther DEF Owners
    <3> QED  BY <1>0, <2>1, <2>3, <3>2, TakeRefines DEF Store!Next
  <2>4. CASE Has /\ ~Had
    <3>1. pc'[p] \notin Locks
      BY <1>0, <2>4, StaysLeaves DEF Locks
    <3>2. Owners(b) = {p}
      BY <2>4, HadByNoOther DEF Owners
    <3> QED  BY <1>0, <2>1, <3>1, <3>2, GiveRefines DEF Store!Next
  <2> QED  BY <2>2, <2>3, <2>4
<1> QED  BY <1>1, <1>2

LEMMA DropRefines ==
  ASSUME IInv, NEW p \in Proc, Drop(p)
  PROVE  UNCHANGED Store!vars
<1>1. ASSUME NEW c \in Block PROVE Content(c)' = Content(c) /\ Owner(c)' = Owner(c)
  <2>1. Copies(c)' = Copies(c) /\ data' = data /\ disk' = disk
    BY DropPlaces DEF Copies
  <2>2. Owners(c)' = Owners(c)
    BY DropPlaces DEF Owners, Locks
  <2> QED  BY <2>1, <2>2, SameContent, SameOwner
<1> QED  BY <1>1, StoreSame

\* A buffer is recycled when nothing of its block would be lost.
LEMMA BgetRefines ==
  ASSUME IInv, NEW p \in Proc, NEW b \in Block, Bget(p, b)
  PROVE  UNCHANGED Store!vars
<1>0. /\ UNCHANGED <<data, disk>> /\ pc[p] = "user"
      /\ \A q \in Proc : q # p => pc'[q] = pc[q] /\ blk'[q] = blk[q]
      /\ pc'[p] \in {"user", "lock"}
  BY BgetPlaces
<1>1. ASSUME NEW c \in Block PROVE Owner(c)' = Owner(c)
  <2>1. Owners(c)' = Owners(c)
    BY <1>0 DEF Owners, Locks
  <2> QED  BY <2>1, SameOwner
<1>2. ASSUME NEW c \in Block PROVE Content(c)' = Content(c)
  <2>1. CASE panicked' \/ \A j \in Buf : blockno'[j] = blockno[j] /\ valid'[j] = valid[j]
    <3>1. Copies(c)' = Copies(c)
      BY <2>1, BgetPlaces DEF Copies
    <3> QED  BY <1>0, <3>1, SameContent
  <2>2. CASE ~panicked' /\ ~\A j \in Buf : blockno'[j] = blockno[j] /\ valid'[j] = valid[j]
    <3> DEFINE i == buf'[p]
    <3>1. /\ i \in Buf /\ refcnt[i] = 0 /\ ~valid'[i] /\ Cached(b) = {}
          /\ \A j \in Buf : j # i => blockno'[j] = blockno[j] /\ valid'[j] = valid[j]
      BY <2>2, BgetBuffers
    <3> HIDE DEF i
    <3>2. Copies(c)' = Copies(c) \ {i}
      BY <3>1 DEF Copies
    <3>3. CASE i \notin Copies(c)
      BY <1>0, <3>2, <3>3, SameContent
    <3>4. CASE i \in Copies(c)
      <4>1. Copies(c) = {i} /\ Copies(c)' = {}
        BY <3>2, <3>4, CopyIs
      <4>2. data[i] = disk[c]
        BY <3>1, <3>4, Unneeded DEF Copies
      <4> QED  BY <1>0, <4>1, <4>2 DEF Content
    <3> QED  BY <3>3, <3>4
  <2> QED  BY <2>1, <2>2
<1> QED  BY <1>1, <1>2, StoreSame

\* The buffer cache implements BlockStore, whatever the numbers of processes,
\* buffers and blocks: a block has one content, changed only by the one process
\* between the return of its bread and its brelse; filling, writing, pinning and
\* recycling buffers is not seen.
THEOREM Refinement == Spec => ImplementsBlockStore
<1>1. Init => Store!Init
  <2> SUFFICES ASSUME Init PROVE Store!Init
    OBVIOUS
  <2>1. \A c \in Block : Copies(c) = {} /\ Owners(c) = {}
    BY DEF Init, Copies, Owners, Locks
  <2>2. \A c \in Block : Content(c) = disk[c] /\ Owner(c) = NoProc
    BY <2>1, OwnerOf DEF Content
  <2>3. \A c \in Block : disk[c] \in Data
    BY TypeInit DEF TypeOK
  <2> QED  BY <2>2, <2>3 DEF Store!Init
<1>2. IInv /\ [Next]_vars => [Store!Next]_(Store!vars)
  <2> SUFFICES ASSUME IInv, [Next]_vars PROVE [Store!Next]_(Store!vars)
    OBVIOUS
  <2>1. CASE UNCHANGED vars
    <3>1. \A c \in Block : /\ Copies(c)' = Copies(c) /\ Owners(c)' = Owners(c)
                           /\ data' = data /\ disk' = disk
      BY <2>1 DEF Copies, Owners, vars, bufVars, procVars
    <3> QED  BY <3>1, SameContent, SameOwner, StoreSame
  <2> QED  BY <2>1, StaysRefines, DropRefines, BgetRefines, NextCases
<1> QED  BY <1>1, <1>2, Invariance, PTL DEF Spec, ImplementsBlockStore, Store!Spec
=============================================================================
