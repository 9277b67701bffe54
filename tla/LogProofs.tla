----------------------------- MODULE LogProofs -----------------------------
(***************************************************************************)
(* The log for any number of processes and blocks and any log size: types, *)
(* the write-ahead rule, no dirty buffer is lost, commits run alone, and   *)
(* the log implements the transactional disk TxDisk.                       *)
(***************************************************************************)
EXTENDS Log, FiniteSetTheorems, TLAPS

Ops == {p \in Proc : pc[p] = "op"}

\* What the processes and log_state agree on.
CountInv ==
  /\ outstanding = Cardinality(Ops)
  /\ committing <=> \E p \in Proc : pc[p] \in CommitPc
  /\ committing => Ops = {}
  /\ \A p, q \in Proc : pc[p] \in CommitPc /\ pc[q] \in CommitPc => p = q

\* Before log_init is done no process runs.
BootInv ==
  boot # "up" => /\ \A p \in Proc : pc[p] = "idle"
                 /\ \A b \in Block : pins[b] = 0
                 /\ cache = home
                 /\ panicked = ""

Distinct(s) == \A i, j \in DOMAIN s : s[i] = s[j] => i = j

\* The loop index never leaves the list the loop runs over.
IndexInv ==
  /\ Distinct(lh) /\ Distinct(head)
  /\ boot = "install" => k <= Len(lh)
  /\ \A p \in Proc : pc[p] \in {"write_log", "install"} => k <= Len(lh)

\* Which home blocks are behind their buffers, and what keeps those buffers.
DirtyInv ==
  boot = "up" =>
    /\ \A b \in Block : cache[b] # home[b] => b \in Range(lh)
    /\ \A p \in Proc : pc[p] = "install" =>
         \A i \in DOMAIN lh : i <= k => home[lh[i]] = cache[lh[i]]
    /\ \A i \in DOMAIN lh :
         (\A p \in Proc : pc[p] = "install" => i > k) => pins[lh[i]] > 0

\* The copies in the log area.
CopyInv ==
  /\ boot = "up" =>
       /\ (\A p \in Proc : pc[p] # "install") => head = <<>>
       /\ \A p \in Proc : pc[p] = "write_log" =>
            \A i \in DOMAIN lh : i <= k => logd[i] = cache[lh[i]]
       /\ \A p \in Proc : pc[p] = "install" =>
            /\ head = lh
            /\ \A i \in DOMAIN lh : logd[i] = cache[lh[i]]
       /\ \A p \in Proc : pc[p] = "clear" => lh = <<>>
  /\ boot = "install" => /\ lh = head
                         /\ \A i \in DOMAIN lh : i <= k => home[lh[i]] = logd[i]

LogInv == CountInv /\ BootInv /\ IndexInv /\ DirtyInv /\ CopyInv

IInv == TypeOK /\ LogInv

-----------------------------------------------------------------------------
(* Lists of block numbers.                                                 *)
LEMMA ListDomain ==
  ASSUME NEW s \in Seq(Block)
  PROVE  /\ Len(s) \in Nat
         /\ \A i \in DOMAIN s : i \in Nat /\ 1 <= i /\ i <= Len(s) /\ s[i] \in Block
         /\ \A i \in Nat : i < Len(s) => i + 1 \in DOMAIN s
         /\ s = <<>> => DOMAIN s = {}
<1>1. Len(s) \in Nat /\ DOMAIN s = 1..Len(s) /\ \A i \in 1..Len(s) : s[i] \in Block
  OBVIOUS
<1>2. s = <<>> => Len(s) = 0
  OBVIOUS
<1> QED  BY <1>1, <1>2

LEMMA EmptyList ==
  <<>> \in Seq(Block) /\ Len(<<>>) = 0 /\ DOMAIN <<>> = {}
<1>1. <<>> \in Seq(Block) /\ Len(<<>>) = 0
  OBVIOUS
<1> QED  BY <1>1, ListDomain

LEMMA ListSlots ==
  ASSUME NEW s \in Seq(Block), Len(s) <= LogSize - 1
  PROVE  \A i \in DOMAIN s : i \in Slot /\ i \in Nat /\ s[i] \in Block
<1>1. Len(s) \in Nat /\ LogSize - 1 \in Int
  BY LogAssumption
<1>2. \A i \in DOMAIN s : i \in Nat /\ 1 <= i /\ i <= Len(s) /\ s[i] \in Block
  BY ListDomain
<1> QED  BY <1>1, <1>2 DEF Slot

\* log_write appends a block it does not find.
LEMMA AbsorbList ==
  ASSUME NEW s \in Seq(Block), NEW b \in Block, Distinct(s)
  PROVE  /\ Absorb(s, b) \in Seq(Block)
         /\ Len(Absorb(s, b)) <= Len(s) + 1
         /\ Distinct(Absorb(s, b))
         /\ Range(Absorb(s, b)) = Range(s) \cup {b}
         /\ b \notin Range(s) => Absorb(s, b) = Append(s, b)
<1>1. CASE b \in Range(s)
  BY <1>1 DEF Absorb
<1>2. CASE b \notin Range(s)
  <2> DEFINE t == Append(s, b)
  <2>1. Absorb(s, b) = t
    BY <1>2 DEF Absorb
  <2>2. /\ t \in Seq(Block)
        /\ Len(t) = Len(s) + 1
        /\ \A i \in 1..Len(s) : t[i] = s[i]
        /\ t[Len(s) + 1] = b
    OBVIOUS
  <2>3. DOMAIN t = DOMAIN s \cup {Len(s) + 1} /\ DOMAIN s = 1..Len(s)
    BY <2>2
  <2>4. \A i \in DOMAIN s : s[i] # b
    BY <1>2 DEF Range
  <2>5. Distinct(t)
    BY <2>2, <2>3, <2>4 DEF Distinct
  <2>6. Range(t) = Range(s) \cup {b}
    BY <2>2, <2>3 DEF Range
  <2> QED  BY <1>2, <2>1, <2>2, <2>5, <2>6
<1> QED  BY <1>1, <1>2

LEMMA OpsFinite == IsFiniteSet(Ops)
BY LogAssumption, FS_Subset DEF Ops

-----------------------------------------------------------------------------
LEMMA InitInv == Init => IInv
<1> SUFFICES ASSUME Init PROVE IInv
  OBVIOUS
<1>1. TypeOK
  <2>1. <<>> \in Seq(Block) /\ Len(<<>>) = 0 /\ 0 <= LogSize - 1
    BY LogAssumption
  <2> QED  BY <2>1, LogAssumption DEF Init, TypeOK
<1>2. CountInv
  <2>1. Ops = {}
    BY DEF Init, Ops
  <2> QED  BY <2>1, FS_EmptySet DEF Init, CountInv, CommitPc
<1>3. BootInv
  BY DEF Init, BootInv
<1>4. IndexInv
  <2>1. DOMAIN lh = {} /\ DOMAIN head = {}
    BY <1>1, ListDomain DEF Init, TypeOK
  <2>2. Distinct(lh) /\ Distinct(head)
    BY <2>1 DEF Distinct
  <2> QED  BY <2>2 DEF Init, IndexInv
<1>5. DirtyInv /\ CopyInv
  BY DEF Init, DirtyInv, CopyInv
<1> QED  BY <1>1, <1>2, <1>3, <1>4, <1>5 DEF IInv, LogInv

LEMMA StartStep ==
  ASSUME IInv, NEW p \in Proc, StartOp(p) \/ BeginSleep(p)
  PROVE  IInv'
<1> USE DEF IInv, LogInv
<1>1. TypeOK'
  BY DEF TypeOK, StartOp, BeginSleep, disk
<1>2. CountInv'
  <2>1. Ops' = Ops
    BY DEF Ops, StartOp, BeginSleep, TypeOK
  <2>2. \A q \in Proc : pc'[q] \in CommitPc <=> pc[q] \in CommitPc
    BY DEF StartOp, BeginSleep, TypeOK, CommitPc
  <2>3. committing' = committing /\ outstanding' = outstanding
    BY DEF StartOp, BeginSleep
  <2> QED  BY <2>1, <2>2, <2>3 DEF CountInv
<1>3. BootInv'
  BY DEF BootInv, StartOp, BeginSleep, TypeOK, Up
<1>4. IndexInv'
  BY DEF IndexInv, StartOp, BeginSleep, TypeOK, disk
<1>5. DirtyInv'
  BY DEF DirtyInv, StartOp, BeginSleep, TypeOK, disk
<1>6. CopyInv'
  BY DEF CopyInv, StartOp, BeginSleep, TypeOK, disk
<1> QED  BY <1>1, <1>2, <1>3, <1>4, <1>5, <1>6

LEMMA BeginStep ==
  ASSUME IInv, NEW p \in Proc, BeginOp(p)
  PROVE  IInv'
<1> USE DEF IInv, LogInv
<1>1. TypeOK'
  <2>1. outstanding' \in Nat
    <3>1. outstanding \in Nat /\ outstanding' = outstanding + 1
      BY DEF TypeOK, BeginOp
    <3> QED  BY <3>1
  <2>2. pc' \in [Proc -> {"idle", "begin", "op"} \cup CommitPc]
    BY DEF TypeOK, BeginOp
  <2>3. wrote' \in [Proc -> SUBSET Block]
    BY DEF TypeOK, BeginOp
  <2> QED  BY <2>1, <2>2, <2>3 DEF TypeOK, BeginOp, disk
<1>2. CountInv'
  <2>1. Ops' = Ops \cup {p} /\ p \notin Ops
    BY DEF Ops, BeginOp, TypeOK
  <2>2. Cardinality(Ops') = Cardinality(Ops) + 1
    BY <2>1, OpsFinite, FS_AddElement
  <2>3. \A q \in Proc : pc'[q] \in CommitPc <=> pc[q] \in CommitPc
    BY DEF BeginOp, TypeOK, CommitPc
  <2> QED  BY <2>2, <2>3 DEF CountInv, BeginOp, MustWait, TypeOK
<1>3. BootInv'
  BY DEF BootInv, BeginOp, Up
<1>4. IndexInv'
  BY DEF IndexInv, BeginOp, disk
<1>5. DirtyInv'
  BY DEF DirtyInv, BeginOp, TypeOK, disk
<1>6. CopyInv'
  BY DEF CopyInv, BeginOp, TypeOK, disk
<1> QED  BY <1>1, <1>2, <1>3, <1>4, <1>5, <1>6

LEMMA WriteStep ==
  ASSUME IInv, NEW p \in Proc, NEW b \in Block, NEW d \in Data,
         LogWrite(p, b, d)
  PROVE  IInv'
<1> USE DEF IInv, LogInv
<1>0. /\ p \in Ops /\ ~committing /\ boot = "up"
      /\ \A q \in Proc : pc[q] \notin CommitPc
      /\ Distinct(lh) /\ lh \in Seq(Block) /\ pc' = pc
  BY DEF LogWrite, Up, Ops, CountInv, IndexInv, TypeOK
<1>a. /\ lh' \in Seq(Block)
      /\ Len(lh') <= Len(lh) + 1
      /\ Distinct(lh')
      /\ Range(lh') = Range(lh) \cup {b}
  BY <1>0, AbsorbList DEF LogWrite
<1>1. TypeOK'
  <2>1. Len(lh') <= LogSize - 1
    <3>1. ~(Len(lh) >= LogSize - 1)
      BY DEF LogWrite, LogFull
    <3>2. Len(lh) \in Nat /\ Len(lh') \in Nat /\ LogSize \in Nat
      BY <1>0, <1>a, LogAssumption
    <3> QED  BY <3>1, <3>2, <1>a
  <2>2. pins' \in [Block -> Nat]
    <3>1. pins \in [Block -> Nat] /\ pins' = [pins EXCEPT ![b] = @ + 1]
      BY DEF LogWrite, Pin, TypeOK
    <3> QED  BY <3>1
  <2>3. /\ cache' \in [Block -> Data]
        /\ wrote' \in [Proc -> SUBSET Block]
    BY DEF LogWrite, TypeOK
  <2> QED  BY <1>a, <2>1, <2>2, <2>3 DEF LogWrite, TypeOK, disk
<1>2. CountInv'
  <2>1. Ops' = Ops
    BY <1>0 DEF Ops
  <2>2. committing' = committing /\ outstanding' = outstanding
    BY DEF LogWrite
  <2> QED  BY <1>0, <2>1, <2>2 DEF CountInv
<1>3. BootInv'
  BY <1>0 DEF BootInv, LogWrite
<1>4. IndexInv'
  BY <1>0, <1>a DEF IndexInv, LogWrite, disk, CommitPc
<1>5. DirtyInv'
  <2>1. \A c \in Block : cache'[c] # home'[c] => c \in Range(lh')
    BY <1>0, <1>a DEF DirtyInv, LogWrite, TypeOK, disk
  <2>2. ASSUME NEW i \in DOMAIN lh' PROVE pins'[lh'[i]] > 0
    <3>1. lh'[i] \in Range(lh) \cup {b}
      BY <1>a DEF Range
    <3>2. \A j \in DOMAIN lh : pins[lh[j]] > 0 /\ lh[j] \in Block
      BY <1>0 DEF DirtyInv, CommitPc
    <3>a. /\ pins' = [pins EXCEPT ![b] = @ + 1]
          /\ pins \in [Block -> Nat] /\ pins[b] \in Nat
      BY DEF LogWrite, Pin, TypeOK
    <3>b. pins'[b] = pins[b] + 1 /\ \A c \in Block : c # b => pins'[c] = pins[c]
      BY <3>a
    <3>3. CASE lh'[i] = b
      BY <3>3, <3>a, <3>b
    <3>4. CASE lh'[i] # b
      <4>1. PICK j \in DOMAIN lh : lh'[i] = lh[j]
        BY <3>1, <3>4 DEF Range
      <4> QED  BY <3>2, <3>4, <3>b, <4>1
    <3> QED  BY <3>3, <3>4
  <2> QED  BY <1>0, <2>1, <2>2 DEF DirtyInv, CommitPc
<1>6. CopyInv'
  BY <1>0 DEF CopyInv, LogWrite, disk, CommitPc
<1> QED  BY <1>1, <1>2, <1>3, <1>4, <1>5, <1>6

\* Steps that only stop the kernel, and the recycling of a clean buffer.
LEMMA PanicStep ==
  ASSUME IInv, NEW p \in Proc,
         CommitPanic(p) \/ \E b \in Block : WritePanic(p, b)
  PROVE  IInv'
<1> USE DEF IInv, LogInv
<1>0. /\ UNCHANGED <<disk, cache, pins, lh, outstanding, committing, pc,
                     asleep, wrote, k, boot, crashes>>
      /\ boot = "up"
      /\ panicked' \in {"log_write: log full", "bget: no buffers"}
  BY DEF CommitPanic, WritePanic, Up
<1>1. TypeOK'
  BY <1>0 DEF TypeOK, disk
<1>2. CountInv'
  <2>1. Ops' = Ops
    BY <1>0 DEF Ops
  <2> QED  BY <1>0, <2>1 DEF CountInv
<1>3. BootInv' /\ IndexInv' /\ DirtyInv' /\ CopyInv'
  BY <1>0 DEF BootInv, IndexInv, DirtyInv, CopyInv, disk
<1> QED  BY <1>1, <1>2, <1>3

\* A buffer without pins equals its block, so recycling it changes nothing.
LEMMA CleanBuffer ==
  ASSUME IInv, boot = "up", NEW b \in Block, pins[b] = 0
  PROVE  cache[b] = home[b]
<1> USE DEF IInv, LogInv
<1> SUFFICES ASSUME cache[b] # home[b] PROVE FALSE
  OBVIOUS
<1>1. PICK i \in DOMAIN lh : lh[i] = b
  BY DEF DirtyInv, Range
<1>2. PICK p \in Proc : pc[p] = "install" /\ ~(i > k)
  BY <1>1 DEF DirtyInv
<1>3. i <= k
  <2>1. i \in Nat /\ k \in Nat
    BY ListDomain DEF TypeOK
  <2> QED  BY <1>2, <2>1
<1> QED  BY <1>1, <1>2, <1>3 DEF DirtyInv

LEMMA EvictStep ==
  ASSUME IInv, NEW b \in Block, Evict(b)
  PROVE  IInv' /\ cache' = cache
<1>1. cache' = cache
  BY CleanBuffer DEF Evict, Up, IInv, TypeOK
<1>2. UNCHANGED <<disk, pins, lh, outstanding, committing, pc, asleep, wrote,
                  k, boot, panicked, crashes>>
  BY DEF Evict
<1>3. TypeOK'
  BY <1>1, <1>2 DEF IInv, TypeOK, disk
<1>4. CountInv'
  <2>1. Ops' = Ops
    BY <1>2 DEF Ops
  <2> QED  BY <1>2, <2>1 DEF IInv, LogInv, CountInv
<1>5. BootInv' /\ IndexInv' /\ DirtyInv' /\ CopyInv'
  BY <1>1, <1>2 DEF IInv, LogInv, BootInv, IndexInv, DirtyInv, CopyInv, disk
<1> QED  BY <1>1, <1>3, <1>4, <1>5 DEF IInv, LogInv

LEMMA EndOpStep ==
  ASSUME IInv, NEW p \in Proc, EndOp(p)
  PROVE  IInv'
<1> USE DEF IInv, LogInv
<1>0. /\ p \in Ops /\ ~committing /\ boot = "up"
      /\ \A q \in Proc : pc[q] \notin CommitPc
      /\ Ops' = Ops \ {p}
  BY DEF EndOp, Up, Ops, CountInv, TypeOK, CommitPc
<1>a. /\ Cardinality(Ops) \in Nat
      /\ Cardinality(Ops') = Cardinality(Ops) - 1
      /\ Cardinality(Ops') \in Nat
      /\ Cardinality(Ops') = 0 => Ops' = {}
  <2>1. IsFiniteSet(Ops) /\ IsFiniteSet(Ops')
    BY <1>0, OpsFinite, FS_Subset
  <2> QED  BY <1>0, <2>1, FS_RemoveElement, FS_CardinalityType, FS_EmptySet
<1>b. outstanding' = Cardinality(Ops') /\ (Last => Ops' = {})
  BY <1>a DEF CountInv, EndOp, Last
<1>c. pc' = [pc EXCEPT ![p] = IF Last THEN "write_log" ELSE "idle"]
  BY DEF EndOp
<1>1. TypeOK'
  <2>1. pc' \in [Proc -> {"idle", "begin", "op"} \cup CommitPc]
    BY <1>c DEF TypeOK, CommitPc
  <2>2. committing' \in BOOLEAN /\ asleep' \subseteq Proc /\ k' \in Nat
    BY DEF EndOp, Last, TypeOK
  <2> QED  BY <1>a, <1>b, <2>1, <2>2 DEF EndOp, TypeOK, disk
<1>2. CountInv'
  <2>1. committing' <=> Last
    BY DEF EndOp
  <2>2. \A q \in Proc : pc'[q] \in CommitPc <=> (q = p /\ Last)
    BY <1>0, <1>c DEF TypeOK, CommitPc
  <2> QED  BY <1>b, <2>1, <2>2 DEF CountInv
<1>3. BootInv'
  BY <1>0 DEF BootInv, EndOp
<1>4. IndexInv'
  <2>1. Len(lh) \in Nat /\ k' = 0 /\ lh' = lh /\ head' = head /\ boot' = boot
    BY ListDomain DEF TypeOK, EndOp, disk
  <2> QED  BY <2>1 DEF IndexInv
<1>5. \A q \in Proc : pc[q] # "install" /\ pc'[q] # "install" /\ pc'[q] # "clear"
  BY <1>0, <1>c DEF TypeOK, CommitPc
<1>6. DirtyInv'
  BY <1>0, <1>5 DEF DirtyInv, EndOp, disk
<1>7. CopyInv'
  <2>0. \A i \in DOMAIN lh : i \in Nat /\ 1 <= i
    BY ListDomain DEF TypeOK
  <2>1. \A i \in DOMAIN lh : ~(i <= 0)
    BY <2>0
  <2> QED  BY <1>0, <1>5, <2>1 DEF CopyInv, EndOp, disk
<1> QED  BY <1>1, <1>2, <1>3, <1>4, <1>6, <1>7

-----------------------------------------------------------------------------
(* The commit.  The process that commits is the only one in CommitPc, and   *)
(* log_state does not change hands meanwhile.                               *)
LEMMA Committer ==
  ASSUME IInv, NEW p \in Proc, CommitStep(p)
  PROVE  /\ boot = "up" /\ committing /\ Ops = {}
         /\ pc[p] \in CommitPc
         /\ \A q \in Proc : pc[q] \in CommitPc => q = p
         /\ lh \in Seq(Block) /\ Distinct(lh)
         /\ pc[p] \in {"write_log", "install"} => k <= Len(lh)
<1>1. boot = "up" /\ pc[p] \in CommitPc
  BY DEF CommitStep, WriteLog, CommitPanic, WriteHead, Install, ClearHead,
         EndCommit, Up, CommitPc
<1> QED  BY <1>1 DEF IInv, LogInv, CountInv, IndexInv, TypeOK

LEMMA WriteLogStep ==
  ASSUME IInv, NEW p \in Proc, WriteLog(p)
  PROVE  IInv'
<1> USE DEF IInv, LogInv
<1>0. /\ boot = "up" /\ committing /\ Ops = {}
      /\ \A q \in Proc : pc[q] \in CommitPc => q = p
      /\ lh \in Seq(Block)
  BY Committer DEF CommitStep
<1>a. /\ pc[p] = "write_log" /\ pc' = pc
      /\ UNCHANGED <<home, head, cache, pins, lh, outstanding, committing,
                     asleep, wrote, boot, panicked, crashes>>
      /\ k \in Nat /\ k < Len(lh) /\ k' = k + 1
      /\ logd' = [logd EXCEPT ![k + 1] = cache[lh[k + 1]]]
  BY DEF WriteLog, TypeOK
<1>s. \A i \in DOMAIN lh : i \in Slot /\ i \in Nat /\ lh[i] \in Block
  BY <1>0, ListSlots DEF TypeOK
<1>b. k + 1 \in DOMAIN lh /\ lh[k + 1] \in Block /\ k + 1 \in Slot
  BY <1>0, <1>a, <1>s, ListDomain
<1>c. \A q \in Proc : pc[q] # "install" /\ pc[q] # "clear"
  BY <1>0, <1>a DEF CommitPc
<1>1. TypeOK'
  <2>1. logd' \in [Slot -> Data]
    BY <1>a, <1>b DEF TypeOK
  <2>2. k' \in Nat
    BY <1>a
  <2> QED  BY <1>a, <2>1, <2>2 DEF TypeOK
<1>2. CountInv'
  <2>1. Ops' = Ops
    BY <1>a DEF Ops
  <2> QED  BY <1>a, <2>1 DEF CountInv
<1>3. BootInv'
  BY <1>0, <1>a DEF BootInv
<1>4. IndexInv'
  <2>1. Len(lh) \in Nat
    BY <1>0, ListDomain
  <2> QED  BY <1>0, <1>a, <1>c, <2>1 DEF IndexInv
<1>5. DirtyInv'
  BY <1>0, <1>a, <1>c DEF DirtyInv
<1>6. CopyInv'
  <2>1. ASSUME NEW i \in DOMAIN lh, i <= k + 1 PROVE logd'[i] = cache[lh[i]]
    <3>1. i \in Nat /\ i \in Slot
      BY <1>s
    <3>2. CASE i = k + 1
      BY <1>a, <1>b, <3>2 DEF TypeOK
    <3>3. CASE i # k + 1
      <4>1. i <= k
        BY <1>a, <2>1, <3>1, <3>3
      <4>2. logd[i] = cache[lh[i]]
        BY <1>0, <1>a, <4>1 DEF CopyInv
      <4> QED  BY <1>a, <3>1, <3>3, <4>2 DEF TypeOK
    <3> QED  BY <3>2, <3>3
  <2>2. head' = <<>>
    BY <1>0, <1>a, <1>c DEF CopyInv
  <2> QED  BY <1>0, <1>a, <1>c, <2>1, <2>2 DEF CopyInv
<1> QED  BY <1>1, <1>2, <1>3, <1>4, <1>5, <1>6

LEMMA WriteHeadStep ==
  ASSUME IInv, NEW p \in Proc, WriteHead(p)
  PROVE  /\ IInv'
         /\ \A i \in DOMAIN lh : logd[i] = cache[lh[i]]
         /\ head = <<>>
<1> USE DEF IInv, LogInv
<1>0. /\ boot = "up" /\ committing /\ Ops = {}
      /\ \A q \in Proc : pc[q] \in CommitPc => q = p
      /\ lh \in Seq(Block) /\ Distinct(lh)
  BY Committer DEF CommitStep
<1>a. /\ pc[p] = "write_log" /\ pc' = [pc EXCEPT ![p] = "install"]
      /\ UNCHANGED <<home, logd, cache, pins, lh, outstanding, committing,
                     asleep, wrote, boot, panicked, crashes>>
      /\ k = Len(lh) /\ k' = 0 /\ head' = lh
  BY DEF WriteHead
<1>b. \A q \in Proc : /\ pc[q] # "install" /\ pc[q] # "clear"
                      /\ pc'[q] # "write_log" /\ pc'[q] # "clear"
                      /\ pc'[q] = "install" => q = p
  BY <1>0, <1>a DEF CommitPc, TypeOK
<1>c. Len(lh) \in Nat /\ \A i \in DOMAIN lh : 1 <= i /\ i <= Len(lh) /\ i \in Nat
  BY <1>0, ListDomain
<1>d. \A i \in DOMAIN lh : logd[i] = cache[lh[i]]
  BY <1>0, <1>a, <1>c DEF CopyInv
<1>1. TypeOK'
  <2>1. pc' \in [Proc -> {"idle", "begin", "op"} \cup CommitPc]
    BY <1>a DEF TypeOK, CommitPc
  <2> QED  BY <1>0, <1>a, <2>1 DEF TypeOK
<1>2. CountInv'
  <2>1. Ops' = Ops
    BY <1>a DEF Ops, TypeOK
  <2>2. \A q \in Proc : pc'[q] \in CommitPc <=> pc[q] \in CommitPc
    BY <1>a DEF TypeOK, CommitPc
  <2> QED  BY <1>a, <2>1, <2>2 DEF CountInv
<1>3. BootInv'
  BY <1>0, <1>a DEF BootInv
<1>4. IndexInv'
  BY <1>0, <1>a, <1>c DEF IndexInv
<1>5. DirtyInv'
  <2>1. \A i \in DOMAIN lh : ~(i <= 0) /\ i > 0
    BY <1>c
  <2> QED  BY <1>0, <1>a, <1>b, <2>1 DEF DirtyInv
<1>6. CopyInv'
  BY <1>0, <1>a, <1>b, <1>d DEF CopyInv, TypeOK
<1>7. head = <<>>
  BY <1>0, <1>b DEF CopyInv
<1> QED  BY <1>1, <1>2, <1>3, <1>4, <1>5, <1>6, <1>d, <1>7

LEMMA InstallStep ==
  ASSUME IInv, NEW p \in Proc, Install(p)
  PROVE  IInv' /\ cache' = cache
<1> USE DEF IInv, LogInv
<1>0. /\ boot = "up" /\ committing /\ Ops = {}
      /\ \A q \in Proc : pc[q] \in CommitPc => q = p
      /\ lh \in Seq(Block) /\ Distinct(lh)
  BY Committer DEF CommitStep
<1> DEFINE b == lh[k + 1]
<1>a. /\ pc[p] = "install" /\ pc' = pc
      /\ UNCHANGED <<logd, head, lh, outstanding, committing, asleep, wrote,
                     boot, panicked, crashes>>
      /\ k \in Nat /\ k < Len(lh) /\ k' = k + 1
      /\ home' = [home EXCEPT ![b] = logd[k + 1]]
      /\ cache' = [cache EXCEPT ![b] = logd[k + 1]]
      /\ pins' = [pins EXCEPT ![b] = @ - 1]
  BY DEF Install, Installed, TypeOK
<1>s. \A i \in DOMAIN lh : i \in Slot /\ i \in Nat /\ lh[i] \in Block
  BY <1>0, ListSlots DEF TypeOK
<1>b. k + 1 \in DOMAIN lh /\ b \in Block /\ k + 1 \in Slot
  BY <1>0, <1>a, <1>s, ListDomain
<1>c. logd[k + 1] = cache[b]
  BY <1>0, <1>a, <1>b DEF CopyInv
<1>d. cache' = cache /\ home'[b] = cache[b]
      /\ \A c \in Block : c # b => home'[c] = home[c] /\ pins'[c] = pins[c]
  BY <1>a, <1>b, <1>c DEF TypeOK
<1>e. \A q \in Proc : pc[q] = "install" => q = p
  BY <1>0 DEF CommitPc
<1>f. pins[b] > 0 /\ pins[b] \in Nat
  <2>1. k + 1 > k
    BY <1>a
  <2> QED  BY <1>0, <1>b, <1>e, <2>1 DEF DirtyInv, TypeOK
<1>g. \A i \in DOMAIN lh : lh[i] = b => i = k + 1
  BY <1>0, <1>b DEF Distinct
<1> HIDE DEF b
<1>1. TypeOK'
  <2>1. pins' \in [Block -> Nat]
    <3>1. pins[b] - 1 \in Nat
      BY <1>f
    <3> QED  BY <1>a, <3>1 DEF TypeOK
  <2>2. home' \in [Block -> Data]
    BY <1>a, <1>b, <1>c DEF TypeOK
  <2>3. k' \in Nat
    BY <1>a
  <2> QED  BY <1>a, <1>d, <2>1, <2>2, <2>3 DEF TypeOK
<1>2. CountInv'
  <2>1. Ops' = Ops
    BY <1>a DEF Ops
  <2> QED  BY <1>a, <2>1 DEF CountInv
<1>3. BootInv'
  BY <1>0, <1>a DEF BootInv
<1>4. IndexInv'
  <2>1. Len(lh) \in Nat
    BY <1>0, ListDomain
  <2>2. k + 1 <= Len(lh)
    BY <1>a, <2>1
  <2> QED  BY <1>0, <1>a, <2>2 DEF IndexInv
<1>5. DirtyInv'
  <2>1. \A c \in Block : cache'[c] # home'[c] => c \in Range(lh')
    BY <1>0, <1>a, <1>d DEF DirtyInv
  <2>2. ASSUME NEW i \in DOMAIN lh, i <= k + 1
        PROVE  home'[lh[i]] = cache'[lh[i]]
    <3>1. CASE lh[i] = b
      BY <1>d, <3>1
    <3>2. CASE lh[i] # b
      <4>1. i <= k
        <5>1. i # k + 1 /\ i \in Nat
          BY <3>2, <1>s DEF b
        <5> QED  BY <1>a, <2>2, <5>1
      <4>2. home[lh[i]] = cache[lh[i]]
        BY <1>0, <1>a, <4>1 DEF DirtyInv
      <4> QED  BY <1>d, <1>s, <3>2, <4>2
    <3> QED  BY <3>1, <3>2
  <2>3. ASSUME NEW i \in DOMAIN lh, i > k + 1 PROVE pins'[lh[i]] > 0
    <3>1. i \in Nat /\ i > k /\ i # k + 1
      BY <1>a, <1>s, <2>3
    <3>2. pins[lh[i]] > 0
      BY <1>0, <1>e, <3>1 DEF DirtyInv
    <3> QED  BY <1>d, <1>g, <1>s, <3>1, <3>2
  <2> QED  BY <1>0, <1>a, <2>1, <2>2, <2>3 DEF DirtyInv
<1>6. CopyInv'
  <2>1. \A q \in Proc : pc[q] # "write_log" /\ pc[q] # "clear"
    BY <1>0, <1>a DEF CommitPc
  <2> QED  BY <1>0, <1>a, <1>d, <2>1 DEF CopyInv
<1> QED  BY <1>1, <1>2, <1>3, <1>4, <1>5, <1>6, <1>d

LEMMA ClearHeadStep ==
  ASSUME IInv, NEW p \in Proc, ClearHead(p)
  PROVE  IInv' /\ cache = home
<1> USE DEF IInv, LogInv
<1>0. /\ boot = "up" /\ committing /\ Ops = {}
      /\ \A q \in Proc : pc[q] \in CommitPc => q = p
      /\ lh \in Seq(Block) /\ Distinct(lh)
  BY Committer DEF CommitStep
<1>a. /\ pc[p] = "install" /\ pc' = [pc EXCEPT ![p] = "clear"]
      /\ UNCHANGED <<home, logd, cache, pins, outstanding, committing, asleep,
                     wrote, k, boot, panicked, crashes>>
      /\ k = Len(lh) /\ lh' = <<>> /\ head' = <<>>
  BY DEF ClearHead
<1>b. \A q \in Proc : pc'[q] # "install" /\ pc'[q] # "write_log"
  BY <1>0, <1>a DEF CommitPc, TypeOK
<1>c. \A c \in Block : cache[c] = home[c]
  <2> SUFFICES ASSUME NEW c \in Block, cache[c] # home[c] PROVE FALSE
    OBVIOUS
  <2>1. PICK i \in DOMAIN lh : lh[i] = c
    BY <1>0 DEF DirtyInv, Range
  <2>2. i <= k
    BY <1>0, <1>a, ListDomain
  <2> QED  BY <1>0, <1>a, <2>1, <2>2 DEF DirtyInv
<1>d. lh' \in Seq(Block) /\ Len(lh') = 0 /\ DOMAIN lh' = {} /\ head' = lh'
  BY <1>a, EmptyList
<1>1. TypeOK'
  <2>1. pc' \in [Proc -> {"idle", "begin", "op"} \cup CommitPc]
    BY <1>a DEF TypeOK, CommitPc
  <2>2. 0 <= LogSize - 1
    BY LogAssumption
  <2> QED  BY <1>a, <1>d, <2>1, <2>2 DEF TypeOK
<1>2. CountInv'
  <2>1. Ops' = Ops
    BY <1>a DEF Ops, TypeOK
  <2>2. \A q \in Proc : pc'[q] \in CommitPc <=> pc[q] \in CommitPc
    BY <1>a DEF TypeOK, CommitPc
  <2> QED  BY <1>a, <2>1, <2>2 DEF CountInv
<1>3. BootInv'
  BY <1>0, <1>a DEF BootInv
<1>4. IndexInv'
  BY <1>0, <1>a, <1>b, <1>d DEF IndexInv, Distinct
<1>5. DirtyInv'
  BY <1>0, <1>a, <1>b, <1>c, <1>d DEF DirtyInv
<1>6. CopyInv'
  BY <1>0, <1>a, <1>b, <1>d DEF CopyInv
<1>7. cache = home
  <2>1. cache \in [Block -> Data] /\ home \in [Block -> Data]
    BY DEF TypeOK
  <2> QED  BY <1>c, <2>1
<1> QED  BY <1>1, <1>2, <1>3, <1>4, <1>5, <1>6, <1>7

LEMMA EndCommitStep ==
  ASSUME IInv, NEW p \in Proc, EndCommit(p)
  PROVE  IInv'
<1> USE DEF IInv, LogInv
<1>0. /\ boot = "up" /\ committing /\ Ops = {}
      /\ \A q \in Proc : pc[q] \in CommitPc => q = p
      /\ lh \in Seq(Block) /\ Distinct(lh)
  BY Committer DEF CommitStep
<1>a. /\ pc' = [pc EXCEPT ![p] = "idle"] /\ ~committing' /\ asleep' = {}
      /\ UNCHANGED <<disk, cache, pins, lh, outstanding, wrote, k, boot,
                     panicked, crashes>>
      /\ pc[p] = "clear" \/ pc[p] = "write_log"
  BY DEF EndCommit
<1>b. \A q \in Proc : pc'[q] \notin CommitPc /\ pc[q] # "install"
  BY <1>0, <1>a DEF CommitPc, TypeOK
<1>1. TypeOK'
  <2>1. pc' \in [Proc -> {"idle", "begin", "op"} \cup CommitPc]
    BY <1>a DEF TypeOK, CommitPc
  <2>2. committing' \in BOOLEAN
    BY DEF EndCommit
  <2> QED  BY <1>a, <2>1, <2>2 DEF TypeOK, disk
<1>2. CountInv'
  <2>1. Ops' = Ops
    BY <1>a DEF Ops, TypeOK, CommitPc
  <2> QED  BY <1>a, <1>b, <2>1 DEF CountInv
<1>3. BootInv'
  BY <1>0, <1>a DEF BootInv
<1>4. IndexInv'
  BY <1>0, <1>a, <1>b DEF IndexInv, disk, CommitPc
<1>5. DirtyInv'
  BY <1>0, <1>a, <1>b DEF DirtyInv, disk, CommitPc
<1>6. CopyInv'
  BY <1>0, <1>a, <1>b DEF CopyInv, disk, CommitPc
<1> QED  BY <1>1, <1>2, <1>3, <1>4, <1>5, <1>6

-----------------------------------------------------------------------------
(* The crash and the recovery.                                             *)
LEMMA CrashStep == ASSUME IInv, Crash PROVE IInv'
<1> USE DEF IInv, LogInv
<1>a. /\ cache' = home /\ pins' = [b \in Block |-> 0] /\ lh' = <<>>
      /\ outstanding' = 0 /\ ~committing' /\ committing' \in BOOLEAN
      /\ pc' = [p \in Proc |-> "idle"] /\ asleep' = {}
      /\ wrote' = [p \in Proc |-> {}] /\ k' = 0 /\ boot' = "read_head"
      /\ panicked' = "" /\ UNCHANGED disk /\ crashes' = crashes + 1
  BY DEF Crash
<1>b. lh' \in Seq(Block) /\ Len(lh') = 0 /\ DOMAIN lh' = {}
  BY <1>a, EmptyList
<1>1. TypeOK'
  <2>1. 0 <= LogSize - 1
    BY LogAssumption
  <2>2. crashes' \in Nat
    <3>1. crashes \in Nat /\ crashes' = crashes + 1
      BY <1>a DEF TypeOK
    <3> QED  BY <3>1
  <2> QED  BY <1>a, <1>b, <2>1, <2>2 DEF TypeOK, disk
<1>2. CountInv'
  <2>1. Ops' = {}
    BY <1>a DEF Ops
  <2> QED  BY <1>a, <2>1, FS_EmptySet DEF CountInv, CommitPc
<1>3. BootInv'
  BY <1>a DEF BootInv, disk
<1>4. IndexInv'
  BY <1>a, <1>b DEF IndexInv, Distinct, disk
<1>5. DirtyInv' /\ CopyInv'
  BY <1>a DEF DirtyInv, CopyInv
<1> QED  BY <1>1, <1>2, <1>3, <1>4, <1>5

LEMMA ReadHeadStep == ASSUME IInv, ReadHead PROVE IInv'
<1> USE DEF IInv, LogInv
<1>a. /\ boot = "read_head" /\ lh' = head /\ k' = 0 /\ boot' = "install"
      /\ UNCHANGED <<disk, cache, pins, outstanding, committing, pc, asleep,
                     wrote, panicked, crashes>>
  BY DEF ReadHead
<1>b. head \in Seq(Block) /\ \A i \in DOMAIN head : i \in Nat /\ 1 <= i
  BY ListDomain DEF TypeOK
<1>1. TypeOK'
  BY <1>a DEF TypeOK, disk
<1>2. CountInv'
  <2>1. Ops' = Ops
    BY <1>a DEF Ops
  <2> QED  BY <1>a, <2>1 DEF CountInv
<1>3. BootInv'
  BY <1>a DEF BootInv, disk
<1>4. IndexInv'
  <2>1. 0 <= Len(head)
    BY <1>b, ListDomain
  <2>2. \A p \in Proc : pc[p] = "idle"
    BY <1>a DEF BootInv
  <2> QED  BY <1>a, <2>1, <2>2 DEF IndexInv, disk
<1>5. DirtyInv' /\ CopyInv'
  <2>1. \A i \in DOMAIN head : ~(i <= 0)
    BY <1>b
  <2> QED  BY <1>a, <2>1 DEF DirtyInv, CopyInv, disk
<1> QED  BY <1>1, <1>2, <1>3, <1>4, <1>5

LEMMA RecoverInstallStep == ASSUME IInv, RecoverInstall PROVE IInv'
<1> USE DEF IInv, LogInv
<1> DEFINE b == lh[k + 1]
<1>a. /\ boot = "install" /\ k \in Nat /\ k < Len(lh) /\ k' = k + 1
      /\ home' = [home EXCEPT ![b] = logd[k + 1]]
      /\ cache' = [cache EXCEPT ![b] = logd[k + 1]]
      /\ UNCHANGED <<logd, head, pins, lh, outstanding, committing, pc,
                     asleep, wrote, boot, panicked, crashes>>
  BY DEF RecoverInstall, Installed, TypeOK
<1>0. lh \in Seq(Block) /\ Len(lh) <= LogSize - 1 /\ Len(lh) \in Nat
  BY ListDomain DEF TypeOK
<1>s. \A i \in DOMAIN lh : i \in Slot /\ i \in Nat /\ lh[i] \in Block
  BY <1>0, ListSlots
<1>b. k + 1 \in DOMAIN lh /\ b \in Block /\ logd[k + 1] \in Data
  BY <1>0, <1>a, <1>s, ListDomain DEF TypeOK
<1>c. cache = home /\ \A p \in Proc : pc[p] = "idle"
  BY <1>a DEF BootInv
<1>d. cache' = home' /\ home'[b] = logd[k + 1]
      /\ \A c \in Block : c # b => home'[c] = home[c]
  BY <1>a, <1>b, <1>c DEF TypeOK
<1> HIDE DEF b
<1>1. TypeOK'
  <2>1. home' \in [Block -> Data]
    BY <1>a, <1>b DEF TypeOK
  <2>2. k' \in Nat
    BY <1>a
  <2> QED  BY <1>a, <1>d, <2>1, <2>2 DEF TypeOK
<1>2. CountInv'
  <2>1. Ops' = Ops
    BY <1>a DEF Ops
  <2> QED  BY <1>a, <2>1 DEF CountInv
<1>3. BootInv'
  BY <1>a, <1>d DEF BootInv
<1>4. IndexInv'
  <2>1. k + 1 <= Len(lh)
    BY <1>0, <1>a
  <2> QED  BY <1>a, <1>c, <2>1 DEF IndexInv
<1>5. DirtyInv'
  BY <1>a DEF DirtyInv
<1>6. CopyInv'
  <2>1. ASSUME NEW i \in DOMAIN lh, i <= k + 1 PROVE home'[lh[i]] = logd[i]
    <3>1. CASE i = k + 1
      BY <1>d, <3>1 DEF b
    <3>2. CASE i # k + 1
      <4>1. i <= k
        BY <1>a, <1>s, <2>1, <3>2
      <4>2. lh[i] # b
        BY <1>b, <3>2 DEF IndexInv, Distinct, b
      <4> QED  BY <1>a, <1>d, <1>s, <4>1, <4>2 DEF CopyInv
    <3> QED  BY <3>1, <3>2
  <2> QED  BY <1>a, <2>1 DEF CopyInv
<1> QED  BY <1>1, <1>2, <1>3, <1>4, <1>5, <1>6

LEMMA RecoverClearStep ==
  ASSUME IInv, RecoverClear
  PROVE  IInv' /\ \A i \in DOMAIN head : home[head[i]] = logd[i]
<1> USE DEF IInv, LogInv
<1>a. /\ boot = "install" /\ k = Len(lh) /\ lh' = <<>> /\ head' = <<>>
      /\ boot' = "up"
      /\ UNCHANGED <<home, logd, cache, pins, outstanding, committing, pc,
                     asleep, wrote, k, panicked, crashes>>
  BY DEF RecoverClear
<1>b. lh' \in Seq(Block) /\ Len(lh') = 0 /\ DOMAIN lh' = {} /\ head' = lh'
  BY <1>a, EmptyList
<1>c. cache = home /\ \A p \in Proc : pc[p] = "idle"
  BY <1>a DEF BootInv
<1>1. TypeOK'
  <2>2. 0 <= LogSize - 1
    BY LogAssumption
  <2> QED  BY <1>a, <1>b, <2>2 DEF TypeOK
<1>2. CountInv'
  <2>1. Ops' = Ops
    BY <1>a DEF Ops
  <2> QED  BY <1>a, <2>1 DEF CountInv
<1>3. BootInv'
  BY <1>a DEF BootInv
<1>4. IndexInv'
  BY <1>a, <1>b, <1>c DEF IndexInv, Distinct
<1>5. DirtyInv'
  BY <1>a, <1>b, <1>c DEF DirtyInv
<1>6. CopyInv'
  BY <1>a, <1>b, <1>c DEF CopyInv
<1>7. \A i \in DOMAIN head : home[head[i]] = logd[i]
  <2>1. \A i \in DOMAIN lh : i <= k
    BY <1>a, ListDomain DEF TypeOK
  <2> QED  BY <1>a, <2>1 DEF CopyInv
<1> QED  BY <1>1, <1>2, <1>3, <1>4, <1>5, <1>6, <1>7

LEMMA StutterStep == ASSUME IInv, UNCHANGED vars PROVE IInv'
<1>1. Ops' = Ops
  BY DEF Ops, vars
<1> QED  BY <1>1 DEF IInv, LogInv, TypeOK, CountInv, BootInv, IndexInv,
                     DirtyInv, CopyInv, vars, disk

\* Every step preserves the inductive invariant.
LEMMA NextInv == ASSUME IInv, [Next]_vars PROVE IInv'
<1>1. ASSUME NEW p \in Proc, StartOp(p) \/ BeginSleep(p) PROVE IInv'
  BY <1>1, StartStep
<1>2. ASSUME NEW p \in Proc, BeginOp(p) PROVE IInv'
  BY <1>2, BeginStep
<1>3. ASSUME NEW p \in Proc, NEW b \in Block, NEW d \in Data, LogWrite(p, b, d)
      PROVE  IInv'
  BY <1>3, WriteStep
<1>4. ASSUME NEW p \in Proc, NEW b \in Block, WritePanic(p, b) PROVE IInv'
  BY <1>4, PanicStep
<1>5. ASSUME NEW p \in Proc, EndOp(p) PROVE IInv'
  BY <1>5, EndOpStep
<1>6. ASSUME NEW p \in Proc, CommitStep(p) PROVE IInv'
  BY <1>6, WriteLogStep, PanicStep, WriteHeadStep, InstallStep, ClearHeadStep,
     EndCommitStep DEF CommitStep
<1>7. ASSUME NEW b \in Block, Evict(b) PROVE IInv'
  BY <1>7, EvictStep
<1>8. CASE Crash
  BY <1>8, CrashStep
<1>9. CASE Recover
  BY <1>9, ReadHeadStep, RecoverInstallStep, RecoverClearStep DEF Recover
<1>10. CASE UNCHANGED vars
  BY <1>10, StutterStep
<1> QED  BY <1>1, <1>2, <1>3, <1>4, <1>5, <1>6, <1>7, <1>8, <1>9, <1>10 DEF Next

\* Spec keeps the inductive invariant IInv in every state.
THEOREM Invariance == Spec => []IInv
<1>1. Init => IInv
  BY InitInv
<1>2. IInv /\ [Next]_vars => IInv'
  BY NextInv
<1> QED  BY <1>1, <1>2, PTL DEF Spec

\* The variables keep their types; in particular the log header never names
\* more blocks than the log area has (log_write, log.c).
THEOREM TypeCorrect == Spec => []TypeOK
<1>1. IInv => TypeOK
  BY DEF IInv
<1> QED  BY <1>1, Invariance, PTL

\* A buffer that differs from the disk is named in the header and pinned, so
\* neither a commit nor the buffer cache can lose it.
THEOREM NothingLost == Spec => []DirtyPinned
<1>1. IInv => DirtyPinned
  <2> SUFFICES ASSUME IInv, Up, NEW b \in Block, cache[b] # home[b]
               PROVE  b \in Range(lh) /\ pins[b] > 0
    BY DEF DirtyPinned
  <2>1. b \in Range(lh)
    BY DEF IInv, LogInv, DirtyInv, Up
  <2>2. pins[b] \in Nat /\ pins[b] # 0
    BY CleanBuffer DEF IInv, TypeOK, Up
  <2> QED  BY <2>1, <2>2
<1> QED  BY <1>1, Invariance, PTL

\* No operation is in progress while a commit copies and installs blocks.
THEOREM CommitsAlone == Spec => []CommitAlone
<1>1. IInv => CommitAlone
  BY FS_EmptySet DEF IInv, LogInv, CountInv, CommitAlone, Ops
<1> QED  BY <1>1, Invariance, PTL

\* A step changes a home block only to contents a header on the disk has
\* committed: write-ahead, in the commit and in the recovery.
LEMMA AheadStep ==
  ASSUME IInv, [Next]_vars, NEW b \in Block, home'[b] # home[b]
  PROVE  \E i \in DOMAIN head : head[i] = b /\ logd[i] = home'[b]
<1>1. ASSUME NEW p \in Proc, Install(p)
      PROVE  \E i \in DOMAIN head : head[i] = b /\ logd[i] = home'[b]
  <2>1. k < Len(lh) /\ home' = [home EXCEPT ![lh[k + 1]] = logd[k + 1]]
    BY <1>1 DEF Install, Installed
  <2>2. head = lh
    BY <1>1 DEF IInv, LogInv, CopyInv, Install, Up
  <2>3. k + 1 \in DOMAIN head
    BY <2>1, <2>2, ListDomain DEF IInv, TypeOK
  <2>4. lh[k + 1] = b /\ home'[b] = logd[k + 1]
    BY <2>1 DEF IInv, TypeOK
  <2> QED  BY <2>2, <2>3, <2>4
<1>2. CASE RecoverInstall
  <2>1. k < Len(lh) /\ home' = [home EXCEPT ![lh[k + 1]] = logd[k + 1]]
    BY <1>2 DEF RecoverInstall, Installed
  <2>2. head = lh
    BY <1>2 DEF IInv, LogInv, CopyInv, RecoverInstall
  <2>3. k + 1 \in DOMAIN head
    BY <2>1, <2>2, ListDomain DEF IInv, TypeOK
  <2>4. lh[k + 1] = b /\ home'[b] = logd[k + 1]
    BY <2>1 DEF IInv, TypeOK
  <2> QED  BY <2>2, <2>3, <2>4
<1>3. CASE UNCHANGED vars
  BY <1>3 DEF vars
<1>4. (\E p \in Proc : Install(p)) \/ RecoverInstall \/ UNCHANGED home
  BY <1>3 DEF Next, StartOp, BeginSleep, BeginOp, LogWrite, WritePanic, EndOp,
     CommitStep, WriteLog, CommitPanic, WriteHead, ClearHead, EndCommit,
     Evict, Crash, Recover, ReadHead, RecoverClear, disk, vars
<1> QED  BY <1>1, <1>2, <1>4

\* The log is written ahead of the data.
THEOREM LogFirst == Spec => WriteAhead
<1>1. IInv /\ [Next]_vars =>
        [\A b \in Block : home'[b] # home[b] =>
           \E i \in DOMAIN head : head[i] = b /\ logd[i] = home'[b]]_vars
  BY AheadStep
<1> QED  BY <1>1, Invariance, PTL DEF Spec, WriteAhead

-----------------------------------------------------------------------------
(* Refinement: the log implements TxDisk.  WriteHead is the commit; copying,*)
(* installing, clearing the header and recovering change nothing a reader   *)
(* or a crash could tell.                                                   *)
LEMMA DurableHome == ASSUME head = <<>>, IInv PROVE Durable = home
<1>1. Range(head) = {}
  BY EmptyList DEF Range
<1>2. home = [b \in Block |-> home[b]]
  BY DEF IInv, TypeOK
<1> QED  BY <1>1, <1>2 DEF Durable

LEMMA DurableLogged ==
  ASSUME IInv
  PROVE  /\ \A i \in DOMAIN head : Durable[head[i]] = logd[i]
         /\ \A b \in Block : b \notin Range(head) => Durable[b] = home[b]
         /\ Durable \in [Block -> Data]
<1>1. ASSUME NEW i \in DOMAIN head PROVE Durable[head[i]] = logd[i]
  <2>1. head[i] \in Block /\ head[i] \in Range(head)
    BY ListDomain DEF IInv, TypeOK, Range
  <2>2. (CHOOSE j \in DOMAIN head : head[j] = head[i]) = i
    BY DEF IInv, LogInv, IndexInv, Distinct
  <2> QED  BY <2>1, <2>2 DEF Durable
<1>2. \A b \in Block : b \notin Range(head) => Durable[b] = home[b]
  BY DEF Durable
<1>3. \A b \in Block : Durable[b] \in Data
  <2> SUFFICES ASSUME NEW b \in Block PROVE Durable[b] \in Data
    OBVIOUS
  <2>1. CASE b \in Range(head)
    <3>1. PICK i \in DOMAIN head : head[i] = b
      BY <2>1 DEF Range
    <3>2. i \in Slot
      BY ListSlots DEF IInv, TypeOK
    <3>3. logd[i] \in Data
      BY <3>2 DEF IInv, TypeOK
    <3> QED  BY <1>1, <3>1, <3>3
  <2>2. CASE b \notin Range(head)
    BY <1>2, <2>2 DEF IInv, TypeOK
  <2> QED  BY <2>1, <2>2
<1> QED  BY <1>1, <1>2, <1>3 DEF Durable

\* When the disk holds the logged contents already, the header may go.
LEMMA DurableInstalled ==
  ASSUME IInv, \A i \in DOMAIN head : home[head[i]] = logd[i]
  PROVE  Durable = home
<1>1. \A b \in Block : Durable[b] = home[b]
  <2> SUFFICES ASSUME NEW b \in Block PROVE Durable[b] = home[b]
    OBVIOUS
  <2>1. CASE b \in Range(head)
    <3>1. PICK i \in DOMAIN head : head[i] = b
      BY <2>1 DEF Range
    <3> QED  BY <3>1, DurableLogged
  <2>2. CASE b \notin Range(head)
    BY <2>2, DurableLogged
  <2> QED  BY <2>1, <2>2
<1>2. Durable \in [Block -> Data] /\ home \in [Block -> Data]
  BY DurableLogged DEF IInv, TypeOK
<1> QED  BY <1>1, <1>2

\* Copying a logged block home does not change what a crash leaves.
LEMMA DurableCopied ==
  ASSUME IInv, IInv', NEW i \in DOMAIN head,
         home' = [home EXCEPT ![head[i]] = logd[i]],
         UNCHANGED <<head, logd>>
  PROVE  Durable' = Durable
<1>1. head[i] \in Block /\ head[i] \in Range(head)
  BY ListDomain DEF IInv, TypeOK, Range
<1>2. \A b \in Block : b \notin Range(head) => home'[b] = home[b]
  BY <1>1 DEF IInv, TypeOK
<1>3. Range(head') = Range(head)
  BY DEF Range
<1> QED  BY <1>2, <1>3 DEF Durable

LEMMA PhaseOf ==
  ASSUME IInv, NEW p \in Proc
  PROVE  /\ Phase[p] = "in" <=> pc[p] = "op"
         /\ Phase[p] = "sync" <=> pc[p] \in CommitPc
         /\ Phase[p] = "out" <=> pc[p] \in {"idle", "begin"}
BY DEF Phase, CommitPc, IInv, TypeOK

\* The phases follow pc.
LEMMA PhaseSame ==
  ASSUME \A q \in Proc : /\ pc'[q] = "op" <=> pc[q] = "op"
                         /\ pc'[q] \in CommitPc <=> pc[q] \in CommitPc
  PROVE  Phase' = Phase
BY DEF Phase, CommitPc

LEMMA PhaseSet ==
  ASSUME IInv, NEW p \in Proc, NEW v, pc' = [pc EXCEPT ![p] = v]
  PROVE  /\ v = "op" => Phase' = [Phase EXCEPT ![p] = "in"]
         /\ v = "write_log" => Phase' = [Phase EXCEPT ![p] = "sync"]
         /\ v = "idle" => Phase' = [Phase EXCEPT ![p] = "out"]
<1>1. \A q \in Proc : pc'[q] = IF q = p THEN v ELSE pc[q]
  BY DEF IInv, TypeOK
<1>2. CASE v = "op"
  BY <1>1, <1>2 DEF Phase, CommitPc
<1>3. CASE v = "write_log"
  BY <1>1, <1>3 DEF Phase, CommitPc
<1>4. CASE v = "idle"
  BY <1>1, <1>4 DEF Phase, CommitPc
<1> QED  BY <1>2, <1>3, <1>4

LEMMA DiskSame ==
  ASSUME UNCHANGED <<disk, cache, boot>>
  PROVE  Durable' = Durable /\ Current' = Current
BY DEF Durable, Current, Range, disk

LEMMA BeginRefines ==
  ASSUME IInv, NEW p \in Proc, BeginOp(p) PROVE Tx!Begin(p)
<1>1. pc[p] = "begin" /\ ~committing /\ pc' = [pc EXCEPT ![p] = "op"]
  BY DEF BeginOp, MustWait
<1>2. Phase[p] = "out" /\ \A q \in Proc : Phase[q] # "sync"
  BY <1>1, PhaseOf DEF IInv, LogInv, CountInv
<1>3. Phase' = [Phase EXCEPT ![p] = "in"]
  BY <1>1, PhaseSet
<1>4. Durable' = Durable /\ Current' = Current
  BY DiskSame DEF BeginOp
<1> QED  BY <1>2, <1>3, <1>4 DEF Tx!Begin

LEMMA WriteRefines ==
  ASSUME IInv, NEW p \in Proc, NEW b \in Block, NEW d \in Data,
         LogWrite(p, b, d)
  PROVE  Tx!Write(p, b, d)
<1>1. /\ pc[p] = "op" /\ pc' = pc /\ boot = "up" /\ boot' = "up"
      /\ cache' = [cache EXCEPT ![b] = d] /\ UNCHANGED disk
  BY DEF LogWrite, Up
<1>2. Phase[p] = "in" /\ Phase' = Phase
  BY <1>1, PhaseOf, PhaseSame
<1>3. Current' = [Current EXCEPT ![b] = d]
  BY <1>1 DEF Current
<1>4. Durable' = Durable
  BY <1>1 DEF Durable, Range, disk
<1> QED  BY <1>2, <1>3, <1>4 DEF Tx!Write

LEMMA EndRefines ==
  ASSUME IInv, NEW p \in Proc, EndOp(p) PROVE Tx!End(p)
<1>1. pc[p] = "op" /\ pc' = [pc EXCEPT ![p] = IF Last THEN "write_log" ELSE "idle"]
  BY DEF EndOp
<1>2. Last <=> Ops \ {p} = {}
  <2>1. p \in Ops /\ IsFiniteSet(Ops)
    BY <1>1, OpsFinite DEF Ops
  <2>2. /\ IsFiniteSet(Ops \ {p})
        /\ Cardinality(Ops \ {p}) = Cardinality(Ops) - 1
        /\ Cardinality(Ops) \in Nat
    BY <2>1, FS_RemoveElement, FS_CardinalityType
  <2>3. Cardinality(Ops \ {p}) = 0 <=> Ops \ {p} = {}
    BY <2>2, FS_EmptySet
  <2> QED  BY <2>2, <2>3 DEF Last, IInv, LogInv, CountInv
<1>3. (\E q \in Proc \ {p} : Phase[q] = "in") <=> ~Last
  BY <1>2, PhaseOf DEF Ops
<1>4. Phase' = [Phase EXCEPT ![p] = IF \E q \in Proc \ {p} : Phase[q] = "in"
                                    THEN "out" ELSE "sync"]
  <2>1. CASE Last
    BY <1>1, <1>3, <2>1, PhaseSet
  <2>2. CASE ~Last
    BY <1>1, <1>3, <2>2, PhaseSet
  <2> QED  BY <2>1, <2>2
<1>5. Phase[p] = "in"
  BY <1>1, PhaseOf
<1>6. Durable' = Durable /\ Current' = Current
  BY DiskSame DEF EndOp
<1> QED  BY <1>4, <1>5, <1>6 DEF Tx!End

LEMMA CommitRefines ==
  ASSUME IInv, IInv', NEW p \in Proc, CommitStep(p)
  PROVE  [Tx!Next]_(Tx!vars)
<1>0. /\ boot = "up" /\ Ops = {} /\ pc[p] \in CommitPc
      /\ \A q \in Proc : pc[q] \in CommitPc => q = p
  BY Committer
<1>a. Current = cache /\ Phase[p] = "sync" /\ \A q \in Proc : Phase[q] # "in"
  BY <1>0, PhaseOf DEF Current, Ops
<1>1. CASE WriteLog(p)
  <2>1. head = <<>> /\ head' = <<>> /\ home' = home /\ pc' = pc
        /\ cache' = cache /\ boot' = boot
    BY <1>0, <1>1 DEF WriteLog, IInv, LogInv, CopyInv, CommitPc
  <2>2. Durable' = home' /\ Durable = home
    <3>1. Durable = home
      BY <2>1, DurableHome
    <3>2. Range(head') = {}
      BY <2>1, EmptyList DEF Range
    <3>3. Durable' = [b \in Block |-> home[b]]
      BY <2>1, <3>2 DEF Durable
    <3> QED  BY <2>1, <3>1, <3>3 DEF IInv, TypeOK
  <2> QED  BY <1>0, <2>1, <2>2, PhaseSame DEF Tx!vars, Current
<1>2. CASE CommitPanic(p)
  <2>1. UNCHANGED <<disk, cache, boot, pc>>
    BY <1>2 DEF CommitPanic
  <2> QED  BY <2>1, DiskSame, PhaseSame DEF Tx!vars
<1>3. CASE WriteHead(p)
  <2>1. /\ head' = lh /\ \A i \in DOMAIN lh : logd[i] = cache[lh[i]]
        /\ UNCHANGED <<home, logd, cache, boot>>
        /\ pc[p] = "write_log" /\ pc' = [pc EXCEPT ![p] = "install"]
    BY <1>3, WriteHeadStep DEF WriteHead
  <2>2. Phase' = Phase
    BY <2>1, PhaseSame DEF IInv, TypeOK, CommitPc
  <2>3. \A b \in Block : Durable'[b] = cache[b]
    <3> SUFFICES ASSUME NEW b \in Block PROVE Durable'[b] = cache[b]
      OBVIOUS
    <3>1. CASE b \in Range(lh)
      <4>1. PICK i \in DOMAIN lh : lh[i] = b
        BY <3>1 DEF Range
      <4>2. (CHOOSE j \in DOMAIN lh : lh[j] = b) = i
        BY <4>1 DEF IInv, LogInv, IndexInv, Distinct
      <4>3. Durable'[b] = logd[i]
        BY <2>1, <3>1, <4>2 DEF Durable, Range
      <4> QED  BY <2>1, <4>1, <4>3
    <3>2. CASE b \notin Range(lh)
      <4>1. Durable'[b] = home[b]
        BY <2>1, <3>2 DEF Durable, Range
      <4> QED  BY <1>0, <3>2, <4>1 DEF IInv, LogInv, DirtyInv
    <3> QED  BY <3>1, <3>2
  <2>4. Durable' = cache
    <3>1. Durable' = [b \in Block |-> Durable'[b]]
      BY DEF Durable
    <3>2. cache = [b \in Block |-> cache[b]]
      BY DEF IInv, TypeOK
    <3> QED  BY <2>3, <3>1, <3>2
  <2>5. Tx!Commit
    BY <1>0, <1>a, <2>1, <2>2, <2>4 DEF Tx!Commit, Current
  <2> QED  BY <2>5 DEF Tx!Next
<1>4. CASE Install(p)
  <2>1. /\ k < Len(lh) /\ UNCHANGED <<head, logd, boot, pc>>
        /\ home' = [home EXCEPT ![lh[k + 1]] = logd[k + 1]]
    BY <1>4 DEF Install, Installed
  <2>2. head = lh /\ k + 1 \in DOMAIN lh
    BY <1>0, <1>4, <2>1, ListDomain DEF Install, IInv, LogInv, CopyInv, TypeOK
  <2>3. Durable' = Durable
    BY <2>1, <2>2, DurableCopied
  <2>4. cache' = cache
    BY <1>4, InstallStep
  <2> QED  BY <2>1, <2>3, <2>4, PhaseSame DEF Tx!vars, Current
<1>5. CASE ClearHead(p)
  <2>1. /\ head = lh /\ cache = home
        /\ \A i \in DOMAIN lh : logd[i] = cache[lh[i]]
    BY <1>0, <1>5, ClearHeadStep DEF ClearHead, IInv, LogInv, CopyInv
  <2>2. Durable = home
    BY <2>1, DurableInstalled
  <2>3. /\ head' = <<>> /\ UNCHANGED <<home, cache, boot>>
        /\ pc[p] = "install" /\ pc' = [pc EXCEPT ![p] = "clear"]
    BY <1>5 DEF ClearHead
  <2>4. Durable' = home
    <3>1. Range(head') = {}
      BY <2>3, EmptyList DEF Range
    <3>2. Durable' = [b \in Block |-> home[b]]
      BY <2>3, <3>1 DEF Durable
    <3> QED  BY <3>2 DEF IInv, TypeOK
  <2>5. Phase' = Phase
    BY <2>3, PhaseSame DEF IInv, TypeOK, CommitPc
  <2> QED  BY <2>2, <2>3, <2>4, <2>5 DEF Tx!vars, Current
<1>6. CASE EndCommit(p)
  <2>1. /\ UNCHANGED <<disk, cache, boot>> /\ pc' = [pc EXCEPT ![p] = "idle"]
        /\ pc[p] = "clear" \/ (pc[p] = "write_log" /\ lh = <<>>)
    BY <1>6 DEF EndCommit
  <2>2. lh = <<>> /\ head = <<>>
    BY <1>0, <2>1 DEF IInv, LogInv, CopyInv, CommitPc
  <2>3. \A b \in Block : cache[b] = home[b]
    BY <1>0, <2>2, EmptyList DEF IInv, LogInv, DirtyInv, Range
  <2>4. cache = home /\ Durable = home
    <3>1. cache \in [Block -> Data] /\ home \in [Block -> Data]
      BY DEF IInv, TypeOK
    <3>2. cache = home
      BY <2>3, <3>1
    <3> QED  BY <2>2, <3>2, DurableHome
  <2>5. Phase' = [Phase EXCEPT ![p] = "out"]
    BY <2>1, PhaseSet
  <2>6. Tx!Return(p)
    BY <1>a, <2>1, <2>4, <2>5, DiskSame DEF Tx!Return
  <2> QED  BY <2>6 DEF Tx!Next
<1> QED  BY <1>1, <1>2, <1>3, <1>4, <1>5, <1>6 DEF CommitStep

LEMMA RestartRefines ==
  ASSUME IInv, IInv', Crash \/ RecoverInstall \/ RecoverClear
  PROVE  [Tx!Next]_(Tx!vars)
<1>1. CASE Crash
  <2>1. /\ boot' = "read_head" /\ pc' = [p \in Proc |-> "idle"]
        /\ UNCHANGED disk
    BY <1>1 DEF Crash
  <2>2. Durable' = Durable /\ Current' = Durable
    BY <2>1 DEF Durable, Current, Range, disk
  <2>3. Phase' = [p \in Proc |-> "out"]
    BY <2>1 DEF Phase, CommitPc
  <2> QED  BY <2>2, <2>3 DEF Tx!Crash, Tx!Next
<1>2. CASE RecoverInstall
  <2>1. /\ boot = "install" /\ k < Len(lh)
        /\ UNCHANGED <<head, logd, boot, pc>>
        /\ home' = [home EXCEPT ![lh[k + 1]] = logd[k + 1]]
    BY <1>2 DEF RecoverInstall, Installed
  <2>2. head = lh /\ k + 1 \in DOMAIN lh
    BY <2>1, ListDomain DEF IInv, LogInv, CopyInv, TypeOK
  <2>3. Durable' = Durable
    BY <2>1, <2>2, DurableCopied
  <2> QED  BY <2>1, <2>3, PhaseSame DEF Tx!vars, Current
<1>3. CASE RecoverClear
  <2>1. /\ boot = "install" /\ boot' = "up" /\ head' = <<>>
        /\ UNCHANGED <<home, cache, pc>>
    BY <1>3 DEF RecoverClear
  <2>2. Durable = home
    BY <1>3, RecoverClearStep, DurableInstalled
  <2>3. cache = home
    BY <2>1 DEF IInv, LogInv, BootInv
  <2>4. Durable' = home
    <3>1. Range(head') = {}
      BY <2>1, EmptyList DEF Range
    <3>2. Durable' = [b \in Block |-> home[b]]
      BY <2>1, <3>1 DEF Durable
    <3> QED  BY <3>2 DEF IInv, TypeOK
  <2> QED  BY <2>1, <2>2, <2>3, <2>4, PhaseSame DEF Tx!vars, Current
<1> QED  BY <1>1, <1>2, <1>3

LEMMA StepRefines ==
  ASSUME IInv, IInv', [Next]_vars
  PROVE  [Tx!Next]_(Tx!vars)
<1>1. ASSUME NEW p \in Proc, StartOp(p) \/ BeginSleep(p)
      PROVE  UNCHANGED Tx!vars
  <2>1. \A q \in Proc : /\ pc'[q] = "op" <=> pc[q] = "op"
                        /\ pc'[q] \in CommitPc <=> pc[q] \in CommitPc
    BY <1>1 DEF StartOp, BeginSleep, IInv, TypeOK, CommitPc
  <2>2. UNCHANGED <<disk, cache, boot>>
    BY <1>1 DEF StartOp, BeginSleep
  <2> QED  BY <2>1, <2>2, DiskSame, PhaseSame DEF Tx!vars
<1>2. ASSUME NEW p \in Proc, BeginOp(p) PROVE Tx!Next
  BY <1>2, BeginRefines DEF Tx!Next
<1>3. ASSUME NEW p \in Proc, NEW b \in Block, NEW d \in Data, LogWrite(p, b, d)
      PROVE  Tx!Next
  BY <1>3, WriteRefines DEF Tx!Next
<1>4. ASSUME NEW p \in Proc, NEW b \in Block, WritePanic(p, b)
      PROVE  UNCHANGED Tx!vars
  <2>1. UNCHANGED <<disk, cache, boot, pc>>
    BY <1>4 DEF WritePanic
  <2> QED  BY <2>1, DiskSame, PhaseSame DEF Tx!vars
<1>5. ASSUME NEW p \in Proc, EndOp(p) PROVE Tx!Next
  BY <1>5, EndRefines DEF Tx!Next
<1>6. ASSUME NEW p \in Proc, CommitStep(p) PROVE [Tx!Next]_(Tx!vars)
  BY <1>6, CommitRefines
<1>7. ASSUME NEW b \in Block, Evict(b) PROVE UNCHANGED Tx!vars
  <2>1. cache' = cache /\ UNCHANGED <<disk, boot, pc>>
    BY <1>7, EvictStep DEF Evict
  <2> QED  BY <2>1, DiskSame, PhaseSame DEF Tx!vars
<1>8. CASE Crash \/ RecoverInstall \/ RecoverClear
  BY <1>8, RestartRefines
<1>9. CASE ReadHead
  <2>1. UNCHANGED <<disk, pc>> /\ boot # "up" /\ boot' # "up"
    BY <1>9 DEF ReadHead
  <2>2. Durable' = Durable
    BY <2>1 DEF Durable, Range, disk
  <2> QED  BY <2>1, <2>2, PhaseSame DEF Tx!vars, Current
<1>10. CASE UNCHANGED vars
  <2>1. UNCHANGED <<disk, cache, boot, pc>>
    BY <1>10 DEF vars, disk
  <2> QED  BY <2>1, DiskSame, PhaseSame DEF Tx!vars
<1> QED  BY <1>1, <1>2, <1>3, <1>4, <1>5, <1>6, <1>7, <1>8, <1>9, <1>10
         DEF Next, Recover

\* The log implements the transactional disk TxDisk, whatever the numbers of
\* processes and blocks, the log size and the crashes.
THEOREM Refinement == Spec => ImplementsTxDisk
<1>1. Init => Tx!Init
  <2> SUFFICES ASSUME Init PROVE Tx!Init
    OBVIOUS
  <2>1. Durable = home
    BY InitInv, DurableHome DEF Init
  <2>2. Current = Durable
    BY DEF Current, Init
  <2>3. Phase = [p \in Proc |-> "out"]
    BY DEF Phase, Init, CommitPc
  <2> QED  BY <2>1, <2>2, <2>3 DEF Tx!Init, Init
<1>2. IInv /\ IInv' /\ [Next]_vars => [Tx!Next]_(Tx!vars)
  BY StepRefines
<1> QED  BY <1>1, <1>2, Invariance, PTL DEF Spec, ImplementsTxDisk, Tx!Spec

-----------------------------------------------------------------------------
(* Waiting in begin_op.  The log is empty when nobody uses it, so a single  *)
(* operation fits unless its quota exceeds the whole log.                   *)
QuietLog == boot = "up" /\ ~committing /\ outstanding = 0 => lh = <<>>

WaitInv == /\ QuietLog
           /\ SleepersHaveWaker
           /\ boot # "up" => asleep = {}

LEMMA WaitStep ==
  ASSUME IInv, WaitInv, [Next]_vars, MaxOp <= LogSize - 1
  PROVE  WaitInv'
<1> USE DEF WaitInv
<1>0. outstanding \in Nat /\ LogSize \in Nat /\ MaxOp \in Nat
  BY LogAssumption DEF IInv, TypeOK
<1>a. \A p \in Proc : pc[p] = "op" => outstanding > 0 /\ ~committing
  <2> SUFFICES ASSUME NEW p \in Proc, pc[p] = "op"
               PROVE  outstanding > 0 /\ ~committing
    OBVIOUS
  <2>1. Ops # {}
    BY DEF Ops
  <2>2. Cardinality(Ops) # 0
    BY <2>1, OpsFinite, FS_EmptySet
  <2> QED  BY <1>0, <2>1, <2>2 DEF IInv, LogInv, CountInv
<1>1. ASSUME NEW p \in Proc, BeginSleep(p) PROVE WaitInv'
  <2>1. outstanding > 0 \/ committing
    <3> SUFFICES ASSUME outstanding = 0, ~committing PROVE FALSE
      BY <1>0
    <3>1. lh = <<>> /\ NoRoom
      BY <1>1 DEF BeginSleep, MustWait, QuietLog, Up
    <3>2. Len(lh) + (outstanding + 1) * MaxOp = MaxOp
      BY <1>0, <3>1, EmptyList
    <3> QED  BY <1>0, <3>1, <3>2 DEF NoRoom
  <2> QED  BY <1>1, <2>1 DEF BeginSleep, QuietLog, SleepersHaveWaker, Up
<1>2. ASSUME NEW p \in Proc, BeginOp(p) PROVE WaitInv'
  <2>1. outstanding' > 0
    <3>1. outstanding' = outstanding + 1
      BY <1>2 DEF BeginOp
    <3> QED  BY <1>0, <3>1
  <2>2. outstanding' # 0 /\ boot' = "up"
    <3>1. outstanding' = outstanding + 1 /\ boot' = "up"
      BY <1>2 DEF BeginOp, Up
    <3> QED  BY <1>0, <3>1
  <2> QED  BY <2>1, <2>2 DEF QuietLog, SleepersHaveWaker
<1>3. ASSUME NEW p \in Proc, NEW b \in Block, NEW d \in Data, LogWrite(p, b, d)
      PROVE  WaitInv'
  <2>1. outstanding' > 0 /\ outstanding' # 0 /\ boot' = "up"
    <3>1. outstanding' = outstanding /\ boot' = "up" /\ pc[p] = "op"
      BY <1>3 DEF LogWrite, Up
    <3> QED  BY <1>0, <1>a, <3>1
  <2> QED  BY <2>1 DEF QuietLog, SleepersHaveWaker
<1>4. ASSUME NEW p \in Proc, EndOp(p) PROVE WaitInv'
  <2>1. boot' = "up" /\ (committing' <=> Last) /\ (~Last => asleep' = {})
        /\ outstanding' = outstanding - 1
    BY <1>4 DEF EndOp, Up
  <2>2. ~Last => outstanding' # 0
    BY <1>0, <2>1 DEF Last
  <2> QED  BY <2>1, <2>2 DEF QuietLog, SleepersHaveWaker
<1>5. ASSUME NEW p \in Proc, CommitStep(p) PROVE WaitInv'
  <2>1. boot = "up" /\ committing /\ pc[p] \in CommitPc
    BY <1>5, Committer
  <2>2. CASE EndCommit(p)
    <3>1. lh = <<>>
      BY <2>1, <2>2 DEF EndCommit, IInv, LogInv, CopyInv
    <3> QED  BY <2>1, <2>2, <3>1 DEF EndCommit, QuietLog, SleepersHaveWaker
  <2>3. CASE ~EndCommit(p)
    <3>1. committing' = committing /\ boot' = boot
      BY <1>5, <2>3 DEF CommitStep, WriteLog, CommitPanic, WriteHead, Install,
                        ClearHead
    <3> QED  BY <2>1, <3>1 DEF QuietLog, SleepersHaveWaker
  <2> QED  BY <2>2, <2>3
<1>6. CASE Crash
  BY <1>6 DEF Crash, QuietLog, SleepersHaveWaker
<1>7. CASE Recover
  <2>1. asleep' = asleep /\ asleep = {}
    BY <1>7 DEF Recover, ReadHead, RecoverInstall, RecoverClear
  <2>2. boot' = "up" => lh' = <<>>
    BY <1>7 DEF Recover, ReadHead, RecoverInstall, RecoverClear
  <2> QED  BY <2>1, <2>2 DEF QuietLog, SleepersHaveWaker
<1>8. CASE \/ \E p \in Proc : StartOp(p) \/ \E b \in Block : WritePanic(p, b)
           \/ \E b \in Block : Evict(b)
           \/ UNCHANGED vars
  <2>1. UNCHANGED <<boot, committing, outstanding, lh, asleep>>
    BY <1>8 DEF StartOp, WritePanic, Evict, vars
  <2> QED  BY <2>1 DEF QuietLog, SleepersHaveWaker
<1> QED  BY <1>1, <1>2, <1>3, <1>4, <1>5, <1>6, <1>7, <1>8 DEF Next

\* Provided one operation fits into the log (MAXOPBLOCKS <= nlog - 1, which
\* log_init does not check), whoever sleeps in begin_op has somebody to wake
\* it: an operation or a commit in progress.
THEOREM SleepersWoken ==
  ASSUME MaxOp <= LogSize - 1
  PROVE  Spec => []SleepersHaveWaker
<1>1. Init => WaitInv
  BY DEF Init, WaitInv, QuietLog, SleepersHaveWaker
<1>2. IInv /\ WaitInv /\ [Next]_vars => WaitInv'
  BY WaitStep
<1>3. WaitInv => SleepersHaveWaker
  BY DEF WaitInv
<1> QED  BY <1>1, <1>2, <1>3, Invariance, PTL DEF Spec

-----------------------------------------------------------------------------
(* Room in the log: one share for every block that an operation in progress *)
(* may still log.                                                          *)
Shares(S, w) == {s \in S \X (1..MaxOp) : s[2] > Cardinality(w[s[1]])}

RoomInv == /\ \A p \in Proc : IsFiniteSet(wrote[p]) /\ Cardinality(wrote[p]) <= MaxOp
           /\ \A p \in Ops : wrote[p] \subseteq Range(lh)
           /\ Len(lh) + Cardinality(Shares(Ops, wrote)) <= LogSize - 1

LEMMA SharesFinite ==
  ASSUME NEW S \in SUBSET Proc, NEW w
  PROVE  /\ IsFiniteSet(Shares(S, w)) /\ Cardinality(Shares(S, w)) \in Nat
         /\ Cardinality(Shares(S, w)) <= Cardinality(S) * MaxOp
<1>1. IsFiniteSet(1..MaxOp) /\ Cardinality(1..MaxOp) = MaxOp
  BY LogAssumption, FS_Interval
<1>2. IsFiniteSet(S)
  BY LogAssumption, FS_Subset
<1>3. /\ IsFiniteSet(S \X (1..MaxOp))
      /\ Cardinality(S \X (1..MaxOp)) = Cardinality(S) * MaxOp
  BY <1>1, <1>2, FS_Product
<1>4. Shares(S, w) \subseteq S \X (1..MaxOp)
  BY DEF Shares
<1> QED  BY <1>3, <1>4, FS_Subset, FS_CardinalityType

\* Fewer operations that have logged the same blocks: no more shares.
LEMMA SharesShrink ==
  ASSUME NEW S \in SUBSET Proc, NEW T \in SUBSET S, NEW w
  PROVE  Cardinality(Shares(T, w)) <= Cardinality(Shares(S, w))
<1>1. Shares(T, w) \subseteq Shares(S, w)
  BY DEF Shares
<1> QED  BY <1>1, SharesFinite, FS_Subset

LEMMA SumShrinks ==
  \A a, b, c, d, z \in Nat : a + c <= z - 1 /\ b <= a /\ d <= c => b + d <= z - 1
OBVIOUS

\* A step that admits nobody and logs nothing keeps the room.
LEMMA RoomKept ==
  ASSUME RoomInv, TypeOK, TypeOK', Ops' \subseteq Ops, wrote' = wrote,
         Len(lh') <= Len(lh), lh' = lh \/ Ops' = {}
  PROVE  RoomInv'
<1>1. Ops \in SUBSET Proc /\ Ops' \in SUBSET Ops
  BY DEF Ops
<1>2. Cardinality(Shares(Ops', wrote)) <= Cardinality(Shares(Ops, wrote))
  BY <1>1, SharesShrink
<1>3. /\ Cardinality(Shares(Ops', wrote)) \in Nat
      /\ Cardinality(Shares(Ops, wrote)) \in Nat
  BY <1>1, SharesFinite
<1>4. Len(lh) \in Nat /\ Len(lh') \in Nat /\ LogSize \in Nat
  BY ListDomain, LogAssumption DEF TypeOK
<1>5. Shares(Ops, wrote)' = Shares(Ops', wrote)
  BY DEF Shares
<1>6. Len(lh') + Cardinality(Shares(Ops', wrote)) <= LogSize - 1
  <2> DEFINE m == Cardinality(Shares(Ops, wrote))
             n == Cardinality(Shares(Ops', wrote))
  <2>1. Len(lh) + m <= LogSize - 1
    BY DEF RoomInv
  <2>2. m \in Nat /\ n \in Nat /\ n <= m
    BY <1>2, <1>3
  <2>3. Len(lh') <= Len(lh)
    OBVIOUS
  <2> HIDE DEF m, n
  <2>4. Len(lh') + n <= LogSize - 1
    BY <1>4, <2>1, <2>2, <2>3, SumShrinks
  <2> QED  BY <2>4 DEF n
<1>7. \A p \in Ops' : wrote'[p] \subseteq Range(lh')
  BY <1>1 DEF RoomInv
<1> QED  BY <1>5, <1>6, <1>7 DEF RoomInv

LEMMA RoomBegin ==
  ASSUME IInv, IInv', RoomInv, NEW p \in Proc, BeginOp(p)
  PROVE  RoomInv'
<1>1. /\ ~NoRoom /\ lh' = lh /\ wrote' = [wrote EXCEPT ![p] = {}]
      /\ panicked' = panicked /\ outstanding' = outstanding + 1
  BY DEF BeginOp, MustWait
<1>2. Shares(Ops, wrote)' = Shares(Ops', wrote')
  BY DEF Shares
<1>3. outstanding' = Cardinality(Ops')
  BY DEF IInv, LogInv, CountInv
<1>4. /\ Cardinality(Shares(Ops', wrote')) \in Nat
      /\ Cardinality(Shares(Ops', wrote')) <= (outstanding + 1) * MaxOp
  <2>1. Ops' \in SUBSET Proc
    BY DEF Ops
  <2> QED  BY <1>1, <1>3, <2>1, SharesFinite
<1>5. Len(lh') + Cardinality(Shares(Ops', wrote')) <= LogSize - 1
  <2>1. Len(lh) + (outstanding + 1) * MaxOp <= LogSize - 1
    <3>1. Len(lh) \in Nat /\ outstanding \in Nat
      BY ListDomain DEF IInv, TypeOK
    <3>2. (outstanding + 1) * MaxOp \in Nat
      BY <3>1, LogAssumption
    <3> QED  BY <1>1, <3>1, <3>2, LogAssumption DEF NoRoom
  <2>2. Len(lh) \in Nat /\ (outstanding + 1) * MaxOp \in Nat
    <3>1. Len(lh) \in Nat /\ outstanding \in Nat
      BY ListDomain DEF IInv, TypeOK
    <3> QED  BY <3>1, LogAssumption
  <2> QED  BY <1>1, <1>4, <2>1, <2>2, LogAssumption
<1>6. \A q \in Proc : IsFiniteSet(wrote'[q]) /\ Cardinality(wrote'[q]) <= MaxOp
  <2>1. Cardinality({}) <= MaxOp
    BY FS_EmptySet, LogAssumption
  <2> QED  BY <1>1, <2>1, FS_EmptySet DEF IInv, TypeOK, RoomInv
<1>7. \A q \in Ops' : wrote'[q] \subseteq Range(lh')
  <2>1. \A q \in Ops' : q = p \/ q \in Ops
    BY DEF BeginOp, Ops, IInv, TypeOK
  <2> QED  BY <1>1, <2>1 DEF RoomInv, Ops, IInv, TypeOK
<1> QED  BY <1>2, <1>5, <1>6, <1>7 DEF RoomInv

\* As long as an operation has a share the log is not full.
LEMMA ShareLeft ==
  ASSUME IInv, RoomInv, NEW p \in Proc, pc[p] = "op", Cardinality(wrote[p]) < MaxOp
  PROVE  /\ ~LogFull
         /\ <<p, Cardinality(wrote[p]) + 1>> \in Shares(Ops, wrote)
<1> DEFINE n == Cardinality(wrote[p])
           mine == <<p, n + 1>>
<1>1. n < MaxOp /\ n \in Nat
  BY FS_CardinalityType DEF RoomInv
<1>2. Ops \in SUBSET Proc /\ p \in Ops
  BY DEF Ops
<1>3. mine \in Shares(Ops, wrote)
  <2>1. n + 1 \in 1..MaxOp /\ n + 1 > n
    BY <1>1, LogAssumption
  <2> QED  BY <1>2, <2>1 DEF Shares
<1>4. /\ Cardinality(Shares(Ops, wrote)) \in Nat
      /\ Cardinality(Shares(Ops, wrote)) # 0
  BY <1>2, <1>3, SharesFinite, FS_EmptySet
<1>5. Len(lh) \in Nat /\ LogSize \in Nat
  BY ListDomain, LogAssumption DEF IInv, TypeOK
<1>6. Len(lh) + Cardinality(Shares(Ops, wrote)) <= LogSize - 1
  BY DEF RoomInv
<1>7. ~LogFull
  BY <1>4, <1>5, <1>6 DEF LogFull
<1> QED  BY <1>3, <1>7

\* An operation that logs a new block gives up one of its shares.
LEMMA RoomWrite ==
  ASSUME IInv, IInv', RoomInv, NEW p \in Proc, NEW b \in Block,
         NEW d \in Data, LogWrite(p, b, d), b \notin wrote[p]
  PROVE  RoomInv'
<1> DEFINE n == Cardinality(wrote[p])
           mine == <<p, n + 1>>
<1>0. pc[p] = "op" /\ n < MaxOp
  BY DEF LogWrite, WithinQuota
<1>1. n < MaxOp /\ n \in Nat /\ IsFiniteSet(wrote[p])
  BY <1>0, FS_CardinalityType DEF RoomInv
<1>2. Ops \in SUBSET Proc /\ p \in Ops
  BY <1>0 DEF Ops
<1>3. mine \in Shares(Ops, wrote)
  BY <1>0, ShareLeft
<1>4. /\ IsFiniteSet(Shares(Ops, wrote))
      /\ Cardinality(Shares(Ops, wrote)) \in Nat
      /\ Cardinality(Shares(Ops, wrote)) # 0
  BY <1>2, <1>3, SharesFinite, FS_EmptySet
<1>5. Len(lh) \in Nat /\ LogSize \in Nat /\ lh \in Seq(Block)
  BY ListDomain, LogAssumption DEF IInv, TypeOK
<1>6. Len(lh) + Cardinality(Shares(Ops, wrote)) <= LogSize - 1
  BY DEF RoomInv
<1>7. /\ wrote' = [wrote EXCEPT ![p] = wrote[p] \cup {b}] /\ Ops' = Ops
      /\ lh' = Absorb(lh, b) /\ panicked' = panicked
  BY DEF LogWrite, Ops
<1>8. Cardinality(wrote[p] \cup {b}) = n + 1 /\ IsFiniteSet(wrote[p] \cup {b})
  BY <1>1, FS_AddElement
<1>9. wrote'[p] = wrote[p] \cup {b} /\ \A q \in Proc : q # p => wrote'[q] = wrote[q]
  BY <1>7 DEF IInv, TypeOK
<1>10. Shares(Ops, wrote') = Shares(Ops, wrote) \ {mine}
  <2>1. ASSUME NEW s \in Ops \X (1..MaxOp)
        PROVE  s[2] > Cardinality(wrote'[s[1]])
                 <=> s[2] > Cardinality(wrote[s[1]]) /\ s # mine
    <3>1. s[1] \in Proc /\ s[2] \in Nat /\ s = <<s[1], s[2]>>
      BY <1>2, LogAssumption
    <3>2. CASE s[1] = p
      <4>1. s # mine <=> s[2] # n + 1
        BY <3>1, <3>2
      <4>2. s[2] > n + 1 <=> s[2] > n /\ s[2] # n + 1
        BY <1>1, <3>1
      <4> QED  BY <1>8, <1>9, <3>2, <4>1, <4>2
    <3>3. CASE s[1] # p
      BY <1>9, <3>1, <3>3
    <3> QED  BY <3>2, <3>3
  <2> QED  BY <2>1 DEF Shares
<1>11. Cardinality(Shares(Ops, wrote')) = Cardinality(Shares(Ops, wrote)) - 1
  <2> DEFINE old == Shares(Ops, wrote)
  <2>1. IsFiniteSet(old) /\ mine \in old
    BY <1>3, <1>4
  <2> HIDE DEF old, mine
  <2>2. Cardinality(old \ {mine}) = Cardinality(old) - 1
    BY <2>1, FS_RemoveElement
  <2> QED  BY <1>10, <2>2 DEF old
<1>12. Len(lh') <= Len(lh) + 1 /\ Len(lh') \in Nat
  <2>1. Distinct(lh) /\ lh' \in Seq(Block)
    BY DEF IInv, LogInv, IndexInv, TypeOK
  <2> QED  BY <1>5, <1>7, <2>1, AbsorbList, ListDomain
<1>13. Len(lh') + Cardinality(Shares(Ops, wrote')) <= LogSize - 1
  BY <1>4, <1>5, <1>6, <1>11, <1>12
<1>14. Shares(Ops, wrote)' = Shares(Ops, wrote')
  BY <1>7 DEF Shares
<1>15. \A q \in Proc : IsFiniteSet(wrote'[q]) /\ Cardinality(wrote'[q]) <= MaxOp
  <2>1. n + 1 <= MaxOp
    BY <1>1, LogAssumption
  <2> QED  BY <1>8, <1>9, <2>1 DEF RoomInv
<1>16. Range(lh') = Range(lh) \cup {b}
  BY <1>5, <1>7, AbsorbList DEF IInv, LogInv, IndexInv
<1>17. \A q \in Ops' : wrote'[q] \subseteq Range(lh')
  BY <1>2, <1>7, <1>9, <1>16 DEF RoomInv
<1> QED  BY <1>7, <1>13, <1>14, <1>15, <1>17 DEF RoomInv

\* A block the operation has logged before is absorbed: nothing changes.
LEMMA RoomRewrite ==
  ASSUME IInv, IInv', RoomInv, NEW p \in Proc, NEW b \in Block, NEW d \in Data,
         LogWrite(p, b, d), b \in wrote[p]
  PROVE  RoomInv'
<1>1. p \in Ops /\ b \in Range(lh)
  BY DEF LogWrite, Ops, RoomInv
<1>2. lh' = lh /\ Ops' = Ops
  BY <1>1 DEF LogWrite, Absorb, Ops
<1>3. wrote' = wrote
  <2>1. wrote[p] \cup {b} = wrote[p] /\ wrote \in [Proc -> SUBSET Block]
    BY DEF IInv, TypeOK
  <2> QED  BY <2>1 DEF LogWrite
<1>4. Len(lh) <= Len(lh)
  <2>1. Len(lh) \in Nat
    BY ListDomain DEF IInv, TypeOK
  <2> QED  BY <2>1
<1> QED  BY <1>2, <1>3, <1>4, RoomKept DEF IInv

LEMMA RoomStep ==
  ASSUME IInv, IInv', RoomInv, [Next]_vars
  PROVE  RoomInv'
<1>0. TypeOK /\ TypeOK' /\ Len(lh) \in Nat
  BY ListDomain DEF IInv, TypeOK
<1>l. Len(lh) <= Len(lh)
  BY <1>0
<1>1. ASSUME NEW p \in Proc, BeginOp(p) PROVE RoomInv'
  BY <1>1, RoomBegin
<1>2. ASSUME NEW p \in Proc, NEW b \in Block, NEW d \in Data, LogWrite(p, b, d)
      PROVE  RoomInv'
  <2>1. b \in wrote[p] \/ (pc[p] = "op" /\ Cardinality(wrote[p]) < MaxOp)
    BY <1>2 DEF LogWrite, WithinQuota
  <2> QED  BY <1>2, <2>1, RoomWrite, RoomRewrite
<1>3. ASSUME NEW p \in Proc, NEW b \in Block, WritePanic(p, b)
      PROVE  RoomInv'
  <2>1. Ops' = Ops /\ wrote' = wrote /\ lh' = lh
    BY <1>3 DEF WritePanic, Ops
  <2> QED  BY <1>0, <1>l, <2>1, RoomKept
<1>4. ASSUME NEW p \in Proc, StartOp(p) \/ BeginSleep(p) \/ EndOp(p)
      PROVE  RoomInv'
  <2>1. Ops' \subseteq Ops
    BY <1>4 DEF StartOp, BeginSleep, EndOp, Ops, IInv, TypeOK
  <2>2. wrote' = wrote /\ lh' = lh
    BY <1>4 DEF StartOp, BeginSleep, EndOp
  <2> QED  BY <1>0, <1>l, <2>1, <2>2, RoomKept
<1>5. ASSUME NEW p \in Proc, CommitStep(p) PROVE RoomInv'
  <2>1. Ops' \subseteq Ops
    BY <1>5 DEF CommitStep, WriteLog, CommitPanic, WriteHead, Install,
                ClearHead, EndCommit, Ops, IInv, TypeOK, CommitPc
  <2>2. wrote' = wrote /\ (lh' = lh \/ lh' = <<>>)
    BY <1>5 DEF CommitStep, WriteLog, CommitPanic, WriteHead, Install,
                      ClearHead, EndCommit
  <2>4. Ops' = {}
    <3>1. pc[p] \in CommitPc
      BY <1>5 DEF CommitStep, WriteLog, CommitPanic, WriteHead, Install,
                  ClearHead, EndCommit, CommitPc
    <3>2. Ops = {}
      BY <3>1 DEF IInv, LogInv, CountInv
    <3> QED  BY <2>1, <3>2
  <2>3. Len(lh') <= Len(lh)
    <3>1. CASE lh' = <<>>
      <4>1. Len(lh') = 0
        BY <3>1, EmptyList
      <4> QED  BY <1>0, <4>1
    <3> QED  BY <1>l, <2>2, <3>1
  <2> QED  BY <1>0, <2>1, <2>2, <2>3, <2>4, RoomKept
<1>6. CASE Crash \/ Recover
  <2>1. Ops' = {} /\ wrote' \in [Proc -> SUBSET Block]
    <3>1. CASE Crash
      BY <3>1 DEF Crash, Ops
    <3>2. CASE Recover
      BY <3>2 DEF Recover, ReadHead, RecoverInstall, RecoverClear, Ops, IInv,
                  LogInv, BootInv, TypeOK
    <3> QED  BY <1>6, <3>1, <3>2
  <2>2. Shares(Ops, wrote)' = {}
    BY <2>1 DEF Shares
  <2>3. \A q \in Proc : IsFiniteSet(wrote'[q]) /\ Cardinality(wrote'[q]) <= MaxOp
    <3>1. Cardinality({}) <= MaxOp
      BY FS_EmptySet, LogAssumption
    <3> QED  BY <1>6, <3>1, FS_EmptySet DEF Crash, Recover, ReadHead, RecoverInstall,
                                            RecoverClear, RoomInv
  <2>5. Len(lh') + 0 <= LogSize - 1
    <3>1. Len(lh') <= LogSize - 1 /\ Len(lh') \in Nat
      BY <1>0, ListDomain DEF TypeOK
    <3> QED  BY <3>1
  <2> QED  BY <2>1, <2>2, <2>3, <2>5, FS_EmptySet DEF RoomInv
<1>7. CASE (\E b \in Block : Evict(b)) \/ UNCHANGED vars
  <2>1. Ops' = Ops /\ wrote' = wrote /\ lh' = lh
    BY <1>7 DEF Evict, vars, Ops
  <2> QED  BY <1>0, <1>l, <2>1, RoomKept
<1> QED  BY <1>1, <1>2, <1>3, <1>4, <1>5, <1>6, <1>7 DEF Next

(* The reservation of begin_op holds for any quota and any size of the log, *)
(* whatever the operations log and log again: the log is full only when     *)
(* every operation in progress has logged its MAXOPBLOCKS blocks.           *)
THEOREM RoomForAll == Spec => []RoomReserved
<1>1. Init => RoomInv
  <2> SUFFICES ASSUME Init PROVE RoomInv
    OBVIOUS
  <2>1. Ops = {} /\ lh = <<>>
    BY DEF Init, Ops
  <2>2. Shares(Ops, wrote) = {}
    BY <2>1 DEF Shares
  <2>3. \A p \in Proc : IsFiniteSet(wrote[p]) /\ Cardinality(wrote[p]) <= MaxOp
    <3>1. Cardinality({}) <= MaxOp
      BY FS_EmptySet, LogAssumption
    <3> QED  BY <3>1, FS_EmptySet DEF Init
  <2>4. Len(lh) = 0 /\ 0 + 0 <= LogSize - 1
    <3>1. 0 + 0 <= LogSize - 1
      BY LogAssumption
    <3> QED  BY <2>1, <3>1, EmptyList
  <2> QED  BY <2>1, <2>2, <2>3, <2>4, FS_EmptySet DEF RoomInv
<1>2. IInv /\ IInv' /\ RoomInv /\ [Next]_vars => RoomInv'
  BY RoomStep
<1>3. IInv /\ RoomInv => RoomReserved
  <2> SUFFICES ASSUME IInv, RoomInv, LogFull, NEW p \in Proc, pc[p] = "op"
               PROVE  Cardinality(wrote[p]) = MaxOp
    BY DEF RoomReserved
  <2>1. ~(Cardinality(wrote[p]) < MaxOp)
    BY ShareLeft
  <2>2. Cardinality(wrote[p]) \in Nat /\ Cardinality(wrote[p]) <= MaxOp /\ MaxOp \in Nat
    BY FS_CardinalityType, LogAssumption DEF RoomInv
  <2> QED  BY <2>1, <2>2
<1> QED  BY <1>1, <1>2, <1>3, Invariance, PTL DEF Spec
=============================================================================
