--------------------------- MODULE MsgQueueProofs ---------------------------
(***************************************************************************)
(* What holds of MsgQueue for every number of processes, queues, slots and *)
(* keys: the types, that nobody sleeps on a queue that would let it go on, *)
(* that a queue handed out for a key stays that key's, that the ring of a  *)
(* queue is a FIFO, and that the queues implement MsgService.              *)
(***************************************************************************)
EXTENDS MsgQueue, SequenceTheorems, TLAPS

LEMMA CountBounds ==
  ASSUME NEW q \in Queue, q.used, ~Full(q)
  PROVE  q.count \in 0..(Depth - 1)
BY MsgAssumption DEF Queue, Full

LEMMA PutType ==
  ASSUME NEW q \in Queue, q.used, ~Full(q), NEW m \in Message
  PROVE  /\ Put(q, m) \in Queue
         /\ Put(q, m).used = q.used
         /\ Put(q, m).key = q.key
         /\ Put(q, m).count = q.count + 1
<1>1. (q.tail + 1) % Depth \in Slot
  BY MsgAssumption DEF Queue, Slot
<1>2. q.count + 1 \in 0..Depth
  BY CountBounds, MsgAssumption
<1> QED  BY <1>1, <1>2 DEF Queue, Put, Cell

LEMMA TruncatedType ==
  ASSUME NEW m \in Cell, NEW max \in 1..MaxSize
  PROVE  Truncated(m, max) \in Cell
<1>1. CASE m \in Message
  BY <1>1, MsgAssumption DEF Truncated, Cell, Message
<1>2. CASE m = Blank
  BY <1>2, MsgAssumption DEF Truncated, Cell, Blank
<1> QED  BY <1>1, <1>2 DEF Cell

LEMMA TakeType ==
  ASSUME NEW q \in Queue, q.used, ~Empty(q)
  PROVE  /\ Take(q) \in Queue
         /\ Take(q).used = q.used
         /\ Take(q).key = q.key
         /\ Take(q).count = q.count - 1
<1>1. (q.head + 1) % Depth \in Slot
  BY MsgAssumption DEF Queue, Slot
<1>2. q.count - 1 \in 0..Depth
  BY MsgAssumption DEF Queue, Empty
<1> QED  BY <1>1, <1>2 DEF Queue, Take

LEMMA ZeroType == 0 \in Slot /\ 0 \in Qid /\ 0 \in 0..Depth
BY MsgAssumption DEF Slot, Qid

LEMMA OpenedType ==
  ASSUME NEW q \in Queue, NEW k \in Key
  PROVE  /\ Opened(q, k) \in Queue
         /\ Opened(q, k).used
         /\ Opened(q, k).key = k
BY ZeroType DEF Queue, Opened

LEMMA NextLookType ==
  ASSUME NEW c \in [op : {"find", "alloc"}, key : Key, i : Qid, known : BOOLEAN]
  PROVE  NextLook(c) \in [op : {"find", "alloc"}, key : Key, i : Qid, known : BOOLEAN]
<1>1. CASE c.i + 1 < NQueue
  <2>1. c.i + 1 \in Qid
    BY <1>1, MsgAssumption DEF Qid
  <2>2. NextLook(c) = [c EXCEPT !.i = c.i + 1]
    BY <1>1 DEF NextLook
  <2> QED  BY <2>1, <2>2
<1>2. CASE ~(c.i + 1 < NQueue)
  <2>1. NextLook(c) = [c EXCEPT !.op = "alloc", !.i = 0]
    BY <1>2 DEF NextLook
  <2> QED  BY <2>1, ZeroType
<1> QED  BY <1>1, <1>2

-----------------------------------------------------------------------------
(* Every reachable state is well typed: the ring indices stay in the ring, *)
(* count stays between 0 and MSG_QUEUE_DEPTH, every qid a process holds is *)
(* in the table.                                                           *)
LEMMA ReturnType ==
  ASSUME TypeOK, NEW p \in Proc, Return(p)
  PROVE  call' \in [Proc -> Call]
BY DEF TypeOK, Return, Call, Idle, Exited

LEMMA TypeInit == Init => TypeOK
<1> SUFFICES ASSUME Init PROVE TypeOK
  OBVIOUS
<1>1. queues \in [Qid -> Queue]
  <2>1. [s \in Slot |-> Blank] \in [Slot -> Cell]
    BY DEF Cell
  <2>2. [used |-> FALSE, key |-> Zero, head |-> 0, tail |-> 0, count |-> 0,
         msgs |-> [s \in Slot |-> Blank]] \in Queue
    BY <2>1, ZeroType, MsgAssumption DEF Queue
  <2> QED  BY <2>2 DEF Init
<1>2. call \in [Proc -> Call]
  BY DEF Init, Call
<1> QED  BY <1>1, <1>2 DEF Init, TypeOK

LEMMA TypeStep == TypeOK /\ [Next]_vars => TypeOK'
<1> SUFFICES ASSUME TypeOK, [Next]_vars PROVE TypeOK'
  OBVIOUS
<1> USE DEF TypeOK
<1>1. ASSUME NEW p \in Proc, NEW k \in Key, StartGet(p, k) PROVE TypeOK'
  <2>1. 0 \in Qid /\ HandedFor(k) \in BOOLEAN
    BY MsgAssumption DEF Qid, HandedFor
  <2> QED  BY <1>1, <2>1 DEF StartGet, Call
<1>2. ASSUME NEW p \in Proc, NEW q \in Qid, NEW m \in Message,
             StartSend(p, q, m)
      PROVE  TypeOK'
  BY <1>2 DEF StartSend, Call
<1>3. ASSUME NEW p \in Proc, NEW q \in Qid, NEW max \in 1..MaxSize,
             StartRecv(p, q, max)
      PROVE  TypeOK'
  BY <1>3 DEF StartRecv, Call
<1>4. ASSUME NEW p \in Proc, FindStep(p) PROVE TypeOK'
  <2>1. call[p] \in [op : {"find", "alloc"}, key : Key, i : Qid, known : BOOLEAN]
    BY <1>4 DEF FindStep, Executing, Call, Idle, Exited
  <2>2. NextLook(call[p]) \in Call
    BY <2>1, NextLookType DEF Call
  <2>3. CASE Matches(queues[call[p].i], call[p].key)
    BY <1>4, <2>1, <2>3, ReturnType DEF FindStep
  <2>4. CASE ~Matches(queues[call[p].i], call[p].key)
    BY <1>4, <2>2, <2>4 DEF FindStep
  <2> QED  BY <2>3, <2>4
<1>5. ASSUME NEW p \in Proc, AllocStep(p) PROVE TypeOK'
  <2>1. call[p] \in [op : {"find", "alloc"}, key : Key, i : Qid, known : BOOLEAN]
    BY <1>5 DEF AllocStep, Executing, Call, Idle, Exited
  <2>2. CASE Free(queues[call[p].i])
    <3>1. Opened(queues[call[p].i], call[p].key) \in Queue
      BY <2>1, OpenedType
    <3> QED  BY <1>5, <2>1, <2>2, <3>1, ReturnType DEF AllocStep
  <2>3. CASE ~Free(queues[call[p].i])
    <3>1. call[p].i + 1 < NQueue =>
            [call[p] EXCEPT !.i = call[p].i + 1] \in Call
      BY <2>1, MsgAssumption DEF Call, Qid
    <3> QED  BY <1>5, <2>1, <2>3, <3>1, ReturnType DEF AllocStep
  <2> QED  BY <2>2, <2>3
<1>6. ASSUME NEW p \in Proc, SendSleep(p) PROVE TypeOK'
  BY <1>6 DEF SendSleep, Executing, Call, Idle, Exited
<1>7. ASSUME NEW p \in Proc, SendMessage(p) PROVE TypeOK'
  <2>1. call[p] \in [op : {"send"}, qid : Qid, msg : Message]
    BY <1>7 DEF SendMessage, Executing, Call, Idle, Exited
  <2>2. Put(queues[call[p].qid], call[p].msg) \in Queue
    BY <1>7, <2>1, PutType DEF SendMessage
  <2> QED  BY <1>7, <2>1, <2>2, ReturnType DEF SendMessage, WakeAll
<1>8. ASSUME NEW p \in Proc, RecvSleep(p) PROVE TypeOK'
  BY <1>8 DEF RecvSleep, Executing, Call, Idle, Exited
<1>9. ASSUME NEW p \in Proc, RecvMessage(p) PROVE TypeOK'
  <2>1. call[p] \in [op : {"recv"}, qid : Qid, maxlen : 1..MaxSize]
    BY <1>9 DEF RecvMessage, Executing, Call, Idle, Exited
  <2> DEFINE q == queues[call[p].qid]
  <2>2. Take(q) \in Queue
    BY <1>9, <2>1, TakeType DEF RecvMessage
  <2>3. q.msgs[q.head] \in Cell
    BY <2>1 DEF Queue
  <2>4. Truncated(q.msgs[q.head], call[p].maxlen) \in Cell
    BY <2>1, <2>3, TruncatedType
  <2> QED  BY <1>9, <2>1, <2>2, <2>4, ReturnType DEF RecvMessage, WakeAll
<1>10. ASSUME NEW p \in Proc, NoQueue(p) PROVE TypeOK'
  BY <1>10, ReturnType DEF NoQueue
<1>11. ASSUME NEW p \in Killable, Kill(p) PROVE TypeOK'
  BY <1>11, MsgAssumption DEF Kill
<1>12. ASSUME NEW p \in Proc, KilledInUser(p) PROVE TypeOK'
  BY <1>12 DEF KilledInUser, Call
<1>13. CASE UNCHANGED vars
  BY <1>13 DEF vars
<1> QED
  BY <1>1, <1>2, <1>3, <1>4, <1>5, <1>6, <1>7, <1>8, <1>9, <1>10, <1>11,
     <1>12, <1>13 DEF Next, Start, Continue

\* MsgQueue is well typed in every reachable state.
THEOREM TypeCorrect == Spec => []TypeOK
BY TypeInit, TypeStep, PTL DEF Spec

-----------------------------------------------------------------------------
(* SleepersBlocked is inductive with the types: whoever changes a queue    *)
(* wakes all of its sleepers, and the table entries of the other queues    *)
(* stay.  An entry that is not used has no sleepers, so msg_get may        *)
(* rewrite it.                                                             *)
LEMMA SleepersStep ==
  TypeOK /\ SleepersBlocked /\ [Next]_vars => SleepersBlocked'
<1> SUFFICES ASSUME TypeOK, SleepersBlocked, [Next]_vars,
                    NEW s \in Proc, sleeping'[s] # Awake
             PROVE  /\ call'[s].op \in {"send", "recv"}
                    /\ call'[s].qid = sleeping'[s]
                    /\ call'[s].op = "send" => Full(queues'[sleeping'[s]])
                    /\ call'[s].op = "recv" => Empty(queues'[sleeping'[s]])
  BY DEF SleepersBlocked, Full, Empty
<1> DEFINE Blocked == /\ call[s].op \in {"send", "recv"}
                      /\ call[s].qid = sleeping[s]
                      /\ call[s].op = "send" => Full(queues[sleeping[s]])
                      /\ call[s].op = "recv" => Empty(queues[sleeping[s]])
<1>0. sleeping[s] # Awake => Blocked
  BY DEF SleepersBlocked
\* A step that leaves a sleeper, its call and its queue alone.
<1>a. ASSUME sleeping'[s] = sleeping[s], call'[s] = call[s],
             queues'[sleeping[s]] = queues[sleeping[s]]
      PROVE  /\ call'[s].op \in {"send", "recv"}
             /\ call'[s].qid = sleeping'[s]
             /\ call'[s].op = "send" => Full(queues'[sleeping'[s]])
             /\ call'[s].op = "recv" => Empty(queues'[sleeping'[s]])
  BY <1>0, <1>a
<1>1. ASSUME NEW p \in Proc, call[p] = Idle, UNCHANGED <<queues, sleeping>>,
             NEW c, call' = [call EXCEPT ![p] = c]
      PROVE  s # p /\ call'[s] = call[s]
  <2>1. s # p
    BY <1>0, <1>1 DEF Idle
  <2> QED  BY <1>1, <2>1 DEF TypeOK
<1>2. ASSUME NEW p \in Proc, Start(p) PROVE s # p /\ call'[s] = call[s]
  BY <1>1, <1>2 DEF Start, StartGet, StartSend, StartRecv
<1>3. CASE \E p \in Proc : Start(p)
  BY <1>a, <1>2, <1>3 DEF Start, StartGet, StartSend, StartRecv
<1>4. ASSUME NEW p \in Proc, FindStep(p) \/ NoQueue(p) \/ KilledInUser(p)
      PROVE  s # p /\ call'[s] = call[s]
  <2>1. s # p
    BY <1>0, <1>4 DEF FindStep, NoQueue, KilledInUser, Executing, Idle
  <2> QED  BY <1>4, <2>1
             DEF FindStep, NoQueue, KilledInUser, Return, TypeOK
<1>5. CASE \E p \in Proc : FindStep(p) \/ NoQueue(p) \/ KilledInUser(p)
  BY <1>a, <1>4, <1>5 DEF FindStep, NoQueue, KilledInUser
<1>6. ASSUME NEW p \in Proc, AllocStep(p)
      PROVE  /\ sleeping'[s] = sleeping[s]
             /\ call'[s] = call[s]
             /\ queues'[sleeping[s]] = queues[sleeping[s]]
  <2>1. s # p /\ sleeping' = sleeping
    BY <1>6 DEF AllocStep, Executing
  <2>2. call'[s] = call[s]
    BY <1>6, <2>1 DEF AllocStep, Return, TypeOK
  <2>3. queues[sleeping[s]].used
    BY <1>0, <2>1 DEF Full, Empty
  <2>4. queues'[sleeping[s]] = queues[sleeping[s]]
    BY <1>6, <2>1, <2>3 DEF AllocStep, Free, TypeOK
  <2> QED  BY <2>1, <2>2, <2>4
<1>7. ASSUME NEW p \in Proc, SendSleep(p) \/ RecvSleep(p)
      PROVE  /\ call'[s].op \in {"send", "recv"}
             /\ call'[s].qid = sleeping'[s]
             /\ call'[s].op = "send" => Full(queues'[sleeping'[s]])
             /\ call'[s].op = "recv" => Empty(queues'[sleeping'[s]])
  <2>1. CASE s = p
    BY <1>7, <2>1 DEF SendSleep, RecvSleep, Executing, TypeOK
  <2>2. CASE s # p
    BY <1>7, <1>a, <2>2 DEF SendSleep, RecvSleep, TypeOK
  <2> QED  BY <2>1, <2>2
<1>8. ASSUME NEW p \in Proc, SendMessage(p) \/ RecvMessage(p)
      PROVE  /\ sleeping'[s] = sleeping[s]
             /\ call'[s] = call[s]
             /\ queues'[sleeping[s]] = queues[sleeping[s]]
  <2>1. sleeping' = WakeAll(sleeping, call[p].qid)
    BY <1>8 DEF SendMessage, RecvMessage
  <2>2. sleeping[s] # call[p].qid /\ sleeping'[s] = sleeping[s]
    BY <2>1 DEF WakeAll, TypeOK
  <2>3. s # p
    BY <1>8, <2>2 DEF SendMessage, RecvMessage, Executing
  <2>4. call'[s] = call[s]
    BY <1>8, <2>3 DEF SendMessage, RecvMessage, Return, TypeOK
  <2>5. queues'[sleeping[s]] = queues[sleeping[s]]
    BY <1>8, <2>2 DEF SendMessage, RecvMessage, TypeOK
  <2> QED  BY <2>2, <2>4, <2>5
<1>9. ASSUME NEW p \in Killable, Kill(p)
      PROVE  /\ sleeping'[s] = sleeping[s]
             /\ call'[s] = call[s]
             /\ queues'[sleeping[s]] = queues[sleeping[s]]
  BY <1>9, MsgAssumption DEF Kill, TypeOK
<1>10. CASE UNCHANGED vars
  BY <1>a, <1>10 DEF vars
<1> QED
  BY <1>a, <1>3, <1>5, <1>6, <1>7, <1>8, <1>9, <1>10
     DEF Next, Continue

(* Nobody sleeps in msg_send on a queue with room, or in msg_recv on a     *)
(* queue with a message, however many processes share the queue.           *)
THEOREM NoLostNotification == Spec => []SleepersBlocked
<1>1. Init => SleepersBlocked
  BY DEF Init, SleepersBlocked
<1> QED  BY <1>1, SleepersStep, TypeCorrect, PTL DEF Spec

-----------------------------------------------------------------------------
(* The ring.  Its window goes around the end of the array at most once, so  *)
(* the remainders are those of numbers below twice the depth.               *)
LEMMA Around ==
  ASSUME NEW a \in Int, 0 <= a, a < 2 * Depth
  PROVE  a % Depth = IF a < Depth THEN a ELSE a - Depth
<1>1. CASE a < Depth
  <2>1. a \in 0..(Depth - 1) /\ Depth \in Nat \ {0}
    BY <1>1, MsgAssumption
  <2> QED  BY <1>1, <2>1
<1>2. CASE ~(a < Depth)
  <2>1. Depth \in Nat \ {0} /\ Depth <= a /\ a - Depth < Depth
    BY <1>2, MsgAssumption
  <2>2. a % Depth = a - Depth
    BY <2>1
  <2> QED  BY <1>2, <2>2
<1> QED  BY <1>1, <1>2

\* The place of the k-th message behind the head.
LEMMA PlaceOf ==
  ASSUME NEW h \in Slot, NEW k \in 0..Depth
  PROVE  /\ h + k < Depth => (h + k) % Depth = h + k
         /\ ~(h + k < Depth) => (h + k) % Depth = (h + k) - Depth
         /\ (h + k) % Depth \in Slot
<1> DEFINE a == h + k
<1>1. a \in Int /\ 0 <= a /\ a < 2 * Depth
  BY MsgAssumption DEF Slot
<1> HIDE DEF a
<1>2. /\ a < Depth => a % Depth = a
      /\ ~(a < Depth) => a % Depth = a - Depth
  BY <1>1, Around
<1>3. a % Depth \in Slot
  BY <1>1, <1>2, MsgAssumption DEF Slot
<1> QED  BY <1>2, <1>3 DEF a

LEMMA PlacesApart ==
  ASSUME NEW h \in Slot, NEW j \in 0..(Depth - 1), NEW k \in 0..(Depth - 1), j < k
  PROVE  (h + j) % Depth # (h + k) % Depth
<1> DEFINE s == (h + j) % Depth  t == (h + k) % Depth
<1>1. /\ h + j < Depth => s = h + j
      /\ ~(h + j < Depth) => s = (h + j) - Depth
      /\ h + k < Depth => t = h + k
      /\ ~(h + k < Depth) => t = (h + k) - Depth
  BY PlaceOf, MsgAssumption
<1> HIDE DEF s, t
<1>2. s # t
  BY <1>1, MsgAssumption DEF Slot
<1> QED  BY <1>2 DEF s, t

\* The place behind the k-th, and the k-th behind the next head.
LEMMA NextPlace ==
  ASSUME NEW h \in Slot, NEW k \in 0..(Depth - 1)
  PROVE  /\ (((h + k) % Depth) + 1) % Depth = (h + (k + 1)) % Depth
         /\ (((h + 1) % Depth) + k) % Depth = (h + (k + 1)) % Depth
<1>0. k \in 0..Depth /\ k + 1 \in 0..Depth /\ 1 \in 0..Depth /\ Depth \in Nat
  BY MsgAssumption
<1> DEFINE end == (h + (k + 1)) % Depth
<1>1. /\ h + (k + 1) < Depth => end = h + (k + 1)
      /\ ~(h + (k + 1) < Depth) => end = (h + (k + 1)) - Depth
  BY <1>0, PlaceOf
<1>2. (((h + k) % Depth) + 1) % Depth = end
  <2> DEFINE t == (h + k) % Depth
  <2>1. /\ h + k < Depth => t = h + k
        /\ ~(h + k < Depth) => t = (h + k) - Depth
    BY <1>0, PlaceOf
  <2>2. t \in Slot
    BY <1>0, PlaceOf
  <2> HIDE DEF t, end
  <2> DEFINE u == (t + 1) % Depth
  <2>3. /\ t + 1 < Depth => u = t + 1
        /\ ~(t + 1 < Depth) => u = (t + 1) - Depth
    BY <1>0, <2>2, PlaceOf
  <2> HIDE DEF u
  <2>4. u = end
    BY <1>0, <1>1, <2>1, <2>2, <2>3 DEF Slot
  <2> QED  BY <2>4 DEF t, u
<1>3. (((h + 1) % Depth) + k) % Depth = end
  <2> DEFINE t == (h + 1) % Depth
  <2>1. /\ h + 1 < Depth => t = h + 1
        /\ ~(h + 1 < Depth) => t = (h + 1) - Depth
    BY <1>0, PlaceOf
  <2>2. t \in Slot
    BY <1>0, PlaceOf
  <2> HIDE DEF t, end
  <2> DEFINE u == (t + k) % Depth
  <2>3. /\ t + k < Depth => u = t + k
        /\ ~(t + k < Depth) => u = (t + k) - Depth
    BY <1>0, <2>2, PlaceOf
  <2> HIDE DEF u
  <2>4. u = end
    BY <1>0, <1>1, <2>1, <2>2, <2>3 DEF Slot
  <2> QED  BY <2>4 DEF t, u
<1> QED  BY <1>2, <1>3

\* One queue: what RingOK says of it.
RingOf(q) == /\ q.tail = (q.head + q.count) % Depth
             /\ \A k \in 1..q.count : Window(q)[k] # Blank
             /\ ~q.used => q.count = 0

LEMMA WindowSeq ==
  ASSUME NEW q \in Queue
  PROVE  /\ Window(q) \in Seq(Cell) /\ Len(Window(q)) = q.count
         /\ \A k \in 1..q.count : Window(q)[k] = q.msgs[(q.head + (k - 1)) % Depth]
<1>1. q.count \in Nat /\ q.count <= Depth
  BY MsgAssumption DEF Queue
<1>2. \A k \in 1..q.count : q.msgs[(q.head + k - 1) % Depth] \in Cell
  <2> TAKE k \in 1..q.count
  <2>1. k - 1 \in 0..Depth /\ q.head \in Slot /\ q.head + k - 1 = q.head + (k - 1)
    BY <1>1, MsgAssumption DEF Queue, Slot
  <2>2. (q.head + k - 1) % Depth \in Slot
    BY <2>1, PlaceOf
  <2> QED  BY <2>2 DEF Queue
<1>3. Window(q) \in [1..q.count -> Cell]
  BY <1>2 DEF Window
<1>4. Window(q) \in Seq(Cell)
  BY <1>1, <1>3, SeqDef
<1>5. Len(Window(q)) = q.count
  BY <1>1, <1>3, <1>4, LenProperties
<1>6. \A k \in 1..q.count : q.head + k - 1 = q.head + (k - 1)
  BY <1>1 DEF Queue, Slot
<1>7. \A k \in 1..q.count : Window(q)[k] = q.msgs[(q.head + k - 1) % Depth]
  BY DEF Window
<1>8. \A k \in 1..q.count : Window(q)[k] = q.msgs[(q.head + (k - 1)) % Depth]
  BY <1>6, <1>7, Zenon
<1> QED  BY <1>4, <1>5, <1>8

LEMMA PutWindow ==
  ASSUME NEW q \in Queue, q.used, ~Full(q), RingOf(q), NEW m \in Message
  PROVE  Window(Put(q, m)) = Append(Window(q), m) /\ RingOf(Put(q, m))
<1> DEFINE r == Put(q, m)  n == q.count
<1>1. /\ r \in Queue /\ r.used /\ r.count = n + 1 /\ r.head = q.head
      /\ r.tail = (q.tail + 1) % Depth
      /\ r.msgs = [q.msgs EXCEPT ![q.tail] = m]
      /\ n \in 0..(Depth - 1) /\ q.head \in Slot /\ q.tail \in Slot
      /\ q.msgs \in [Slot -> Cell]
  BY PutType, CountBounds DEF Put, Queue
<1> HIDE DEF r
<1>2. q.tail = (q.head + n) % Depth
  BY DEF RingOf
<1>3. r.tail = (r.head + r.count) % Depth
  BY <1>1, <1>2, NextPlace
<1>4. ASSUME NEW k \in 1..n PROVE Window(r)[k] = Window(q)[k]
  <2>1. /\ k - 1 \in 0..(Depth - 1) /\ k - 1 < n /\ k \in 1..(n + 1)
        /\ k - 1 \in 0..Depth
    BY <1>1, MsgAssumption DEF Slot
  <2>2. (q.head + (k - 1)) % Depth # q.tail /\ (q.head + (k - 1)) % Depth \in Slot
    BY <1>1, <1>2, <2>1, PlacesApart, PlaceOf
  <2>3. r.msgs[(q.head + (k - 1)) % Depth] = q.msgs[(q.head + (k - 1)) % Depth]
    BY <1>1, <2>2
  <2>4. Window(r)[k] = r.msgs[(q.head + (k - 1)) % Depth]
    <3>1. Window(r)[k] = r.msgs[(r.head + (k - 1)) % Depth]
      BY <1>1, <2>1, WindowSeq
    <3> QED  BY <1>1, <3>1, Zenon
  <2>5. Window(q)[k] = q.msgs[(q.head + (k - 1)) % Depth]
    BY <1>1, <2>1, WindowSeq
  <2> QED  BY <2>3, <2>4, <2>5
<1>5. Window(r)[n + 1] = m
  <2>1. n + 1 \in 1..(n + 1) /\ (n + 1) - 1 = n
    BY <1>1 DEF Slot
  <2>2. r.msgs[q.tail] = m
    BY <1>1
  <2> QED  BY <1>1, <1>2, <2>1, <2>2, WindowSeq
<1>6. Window(r) = Append(Window(q), m)
  <2>1. /\ Window(q) \in Seq(Cell) /\ Len(Window(q)) = n
        /\ Window(r) \in Seq(Cell) /\ Len(Window(r)) = n + 1
        /\ m \in Cell
    BY <1>1, WindowSeq DEF Cell
  <2>2. /\ Append(Window(q), m) \in Seq(Cell)
        /\ Len(Append(Window(q), m)) = n + 1
        /\ \A k \in 1..n : Append(Window(q), m)[k] = Window(q)[k]
        /\ Append(Window(q), m)[n + 1] = m
    BY <2>1, AppendProperties
  <2>3. \A k \in 1..(n + 1) : k \in 1..n \/ k = n + 1
    BY <1>1
  <2> QED  BY <1>4, <1>5, <2>1, <2>2, <2>3, SeqEqual
<1>7. \A k \in 1..r.count : Window(r)[k] # Blank
  <2>1. \A k \in 1..(n + 1) : k \in 1..n \/ k = n + 1
    BY <1>1
  <2>2. m # Blank
    BY MsgAssumption DEF Message, Blank
  <2> QED  BY <1>1, <1>4, <1>5, <2>1, <2>2 DEF RingOf
<1> QED  BY <1>1, <1>3, <1>6, <1>7 DEF RingOf, r

LEMMA TakeWindow ==
  ASSUME NEW q \in Queue, q.used, ~Empty(q), RingOf(q)
  PROVE  /\ Window(q) # <<>> /\ Head(Window(q)) = q.msgs[q.head]
         /\ q.msgs[q.head] \in Message
         /\ Window(Take(q)) = Tail(Window(q)) /\ RingOf(Take(q))
<1> DEFINE r == Take(q)  n == q.count
<1>1. /\ r \in Queue /\ r.used /\ r.count = n - 1 /\ r.tail = q.tail
      /\ r.head = (q.head + 1) % Depth /\ r.msgs = q.msgs
      /\ n \in 1..Depth /\ q.head \in Slot /\ q.msgs \in [Slot -> Cell]
  <2>1. n \in 0..Depth /\ n # 0 /\ Depth \in Nat
    BY MsgAssumption DEF Queue, Empty
  <2>2. n \in 1..Depth
    BY <2>1
  <2> QED  BY <2>2, TakeType DEF Take, Queue
<1> HIDE DEF r
<1>2. ASSUME NEW k \in 0..(n - 1) PROVE (r.head + k) % Depth = (q.head + (k + 1)) % Depth
  <2>1. k \in 0..(Depth - 1)
    BY <1>1, MsgAssumption
  <2> QED  BY <1>1, <2>1, NextPlace
<1>3. r.tail = (r.head + r.count) % Depth
  <2>1. n - 1 \in 0..(n - 1) /\ (n - 1) + 1 = n
    BY <1>1
  <2>2. (r.head + (n - 1)) % Depth = (q.head + n) % Depth
    BY <1>2, <2>1
  <2> QED  BY <1>1, <2>2 DEF RingOf
<1>4. ASSUME NEW k \in 1..(n - 1) PROVE Window(r)[k] = Window(q)[k + 1]
  <2>1. /\ k - 1 \in 0..(n - 1) /\ k + 1 \in 1..n /\ (k - 1) + 1 = k
        /\ (k + 1) - 1 = k
    BY <1>1 DEF Slot, Queue
  <2>2. (r.head + (k - 1)) % Depth = (q.head + k) % Depth
    BY <1>2, <2>1
  <2> QED  BY <1>1, <2>1, <2>2, WindowSeq
<1>5. Window(q) \in Seq(Cell) /\ Len(Window(q)) = n /\ Window(q) # <<>>
  BY <1>1, WindowSeq, EmptySeq
<1>6. Window(q)[1] = q.msgs[q.head]
  <2>1. /\ 1 \in 1..n /\ q.head + (1 - 1) = q.head /\ Depth \in Nat \ {0}
        /\ q.head \in 0..(Depth - 1)
    BY <1>1, MsgAssumption DEF Slot
  <2>2. q.head % Depth = q.head
    BY <2>1
  <2> QED  BY <2>1, <2>2, WindowSeq
<1>7. Head(Window(q)) = q.msgs[q.head] /\ q.msgs[q.head] \in Message
  <2>1. 1 \in 1..n
    BY <1>1
  <2>2. q.msgs[q.head] # Blank
    BY <1>6, <2>1 DEF RingOf
  <2>3. q.msgs[q.head] \in Cell
    BY <1>1
  <2> QED  BY <1>5, <1>6, <2>2, <2>3 DEF Cell
<1>8. Window(r) = Tail(Window(q))
  <2>1. Window(r) \in Seq(Cell) /\ Len(Window(r)) = n - 1
    BY <1>1, WindowSeq
  <2>2. /\ Tail(Window(q)) \in Seq(Cell) /\ Len(Tail(Window(q))) = n - 1
        /\ \A k \in 1..(n - 1) : Tail(Window(q))[k] = Window(q)[k + 1]
    BY <1>5, HeadTailProperties
  <2> QED  BY <1>4, <2>1, <2>2, SeqEqual
<1>9. \A k \in 1..r.count : Window(r)[k] # Blank
  <2>1. \A k \in 1..(n - 1) : k + 1 \in 1..n
    BY <1>1
  <2> QED  BY <1>1, <1>4, <2>1 DEF RingOf
<1> QED  BY <1>1, <1>3, <1>5, <1>7, <1>8, <1>9 DEF RingOf, r

\* An empty queue has an empty window, wherever its head is.
LEMMA EmptyWindow ==
  ASSUME NEW q, q.count = 0
  PROVE  Window(q) = <<>>
<1>1. Window(q) = [k \in 1..0 |-> q.msgs[(q.head + k - 1) % Depth]]
  BY DEF Window
<1> QED  BY <1>1

LEMMA OpenedRing ==
  ASSUME NEW q \in Queue, NEW k \in Key
  PROVE  RingOf(Opened(q, k)) /\ Window(Opened(q, k)) = <<>>
<1>1. /\ Opened(q, k).count = 0 /\ Opened(q, k).head = 0 /\ Opened(q, k).tail = 0
      /\ Opened(q, k).used
  BY DEF Opened, Queue
<1>2. (0 + 0) % Depth = 0
  BY MsgAssumption
<1>3. \A j \in 1..0 : FALSE
  OBVIOUS
<1> QED  BY <1>1, <1>2, <1>3, EmptyWindow DEF RingOf

-----------------------------------------------------------------------------
(* What each step does to the table of queues.                              *)
TableSame == UNCHANGED <<queues, got>>

LEMMA TableSteps ==
  ASSUME TypeOK, [Next]_vars
  PROVE  \/ TableSame
         \/ \E i \in Qid, k \in Key :
              /\ Free(queues[i]) /\ got' = got
              /\ queues' = [queues EXCEPT ![i] = Opened(queues[i], k)]
         \/ \E i \in Qid, m \in Message :
              /\ queues[i].used /\ ~Full(queues[i]) /\ got' = got
              /\ queues' = [queues EXCEPT ![i] = Put(queues[i], m)]
         \/ \E p \in Proc, i \in Qid, max \in 1..MaxSize :
              /\ queues[i].used /\ ~Empty(queues[i])
              /\ queues' = [queues EXCEPT ![i] = Take(queues[i])]
              /\ got' = [to |-> p, max |-> max,
                         msg |-> Truncated(queues[i].msgs[queues[i].head], max)]
<1>1. ASSUME NEW p \in Proc, AllocStep(p)
      PROVE  TableSame \/ \E i \in Qid, k \in Key :
                            /\ Free(queues[i]) /\ got' = got
                            /\ queues' = [queues EXCEPT ![i] = Opened(queues[i], k)]
  <2>1. call[p] \in [op : {"find", "alloc"}, key : Key, i : Qid, known : BOOLEAN]
    BY <1>1 DEF AllocStep, Executing, Call, Idle, Exited, TypeOK
  <2>2. CASE Free(queues[call[p].i])
    BY <1>1, <2>1, <2>2 DEF AllocStep
  <2>3. CASE ~Free(queues[call[p].i])
    BY <1>1, <2>3 DEF AllocStep, TableSame
  <2> QED  BY <2>2, <2>3
<1>2. ASSUME NEW p \in Proc, SendMessage(p)
      PROVE  \E i \in Qid, m \in Message :
              /\ queues[i].used /\ ~Full(queues[i]) /\ got' = got
              /\ queues' = [queues EXCEPT ![i] = Put(queues[i], m)]
  <2>1. call[p] \in [op : {"send"}, qid : Qid, msg : Message]
    BY <1>2 DEF SendMessage, Executing, Call, Idle, Exited, TypeOK
  <2> QED  BY <1>2, <2>1 DEF SendMessage
<1>3. ASSUME NEW p \in Proc, RecvMessage(p)
      PROVE  \E i \in Qid, max \in 1..MaxSize :
              /\ queues[i].used /\ ~Empty(queues[i])
              /\ queues' = [queues EXCEPT ![i] = Take(queues[i])]
              /\ got' = [to |-> p, max |-> max,
                         msg |-> Truncated(queues[i].msgs[queues[i].head], max)]
  <2>1. call[p] \in [op : {"recv"}, qid : Qid, maxlen : 1..MaxSize]
    BY <1>3 DEF RecvMessage, Executing, Call, Idle, Exited, TypeOK
  <2> QED  BY <1>3, <2>1 DEF RecvMessage
<1> QED
  BY <1>1, <1>2, <1>3
     DEF TableSame, Next, Start, Continue, vars, StartGet, StartSend, StartRecv, FindStep,
         SendSleep, RecvSleep, NoQueue, Kill, KilledInUser

LEMMA RingStep == TypeOK /\ RingOK /\ [Next]_vars => RingOK'
<1> SUFFICES ASSUME TypeOK, RingOK, [Next]_vars PROVE \A j \in Qid : RingOf(queues'[j])
  BY DEF RingOK, RingOf
<1>1. /\ \A j \in Qid : RingOf(queues[j]) /\ queues[j] \in Queue
      /\ queues \in [Qid -> Queue]
  BY DEF RingOK, RingOf, TypeOK
<1>2. ASSUME NEW i \in Qid, NEW q, RingOf(q), queues' = [queues EXCEPT ![i] = q]
      PROVE  \A j \in Qid : RingOf(queues'[j])
  BY <1>1, <1>2
<1> QED
  BY <1>1, <1>2, TableSteps, OpenedRing, PutWindow, TakeWindow DEF TableSame

LEMMA RingInit == Init => RingOK
<1> SUFFICES ASSUME Init, NEW i \in Qid PROVE RingOf(queues[i])
  BY DEF RingOK, RingOf
<1>1. /\ queues[i].count = 0 /\ queues[i].head = 0 /\ queues[i].tail = 0
  BY DEF Init
<1>2. (0 + 0) % Depth = 0
  BY MsgAssumption
<1> QED  BY <1>1, <1>2 DEF RingOf

(* head, tail and count of every queue describe one window of its ring,     *)
(* around the end of the array and for any MSG_QUEUE_DEPTH, and msg_recv     *)
(* finds there only what msg_send has put there.                             *)
THEOREM RingsHold == Spec => []RingOK
BY RingInit, RingStep, TypeCorrect, PTL DEF Spec

-----------------------------------------------------------------------------
LEMMA KeptStep == TypeOK /\ Kept /\ [Next]_vars => Kept'
<1> SUFFICES ASSUME TypeOK, Kept, [Next]_vars, NEW h \in handed'
             PROVE  queues'[h[2]].used /\ queues'[h[2]].key = h[1]
  BY DEF Kept, Matches
<1> USE DEF TypeOK, Kept, Matches
<1>1. ASSUME NEW p \in Proc, FindStep(p)
      PROVE  queues'[h[2]].used /\ queues'[h[2]].key = h[1]
  BY <1>1 DEF FindStep, Matches
<1>2. ASSUME NEW p \in Proc, AllocStep(p)
      PROVE  queues'[h[2]].used /\ queues'[h[2]].key = h[1]
  <2>1. call[p] \in [op : {"find", "alloc"}, key : Key, i : Qid, known : BOOLEAN]
    BY <1>2 DEF AllocStep, Executing, Call, Idle, Exited
  <2>2. CASE h \in handed
    <3>1. h[2] \in Qid /\ queues[h[2]].used
      BY <2>2
    <3> QED  BY <1>2, <2>2, <3>1 DEF AllocStep, Free
  <2>3. CASE h \notin handed
    <3>1. /\ h = <<call[p].key, call[p].i>>
          /\ queues'[call[p].i] = Opened(queues[call[p].i], call[p].key)
      BY <1>2, <2>1, <2>3 DEF AllocStep
    <3> QED  BY <2>1, <3>1, OpenedType
  <2> QED  BY <2>2, <2>3
<1>3. ASSUME NEW p \in Proc, SendMessage(p)
      PROVE  queues'[h[2]].used /\ queues'[h[2]].key = h[1]
  <2>1. call[p] \in [op : {"send"}, qid : Qid, msg : Message]
    BY <1>3 DEF SendMessage, Executing, Call, Idle, Exited
  <2>2. h \in handed /\ h[2] \in Qid
    BY <1>3 DEF SendMessage
  <2>3. CASE h[2] = call[p].qid
    <3>1. queues'[h[2]] = Put(queues[h[2]], call[p].msg)
      BY <1>3, <2>1, <2>2, <2>3 DEF SendMessage
    <3> QED  BY <1>3, <2>1, <2>2, <2>3, <3>1, PutType DEF SendMessage
  <2>4. CASE h[2] # call[p].qid
    BY <1>3, <2>2, <2>4 DEF SendMessage
  <2> QED  BY <2>3, <2>4
<1>4. ASSUME NEW p \in Proc, RecvMessage(p)
      PROVE  queues'[h[2]].used /\ queues'[h[2]].key = h[1]
  <2>1. call[p] \in [op : {"recv"}, qid : Qid, maxlen : 1..MaxSize]
    BY <1>4 DEF RecvMessage, Executing, Call, Idle, Exited
  <2>2. h \in handed /\ h[2] \in Qid
    BY <1>4 DEF RecvMessage
  <2>3. CASE h[2] = call[p].qid
    <3>1. queues'[h[2]] = Take(queues[h[2]])
      BY <1>4, <2>1, <2>2, <2>3 DEF RecvMessage
    <3> QED  BY <1>4, <2>1, <2>2, <2>3, <3>1, TakeType DEF RecvMessage
  <2>4. CASE h[2] # call[p].qid
    BY <1>4, <2>2, <2>4 DEF RecvMessage
  <2> QED  BY <2>3, <2>4
<1>5. ASSUME UNCHANGED <<queues, handed>>
      PROVE  queues'[h[2]].used /\ queues'[h[2]].key = h[1]
  BY <1>5
<1> QED
  BY <1>1, <1>2, <1>3, <1>4, <1>5
     DEF Next, Start, Continue, vars, StartGet, StartSend, StartRecv,
         SendSleep, RecvSleep, NoQueue, Kill, KilledInUser

(* The first pass cannot miss: a call that knows of a queue for its key has *)
(* one at or after the entry it looks at, because that queue is kept.       *)
Ahead == \A p \in Proc : (call[p].op = "find" /\ call[p].known) =>
           \E j \in Qid : j >= call[p].i /\ Matches(queues[j], call[p].key)

KeptEntries == \A j \in Qid, k \in Key : Matches(queues[j], k) => Matches(queues[j], k)'

LEMMA EntriesKept == TypeOK /\ [Next]_vars => KeptEntries
<1> SUFFICES ASSUME TypeOK, [Next]_vars, NEW j \in Qid, NEW k \in Key, Matches(queues[j], k)
             PROVE  Matches(queues'[j], k)
  BY DEF KeptEntries, Matches
<1>1. queues \in [Qid -> Queue] /\ queues[j].used /\ queues[j].key = k
  BY DEF TypeOK, Matches
<1>2. CASE TableSame
  BY <1>1, <1>2 DEF TableSame, Matches
<1>3. ASSUME NEW i \in Qid, NEW q, queues' = [queues EXCEPT ![i] = q],
             queues[i].used => (q.used /\ q.key = queues[i].key)
      PROVE  Matches(queues'[j], k)
  BY <1>1, <1>3 DEF Matches
<1> QED
  BY <1>1, <1>2, <1>3, TableSteps, PutType, TakeType DEF Free

LEMMA FoundStep ==
  TypeOK /\ Kept /\ Ahead /\ FoundAgain /\ [Next]_vars => Ahead' /\ FoundAgain'
<1> SUFFICES ASSUME TypeOK, Kept, Ahead, FoundAgain, [Next]_vars, NEW s \in Proc
             PROVE  /\ (call'[s].op = "find" /\ call'[s].known) =>
                         (\E j \in Qid : j >= call'[s].i /\ Matches(queues'[j], call'[s].key))
                    /\ (call'[s].op = "alloc" => ~call'[s].known)
  BY DEF Ahead, FoundAgain, Matches
<1> DEFINE Goal == /\ (call'[s].op = "find" /\ call'[s].known) =>
                         (\E j \in Qid : j >= call'[s].i /\ Matches(queues'[j], call'[s].key))
                   /\ (call'[s].op = "alloc" => ~call'[s].known)
<1>0. KeptEntries /\ call \in [Proc -> Call]
  BY EntriesKept DEF TypeOK
<1>1. ASSUME call'[s] = call[s] PROVE Goal
  <2>1. call[s].op = "find" => call[s].key \in Key
    BY <1>0 DEF Call, Idle, Exited
  <2> QED  BY <1>0, <1>1, <2>1 DEF KeptEntries, Ahead, FoundAgain, Matches
<1>2. ASSUME call'[s].op \notin {"find", "alloc"} PROVE Goal
  BY <1>2
<1>3. ASSUME NEW p \in Proc, NEW k \in Key, StartGet(p, k) PROVE Goal
  <2>1. CASE s # p
    BY <1>0, <1>1, <1>3, <2>1 DEF StartGet
  <2>2. CASE s = p
    <3>1. call'[s] = [op |-> "find", key |-> k, i |-> 0, known |-> HandedFor(k)]
      BY <1>0, <1>3, <2>2 DEF StartGet
    <3>2. ASSUME HandedFor(k) PROVE \E j \in Qid : j >= 0 /\ Matches(queues'[j], k)
      <4>1. PICK h \in handed : h[1] = k
        BY <3>2 DEF HandedFor
      <4>2. h[2] \in Qid /\ Matches(queues[h[2]], k)
        BY <4>1 DEF Kept, TypeOK
      <4>3. h[2] >= 0
        BY <4>2 DEF Qid
      <4> QED  BY <1>3, <4>2, <4>3 DEF StartGet
    <3> QED  BY <3>1, <3>2
  <2> QED  BY <2>1, <2>2
<1>4. ASSUME NEW p \in Proc, FindStep(p) PROVE Goal
  <2>1. CASE s # p
    BY <1>0, <1>1, <1>4, <2>1 DEF FindStep, Return
  <2>2. CASE s = p /\ Return(p)
    BY <1>0, <1>2, <2>2 DEF Return, Idle, Exited
  <2>3. CASE s = p /\ ~Return(p)
    <3>1. /\ ~Matches(queues[call[s].i], call[s].key) /\ queues' = queues
          /\ call'[s] = NextLook(call[s]) /\ call[s].op = "find"
      BY <1>0, <1>4, <2>3 DEF FindStep, Executing
    <3>2. call[s] \in [op : {"find", "alloc"}, key : Key, i : Qid, known : BOOLEAN]
      BY <1>0, <3>1 DEF Call, Idle, Exited
    <3>3. CASE ~call[s].known
      <4>1. ~NextLook(call[s]).known
        BY <3>2, <3>3 DEF NextLook
      <4> QED  BY <3>1, <4>1
    <3>4. CASE call[s].known
      <4>1. PICK j \in Qid : j >= call[s].i /\ Matches(queues[j], call[s].key)
        BY <3>1, <3>4 DEF Ahead
      <4>2. j >= call[s].i + 1
        BY <3>1, <3>2, <4>1 DEF Qid
      <4>3. call[s].i + 1 < NQueue
        BY <3>2, <4>1, <4>2, MsgAssumption DEF Qid
      <4>4. NextLook(call[s]) = [call[s] EXCEPT !.i = call[s].i + 1]
        BY <4>3 DEF NextLook
      <4>5. /\ NextLook(call[s]).op = "find" /\ NextLook(call[s]).key = call[s].key
            /\ NextLook(call[s]).i = call[s].i + 1
        BY <3>1, <3>2, <4>4
      <4> QED  BY <3>1, <4>1, <4>2, <4>5
    <3> QED  BY <3>3, <3>4
  <2> QED  BY <2>1, <2>2, <2>3
<1>5. ASSUME NEW p \in Proc, AllocStep(p) PROVE Goal
  <2>1. CASE s # p
    BY <1>0, <1>1, <1>5, <2>1 DEF AllocStep, Return
  <2>2. CASE s = p /\ Return(p)
    BY <1>0, <1>2, <2>2 DEF Return, Idle, Exited
  <2>3. CASE s = p /\ ~Return(p)
    <3>1. call'[s] = [call[s] EXCEPT !.i = call[s].i + 1] /\ call[s].op = "alloc"
      BY <1>0, <1>5, <2>3 DEF AllocStep, Executing
    <3>2. call[s] \in [op : {"find", "alloc"}, key : Key, i : Qid, known : BOOLEAN]
      BY <1>0, <3>1 DEF Call, Idle, Exited
    <3> QED  BY <3>1, <3>2 DEF FoundAgain
  <2> QED  BY <2>1, <2>2, <2>3
<1>6. ASSUME NEW p \in Proc,
             \/ \E q \in Qid, m \in Message : StartSend(p, q, m)
             \/ \E q \in Qid, max \in 1..MaxSize : StartRecv(p, q, max)
             \/ SendMessage(p) \/ RecvMessage(p) \/ NoQueue(p) \/ KilledInUser(p)
      PROVE  Goal
  <2>1. CASE s # p
    BY <1>0, <1>1, <1>6, <2>1
       DEF StartSend, StartRecv, SendMessage, RecvMessage, NoQueue, KilledInUser, Return
  <2>2. CASE s = p
    BY <1>0, <1>2, <1>6, <2>2
       DEF StartSend, StartRecv, SendMessage, RecvMessage, NoQueue, KilledInUser,
           Return, Idle, Exited
  <2> QED  BY <2>1, <2>2
<1>7. ASSUME call' = call PROVE Goal
  BY <1>1, <1>7
<1>8. Goal
  BY <1>3, <1>4, <1>5, <1>6, <1>7
     DEF Next, Start, Continue, SendSleep, RecvSleep, Kill, vars
<1> QED  BY <1>8

(* A queue returned for a key is allocated under that key for ever after,  *)
(* whatever other calls of msg_get run between the two passes, and a call  *)
(* that begins later finds it, for any number of callers, queues and keys. *)
THEOREM HandedQueuesStay == Spec => []HandedStable
<1>1. Init => Kept /\ Ahead /\ FoundAgain
  BY DEF Init, Kept, Ahead, FoundAgain, Idle
<1>2. Kept /\ FoundAgain => HandedStable
  BY DEF HandedStable
<1> QED  BY <1>1, <1>2, KeptStep, FoundStep, TypeCorrect, PTL DEF Spec

-----------------------------------------------------------------------------
(* The refinement: the boxes of MsgService are the windows of the rings.    *)
KeyOf(i) == IF queues[i].used THEN queues[i].key ELSE Nothing

LEMMA ServiceSame ==
  ASSUME \A j \in Qid : KeyOf(j)' = KeyOf(j) /\ Window(queues'[j]) = Window(queues[j]),
         got' = got
  PROVE  UNCHANGED Service!vars
BY DEF Service!vars, KeyOf

LEMMA OpenRefines ==
  ASSUME TypeOK, RingOK, NEW i \in Qid, NEW k \in Key, Free(queues[i]), got' = got,
         queues' = [queues EXCEPT ![i] = Opened(queues[i], k)]
  PROVE  Service!Open(i, k)
<1>1. /\ queues[i] \in Queue /\ queues[i].count = 0 /\ ~queues[i].used
      /\ queues'[i] = Opened(queues[i], k)
      /\ \A j \in Qid : j # i => queues'[j] = queues[j]
  BY DEF TypeOK, RingOK, Free
<1>2. queues'[i].used /\ queues'[i].key = k /\ Window(queues'[i]) = <<>>
  BY <1>1, OpenedType, OpenedRing
<1>3. \A j \in Qid : Window(queues'[j]) = Window(queues[j])
  BY <1>1, <1>2, EmptyWindow
<1>5. KeyOf(i)' = k /\ \A j \in Qid : j # i => KeyOf(j)' = KeyOf(j)
  BY <1>1, <1>2 DEF KeyOf
<1>4. [j \in Qid |-> KeyOf(j)]' = [[j \in Qid |-> KeyOf(j)] EXCEPT ![i] = k]
  BY <1>5
<1> QED  BY <1>1, <1>3, <1>4 DEF Service!Open, KeyOf

LEMMA AcceptRefines ==
  ASSUME TypeOK, RingOK, NEW i \in Qid, NEW m \in Message, queues[i].used,
         ~Full(queues[i]), got' = got, queues' = [queues EXCEPT ![i] = Put(queues[i], m)]
  PROVE  Service!Accept(i, m)
<1>1. /\ queues[i] \in Queue /\ RingOf(queues[i])
      /\ queues'[i] = Put(queues[i], m)
      /\ \A j \in Qid : j # i => queues'[j] = queues[j]
  BY DEF TypeOK, RingOK, RingOf
<1>2. /\ Window(queues'[i]) = Append(Window(queues[i]), m)
      /\ queues'[i].used /\ queues'[i].key = queues[i].key
  BY <1>1, PutWindow, PutType
<1>3. Len(Window(queues[i])) < Depth
  BY <1>1, WindowSeq, CountBounds, MsgAssumption
<1>4. [j \in Qid |-> Window(queues'[j])]
        = [[j \in Qid |-> Window(queues[j])] EXCEPT ![i] = Append(@, m)]
  <2> DEFINE w == Append(Window(queues[i]), m)
  <2>1. /\ Window(queues'[i]) = w
        /\ \A j \in Qid : j # i => Window(queues'[j]) = Window(queues[j])
    BY <1>1, <1>2
  <2> HIDE DEF w
  <2>2. [j \in Qid |-> Window(queues'[j])]
          = [[j \in Qid |-> Window(queues[j])] EXCEPT ![i] = w]
    <3> DEFINE f(j) == Window(queues[j])  g(j) == Window(queues'[j])
    <3>1. g(i) = w /\ \A j \in Qid : j # i => g(j) = f(j)
      BY <2>1
    <3> HIDE DEF f, g
    <3>2. [j \in Qid |-> g(j)] = [[j \in Qid |-> f(j)] EXCEPT ![i] = w]
      BY <3>1
    <3> QED  BY <3>2 DEF f, g
  <2>3. [j \in Qid |-> Window(queues[j])][i] = Window(queues[i])
    OBVIOUS
  <2> QED  BY <2>2, <2>3, Zenon DEF w
<1>5. queues[i].key # Nothing
  BY <1>1, MsgAssumption DEF Queue
<1> QED  BY <1>1, <1>2, <1>3, <1>4, <1>5 DEF Service!Accept

LEMMA DeliverRefines ==
  ASSUME TypeOK, RingOK, NEW p \in Proc, NEW i \in Qid, NEW max \in 1..MaxSize,
         queues[i].used, ~Empty(queues[i]),
         queues' = [queues EXCEPT ![i] = Take(queues[i])],
         got' = [to |-> p, max |-> max,
                 msg |-> Truncated(queues[i].msgs[queues[i].head], max)]
  PROVE  Service!Deliver(p, i, max)
<1>1. /\ queues[i] \in Queue /\ RingOf(queues[i])
      /\ queues'[i] = Take(queues[i])
      /\ \A j \in Qid : j # i => queues'[j] = queues[j]
  BY DEF TypeOK, RingOK, RingOf
<1>2. /\ Window(queues[i]) # <<>> /\ Head(Window(queues[i])) = queues[i].msgs[queues[i].head]
      /\ queues[i].msgs[queues[i].head] \in Message
      /\ Window(queues'[i]) = Tail(Window(queues[i]))
      /\ queues'[i].used /\ queues'[i].key = queues[i].key
  BY <1>1, TakeWindow, TakeType
<1>3. [j \in Qid |-> Window(queues'[j])]
        = [[j \in Qid |-> Window(queues[j])] EXCEPT ![i] = Tail(@)]
  <2> DEFINE w == Tail(Window(queues[i]))
  <2>1. /\ Window(queues'[i]) = w
        /\ \A j \in Qid : j # i => Window(queues'[j]) = Window(queues[j])
    BY <1>1, <1>2
  <2> HIDE DEF w
  <2>2. [j \in Qid |-> Window(queues'[j])]
          = [[j \in Qid |-> Window(queues[j])] EXCEPT ![i] = w]
    <3> DEFINE f(j) == Window(queues[j])  g(j) == Window(queues'[j])
    <3>1. g(i) = w /\ \A j \in Qid : j # i => g(j) = f(j)
      BY <2>1
    <3> HIDE DEF f, g
    <3>2. [j \in Qid |-> g(j)] = [[j \in Qid |-> f(j)] EXCEPT ![i] = w]
      BY <3>1
    <3> QED  BY <3>2 DEF f, g
  <2>3. [j \in Qid |-> Window(queues[j])][i] = Window(queues[i])
    OBVIOUS
  <2> QED  BY <2>2, <2>3, Zenon DEF w
<1>4. \A m \in Message : Truncated(m, max)
        = [body |-> m.body, len |-> IF m.len > max THEN max ELSE m.len]
  BY DEF Truncated, Message
<1>5. \A j \in Qid : KeyOf(j)' = KeyOf(j)
  BY <1>1, <1>2 DEF KeyOf
<1> QED  BY <1>1, <1>2, <1>3, <1>4, <1>5 DEF Service!Deliver, KeyOf

LEMMA ServiceStep ==
  ASSUME TypeOK, RingOK, [Next]_vars
  PROVE  [Service!Next]_(Service!vars)
<1>1. TableSame => UNCHANGED Service!vars
  BY ServiceSame DEF TableSame, KeyOf
<1>2. Service!Message = Message
  BY DEF Service!Message, Message
<1> QED
  BY <1>1, <1>2, TableSteps, OpenRefines, AcceptRefines, DeliverRefines DEF Service!Next

(* The queues are bounded FIFO boxes for any number of queues, slots,       *)
(* senders and receivers: msg_send puts a message behind the others of its  *)
(* queue, msg_recv hands the oldest to one receiver, nothing else is seen.  *)
THEOREM Refinement == Spec => ImplementsService
<1>1. Init => Service!Init
  <2> SUFFICES ASSUME Init PROVE Service!Init
    OBVIOUS
  <2>1. \A i \in Qid : ~queues[i].used /\ queues[i].count = 0
    BY DEF Init
  <2>2. \A i \in Qid : Window(queues[i]) = <<>>
    BY <2>1, EmptyWindow
  <2> QED  BY <2>1, <2>2 DEF Service!Init, Init
<1>2. TypeOK /\ RingOK /\ [Next]_vars => [Service!Next]_(Service!vars)
  BY ServiceStep
<1> QED
  BY <1>1, <1>2, TypeCorrect, RingsHold, PTL DEF Spec, ImplementsService, Service!Spec
=============================================================================
