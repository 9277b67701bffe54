------------------------------ MODULE MsgQueue ------------------------------
(***************************************************************************)
(* System V style message queues: kernel/ipc/msg.c, as called by           *)
(* kernel/syscall/sysmsg.c.                                                *)
(*                                                                         *)
(* Every queue has its own spinlock.  A spinlock keeps interrupts off, and *)
(* one hart schedules processes, so a section between spinlock_acquire and *)
(* spinlock_release is one step; between two sections any other process    *)
(* may run.  msg_get takes and drops the lock of every queue it looks at,  *)
(* so each iteration of its two loops is a step of its own.                *)
(***************************************************************************)
EXTENDS Integers, Sequences, FiniteSets

CONSTANTS Proc,     \* processes
          NQueue,   \* MSG_MAX_QUEUES
          Depth,    \* MSG_QUEUE_DEPTH
          MaxSize,  \* MSG_MAX_SIZE
          Key,      \* keys passed to msgget
          Zero,     \* the key 0, which msg_init leaves in every queue
          Body,     \* contents of messages
          Nothing,  \* contents of a buffer nothing was received into
          Killable  \* the processes kill_process is called on

ASSUME MsgAssumption == /\ NQueue \in Nat \ {0}
                        /\ Depth \in Nat \ {0}
                        /\ MaxSize \in Nat \ {0}
                        /\ Zero \in Key
                        /\ Nothing \notin Body \cup Key
                        /\ Killable \subseteq Proc

VARIABLES queues,   \* the queue table
          call,     \* the system call each process is executing
          sleeping, \* the queue each process sleeps on, or Awake
          killed,   \* processes kill_process has marked
          got,      \* the last message copied out, and to which process
          handed    \* history: the <<key, qid>> pairs msg_get has returned

vars == <<queues, call, sleeping, killed, got, handed>>

Qid   == 0..(NQueue - 1)
Slot  == 0..(Depth - 1)
Awake == -1

\* A message slot: m->data (abstracted to Body) and m->len.
Message == [body : Body, len : 0..MaxSize]
Blank   == [body |-> Nothing, len |-> 0]
Cell    == Message \cup {Blank}

Queue == [used : BOOLEAN, key : Key, head : Slot, tail : Slot,
          count : 0..Depth, msgs : [Slot -> Cell]]

Idle   == [op |-> "user"]
Exited == [op |-> "exited"]
Call == {Idle, Exited}
        \cup [op : {"find", "alloc"}, key : Key, i : Qid, known : BOOLEAN]
        \cup [op : {"send"}, qid : Qid, msg : Message]
        \cup [op : {"recv"}, qid : Qid, maxlen : 1..MaxSize]

TypeOK == /\ queues \in [Qid -> Queue]
          /\ call \in [Proc -> Call]
          /\ sleeping \in [Proc -> Qid \cup {Awake}]
          /\ killed \subseteq Killable
          /\ got \in [to : Proc, max : 1..MaxSize, msg : Cell] \cup {Nothing}
          /\ handed \subseteq Key \X Qid

-----------------------------------------------------------------------------
\* msg_init
Init == /\ queues = [q \in Qid |-> [used |-> FALSE, key |-> Zero, head |-> 0,
                                    tail |-> 0, count |-> 0,
                                    msgs |-> [s \in Slot |-> Blank]]]
        /\ call = [p \in Proc |-> Idle]
        /\ sleeping = [p \in Proc |-> Awake]
        /\ killed = {}
        /\ got = Nothing
        /\ handed = {}

\* MUTANT of WakeAll: wakes a single sleeper of the queue.
WakeOne(slp, q) ==
  IF \E p \in Proc : slp[p] = q
  THEN [slp EXCEPT ![CHOOSE p \in Proc : slp[p] = q] = Awake]
  ELSE slp

\* wakeup(q): every process sleeping on the queue becomes runnable.
WakeAll(slp, q) == [p \in Proc |-> IF slp[p] = q THEN Awake ELSE slp[p]]

\* The process leaves the system call; usertrap makes a killed one exit.
Return(p) == call' = [call EXCEPT ![p] = IF p \in killed THEN Exited ELSE Idle]

Executing(p, op) == sleeping[p] = Awake /\ call[p].op = op

-----------------------------------------------------------------------------
(* msg_get: first look for a used queue with the key ...  known is history: *)
(* some call had returned a queue for the key before this one began.       *)
Matches(q, k) == q.used /\ q.key = k

HandedFor(k) == \E h \in handed : h[1] = k

StartGet(p, k) ==
  /\ call[p] = Idle
  /\ call' = [call EXCEPT ![p] = [op |-> "find", key |-> k, i |-> 0,
                                  known |-> HandedFor(k)]]
  /\ UNCHANGED <<queues, sleeping, killed, got, handed>>

\* On to the next queue, or to the second loop.
NextLook(c) == IF c.i + 1 < NQueue THEN [c EXCEPT !.i = c.i + 1]
               ELSE [c EXCEPT !.op = "alloc", !.i = 0]

FindStep(p) ==
  /\ Executing(p, "find")
  /\ LET i == call[p].i
         k == call[p].key
     IN  \/ /\ Matches(queues[i], k)
            /\ handed' = handed \cup {<<k, i>>}
            /\ Return(p)
         \/ /\ ~Matches(queues[i], k)
            /\ call' = [call EXCEPT ![p] = NextLook(call[p])]
            /\ UNCHANGED handed
  /\ UNCHANGED <<queues, sleeping, killed, got>>

(* ... then take the first queue that is not used; none left returns -1.   *)

\* MUTANT of Free: takes an empty queue for an unused one.
FreeEmpty(q) == q.count = 0
Free(q) == ~q.used

Opened(q, k) == [q EXCEPT !.used = TRUE, !.key = k,
                          !.head = 0, !.tail = 0, !.count = 0]

AllocStep(p) ==
  /\ Executing(p, "alloc")
  /\ LET i == call[p].i
         k == call[p].key
     IN  \/ /\ Free(queues[i])
            /\ queues' = [queues EXCEPT ![i] = Opened(queues[i], k)]
            /\ handed' = handed \cup {<<k, i>>}
            /\ Return(p)
         \/ /\ ~Free(queues[i])
            /\ IF i + 1 < NQueue
               THEN call' = [call EXCEPT ![p].i = i + 1]
               ELSE Return(p)
            /\ UNCHANGED <<queues, handed>>
  /\ UNCHANGED <<sleeping, killed, got>>

-----------------------------------------------------------------------------
(* msg_send                                                                *)
StartSend(p, q, m) ==
  /\ call[p] = Idle
  /\ call' = [call EXCEPT ![p] = [op |-> "send", qid |-> q, msg |-> m]]
  /\ UNCHANGED <<queues, sleeping, killed, got, handed>>

Full(q)  == q.used /\ q.count = Depth
Empty(q) == q.used /\ q.count = 0

\* One turn of the while loop that found the queue full.
SendSleep(p) ==
  /\ Executing(p, "send")
  /\ Full(queues[call[p].qid])
  /\ sleeping' = [sleeping EXCEPT ![p] = call[p].qid]
  /\ UNCHANGED <<queues, call, killed, got, handed>>

\* MUTANT of Put: tail does not wrap.
PutNoWrap(q, m) == [q EXCEPT !.msgs[q.tail] = m, !.tail = q.tail + 1,
                             !.count = q.count + 1]
Put(q, m) == [q EXCEPT !.msgs[q.tail] = m,
                       !.tail = (q.tail + 1) % Depth,
                       !.count = q.count + 1]

SendMessage(p) ==
  /\ Executing(p, "send")
  /\ LET q == call[p].qid
     IN  /\ queues[q].used
         /\ ~Full(queues[q])
         /\ queues' = [queues EXCEPT ![q] = Put(queues[q], call[p].msg)]
         /\ sleeping' = WakeAll(sleeping, q)
  /\ Return(p)
  /\ UNCHANGED <<killed, got, handed>>

-----------------------------------------------------------------------------
(* msg_recv, and the copy to the caller's buffer in sys_msgrecv            *)
StartRecv(p, q, max) ==
  /\ call[p] = Idle
  /\ call' = [call EXCEPT ![p] = [op |-> "recv", qid |-> q, maxlen |-> max]]
  /\ UNCHANGED <<queues, sleeping, killed, got, handed>>

RecvSleep(p) ==
  /\ Executing(p, "recv")
  /\ Empty(queues[call[p].qid])
  /\ sleeping' = [sleeping EXCEPT ![p] = call[p].qid]
  /\ UNCHANGED <<queues, call, killed, got, handed>>

\* MUTANT of Truncated: ignores the size of the caller's buffer.
TruncatedNever(m, max) == m
Truncated(m, max) == [m EXCEPT !.len = IF m.len > max THEN max ELSE m.len]

\* MUTANT of Take: head stays where it was.
TakeInPlace(q) == [q EXCEPT !.count = q.count - 1]
Take(q) == [q EXCEPT !.head = (q.head + 1) % Depth, !.count = q.count - 1]

RecvMessage(p) ==
  /\ Executing(p, "recv")
  /\ LET q == call[p].qid
         m == queues[q].msgs[queues[q].head]
     IN  /\ queues[q].used
         /\ ~Empty(queues[q])
         /\ got' = [to |-> p, max |-> call[p].maxlen,
                    msg |-> Truncated(m, call[p].maxlen)]
         /\ queues' = [queues EXCEPT ![q] = Take(queues[q])]
         /\ sleeping' = WakeAll(sleeping, q)
  /\ Return(p)
  /\ UNCHANGED <<killed, handed>>

\* Both calls return -1 on a queue nobody has allocated.
NoQueue(p) ==
  /\ sleeping[p] = Awake
  /\ call[p].op \in {"send", "recv"}
  /\ ~queues[call[p].qid].used
  /\ Return(p)
  /\ UNCHANGED <<queues, sleeping, killed, got, handed>>

-----------------------------------------------------------------------------
(* kill_process makes a sleeping process runnable; the loops above look    *)
(* only at the queue, so a killed process goes back to sleep.              *)
Kill(p) ==
  /\ call[p] # Exited
  /\ killed' = killed \cup {p}
  /\ sleeping' = [sleeping EXCEPT ![p] = Awake]
  /\ UNCHANGED <<queues, call, got, handed>>

\* usertrap: a process killed while in user mode exits at its next trap.
KilledInUser(p) ==
  /\ p \in killed
  /\ call[p] = Idle
  /\ call' = [call EXCEPT ![p] = Exited]
  /\ UNCHANGED <<queues, sleeping, killed, got, handed>>

-----------------------------------------------------------------------------
Start(p) == \/ \E k \in Key : StartGet(p, k)
            \/ \E q \in Qid, m \in Message : StartSend(p, q, m)
            \/ \E q \in Qid, max \in 1..MaxSize : StartRecv(p, q, max)

\* What the kernel does for a process whose system call has begun.
Continue(p) == \/ FindStep(p) \/ AllocStep(p)
               \/ SendSleep(p) \/ SendMessage(p)
               \/ RecvSleep(p) \/ RecvMessage(p)
               \/ NoQueue(p) \/ KilledInUser(p)

Next == \/ \E p \in Proc : Start(p) \/ Continue(p)
        \/ \E p \in Killable : Kill(p)

Spec == Init /\ [][Next]_vars

-----------------------------------------------------------------------------
(* A process sleeps on a queue only while the condition it waits for fails: *)
(* a sleeping sender's queue is full, a sleeping receiver's is empty.  This *)
(* is the absence of lost notifications of the sleep/wakeup pairs in        *)
(* msg_send and msg_recv (one channel, q, serves both conditions).          *)
SleepersBlocked ==
  \A p \in Proc : sleeping[p] # Awake =>
    /\ call[p].op \in {"send", "recv"}
    /\ call[p].qid = sleeping[p]
    /\ call[p].op = "send" => Full(queues[sleeping[p]])
    /\ call[p].op = "recv" => Empty(queues[sleeping[p]])

(* msg_get between its two passes, when no queue is locked (msg.c:37-39).   *)
(* Whatever other calls take or open meanwhile, a queue once returned for a *)
(* key stays allocated under that key, and a call that began after another  *)
(* had returned a queue for the key finds one in its first pass: only calls *)
(* that overlap the first call for a key can open a second queue for it.    *)
Kept == \A h \in handed : Matches(queues[h[2]], h[1])

FoundAgain == \A p \in Proc : call[p].op = "alloc" => ~call[p].known

HandedStable == Kept /\ FoundAgain

(* Report.md: "msg_get creates/reuses a queue through its key", so the      *)
(* callers of one key share one queue.                                      *)
OneQueuePerKey ==
  \A g, h \in handed : g[1] = h[1] => g[2] = h[2]

(* head, tail and count describe one window of the ring, and every slot in  *)
(* the window holds a message that was sent.                                *)
Window(q) == [k \in 1..q.count |-> q.msgs[(q.head + k - 1) % Depth]]

RingOK ==
  \A i \in Qid : LET q == queues[i]
                 IN  /\ q.tail = (q.head + q.count) % Depth
                     /\ \A k \in 1..q.count : Window(q)[k] # Blank
                     /\ ~q.used => q.count = 0

(* The queues implement bounded FIFO boxes: the window of the ring, read    *)
(* from head, is the box.                                                   *)
Service == INSTANCE MsgService WITH
  BoxId <- Qid, Capacity <- Depth, Closed <- Nothing,
  keyOf <- [i \in Qid |-> IF queues[i].used THEN queues[i].key ELSE Nothing],
  box   <- [i \in Qid |-> Window(queues[i])]

ImplementsService == Service!Spec
=============================================================================
