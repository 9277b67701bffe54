-------------------------------- MODULE Klog --------------------------------
(***************************************************************************)
(* The kernel's log ring, kernel/lib/klog.c.                               *)
(*                                                                         *)
(* A byte is represented by its number: the n-th byte ever written is n.   *)
(* What a record says is left out, its length is not.  A record is written *)
(* and the ring is read under klog_buf.lock, each in one step; klog tests  *)
(* the level before it takes the lock.                                     *)
(***************************************************************************)
EXTENDS Integers

CONSTANTS Logger,    \* the processes that call klog
          RingSize,  \* LOG_BUF_SIZE
          MaxRecord, \* MAX_LOG_LEN - 1
          Levels,    \* LOG_LEVEL_DEBUG..LOG_LEVEL_ERROR
          MaxBytes   \* bound: how many bytes are ever written

Info == 1  \* LOG_LEVEL_INFO

ASSUME KlogAssumption == /\ RingSize \in Nat /\ MaxRecord \in 1..(RingSize - 1)
                         /\ MaxBytes \in Nat /\ Levels \subseteq Int /\ Info \in Levels

VARIABLES ring, readPos, writePos, dropped, level,  \* klog_buf
          passed,    \* who has passed the test of the level
          written,   \* how many bytes were ever written
          taken      \* how many bytes klog_read ever returned

klogVars == <<ring, readPos, writePos, dropped, level, passed, written, taken>>

Index == 0..(RingSize - 1)

\* Every variable keeps its type: the positions stay inside the ring.
KlogTypeOK ==
  /\ ring \in [Index -> 0..MaxBytes]
  /\ readPos \in Index /\ writePos \in Index
  /\ {dropped, written, taken} \subseteq 0..MaxBytes
  /\ level \in Levels
  /\ passed \subseteq Logger

KlogInit ==
  /\ ring = [i \in Index |-> 0]
  /\ readPos = 0 /\ writePos = 0
  /\ dropped = 0 /\ written = 0 /\ taken = 0
  /\ level = Info
  /\ passed = {}

Wrap(n) == n % RingSize

Available(r, w) == IF w >= r THEN w - r ELSE RingSize - r + w

\* Mutant: a record that fills the ring to the last byte drops nothing.
OverrunLate(n) == LET free == RingSize - Available(readPos, writePos) IN
                  IF n > free THEN n - free ELSE 0

\* klog_write_bytes: how often the writer meets the reader, which then moves on.
Overrun(n) == LET free == RingSize - 1 - Available(readPos, writePos) IN
              IF n > free THEN n - free ELSE 0

\* Mutant: a position that passes the end of the ring is not taken modulo its size.
PutPast(n) == writePos' = IF writePos + n > RingSize THEN n ELSE (writePos + n) % RingSize

Put(n) == writePos' = Wrap(writePos + n)

TestLevel(p, l) == /\ p \notin passed /\ l >= level
                   /\ passed' = passed \cup {p}
                   /\ UNCHANGED <<ring, readPos, writePos, dropped, level, written, taken>>

WriteRecord(p, n) ==
  /\ p \in passed
  /\ written + n <= MaxBytes
  /\ passed' = passed \ {p}
  /\ ring' = [i \in Index |-> LET k == Wrap(i - writePos) IN
                              IF k < n THEN written + 1 + k ELSE ring[i]]
  /\ Put(n)
  /\ readPos' = Wrap(readPos + Overrun(n))
  /\ dropped' = dropped + Overrun(n)
  /\ written' = written + n
  /\ UNCHANGED <<level, taken>>

\* klog_read for sys_klog: at most n bytes, the oldest first; sys_klog loses them
\* when the program's buffer is not mapped.
ReadRing(n) ==
  LET k == IF n > Available(readPos, writePos) THEN Available(readPos, writePos) ELSE n IN
  /\ k > 0
  /\ readPos' = Wrap(readPos + k)
  /\ taken' = taken + k
  /\ UNCHANGED <<ring, writePos, dropped, level, passed, written>>

\* klog_set_level clamps what it is given.
SetLevel == /\ level' \in Levels \ {level}
            /\ UNCHANGED <<ring, readPos, writePos, dropped, passed, written, taken>>

KlogNext == \/ \E p \in Logger : \/ \E l \in Levels : TestLevel(p, l)
                                 \/ \E n \in 1..MaxRecord : WriteRecord(p, n)
            \/ \E n \in 1..RingSize : ReadRing(n)
            \/ SetLevel

KlogSpec == KlogInit /\ [][KlogNext]_klogVars

-----------------------------------------------------------------------------
(* Properties *)

\* The ring holds the newest bytes, in the order they were written, however often
\* it overran: what klog_read copies from there is nothing old, twice or torn.
KlogInOrder == LET a == Available(readPos, writePos) IN
  \A k \in 0..(a - 1) : ring[Wrap(readPos + k)] = written - a + 1 + k

\* Every byte was read, is in the ring or was counted as dropped.
KlogAccounted == written = taken + dropped + Available(readPos, writePos)

\* klog_read returns every byte once and in order, and what it skips is counted.
KlogConsistent == KlogInOrder /\ KlogAccounted
=============================================================================
