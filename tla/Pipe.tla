-------------------------------- MODULE Pipe --------------------------------
(***************************************************************************)
(* Open files and pipes: kernel/fs/file.c, kernel/fs/pipe.c, and the       *)
(* descriptors that fork, exit, wait and the calls of                      *)
(* kernel/syscall/sysfile.c keep in a process.                             *)
(*                                                                         *)
(* What is done under one spinlock is one step, and so is what a process   *)
(* does to its own descriptors, which nobody else sees.  fileclose takes   *)
(* two locks in turn and looks at the file once more between them: three   *)
(* steps.  fork and wait hold the child's lock, with interrupts off,       *)
(* throughout: one step.  Inodes and the console are files that are no     *)
(* pipe here.                                                              *)
(***************************************************************************)
EXTENDS Integers, Sequences, FiniteSets

CONSTANTS NProc,    \* NPROC
          NFile,    \* NFILE
          NFd,      \* NOFILE
          NPage,    \* pages of memory a pipe may get
          Size,     \* PIPESIZE
          Wrap,     \* nread and nwrite are uint32: 2^32
          Chunk,    \* what sys_write passes on at a time: up to 128 bytes
          MaxRead,  \* what sys_read asks for at a time: up to 128 bytes
          Mode,     \* readable and writable, as the modes of open set them
          Killable  \* the processes kill is called on

Proc == 1..NProc
File == 1..NFile
Fd   == 1..NFd
Page == 1..NPage
None == 0           \* a null pointer

\* 128 <= 512, and 512 divides 2^32.
ASSUME PipeAssumption ==
  /\ NProc \in Nat \ {0} /\ NFile \in Nat /\ NFd \in Nat /\ NPage \in Nat
  /\ Size \in Nat \ {0} /\ Wrap \in Nat /\ Wrap % Size = 0 /\ Wrap > Size
  /\ MaxRead \in 1..Size
  /\ \A s \in Chunk : s \in Seq(Nat \ {0}) /\ Len(s) \in 1..Size
  /\ Mode \subseteq BOOLEAN \X BOOLEAN
  /\ Killable \subseteq Proc

VARIABLES status,   \* of each process: "unused", "live", "zombie"
          parent,   \* p->parent
          killed,   \* p->killed
          fds,      \* p->ofile
          files,    \* ftable
          pages,    \* the pages pipes live in
          call,     \* where each process is in its system call
          sleeping, \* the pipe each process sleeps on
          last,     \* history: the transfer the last step finished
          panicked  \* the kernel has stopped

procVars == <<status, parent, killed>>
vars == <<procVars, fds, files, pages, call, sleeping, last, panicked>>

FileRec == [ref : Nat, type : {"none", "pipe", "other"},
            readable : BOOLEAN, writable : BOOLEAN, pipe : Page \cup {None}]

PageRec == [used : BOOLEAN, data : [0..(Size - 1) -> Nat],
            nread : 0..(Wrap - 1), nwrite : 0..(Wrap - 1),
            readopen : BOOLEAN, writeopen : BOOLEAN]

\* "files" are the files a call has taken or must still close.
User == [op |-> "user", files |-> <<>>]

\* The calls that have the address of a pipe.
Inside == {"look", "pipeclose", "read", "write"}

Nothing == [by |-> None]

TypeOK ==
  /\ status \in [Proc -> {"unused", "live", "zombie"}]
  /\ parent \in [Proc -> Proc \cup {None}]
  /\ killed \in [Proc -> BOOLEAN]
  /\ fds \in [Proc -> [Fd -> File \cup {None}]]
  /\ files \in [File -> FileRec]
  /\ pages \in [Page -> PageRec]
  /\ sleeping \in [Proc -> Page \cup {None}]
  /\ panicked \in BOOLEAN
  /\ \A p \in Proc :
       /\ call[p].files \in Seq(File) /\ Len(call[p].files) <= 2
       /\ call[p].op \in {"user", "open", "pipe", "make", "close"} \cup Inside
       /\ call[p].op \in Inside => call[p].pipe \in Page

Closed == [ref |-> 0, type |-> "none", readable |-> FALSE, writable |-> FALSE,
           pipe |-> None]

\* pipealloc_struct
Fresh == [used |-> TRUE, data |-> [i \in 0..(Size - 1) |-> 0],
          nread |-> 0, nwrite |-> 0, readopen |-> TRUE, writeopen |-> TRUE]

Init == /\ status = [p \in Proc |-> IF p = 1 THEN "live" ELSE "unused"]
        /\ parent = [p \in Proc |-> None]
        /\ killed = [p \in Proc |-> FALSE]
        /\ fds = [p \in Proc |-> [d \in Fd |-> None]]
        /\ files = [f \in File |-> Closed]
        /\ pages = [g \in Page |-> [Fresh EXCEPT !.used = FALSE]]
        /\ call = [p \in Proc |-> User]
        /\ sleeping = [p \in Proc |-> None]
        /\ last = Nothing
        /\ panicked = FALSE

\* Tables are searched from the front.
First(s, S) == s \in S /\ \A t \in S : s <= t

FreeFile  == {f \in File : files[f].ref = 0}
FreeFd(p) == {d \in Fd : fds[p][d] = None}

\* p is in user mode; one who has been killed does not get into another call.
Calls(p) == status[p] = "live" /\ call[p] = User /\ ~killed[p]

In(p, op) == call[p].op = op /\ sleeping[p] = None

Goes(p, c) == call' = [call EXCEPT ![p] = c]

\* A call of fileclose for each of some files, one after the other.
Closing(fs) == IF fs = <<>> THEN User ELSE [op |-> "close", files |-> fs]

-----------------------------------------------------------------------------
(* open, of anything but a pipe: filealloc, then the fields and fdalloc    *)
OpenAlloc(p, m) ==
  /\ Calls(p)
  /\ \E f \in File : /\ First(f, FreeFile)
                     /\ files' = [files EXCEPT ![f].ref = 1]
                     /\ Goes(p, [op |-> "open", files |-> <<f>>, mode |-> m])
  /\ UNCHANGED <<fds, pages, sleeping>>

OpenSet(p) ==
  /\ In(p, "open")
  /\ LET f == call[p].files[1]
         m == call[p].mode
     IN /\ files' = [files EXCEPT ![f].type = "other", ![f].readable = m[1],
                                  ![f].writable = m[2]]
        /\ \/ \E d \in Fd : /\ First(d, FreeFd(p))
                            /\ fds' = [fds EXCEPT ![p][d] = f]
                            /\ Goes(p, User)
           \/ FreeFd(p) = {} /\ Goes(p, Closing(<<f>>)) /\ UNCHANGED fds
  /\ UNCHANGED <<pages, sleeping>>

-----------------------------------------------------------------------------
(* pipe: two times filealloc, pmem_alloc and the fields, two times fdalloc *)
PipeFirst(p) ==
  /\ Calls(p)
  /\ \E f \in File : /\ First(f, FreeFile)
                     /\ files' = [files EXCEPT ![f].ref = 1]
                     /\ Goes(p, [op |-> "pipe", files |-> <<f>>])
  /\ UNCHANGED <<fds, pages, sleeping>>

\* Without a second file the first one is forgotten: rf is not yet set.
PipeSecond(p) ==
  /\ In(p, "pipe")
  /\ \/ \E f \in File :
          /\ First(f, FreeFile)
          /\ files' = [files EXCEPT ![f].ref = 1]
          /\ Goes(p, [op |-> "make", files |-> Append(call[p].files, f)])
     \/ FreeFile = {} /\ Goes(p, User) /\ UNCHANGED files
  /\ UNCHANGED <<fds, pages, sleeping>>

PipeEnd(r, g) == [ref |-> 1, type |-> "pipe", readable |-> r, writable |-> ~r,
                  pipe |-> g]

PipeNoPage(p) ==
  /\ In(p, "make")
  /\ Goes(p, Closing(call[p].files))
  /\ UNCHANGED <<fds, files, pages, sleeping>>

\* No two descriptors are free, or the caller's array cannot be written:
\* both ends are closed again.
PipeMake(p) ==
  /\ In(p, "make")
  /\ LET rf == call[p].files[1]
         wf == call[p].files[2]
     IN /\ \E g \in Page :
             /\ ~pages[g].used
             /\ pages' = [pages EXCEPT ![g] = Fresh]
             /\ files' = [files EXCEPT ![rf] = PipeEnd(TRUE, g),
                                       ![wf] = PipeEnd(FALSE, g)]
        /\ \/ \E d0, d1 \in Fd :
                /\ First(d0, FreeFd(p)) /\ First(d1, FreeFd(p) \ {d0})
                /\ fds' = [fds EXCEPT ![p][d0] = rf, ![p][d1] = wf]
                /\ Goes(p, User)
           \/ Goes(p, Closing(call[p].files)) /\ UNCHANGED fds
  /\ UNCHANGED sleeping

-----------------------------------------------------------------------------
(* dup, close                                                              *)
Dup(p, d) ==
  /\ Calls(p) /\ fds[p][d] # None
  /\ \E e \in Fd : First(e, FreeFd(p)) /\ fds' = [fds EXCEPT ![p][e] = fds[p][d]]
  /\ files' = [files EXCEPT ![fds[p][d]].ref = @ + 1]
  /\ UNCHANGED <<pages, call, sleeping>>

Close(p, d) ==
  /\ Calls(p) /\ fds[p][d] # None
  /\ fds' = [fds EXCEPT ![p][d] = None]
  /\ Goes(p, Closing(<<fds[p][d]>>))
  /\ UNCHANGED <<files, pages, sleeping>>

Dropped(f) == IF files[f].ref > 1 THEN [files EXCEPT ![f].ref = @ - 1]
              ELSE [files EXCEPT ![f] = Closed]

\* The first half of fileclose, under ftable.lock.
CloseRef(p) ==
  /\ In(p, "close")
  /\ LET f == Head(call[p].files)
         rest == Tail(call[p].files)
     IN /\ files' = Dropped(f)
        /\ IF files[f].pipe # None /\ files'[f].pipe = None
           THEN Goes(p, [op |-> "look", files |-> rest, file |-> f,
                         pipe |-> files[f].pipe])
           ELSE Goes(p, Closing(rest))
  /\ UNCHANGED <<fds, pages, sleeping>>

\* The second half, without a lock: f->writable has been cleared, or belongs
\* to whoever has been given the file meanwhile.
CloseLook(p) ==
  /\ In(p, "look")
  /\ Goes(p, [op |-> "pipeclose", files |-> call[p].files,
              pipe |-> call[p].pipe, writable |-> files[call[p].file].writable])
  /\ UNCHANGED <<fds, files, pages, sleeping>>

\* Mutant: a page with both ends closed is not given back.
AlwaysUsed(pg) == TRUE

StillUsed(pg) == pg.readopen \/ pg.writeopen

\* Mutant: a close wakes nobody.
WakeNone(g) == sleeping

Wakeup(g) == [p \in Proc |-> IF sleeping[p] = g THEN None ELSE sleeping[p]]

\* pipeclose: the page is given back without the lock, but nobody knows it.
PipeClose(p) ==
  /\ In(p, "pipeclose")
  /\ LET g == call[p].pipe
         pg == IF call[p].writable THEN [pages[g] EXCEPT !.writeopen = FALSE]
                                   ELSE [pages[g] EXCEPT !.readopen = FALSE]
     IN /\ pages' = [pages EXCEPT ![g] = [pg EXCEPT !.used = StillUsed(pg)]]
        /\ sleeping' = Wakeup(g)
  /\ Goes(p, Closing(call[p].files))
  /\ UNCHANGED <<fds, files>>

-----------------------------------------------------------------------------
(* read and write of a pipe                                                *)
Fill(pg) == (pg.nwrite - pg.nread) % Wrap

\* Mutant: a reader does not wait for more.
EndedHere(pg) == TRUE

\* An empty pipe will get no more data.
Ended(pg) == ~pg.writeopen

Min(a, b) == IF a <= b THEN a ELSE b

Room(pg) == Size - Fill(pg)

\* Mutant: the counter does not wrap.
StoredOn(pg, s) ==
  LET at(i) == ((i - pg.nwrite) % Size) + 1 IN
  [pg EXCEPT !.data = [i \in DOMAIN @ |-> IF at(i) <= Len(s) THEN s[at(i)] ELSE @[i]],
             !.nwrite = @ + Len(s)]

\* The bytes s behind those in the ring.
Stored(pg, s) ==
  LET at(i) == ((i - pg.nwrite) % Size) + 1 IN
  [pg EXCEPT !.data = [i \in DOMAIN @ |-> IF at(i) <= Len(s) THEN s[at(i)] ELSE @[i]],
             !.nwrite = (@ + Len(s)) % Wrap]

\* The k oldest bytes.
Oldest(pg, k) == [j \in 1..k |-> pg.data[(pg.nread + j - 1) % Size]]

\* sys_read and sys_write: p holds the file by its descriptor until it is back.
StartRead(p, d, n) ==
  /\ Calls(p) /\ fds[p][d] # None
  /\ files[fds[p][d]].readable /\ files[fds[p][d]].type = "pipe"
  /\ Goes(p, [op |-> "read", files |-> <<>>, pipe |-> files[fds[p][d]].pipe,
              n |-> n, buf |-> <<>>])
  /\ UNCHANGED <<fds, files, pages, sleeping>>

StartWrite(p, d, s) ==
  /\ Calls(p) /\ fds[p][d] # None
  /\ files[fds[p][d]].writable /\ files[fds[p][d]].type = "pipe"
  /\ Goes(p, [op |-> "write", files |-> <<>>, pipe |-> files[fds[p][d]].pipe,
              n |-> Len(s), buf |-> s])
  /\ UNCHANGED <<fds, files, pages, sleeping>>

\* p returns r; buf is what it has received, or could not write.
Returns(p, r, buf) == /\ Goes(p, User)
                      /\ last' = [by |-> p, ret |-> r, buf |-> buf]

\* Mutant: after a sleep the call begins anew.
SleepsAnew(p, g, slp, buf) == /\ sleeping' = [slp EXCEPT ![p] = g]
                              /\ last' = Nothing /\ UNCHANGED call

\* p goes on sleeping, with buf received or still to be written.
Sleeps(p, g, slp, buf) == /\ sleeping' = [slp EXCEPT ![p] = g]
                          /\ call' = [call EXCEPT ![p].buf = buf]
                          /\ last' = Nothing

\* piperead from the moment it has the lock until it returns or sleeps.
ReadStep(p) ==
  /\ In(p, "read")
  /\ LET g == call[p].pipe
         k == Min(call[p].n - Len(call[p].buf), Fill(pages[g]))
         buf == call[p].buf \o Oldest(pages[g], k)
     IN /\ pages' = [pages EXCEPT ![g].nread = (@ + k) % Wrap]
        /\ \/ /\ Len(buf) = call[p].n
              /\ Returns(p, Len(buf), buf) /\ sleeping' = Wakeup(g)
           \/ /\ Len(buf) < call[p].n /\ Ended(pages[g])
              /\ Returns(p, Len(buf), buf) /\ UNCHANGED sleeping
           \/ /\ Len(buf) < call[p].n /\ ~Ended(pages[g]) /\ killed[p]
              /\ Returns(p, -1, buf) /\ UNCHANGED sleeping
           \/ /\ Len(buf) < call[p].n /\ ~Ended(pages[g]) /\ ~killed[p]
              /\ Sleeps(p, g, sleeping, buf)
  /\ UNCHANGED <<procVars, fds, files, panicked>>

\* pipewrite, likewise.  The loop tests the ring before it tests readopen:
\* what fits is written even if nobody can read it any more.
WriteStep(p) ==
  /\ In(p, "write")
  /\ LET g == call[p].pipe
         k == Min(Len(call[p].buf), Room(pages[g]))
         buf == SubSeq(call[p].buf, k + 1, Len(call[p].buf))
     IN /\ pages' = [pages EXCEPT ![g] = Stored(@, SubSeq(call[p].buf, 1, k))]
        /\ \/ /\ buf = <<>>
              /\ Returns(p, call[p].n, buf) /\ sleeping' = Wakeup(g)
           \/ /\ buf # <<>> /\ (~pages[g].readopen \/ killed[p])
              /\ Returns(p, -1, buf) /\ UNCHANGED sleeping
           \/ /\ buf # <<>> /\ pages[g].readopen /\ ~killed[p]
              /\ Sleeps(p, g, Wakeup(g), buf)
  /\ UNCHANGED <<procVars, fds, files, panicked>>

-----------------------------------------------------------------------------
(* fork, exit, kill, wait                                                  *)
Uses(p, f) == Cardinality({d \in Fd : fds[p][d] = f})

Fork(p) ==
  /\ Calls(p)
  /\ \E n \in Proc :
       /\ First(n, {q \in Proc : status[q] = "unused"})
       /\ status' = [status EXCEPT ![n] = "live"]
       /\ parent' = [parent EXCEPT ![n] = p]
       /\ fds' = [fds EXCEPT ![n] = fds[p]]
  /\ files' = [f \in File |-> [files[f] EXCEPT !.ref = @ + Uses(p, f)]]
  /\ last' = Nothing
  /\ UNCHANGED <<killed, pages, call, sleeping, panicked>>

\* The descriptors of a zombie stay open until it is waited for.
Exit(p) ==
  /\ status[p] = "live" /\ call[p] = User
  /\ status' = [status EXCEPT ![p] = "zombie"]
  /\ last' = Nothing
  /\ UNCHANGED <<parent, killed, fds, files, pages, call, sleeping, panicked>>

Kill(t) ==
  /\ status[t] = "live" /\ ~killed[t]
  /\ killed' = [killed EXCEPT ![t] = TRUE]
  /\ sleeping' = [sleeping EXCEPT ![t] = None]
  /\ last' = Nothing
  /\ UNCHANGED <<status, parent, fds, files, pages, call, panicked>>

\* free_process closes the files of c holding c's lock: to close the last
\* reference of a pipe it calls wakeup, which takes that lock once more, and
\* spinlock_acquire panics.
LastOfPipe(c) == \E f \in File : /\ files[f].pipe # None /\ Uses(c, f) > 0
                                 /\ files[f].ref = Uses(c, f)

Released(c) == [f \in File |-> IF files[f].ref > Uses(c, f)
                               THEN [files[f] EXCEPT !.ref = @ - Uses(c, f)]
                               ELSE Closed]

Reap(p, c) ==
  /\ status[p] = "live" /\ call[p] = User
  /\ status[c] = "zombie" /\ parent[c] = p
  /\ IF LastOfPipe(c)
     THEN /\ panicked' = TRUE
          /\ UNCHANGED <<procVars, fds, files>>
     ELSE /\ status' = [status EXCEPT ![c] = "unused"]
          /\ parent' = [parent EXCEPT ![c] = None]
          /\ killed' = [killed EXCEPT ![c] = FALSE]
          /\ fds' = [fds EXCEPT ![c] = [d \in Fd |-> None]]
          /\ files' = Released(c)
          /\ UNCHANGED panicked
  /\ last' = Nothing
  /\ UNCHANGED <<pages, call, sleeping>>

-----------------------------------------------------------------------------
Naming(p) ==
  /\ \/ OpenSet(p) \/ \E m \in Mode : OpenAlloc(p, m)
     \/ PipeFirst(p) \/ PipeSecond(p) \/ PipeNoPage(p) \/ PipeMake(p)
     \/ CloseRef(p) \/ CloseLook(p) \/ PipeClose(p)
     \/ \E d \in Fd : \/ Dup(p, d) \/ Close(p, d)
                      \/ \E n \in 1..MaxRead : StartRead(p, d, n)
                      \/ \E s \in Chunk : StartWrite(p, d, s)
  /\ last' = Nothing
  /\ UNCHANGED <<procVars, panicked>>

Next == /\ ~panicked
        /\ \E p \in Proc : \/ Naming(p) \/ ReadStep(p) \/ WriteStep(p)
                           \/ Fork(p) \/ Exit(p)
                           \/ p \in Killable /\ Kill(p)
                           \/ \E c \in Proc : Reap(p, c)

Spec == Init /\ [][Next]_vars

-----------------------------------------------------------------------------
Names == {n \in Proc \X Fd : fds[n[1]][n[2]] # None}

\* The references to f in descriptors and in calls that are under way.
Holders(f) ==
  Cardinality({n \in Names : fds[n[1]][n[2]] = f})
  + Cardinality({n \in Proc \X {1, 2} : n[2] \in DOMAIN call[n[1]].files
                                        /\ call[n[1]].files[n[2]] = f})

(* Every reference of a file is held by a descriptor, of a live process or  *)
(* of a zombie, or by a call under way; the exception is a file that a      *)
(* failing pipe call has lost (pipe.c:35), and that one was never set up.   *)
RefsAccounted ==
  \A f \in File :
    \/ files[f].ref = Holders(f)
    \/ files[f].ref = 1 /\ Holders(f) = 0 /\ [files[f] EXCEPT !.ref = 0] = Closed

Reachable(g) == \/ \E f \in File : files[f].pipe = g
                \/ \E p \in Proc : call[p].op \in Inside /\ call[p].pipe = g

(* A page is in use as long as a file or a call can reach it, also when     *)
(* both ends are closed at the same time, and it has one file for each end. *)
(* When nobody can reach it, it has been given back - except when both      *)
(* closes were taken for the same end (file.c:78): then it never will be.   *)
PagesAccounted ==
  \A g \in Page :
    /\ Reachable(g) => pages[g].used
    /\ pages[g].used /\ ~Reachable(g) => pages[g].readopen # pages[g].writeopen
    /\ \A e, f \in File : /\ files[e].pipe = g /\ files[f].pipe = g
                          /\ files[e].readable = files[f].readable
                          => e = f

(* References and pages go together: whoever closes, inherits, duplicates   *)
(* or fails half-way, a file is in use exactly while somebody refers to it  *)
(* and a page exactly while somebody can reach it, but for the two losses   *)
(* the parts name: there is no third way to lose one.                       *)
FilesAccounted == RefsAccounted /\ PagesAccounted

(* Who sleeps in a pipe has a reason to: a reader found it empty and a      *)
(* writer found it full, and so it still is, with the other end open.       *)
SleepersBlocked ==
  \A p \in Proc :
    sleeping[p] # None =>
      LET pg == pages[sleeping[p]] IN
        /\ ~killed[p]
        /\ \/ call[p].op = "read"  /\ Fill(pg) = 0    /\ pg.writeopen
           \/ call[p].op = "write" /\ Fill(pg) = Size /\ pg.readopen

Content(pg) == Oldest(pg, Fill(pg))

\* The read or write of g that makes a step.
Moves(p, g) == /\ call[p].op \in {"read", "write"} /\ call[p].pipe = g
               /\ call'[p] # call[p]

Buf(p) == IF call[p].op = "user" THEN last.buf ELSE call[p].buf

(* A pipe is a stream: what a writer has got rid of is behind what was in   *)
(* the ring, what a reader has received was in front, no byte is lost or    *)
(* doubled, across full and empty rings, sleeps and the wrap of nread and   *)
(* nwrite; and nothing but a read or a write changes the content.           *)
StreamKept ==
  [][\A g \in Page :
       pages[g].used /\ pages'[g].used =>
         LET old == Content(pages[g])
             new == Content(pages'[g])
         IN \/ new = old /\ \A p \in Proc : ~Moves(p, g)
            \/ \E p \in Proc :
                 /\ Moves(p, g)
                 /\ IF call[p].op = "write"
                    THEN \E s \in {SubSeq(Buf(p), 1, k) : k \in 0..Len(Buf(p))} :
                           Buf(p) = s \o Buf(p)' /\ new = old \o s
                    ELSE \E s \in {SubSeq(old, 1, k) : k \in 0..Len(old)} :
                           Buf(p)' = Buf(p) \o s /\ old = s \o new]_vars

(* A read that is told the data has ended, and a write that is refused,     *)
(* without having been killed: the other end of the pipe has been closed by *)
(* everybody, even if fileclose has looked at a file given to another.      *)
EndIsTrue ==
  [][\A p \in Proc :
       call[p].op \in {"read", "write"} /\ last'.by = p /\ ~killed[p] =>
         \/ last'.ret = call[p].n
         \/ \A f \in File : files[f].pipe = call[p].pipe =>
              (files[f].readable <=> call[p].op = "read")]_vars

(* spinlock_acquire asserts that the hart does not hold the lock already.   *)
NoPanic == ~panicked
=============================================================================
