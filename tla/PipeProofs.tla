------------------------------ MODULE PipeProofs ------------------------------
(***************************************************************************)
(* Open files and pipes, for any number of processes, files, descriptors   *)
(* and pages and any size of the ring.                                     *)
(*                                                                         *)
(* The references of a file are counted twice, in descriptors and in calls *)
(* that are under way, and files[f].ref is the sum.  A page is accounted   *)
(* for in the same way: its ends that are open, the closes under way and   *)
(* the flags already cleared are two together, also when fileclose has     *)
(* cleared the wrong flag.                                                 *)
(***************************************************************************)
EXTENDS Pipe, FiniteSetTheorems, SequenceTheorems, TLAPS

\* What a call under way knows.
CallRec ==
  [op : {"user", "pipe", "make", "close"}, files : Seq(File)]
  \cup [op : {"open"}, files : Seq(File), mode : Mode]
  \cup [op : {"look"}, files : Seq(File), file : File, pipe : Page]
  \cup [op : {"pipeclose"}, files : Seq(File), pipe : Page, writable : BOOLEAN]
  \cup [op : {"read", "write"}, files : Seq(File), pipe : Page, n : Nat, buf : Seq(Nat)]

CallFits(c) ==
  /\ c \in CallRec
  /\ c.op \in {"user", "read", "write"} => c.files = <<>>
  /\ c.op \in {"open", "pipe"} => Len(c.files) = 1
  /\ c.op = "make" => Len(c.files) = 2
  /\ c.op = "close" => Len(c.files) \in 1..2
  /\ c.op \in {"look", "pipeclose"} => Len(c.files) \in 0..1
  /\ c.op = "read" => c.n <= MaxRead /\ Len(c.buf) < c.n
  /\ c.op = "write" => Len(c.buf) \in 1..Size

Types ==
  /\ status \in [Proc -> {"unused", "live", "zombie"}]
  /\ parent \in [Proc -> Proc \cup {None}]
  /\ killed \in [Proc -> BOOLEAN]
  /\ fds \in [Proc -> [Fd -> File \cup {None}]]
  /\ files \in [File -> FileRec]
  /\ pages \in [Page -> PageRec]
  /\ call \in [Proc -> CallRec] /\ \A p \in Proc : CallFits(call[p])
  /\ sleeping \in [Proc -> Page \cup {None}]
  /\ panicked \in BOOLEAN

StatusInv ==
  \A p \in Proc : /\ status[p] # "live" => call[p] = User
                  /\ status[p] = "unused" => \A d \in Fd : fds[p][d] = None


\* A file between filealloc and the assignment of its fields.
New == [Closed EXCEPT !.ref = 1]

FileOK(r) == /\ r.ref = 0 => r = Closed
             /\ r.pipe # None => r.type = "pipe" /\ r.writable = ~r.readable
             /\ r.type = "pipe" => r.pipe # None

FileInv ==
  /\ \A f \in File : FileOK(files[f])
  /\ \A p \in Proc : call[p].op \in {"open", "pipe", "make"} =>
       \A i \in DOMAIN call[p].files : files[call[p].files[i]] = New

Ends(fs, g) == {f \in File : fs[f].pipe = g}
Closers(c, g) == {p \in Proc : c[p].op \in {"look", "pipeclose"} /\ c[p].pipe = g}
Cleared(pg) == (IF pg.readopen THEN 0 ELSE 1) + (IF pg.writeopen THEN 0 ELSE 1)

PageInv ==
  /\ \A g \in Page :
       IF pages[g].used
       THEN /\ (Cardinality(Ends(files, g)) + Cardinality(Closers(call, g))) + Cleared(pages[g]) <= 2
            /\ Cleared(pages[g]) < 2
            /\ Cleared(pages[g]) = 0 =>
                 2 <= Cardinality(Ends(files, g)) + Cardinality(Closers(call, g))
       ELSE Ends(files, g) = {} /\ Closers(call, g) = {}
  /\ \A e, f \in File : /\ files[e].pipe # None /\ files[e].pipe = files[f].pipe
                        /\ files[e].readable = files[f].readable
                        => e = f

\* Who reads or writes has the end of the pipe that is for it.
HoldInv ==
  \A p \in Proc : call[p].op \in {"read", "write"} =>
    \E d \in Fd : /\ fds[p][d] # None /\ files[fds[p][d]].pipe = call[p].pipe
                  /\ files[fds[p][d]].readable = (call[p].op = "read")

RingInv == \A g \in Page : Fill(pages[g]) <= Size

SleepInv == SleepersBlocked /\ \A p \in Proc : sleeping[p] # None => sleeping[p] = call[p].pipe

IInv == /\ Types /\ StatusInv /\ FileInv /\ RefsAccounted
        /\ PageInv /\ HoldInv /\ RingInv /\ SleepInv

-----------------------------------------------------------------------------
(* Counting references.                                                    *)
LEMMA Constants ==
  /\ NProc \in Nat /\ NFile \in Nat /\ NFd \in Nat /\ NPage \in Nat
  /\ IsFiniteSet(Proc) /\ IsFiniteSet(Fd) /\ IsFiniteSet(File)
  /\ None \notin File /\ None \notin Page /\ None \notin Proc
  /\ Proc \subseteq Nat /\ File \subseteq Nat /\ Fd \subseteq Nat /\ Page \subseteq Nat
<1>1. /\ NProc \in Nat /\ NFile \in Nat /\ NFd \in Nat /\ NPage \in Nat
  BY PipeAssumption
<1>2. IsFiniteSet(1..NProc) /\ IsFiniteSet(1..NFd) /\ IsFiniteSet(1..NFile)
  BY <1>1, FS_Interval
<1> QED  BY <1>1, <1>2 DEF Proc, File, Fd, Page, None

FdSet(t, f) == {n \in Proc \X Fd : t[n[1]][n[2]] = f}
CallSet(c, f) == {n \in Proc \X {1, 2} : n[2] \in DOMAIN c[n[1]].files /\ c[n[1]].files[n[2]] = f}

Has(b) == IF b THEN 1 ELSE 0
Hit(g, f) == IF g = f THEN 1 ELSE 0

\* How often f is among the files s.
Among(s, f) == Has(1 \in DOMAIN s /\ s[1] = f) + Has(2 \in DOMAIN s /\ s[2] = f)

LEMMA SetsFinite ==
  ASSUME NEW t, NEW c, NEW f
  PROVE  /\ IsFiniteSet(FdSet(t, f)) /\ Cardinality(FdSet(t, f)) \in Nat
         /\ IsFiniteSet(CallSet(c, f)) /\ Cardinality(CallSet(c, f)) \in Nat
<1>1. IsFiniteSet(Proc \X Fd)
  BY Constants, FS_Product
<1>2. IsFiniteSet({1, 2})
  <2>1. IsFiniteSet({1} \cup {2})
    BY FS_Singleton, FS_AddElement
  <2>2. {1} \cup {2} = {1, 2}
    OBVIOUS
  <2> QED  BY <2>1, <2>2
<1>3. IsFiniteSet(Proc \X {1, 2})
  BY <1>2, Constants, FS_Product
<1>4. FdSet(t, f) \in SUBSET (Proc \X Fd) /\ CallSet(c, f) \in SUBSET (Proc \X {1, 2})
  BY DEF FdSet, CallSet
<1>5. IsFiniteSet(FdSet(t, f)) /\ IsFiniteSet(CallSet(c, f))
  BY <1>1, <1>3, <1>4, FS_Subset
<1> QED  BY <1>5, FS_CardinalityType

FdTable == [Proc -> [Fd -> File \cup {None}]]

\* An assignment to one descriptor.
OnlyAt(t, u, p, d) == \A q \in Proc, e \in Fd : q # p \/ e # d => u[q][e] = t[q][e]

LEMMA FdOne ==
  ASSUME NEW t \in FdTable, NEW p \in Proc, NEW d \in Fd,
         NEW u \in FdTable, NEW f \in File,
         OnlyAt(t, u, p, d)
  PROVE  Cardinality(FdSet(u, f)) + Hit(t[p][d], f) = Cardinality(FdSet(t, f)) + Hit(u[p][d], f)
<1> DEFINE h == u[p][d]
           S == FdSet(t, f)
           R == S \ {<<p, d>>}
<1>1. \A q \in Proc, e \in Fd : <<q, e>> # <<p, d>> => u[q][e] = t[q][e]
  BY DEF OnlyAt
<1>2. /\ IsFiniteSet(S) /\ Cardinality(S) \in Nat
      /\ IsFiniteSet(R)
      /\ Cardinality(R) = IF <<p, d>> \in S THEN Cardinality(S) - 1 ELSE Cardinality(S)
  BY SetsFinite, FS_RemoveElement
<1>3. (<<p, d>> \in S) <=> t[p][d] = f
  BY DEF FdSet
<1>4. \A n \in Proc \X Fd : n = <<n[1], n[2]>> /\ n[1] \in Proc /\ n[2] \in Fd
  OBVIOUS
<1>7. Hit(t[p][d], f) = (IF <<p, d>> \in S THEN 1 ELSE 0)
  BY <1>3 DEF Hit
<1>5. CASE h = f
  <2>1. FdSet(u, f) = R \cup {<<p, d>>}
    BY <1>1, <1>4, <1>5 DEF FdSet
  <2>2. Cardinality(R \cup {<<p, d>>}) = Cardinality(R) + 1
    BY <1>2, FS_AddElement
  <2>3. Hit(h, f) = 1
    BY <1>5 DEF Hit
  <2> HIDE DEF S, R
  <2>4. Cardinality(FdSet(u, f)) + Hit(t[p][d], f) = Cardinality(S) + Hit(h, f)
    BY <1>2, <1>7, <2>1, <2>2, <2>3
  <2> QED  BY <1>1, <2>4 DEF S
<1>6. CASE h # f
  <2>1. FdSet(u, f) = R
    BY <1>1, <1>4, <1>6 DEF FdSet
  <2>3. Hit(h, f) = 0
    BY <1>6 DEF Hit
  <2> HIDE DEF S, R
  <2>4. Cardinality(FdSet(u, f)) + Hit(t[p][d], f) = Cardinality(S) + Hit(h, f)
    BY <1>2, <1>7, <2>1, <2>3
  <2> QED  BY <1>1, <2>4 DEF S
<1> QED  BY <1>5, <1>6

\* The files of one call change.
LEMMA CallOne ==
  ASSUME NEW c \in [Proc -> CallRec], NEW p \in Proc, NEW k \in CallRec, NEW f \in File,
         Len(c[p].files) <= 2, Len(k.files) <= 2
  PROVE  LET u == [c EXCEPT ![p] = k] IN
           Cardinality(CallSet(u, f)) + Among(c[p].files, f)
             = Cardinality(CallSet(c, f)) + Among(k.files, f)
<1> DEFINE u == [c EXCEPT ![p] = k]
           S == CallSet(c, f)
           R1 == S \ {<<p, 1>>}
           R2 == R1 \ {<<p, 2>>}
           b1 == 1 \in DOMAIN k.files /\ k.files[1] = f
           b2 == 2 \in DOMAIN k.files /\ k.files[2] = f
           T1 == IF b1 THEN R2 \cup {<<p, 1>>} ELSE R2
           T2 == IF b2 THEN T1 \cup {<<p, 2>>} ELSE T1
<1>1. IsFiniteSet(S) /\ Cardinality(S) \in Nat
  BY SetsFinite
<1>2. /\ IsFiniteSet(R1)
      /\ Cardinality(R1) = IF <<p, 1>> \in S THEN Cardinality(S) - 1 ELSE Cardinality(S)
  BY <1>1, FS_RemoveElement
<1>3. /\ IsFiniteSet(R2)
      /\ Cardinality(R2) = IF <<p, 2>> \in R1 THEN Cardinality(R1) - 1 ELSE Cardinality(R1)
  BY <1>2, FS_RemoveElement
<1>4. <<p, 1>> \notin R2 /\ (<<p, 2>> \in R1 <=> <<p, 2>> \in S)
  <2>1. <<p, 1>> # <<p, 2>>
    OBVIOUS
  <2> QED  BY <2>1
<1>5. /\ IsFiniteSet(T1)
      /\ Cardinality(T1) = IF b1 THEN Cardinality(R2) + 1 ELSE Cardinality(R2)
  <2>1. IsFiniteSet(R2 \cup {<<p, 1>>}) /\ Cardinality(R2 \cup {<<p, 1>>}) = Cardinality(R2) + 1
    BY <1>3, <1>4, FS_AddElement
  <2> QED  BY <1>3, <2>1
<1>6. Cardinality(T2) = IF b2 THEN Cardinality(T1) + 1 ELSE Cardinality(T1)
  <2>0. <<p, 2>> \notin T1
    BY <1>4
  <2>1. Cardinality(T1 \cup {<<p, 2>>}) = Cardinality(T1) + 1
    BY <1>5, <2>0, FS_AddElement
  <2> QED  BY <2>1
<1>7. CallSet(u, f) = T2
  <2>1. /\ u[p] = k
        /\ \A q \in Proc : q # p => u[q] = c[q]
    OBVIOUS
  <2>3. \A q \in Proc, i \in {1, 2} : <<q, i>> \in CallSet(u, f) <=> <<q, i>> \in T2
    BY <2>1 DEF CallSet
  <2>4. CallSet(u, f) \subseteq Proc \X {1, 2} /\ T2 \subseteq Proc \X {1, 2}
    BY DEF CallSet
  <2> HIDE DEF T2, u
  <2>5. ASSUME NEW n \in Proc \X {1, 2} PROVE n \in CallSet(u, f) <=> n \in T2
    <3>1. PICK q \in Proc, i \in {1, 2} : n = <<q, i>>
      OBVIOUS
    <3> QED  BY <2>3, <3>1
  <2> QED  BY <2>4, <2>5
<1>8. /\ <<p, 1>> \in S <=> 1 \in DOMAIN c[p].files /\ c[p].files[1] = f
      /\ <<p, 2>> \in S <=> 2 \in DOMAIN c[p].files /\ c[p].files[2] = f
  BY DEF CallSet
<1> HIDE DEF S, R1, R2, T1, T2, u, b1, b2
<1>9. Among(k.files, f) = Has(b1) + Has(b2)
  BY DEF Among, b1, b2
<1>10. Among(c[p].files, f) = Has(<<p, 1>> \in S) + Has(<<p, 2>> \in S)
  BY <1>8 DEF Among, Has, Hit
<1>11. \A x, y \in Nat : x + y \in Nat
  OBVIOUS
<1>12. Cardinality(R1) + Has(<<p, 1>> \in S) = Cardinality(S) /\ Cardinality(R1) \in Int
  BY <1>1, <1>2 DEF Has
<1>13. Cardinality(R2) + Has(<<p, 2>> \in S) = Cardinality(R1) /\ Cardinality(R2) \in Int
  BY <1>12, <1>3, <1>4 DEF Has
<1>14. Cardinality(T1) = Cardinality(R2) + Has(b1) /\ Cardinality(T2) = Cardinality(T1) + Has(b2)
  BY <1>13, <1>5, <1>6 DEF Has
<1>15. Has(b1) \in Nat /\ Has(b2) \in Nat /\ Has(<<p, 1>> \in S) \in Nat /\ Has(<<p, 2>> \in S) \in Nat
  BY DEF Has
<1> QED  BY <1>7, <1>9, <1>10, <1>12, <1>13, <1>14, <1>15 DEF u, S

FdsAt(t, p, f) == {d \in Fd : t[p][d] = f}
Row(q, D) == {<<q, d>> : d \in D}

LEMMA RowCounts ==
  ASSUME NEW q, NEW D \in SUBSET Fd
  PROVE  /\ IsFiniteSet(D) /\ Cardinality(D) \in Nat
         /\ IsFiniteSet(Row(q, D)) /\ Cardinality(Row(q, D)) = Cardinality(D)
<1>1. IsFiniteSet(D) /\ Cardinality(D) \in Nat
  BY Constants, FS_Subset, FS_CardinalityType
<1> DEFINE g == [d \in D |-> <<q, d>>]
<1>2. g \in Bijection(D, Row(q, D))
  <2>1. g \in [D -> Row(q, D)]
    BY DEF Row
  <2>2. IsInjective(g)
    BY DEF IsInjective
  <2>3. \A y \in Row(q, D) : \E d \in D : g[d] = y
    BY DEF Row
  <2> QED  BY <2>1, <2>2, <2>3 DEF Bijection, Injection, Surjection, IsInjective
<1>3. ExistsBijection(D, Row(q, D))
  BY <1>2 DEF ExistsBijection
<1> QED  BY <1>1, <1>3, FS_Bijection

NoFds(t, n) == \A d \in Fd : t[n][d] = None

\* A process gets the descriptors of another one.
Inherits(t, u, p, n) == u = [t EXCEPT ![n] = t[p]]

LEMMA FdFork ==
  ASSUME NEW t \in [Proc -> [Fd -> File \cup {None}]], NEW p \in Proc, NEW n \in Proc,
         NEW f \in File, NoFds(t, n),
         NEW u, Inherits(t, u, p, n)
  PROVE  /\ u \in [Proc -> [Fd -> File \cup {None}]]
         /\ Cardinality(FdSet(u, f)) = Cardinality(FdSet(t, f)) + Cardinality(FdsAt(t, p, f))
<1> DEFINE D == FdsAt(t, p, f)
<1>1. /\ u \in [Proc -> [Fd -> File \cup {None}]] /\ u[n] = t[p]
      /\ \A q \in Proc : q # n => u[q] = t[q]
  BY DEF Inherits
<1>2. D \in SUBSET Fd
  BY DEF FdsAt
<1>3. FdSet(u, f) = FdSet(t, f) \cup Row(n, D)
  <2>0. f # None
    BY Constants
  <2>1. ASSUME NEW m \in Proc \X Fd PROVE m \in FdSet(u, f) <=> m \in FdSet(t, f) \cup Row(n, D)
    <3>1. PICK q \in Proc, d \in Fd : m = <<q, d>>
      OBVIOUS
    <3>2. CASE q = n
      BY <1>1, <2>0, <3>1, <3>2 DEF FdSet, Row, FdsAt, NoFds
    <3>3. CASE q # n
      BY <1>1, <3>1, <3>3 DEF FdSet, Row, FdsAt
    <3> QED  BY <3>2, <3>3
  <2>2. FdSet(u, f) \subseteq Proc \X Fd /\ FdSet(t, f) \subseteq Proc \X Fd
    BY DEF FdSet
  <2>3. Row(n, D) \subseteq Proc \X Fd
    BY <1>2 DEF Row
  <2> QED  BY <2>1, <2>2, <2>3
<1>4. FdSet(t, f) \cap Row(n, D) = {}
  <2>1. \A d \in D : t[n][d] # f
    BY <1>2, Constants DEF NoFds
  <2> HIDE DEF D
  <2> QED  BY <2>1 DEF FdSet, Row
<1>5. IsFiniteSet(FdSet(t, f)) /\ Cardinality(FdSet(t, f)) \in Nat
  BY SetsFinite
<1>6. Cardinality(FdSet(t, f) \cup Row(n, D))
        = Cardinality(FdSet(t, f)) + Cardinality(Row(n, D)) - Cardinality(FdSet(t, f) \cap Row(n, D))
  BY <1>2, <1>5, RowCounts, FS_Union
<1>7. Cardinality(FdSet(t, f) \cap Row(n, D)) = 0
  BY <1>4, FS_EmptySet
<1>8. Cardinality(Row(n, D)) = Cardinality(D) /\ Cardinality(D) \in Nat
  BY <1>2, RowCounts
<1> HIDE DEF D
<1>9. Cardinality(FdSet(u, f)) = Cardinality(FdSet(t, f)) + Cardinality(D)
  BY <1>3, <1>5, <1>6, <1>7, <1>8
<1> QED  BY <1>1, <1>9 DEF D

\* A process loses all its descriptors.
LEMMA FdReap ==
  ASSUME NEW t \in [Proc -> [Fd -> File \cup {None}]], NEW c \in Proc, NEW f \in File
  PROVE  LET u == [t EXCEPT ![c] = [d \in Fd |-> None]] IN
           /\ u \in [Proc -> [Fd -> File \cup {None}]]
           /\ Cardinality(FdSet(u, f)) + Cardinality(FdsAt(t, c, f)) = Cardinality(FdSet(t, f))
           /\ Cardinality(FdsAt(t, c, f)) \in Nat /\ Cardinality(FdSet(u, f)) \in Nat
<1> DEFINE u == [t EXCEPT ![c] = [d \in Fd |-> None]]
           D == FdsAt(t, c, f)
<1>1. /\ u \in [Proc -> [Fd -> File \cup {None}]] /\ \A d \in Fd : u[c][d] = None
      /\ \A q \in Proc : q # c => u[q] = t[q]
  OBVIOUS
<1>2. D \in SUBSET Fd
  BY DEF FdsAt
<1>3. FdSet(u, f) = FdSet(t, f) \ Row(c, D)
  <2>0. f # None
    BY Constants
  <2>1. ASSUME NEW m \in Proc \X Fd PROVE m \in FdSet(u, f) <=> m \in FdSet(t, f) \ Row(c, D)
    <3>1. PICK q \in Proc, d \in Fd : m = <<q, d>>
      OBVIOUS
    <3>2. CASE q = c
      BY <1>1, <2>0, <3>1, <3>2 DEF FdSet, Row, FdsAt
    <3>3. CASE q # c
      BY <1>1, <3>1, <3>3 DEF FdSet, Row, FdsAt
    <3> QED  BY <3>2, <3>3
  <2>2. FdSet(u, f) \subseteq Proc \X Fd /\ FdSet(t, f) \subseteq Proc \X Fd
    BY DEF FdSet
  <2> QED  BY <2>1, <2>2
<1>4. FdSet(t, f) \cap Row(c, D) = Row(c, D)
  BY DEF FdSet, Row, FdsAt
<1>5. IsFiniteSet(FdSet(t, f)) /\ Cardinality(FdSet(t, f)) \in Nat
  BY SetsFinite
<1>6. Cardinality(FdSet(t, f) \ Row(c, D))
        = Cardinality(FdSet(t, f)) - Cardinality(FdSet(t, f) \cap Row(c, D))
  BY <1>5, FS_Difference
<1>8. Cardinality(Row(c, D)) = Cardinality(D) /\ Cardinality(D) \in Nat
  BY <1>2, RowCounts
<1>10. Cardinality(FdSet(u, f)) \in Nat
  BY SetsFinite
<1> HIDE DEF u, D
<1>9. Cardinality(FdSet(u, f)) + Cardinality(D) = Cardinality(FdSet(t, f))
  <2>1. Cardinality(FdSet(u, f)) = Cardinality(FdSet(t, f)) - Cardinality(D)
    BY <1>3, <1>4, <1>6, <1>8
  <2>2. \A a, b, e \in Nat : a = b - e => a + e = b
    OBVIOUS
  <2> QED  BY <1>5, <1>8, <1>10, <2>1, <2>2
<1> QED  BY <1>1, <1>8, <1>9, <1>10 DEF u, D

FdRefs(f) == FdSet(fds, f)
CallRefs(f) == CallSet(call, f)

LEMMA HoldersIs ==
  ASSUME NEW f \in File
  PROVE  /\ Holders(f) = Cardinality(FdRefs(f)) + Cardinality(CallRefs(f))
         /\ Holders(f)' = Cardinality(FdSet(fds', f)) + Cardinality(CallSet(call', f))
<1>1. f # None
  BY Constants
<1>2. {n \in Names : fds[n[1]][n[2]] = f} = FdRefs(f)
  BY <1>1 DEF Names, FdRefs, FdSet
<1>3. {n \in Names' : fds'[n[1]][n[2]] = f} = FdSet(fds', f)
  BY <1>1 DEF Names, FdSet
<1> QED  BY <1>2, <1>3 DEF Holders, CallRefs, CallSet

LEMMA CallFields ==
  ASSUME NEW c \in CallRec, CallFits(c)
  PROVE  /\ c.files \in Seq(File) /\ Len(c.files) \in 0..2 /\ DOMAIN c.files = 1..Len(c.files)
         /\ c.op \in {"user", "open", "pipe", "make", "close"} \cup Inside
         /\ c.op = "user" => c = User
         /\ c.op \in Inside => c.pipe \in Page
         /\ c.op = "open" => c.mode \in Mode
         /\ c.op = "look" => c.file \in File
         /\ c.op = "pipeclose" => c.writable \in BOOLEAN
         /\ c.op \in {"read", "write"} => c.n \in Nat /\ c.buf \in Seq(Nat) /\ c.pipe \in Page
<1>1. c.files \in Seq(File)
  BY DEF CallRec
<1>2. c.op \in {"user", "open", "pipe", "make", "close"} \cup Inside
  BY DEF CallRec, Inside
<1>3. Len(c.files) \in Nat /\ DOMAIN c.files = 1..Len(c.files)
  BY <1>1, LenProperties
<1>4. Len(c.files) \in 0..2
  <2>1. Len(<<>>) = 0
    OBVIOUS
  <2> QED  BY <1>2, <1>3, <2>1 DEF CallFits, Inside
<1>5. c.op = "user" => c = User
  BY DEF CallRec, User, CallFits
<1> QED  BY <1>1, <1>2, <1>3, <1>4, <1>5 DEF CallRec, Inside

\* A file that is referred to is in use, and not lost.
LEMMA Referenced ==
  ASSUME Types, RefsAccounted, NEW f \in File
  PROVE  /\ files[f].ref \in Nat
         /\ files[f].ref = 0 => FdRefs(f) = {} /\ CallRefs(f) = {}
         /\ FdRefs(f) # {} \/ CallRefs(f) # {} => files[f].ref >= 1 /\ files[f].ref = Holders(f)
         /\ FdRefs(f) # {} /\ CallRefs(f) # {} => files[f].ref >= 2
         /\ files[f].ref = 1 /\ CallRefs(f) # {}
              => FdRefs(f) = {} /\ \E n : CallRefs(f) = {n}
         /\ \A n \in FdRefs(f) : files[f].ref = 1 => FdRefs(f) = {n} /\ CallRefs(f) = {}
<1> DEFINE A == FdRefs(f)  B == CallRefs(f)
<1>1. /\ IsFiniteSet(A) /\ Cardinality(A) \in Nat /\ IsFiniteSet(B) /\ Cardinality(B) \in Nat
  BY SetsFinite DEF FdRefs, CallRefs
<1>2. /\ Cardinality(A) = 0 <=> A = {}
      /\ Cardinality(B) = 0 <=> B = {}
  BY <1>1, FS_EmptySet
<1>3. /\ Cardinality(B) = 1 => \E n : B = {n}
      /\ Cardinality(A) = 1 => \E n : A = {n}
  BY <1>1, FS_Singleton
<1>4. files[f].ref \in Nat
  BY DEF Types, FileRec
<1>5. Holders(f) = Cardinality(A) + Cardinality(B)
  BY HoldersIs
<1>6. files[f].ref = Holders(f) \/ (files[f].ref = 1 /\ Holders(f) = 0)
  BY DEF RefsAccounted
<1> HIDE DEF A, B
<1>7. files[f].ref = 0 => A = {} /\ B = {}
  BY <1>1, <1>2, <1>4, <1>5, <1>6
<1>8. A # {} \/ B # {} => files[f].ref >= 1 /\ files[f].ref = Holders(f)
  BY <1>1, <1>2, <1>4, <1>5, <1>6
<1>9. A # {} /\ B # {} => files[f].ref >= 2
  BY <1>1, <1>2, <1>4, <1>5, <1>6
<1>10. ASSUME files[f].ref = 1, B # {} PROVE A = {} /\ \E n : B = {n}
  <2>1. Cardinality(B) = 1 /\ Cardinality(A) = 0
    BY <1>1, <1>2, <1>5, <1>6, <1>10
  <2> QED  BY <1>2, <1>3, <2>1
<1>11. ASSUME NEW n \in A, files[f].ref = 1 PROVE A = {n} /\ B = {}
  <2>1. Cardinality(A) = 1 /\ Cardinality(B) = 0
    BY <1>1, <1>2, <1>5, <1>6, <1>11
  <2> QED  BY <1>2, <1>3, <2>1
<1> QED  BY <1>4, <1>7, <1>8, <1>9, <1>10, <1>11 DEF A, B

LEMMA InRefs ==
  ASSUME Types, NEW p \in Proc
  PROVE  /\ \A d \in Fd : fds[p][d] # None => fds[p][d] \in File /\ <<p, d>> \in FdRefs(fds[p][d])
         /\ \A i \in DOMAIN call[p].files : /\ call[p].files[i] \in File
                                            /\ <<p, i>> \in CallRefs(call[p].files[i])
<1>1. ASSUME NEW d \in Fd, fds[p][d] # None PROVE fds[p][d] \in File /\ <<p, d>> \in FdRefs(fds[p][d])
  BY <1>1 DEF Types, FdRefs, FdSet
<1>2. ASSUME NEW i \in DOMAIN call[p].files
      PROVE  call[p].files[i] \in File /\ <<p, i>> \in CallRefs(call[p].files[i])
  <2>1. call[p].files \in Seq(File) /\ Len(call[p].files) \in 0..2 /\ i \in 1..Len(call[p].files)
    BY <1>2, CallFields DEF Types
  <2>2. i \in {1, 2} /\ call[p].files[i] \in File
    BY <2>1, ElementOfSeq
  <2> QED  BY <1>2, <2>2 DEF CallRefs, CallSet
<1> QED  BY <1>1, <1>2

\* A file without its fields is known to the call that made it only.
LEMMA Sole ==
  ASSUME Types, RefsAccounted, FileInv, NEW p \in Proc, call[p].op \in {"open", "pipe", "make"},
         NEW i \in DOMAIN call[p].files
  PROVE  LET f == call[p].files[i] IN
           /\ f \in File /\ files[f] = New /\ files[f].ref = 1
           /\ FdRefs(f) = {} /\ CallRefs(f) = {<<p, i>>} /\ Holders(f) = 1
<1> DEFINE f == call[p].files[i]
<1>1. f \in File /\ <<p, i>> \in CallRefs(f)
  BY InRefs
<1>2. files[f] = New /\ files[f].ref = 1
  BY DEF FileInv, New, Closed
<1> HIDE DEF f
<1>3. FdRefs(f) = {} /\ \E n : CallRefs(f) = {n}
  BY <1>1, <1>2, Referenced
<1>4. Holders(f) = 1
  BY <1>1, <1>2, Referenced
<1> QED  BY <1>1, <1>2, <1>3, <1>4 DEF f

-----------------------------------------------------------------------------
(* What a step of p must do to keep each part of the invariant.            *)
OneCall(p, k) == call' = [call EXCEPT ![p] = k] /\ k \in CallRec /\ CallFits(k)

LEMMA OthersCall ==
  ASSUME Types, NEW p \in Proc, NEW k, OneCall(p, k)
  PROVE  call'[p] = k /\ \A q \in Proc : q # p => call'[q] = call[q]
BY DEF OneCall, Types

LEMMA TypesKept ==
  ASSUME Types, NEW p \in Proc, NEW k, OneCall(p, k), UNCHANGED <<procVars, panicked>>,
         fds' \in [Proc -> [Fd -> File \cup {None}]], files' \in [File -> FileRec],
         pages' \in [Page -> PageRec], sleeping' \in [Proc -> Page \cup {None}]
  PROVE  Types'
<1>1. call' \in [Proc -> CallRec] /\ \A q \in Proc : CallFits(call'[q])
  BY DEF OneCall, Types
<1> QED  BY <1>1 DEF Types, procVars

LEMMA StatusKept ==
  ASSUME Types, StatusInv, NEW p \in Proc, NEW k, OneCall(p, k), UNCHANGED procVars,
         status[p] = "live", \A q \in Proc : q # p => fds'[q] = fds[q]
  PROVE  StatusInv'
BY OthersCall DEF StatusInv, procVars

LEMMA AmongNat ==
  ASSUME NEW s, NEW f
  PROVE  Among(s, f) \in Nat
BY DEF Among, Has, Hit

\* ref changes by as much as the references do.
Balanced(p, k, f) ==
  /\ files'[f].ref \in Nat
  /\ files'[f].ref + (Cardinality(FdSet(fds, f)) + Among(call[p].files, f))
       = files[f].ref + (Cardinality(FdSet(fds', f)) + Among(k.files, f))

LostStays(k, f) ==
  files[f].ref = 1 /\ FdRefs(f) = {} /\ CallRefs(f) = {} =>
    /\ files'[f] = files[f]
    /\ FdSet(fds', f) = {} /\ Among(k.files, f) = 0

LEMMA RefsKept ==
  ASSUME Types, RefsAccounted, NEW p \in Proc, NEW k, OneCall(p, k),
         \A f \in File : Balanced(p, k, f) /\ LostStays(k, f)
  PROVE  RefsAccounted'
<1> SUFFICES ASSUME NEW f \in File
             PROVE  \/ files'[f].ref = Holders(f)'
                    \/ files'[f].ref = 1 /\ Holders(f)' = 0 /\ [files'[f] EXCEPT !.ref = 0] = Closed
  BY DEF RefsAccounted
<1> DEFINE a == Cardinality(FdSet(fds, f))   b == Cardinality(CallSet(call, f))
           c == Cardinality(FdSet(fds', f))  d == Cardinality(CallSet(call', f))
           x == Among(call[p].files, f)      y == Among(k.files, f)
<1>1. Holders(f) = a + b /\ Holders(f)' = c + d
  BY HoldersIs DEF FdRefs, CallRefs
<1>2. a \in Nat /\ b \in Nat /\ c \in Nat /\ d \in Nat /\ x \in Nat /\ y \in Nat
  BY SetsFinite, AmongNat
<1>3. d + x = b + y
  <2>1. Len(call[p].files) <= 2 /\ Len(k.files) <= 2 /\ call \in [Proc -> CallRec] /\ k \in CallRec
    <3>1. call \in [Proc -> CallRec] /\ call[p] \in CallRec /\ CallFits(call[p])
      BY DEF Types
    <3>2. k \in CallRec /\ CallFits(k)
      BY DEF OneCall
    <3>3. Len(call[p].files) \in 0..2 /\ Len(k.files) \in 0..2
      BY <3>1, <3>2, CallFields
    <3>4. \A n \in 0..2 : n <= 2
      OBVIOUS
    <3>5. Len(call[p].files) <= 2 /\ Len(k.files) <= 2
      BY <3>3, <3>4
    <3> QED  BY <3>1, <3>2, <3>5
  <2>2. call' = [call EXCEPT ![p] = k]
    BY DEF OneCall
  <2> QED  BY <2>1, <2>2, CallOne
<1>4. files'[f].ref + (a + x) = files[f].ref + (c + y) /\ files'[f].ref \in Nat /\ files[f].ref \in Nat
  BY DEF Types, FileRec, Balanced
<1>5. CASE files[f].ref = Holders(f)
  <2> HIDE DEF a, b, c, d, x, y
  <2>1. files'[f].ref = c + d
    BY <1>1, <1>2, <1>3, <1>4, <1>5
  <2> QED  BY <1>1, <2>1
<1>6. CASE files[f].ref = 1 /\ Holders(f) = 0 /\ [files[f] EXCEPT !.ref = 0] = Closed
  <2>1. a = 0 /\ b = 0
    <3> HIDE DEF a, b
    <3> QED  BY <1>1, <1>2, <1>6
  <2>2. FdRefs(f) = {} /\ CallRefs(f) = {}
    BY <2>1, SetsFinite, FS_EmptySet DEF FdRefs, CallRefs
  <2>3. files'[f] = files[f] /\ FdSet(fds', f) = {} /\ y = 0
    BY <1>6, <2>2 DEF LostStays
  <2>4. c = 0
    BY <2>3, FS_EmptySet
  <2>5. d = 0
    <3> HIDE DEF b, d, x, y
    <3> QED  BY <1>2, <1>3, <2>1, <2>3
  <2> QED  BY <1>1, <1>6, <2>3, <2>4, <2>5
<1> QED  BY <1>5, <1>6 DEF RefsAccounted

LEMMA FileKept ==
  ASSUME Types, RefsAccounted, FileInv, NEW p \in Proc, NEW k, OneCall(p, k),
         \A f \in File : FileOK(files'[f]),
         \A f \in File : \/ files'[f] = files[f]
                         \/ files[f].ref = 0
                         \/ \E i \in DOMAIN call[p].files : call[p].files[i] = f
                         \/ FdRefs(f) # {},
         k.op \in {"open", "pipe", "make"} => \A i \in DOMAIN k.files : files'[k.files[i]] = New
  PROVE  FileInv'
<1>1. ASSUME NEW q \in Proc, call'[q].op \in {"open", "pipe", "make"}, NEW i \in DOMAIN call'[q].files
      PROVE  files'[call'[q].files[i]] = New
  <2>1. CASE q = p
    BY <1>1, <2>1, OthersCall
  <2>2. CASE q # p
    <3> DEFINE f == call[q].files[i]
    <3>1. call'[q] = call[q]
      BY <2>2, OthersCall
    <3>2. /\ f \in File /\ files[f] = New /\ files[f].ref = 1
          /\ FdRefs(f) = {} /\ CallRefs(f) = {<<q, i>>}
      BY <1>1, <3>1, Sole
    <3>3. ASSUME NEW j \in DOMAIN call[p].files PROVE call[p].files[j] # f
      <4>1. <<p, j>> \in CallRefs(call[p].files[j])
        BY InRefs
      <4> QED  BY <2>2, <3>2, <4>1
    <3>4. files'[f] = files[f]
      BY <3>2, <3>3
    <3> QED  BY <3>1, <3>2, <3>4
  <2> QED  BY <2>1, <2>2
<1> QED  BY <1>1 DEF FileInv

LEMMA PageKept ==
  ASSUME Types, PageInv, NEW p \in Proc, NEW k, OneCall(p, k),
         \A g \in Page : /\ pages'[g].used = pages[g].used
                         /\ pages'[g].readopen = pages[g].readopen
                         /\ pages'[g].writeopen = pages[g].writeopen,
         \A f \in File : /\ files'[f].pipe = files[f].pipe
                         /\ files[f].pipe # None => files'[f].readable = files[f].readable,
         k.op \in {"look", "pipeclose"} <=> call[p].op \in {"look", "pipeclose"},
         k.op \in {"look", "pipeclose"} => k.pipe = call[p].pipe
  PROVE  PageInv'
<1>1. ASSUME NEW g \in Page
      PROVE  /\ Ends(files', g) = Ends(files, g) /\ Closers(call', g) = Closers(call, g)
             /\ Cleared(pages'[g]) = Cleared(pages[g])
  <2>1. Ends(files', g) = Ends(files, g)
    BY DEF Ends
  <2>2. \A q \in Proc : q \in Closers(call', g) <=> q \in Closers(call, g)
    BY OthersCall DEF Closers
  <2>3. Closers(call', g) \subseteq Proc /\ Closers(call, g) \subseteq Proc
    BY DEF Closers
  <2>4. Cleared(pages'[g]) = Cleared(pages[g])
    BY DEF Cleared
  <2> QED  BY <2>1, <2>2, <2>3, <2>4
<1>2. \A e, f \in File : /\ files'[e].pipe # None /\ files'[e].pipe = files'[f].pipe
                         /\ files'[e].readable = files'[f].readable
                         => e = f
  BY DEF PageInv
<1> QED  BY <1>1, <1>2 DEF PageInv

LEMMA HoldKept ==
  ASSUME Types, HoldInv, NEW p \in Proc, NEW k, OneCall(p, k),
         \A q \in Proc : q # p /\ call[q].op \in {"read", "write"} => fds'[q] = fds[q],
         \A q \in Proc, d \in Fd :
           fds[q][d] # None /\ files[fds[q][d]].pipe # None =>
             /\ files'[fds[q][d]].pipe = files[fds[q][d]].pipe
             /\ files'[fds[q][d]].readable = files[fds[q][d]].readable,
         k.op \in {"read", "write"} =>
           \/ fds'[p] = fds[p] /\ call[p].op = k.op /\ k.pipe = call[p].pipe
           \/ \E d \in Fd : /\ fds'[p][d] # None /\ files'[fds'[p][d]].pipe = k.pipe
                            /\ files'[fds'[p][d]].readable = (k.op = "read")
  PROVE  HoldInv'
<1> SUFFICES ASSUME NEW q \in Proc, call'[q].op \in {"read", "write"}
             PROVE  \E d \in Fd : /\ fds'[q][d] # None /\ files'[fds'[q][d]].pipe = call'[q].pipe
                                  /\ files'[fds'[q][d]].readable = (call'[q].op = "read")
  BY DEF HoldInv
<1>1. ASSUME fds'[q] = fds[q], call[q].op = call'[q].op, call'[q].pipe = call[q].pipe
      PROVE  \E d \in Fd : /\ fds'[q][d] # None /\ files'[fds'[q][d]].pipe = call'[q].pipe
                           /\ files'[fds'[q][d]].readable = (call'[q].op = "read")
  <2>1. PICK d \in Fd : /\ fds[q][d] # None /\ files[fds[q][d]].pipe = call[q].pipe
                        /\ files[fds[q][d]].readable = (call[q].op = "read")
    BY <1>1 DEF HoldInv
  <2>2. call[q].pipe \in Page
    BY <1>1, CallFields DEF Types
  <2>3. files[fds[q][d]].pipe # None
    BY <2>1, <2>2, Constants
  <2> QED  BY <1>1, <2>1, <2>3
<1> QED  BY <1>1, OthersCall

LEMMA RingKept ==
  ASSUME RingInv, \A g \in Page : pages'[g] = pages[g] \/ Fill(pages'[g]) <= Size
  PROVE  RingInv'
BY DEF RingInv

LEMMA SleepKept ==
  ASSUME Types, SleepInv,
         \A q \in Proc : sleeping'[q] # None =>
           /\ sleeping'[q] = sleeping[q] /\ call'[q] = call[q] /\ killed'[q] = killed[q]
           /\ pages'[sleeping[q]] = pages[sleeping[q]]
  PROVE  SleepInv'
BY DEF SleepInv, SleepersBlocked

LEMMA SleepSame ==
  ASSUME Types, SleepInv, NEW p \in Proc, NEW k, OneCall(p, k), sleeping[p] = None,
         UNCHANGED <<procVars, pages, sleeping>>
  PROVE  SleepInv'
<1>1. killed' = killed /\ pages' = pages /\ sleeping' = sleeping
  BY DEF procVars
<1> QED  BY <1>1, SleepKept, OthersCall

\* Where a step of p begins.
LEMMA CallsIs ==
  ASSUME IInv, NEW p \in Proc, Calls(p)
  PROVE  /\ status[p] = "live" /\ sleeping[p] = None
         /\ call[p] = User /\ call[p].op = "user" /\ call[p].files = <<>>
<1>1. status[p] = "live" /\ call[p] = User
  BY DEF Calls
<1>2. call[p].op = "user" /\ call[p].files = <<>>
  BY <1>1 DEF User
<1>3. sleeping[p] = None
  BY <1>2 DEF IInv, SleepInv, SleepersBlocked
<1> QED  BY <1>1, <1>2, <1>3

LEMMA InIs ==
  ASSUME IInv, NEW p \in Proc, NEW op, In(p, op), op # "user"
  PROVE  status[p] = "live" /\ sleeping[p] = None /\ call[p].op = op
BY DEF In, User, IInv, StatusInv

LEMMA AmongIs ==
  ASSUME NEW f
  PROVE  /\ Among(<<>>, f) = 0
         /\ \A g : Among(<<g>>, f) = Hit(g, f)
         /\ \A g, h : Among(<<g, h>>, f) = Hit(g, f) + Hit(h, f)
         /\ Among(User.files, f) = 0
BY DEF Among, Has, Hit, User

LEMMA ShortSeqs ==
  ASSUME NEW s \in Seq(File)
  PROVE  /\ Len(s) = 0 => s = <<>>
         /\ Len(s) = 1 => s[1] \in File /\ s = <<s[1]>>
         /\ Len(s) = 2 => s[1] \in File /\ s[2] \in File /\ s = <<s[1], s[2]>>
         /\ DOMAIN s = 1..Len(s)
<1>1. Len(s) \in Nat /\ DOMAIN s = 1..Len(s) /\ \A i \in 1..Len(s) : s[i] \in File
  BY LenProperties, ElementOfSeq
<1>2. Len(s) = 0 => s = <<>>
  BY EmptySeq
<1>3. ASSUME Len(s) = 1 PROVE s[1] \in File /\ s = <<s[1]>>
  BY <1>1, <1>3
<1>4. ASSUME Len(s) = 2 PROVE s[1] \in File /\ s[2] \in File /\ s = <<s[1], s[2]>>
  BY <1>1, <1>4
<1> QED  BY <1>1, <1>2, <1>3, <1>4

LEMMA ClosingIs ==
  ASSUME NEW s \in Seq(File), Len(s) \in 0..2
  PROVE  /\ Closing(s) \in CallRec /\ CallFits(Closing(s)) /\ Closing(s).files = s
         /\ Closing(s).op \in {"user", "close"}
<1>1. CASE s = <<>>
  <2>1. Closing(s) = User /\ User.op = "user" /\ User.files = <<>> /\ User \in CallRec
    BY <1>1 DEF Closing, User, CallRec
  <2> QED  BY <1>1, <2>1 DEF CallFits
<1>2. CASE s # <<>>
  <2>1. Len(s) \in 1..2
    BY <1>2, EmptySeq
  <2>2. /\ Closing(s) = [op |-> "close", files |-> s] /\ Closing(s) \in CallRec
        /\ Closing(s).op = "close" /\ Closing(s).files = s
    BY <1>2 DEF Closing, CallRec
  <2> QED  BY <2>1, <2>2 DEF CallFits
<1> QED  BY <1>1, <1>2

LEMMA NewIs ==
  /\ New \in FileRec /\ New.ref = 1 /\ New.pipe = None /\ New.type = "none" /\ FileOK(New)
  /\ Closed \in FileRec /\ Closed.ref = 0 /\ Closed.pipe = None /\ FileOK(Closed)
  /\ [Closed EXCEPT !.ref = 1] = New /\ [New EXCEPT !.ref = 0] = Closed
<1>1. New.ref = 1 /\ New.pipe = None /\ New.type = "none" /\ Closed.ref = 0 /\ Closed.pipe = None
  BY DEF New, Closed
<1>2. New \in FileRec /\ Closed \in FileRec
  BY DEF New, Closed, FileRec
<1>3. FileOK(New) /\ FileOK(Closed)
  BY <1>1 DEF FileOK, Closed
<1>4. [Closed EXCEPT !.ref = 1] = New /\ [New EXCEPT !.ref = 0] = Closed
  <2>1. [Closed EXCEPT !.ref = 1] = New
    BY DEF New
  <2>2. \A r, t \in FileRec : /\ r.ref = t.ref /\ r.type = t.type /\ r.readable = t.readable
                               /\ r.writable = t.writable /\ r.pipe = t.pipe
                               => r = t
    BY DEF FileRec
  <2>3. [New EXCEPT !.ref = 0] \in FileRec
    BY <1>2 DEF FileRec
  <2>4. LET r == [New EXCEPT !.ref = 0] IN
          /\ r.ref = Closed.ref /\ r.type = Closed.type /\ r.readable = Closed.readable
          /\ r.writable = Closed.writable /\ r.pipe = Closed.pipe
    BY DEF New, Closed
  <2> QED  BY <1>2, <2>1, <2>2, <2>3, <2>4
<1> QED  BY <1>1, <1>2, <1>3, <1>4

\* The call gets the file h, and has nothing else but files without fields.
Gets(p, k, h) ==
  /\ k.op \in {"open", "pipe", "make"}
  /\ \A f \in File : Among(k.files, f) = Among(call[p].files, f) + Hit(h, f)
  /\ \A i \in DOMAIN k.files : k.files[i] \in File /\ (k.files[i] = h \/ files[k.files[i]] = New)

\* filealloc, with the file given to the call.
LEMMA AllocKeeps ==
  ASSUME IInv, NEW p \in Proc, NEW k, OneCall(p, k), NEW h \in File, h \in FreeFile,
         files' = [files EXCEPT ![h].ref = 1],
         UNCHANGED <<procVars, fds, pages, sleeping, panicked>>,
         status[p] = "live", sleeping[p] = None,
         call[p].op \notin {"look", "pipeclose"}, Gets(p, k, h)
  PROVE  IInv'
<1>a. /\ k.op \in {"open", "pipe", "make"}
      /\ \A f \in File : Among(k.files, f) = Among(call[p].files, f) + Hit(h, f)
      /\ \A i \in DOMAIN k.files : k.files[i] \in File /\ (k.files[i] = h \/ files[k.files[i]] = New)
  BY DEF Gets
<1>0. /\ Types /\ StatusInv /\ FileInv /\ RefsAccounted /\ PageInv /\ HoldInv /\ RingInv /\ SleepInv
      /\ UNCHANGED procVars /\ UNCHANGED <<procVars, panicked>> /\ fds' = fds /\ pages' = pages
      /\ sleeping' = sleeping /\ UNCHANGED <<procVars, pages, sleeping>>
  BY DEF IInv, procVars
<1>1. /\ files[h] = Closed /\ files[h].ref = 0
  BY <1>0 DEF FreeFile, FileInv, FileOK
<1>2. files' = [files EXCEPT ![h] = New] /\ files \in [File -> FileRec]
  BY <1>0, <1>1, NewIs DEF Types
<1>3. files'[h] = New /\ New.ref = 1 /\ \A f \in File : f # h => files'[f] = files[f]
  BY <1>2, NewIs
<1>4. FdRefs(h) = {} /\ CallRefs(h) = {}
  BY <1>0, <1>1, Referenced
<1>5. Types'
  <2>1. /\ files' \in [File -> FileRec]
        /\ fds' \in [Proc -> [Fd -> File \cup {None}]]
        /\ pages' \in [Page -> PageRec] /\ sleeping' \in [Proc -> Page \cup {None}]
    <3>1. files' \in [File -> FileRec]
      BY <1>2, NewIs
    <3> QED  BY <1>0, <3>1 DEF Types
  <2> QED  BY <1>0, <2>1, TypesKept
<1>6. StatusInv'
  BY <1>0, StatusKept
<1>7. FileInv'
  <2>1. \A f \in File : FileOK(files'[f])
    BY <1>0, <1>3, NewIs DEF FileInv
  <2>2. \A i \in DOMAIN k.files : files'[k.files[i]] = New
    BY <1>3, <1>a
  <2> QED  BY <1>0, <1>1, <1>3, <2>1, <2>2, FileKept
<1>8. RefsAccounted'
  <2>1. ASSUME NEW f \in File PROVE Balanced(p, k, f)
    <3>1. files'[f].ref = files[f].ref + Hit(h, f) /\ files[f].ref \in Nat
      BY <1>0, <1>1, <1>3 DEF Hit, Types, FileRec
    <3>2. Cardinality(FdSet(fds, f)) \in Nat /\ Among(call[p].files, f) \in Nat /\ Hit(h, f) \in Nat
      BY SetsFinite, AmongNat DEF Has, Hit
    <3>3. \A a, b, c, d \in Nat : (a + b) + (c + d) = a + (c + (d + b))
      OBVIOUS
    <3> QED  BY <1>0, <1>a, <3>1, <3>2, <3>3 DEF Balanced
  <2>2. ASSUME NEW f \in File PROVE LostStays(k, f)
    <3> SUFFICES ASSUME files[f].ref = 1, FdRefs(f) = {}, CallRefs(f) = {}
                 PROVE  files'[f] = files[f] /\ FdSet(fds', f) = {} /\ Among(k.files, f) = 0
      BY DEF LostStays
    <3>1. f # h
      BY <1>1
    <3>2. \A i \in DOMAIN call[p].files : call[p].files[i] # f
      BY <1>0, InRefs
    <3>3. Among(call[p].files, f) = 0
      BY <3>2 DEF Among, Has, Hit
    <3> QED  BY <1>0, <1>3, <1>a, <3>1, <3>3 DEF FdRefs, Hit
  <2> QED  BY <1>0, <2>1, <2>2, RefsKept
<1>9. \A f \in File : /\ files'[f].pipe = files[f].pipe
                      /\ files[f].pipe # None => files'[f].readable = files[f].readable
  BY <1>1, <1>3, NewIs
<1>10. PageInv'
  BY <1>0, <1>9, <1>a, PageKept
<1>11. HoldInv'
  <2>1. k.op \notin {"read", "write"}
    BY <1>a
  <2>2. \A q \in Proc, d \in Fd : fds[q][d] # None => fds[q][d] \in File
    BY <1>0 DEF Types
  <2> QED  BY <1>0, <1>9, <2>1, <2>2, HoldKept
<1>12. RingInv'
  BY <1>0, RingKept
<1>13. SleepInv'
  BY <1>0, SleepSame
<1> QED  BY <1>5, <1>6, <1>7, <1>8, <1>10, <1>11, <1>12, <1>13 DEF IInv

LEMMA OpenAllocKeeps ==
  ASSUME IInv, NEW p \in Proc, NEW m \in Mode, OpenAlloc(p, m), UNCHANGED <<procVars, panicked>>
  PROVE  IInv'
<1>1. PICK f \in File : /\ f \in FreeFile
                        /\ files' = [files EXCEPT ![f].ref = 1]
                        /\ Goes(p, [op |-> "open", files |-> <<f>>, mode |-> m])
  BY DEF OpenAlloc, First
<1>2. Calls(p) /\ UNCHANGED <<procVars, fds, pages, sleeping, panicked>>
  BY DEF OpenAlloc
<1> DEFINE k == [op |-> "open", files |-> <<f>>, mode |-> m]
<1>3. k.op = "open" /\ k.files = <<f>> /\ k \in CallRec
  BY DEF CallRec
<1>4. CallFits(k)
  BY <1>3 DEF CallFits
<1>5. OneCall(p, k)
  BY <1>1, <1>3, <1>4 DEF OneCall, Goes
<1> HIDE DEF k
<1>6. \A g \in File : Among(k.files, g) = Among(call[p].files, g) + Hit(f, g)
  BY <1>2, <1>3, CallsIs, AmongIs DEF Has, Hit
<1>7. \A i \in DOMAIN k.files : k.files[i] \in File /\ (k.files[i] = f \/ files[k.files[i]] = New)
  BY <1>3
<1>8. status[p] = "live" /\ sleeping[p] = None /\ call[p].op \notin {"look", "pipeclose"}
  BY <1>2, CallsIs
<1>9. Gets(p, k, f)
  BY <1>3, <1>6, <1>7 DEF Gets
<1> QED  BY <1>1, <1>2, <1>5, <1>8, <1>9, AllocKeeps

LEMMA PipeFirstKeeps ==
  ASSUME IInv, NEW p \in Proc, PipeFirst(p), UNCHANGED <<procVars, panicked>>
  PROVE  IInv'
<1>1. PICK f \in File : /\ f \in FreeFile
                        /\ files' = [files EXCEPT ![f].ref = 1]
                        /\ Goes(p, [op |-> "pipe", files |-> <<f>>])
  BY DEF PipeFirst, First
<1>2. Calls(p) /\ UNCHANGED <<procVars, fds, pages, sleeping, panicked>>
  BY DEF PipeFirst
<1> DEFINE k == [op |-> "pipe", files |-> <<f>>]
<1>3. k.op = "pipe" /\ k.files = <<f>> /\ k \in CallRec
  BY DEF CallRec
<1>4. CallFits(k)
  BY <1>3 DEF CallFits
<1>5. OneCall(p, k)
  BY <1>1, <1>3, <1>4 DEF OneCall, Goes
<1> HIDE DEF k
<1>6. \A g \in File : Among(k.files, g) = Among(call[p].files, g) + Hit(f, g)
  BY <1>2, <1>3, CallsIs, AmongIs DEF Has, Hit
<1>7. \A i \in DOMAIN k.files : k.files[i] \in File /\ (k.files[i] = f \/ files[k.files[i]] = New)
  BY <1>3
<1>8. status[p] = "live" /\ sleeping[p] = None /\ call[p].op \notin {"look", "pipeclose"}
  BY <1>2, CallsIs
<1>9. Gets(p, k, f)
  BY <1>3, <1>6, <1>7 DEF Gets
<1> QED  BY <1>1, <1>2, <1>5, <1>8, <1>9, AllocKeeps

\* Steps that change where p is in its call, and nothing else.
LEMMA CallOnlyKeeps ==
  ASSUME IInv, NEW p \in Proc, NEW k, OneCall(p, k), status[p] = "live", sleeping[p] = None,
         UNCHANGED <<procVars, fds, files, pages, sleeping, panicked>>,
         k.files = call[p].files \/ RefsAccounted', k.op \notin {"open", "pipe", "make"},
         k.op \in {"look", "pipeclose"} <=> call[p].op \in {"look", "pipeclose"},
         k.op \in {"look", "pipeclose"} => k.pipe = call[p].pipe,
         k.op \in {"read", "write"} =>
           \E d \in Fd : /\ fds[p][d] # None /\ files[fds[p][d]].pipe = k.pipe
                         /\ files[fds[p][d]].readable = (k.op = "read")
  PROVE  IInv'
<1>0. /\ Types /\ StatusInv /\ FileInv /\ RefsAccounted /\ PageInv /\ HoldInv /\ RingInv /\ SleepInv
      /\ UNCHANGED procVars /\ UNCHANGED <<procVars, panicked>> /\ fds' = fds /\ pages' = pages
      /\ sleeping' = sleeping /\ files' = files /\ UNCHANGED <<procVars, pages, sleeping>>
  BY DEF IInv, procVars
<1>1. Types'
  <2>1. /\ files' \in [File -> FileRec]
        /\ fds' \in [Proc -> [Fd -> File \cup {None}]]
        /\ pages' \in [Page -> PageRec] /\ sleeping' \in [Proc -> Page \cup {None}]
    BY <1>0 DEF Types
  <2> QED  BY <1>0, <2>1, TypesKept
<1>2. StatusInv'
  BY <1>0, StatusKept
<1>3. FileInv'
  <2>1. \A f \in File : FileOK(files'[f])
    BY <1>0 DEF FileInv
  <2> QED  BY <1>0, <2>1, FileKept
<1>5. PageInv'
  BY <1>0, PageKept
<1>6. HoldInv'
  BY <1>0, HoldKept
<1>7. RingInv'
  BY <1>0, RingKept
<1>8. SleepInv'
  BY <1>0, SleepSame
<1>9. RefsAccounted' => IInv'
  BY <1>1, <1>2, <1>3, <1>5, <1>6, <1>7, <1>8 DEF IInv
<1>4. CASE k.files = call[p].files
  <2>1. ASSUME NEW f \in File PROVE Balanced(p, k, f)
    BY <1>0, <1>4 DEF Balanced, Types, FileRec
  <2>2. ASSUME NEW f \in File PROVE LostStays(k, f)
    <3>1. \A i \in DOMAIN call[p].files : CallRefs(f) = {} => call[p].files[i] # f
      BY <1>0, InRefs
    <3>2. CallRefs(f) = {} => Among(call[p].files, f) = 0
      BY <3>1 DEF Among, Has, Hit
    <3> QED  BY <1>0, <1>4, <3>2 DEF LostStays, FdRefs
  <2>3. RefsAccounted'
    BY <1>0, <2>1, <2>2, RefsKept
  <2> QED  BY <1>9, <2>3
<1> QED  BY <1>4, <1>9

LEMMA PipeNoPageKeeps ==
  ASSUME IInv, NEW p \in Proc, PipeNoPage(p), UNCHANGED <<procVars, panicked>>
  PROVE  IInv'
<1>1. /\ In(p, "make") /\ call' = [call EXCEPT ![p] = Closing(call[p].files)]
      /\ UNCHANGED <<procVars, fds, files, pages, sleeping, panicked>>
  BY DEF PipeNoPage, Goes
<1>2. call[p].files \in Seq(File) /\ Len(call[p].files) \in 0..2
  BY CallFields DEF IInv, Types
<1> DEFINE k == Closing(call[p].files)
<1>3. OneCall(p, k) /\ k.files = call[p].files /\ k.op \in {"user", "close"}
  BY <1>1, <1>2, ClosingIs DEF OneCall
<1>4. call[p].op = "make" /\ status[p] = "live" /\ sleeping[p] = None
  BY <1>1, InIs
<1> HIDE DEF k
<1> QED  BY <1>1, <1>3, <1>4, CallOnlyKeeps

LEMMA CloseLookKeeps ==
  ASSUME IInv, NEW p \in Proc, CloseLook(p), UNCHANGED <<procVars, panicked>>
  PROVE  IInv'
<1> DEFINE k == [op |-> "pipeclose", files |-> call[p].files, pipe |-> call[p].pipe,
                 writable |-> files[call[p].file].writable]
<1>1. /\ In(p, "look") /\ call' = [call EXCEPT ![p] = k]
      /\ UNCHANGED <<procVars, fds, files, pages, sleeping, panicked>>
  BY DEF CloseLook, Goes
<1>2. call[p].op = "look" /\ status[p] = "live" /\ sleeping[p] = None
  BY <1>1, InIs
<1>3. /\ call[p].files \in Seq(File) /\ call[p].file \in File /\ call[p].pipe \in Page
      /\ Len(call[p].files) \in 0..1
  BY <1>2, CallFields DEF IInv, Types, Inside, CallFits
<1>4. files[call[p].file].writable \in BOOLEAN
  BY <1>3 DEF IInv, Types, FileRec
<1>5. k \in CallRec /\ k.op = "pipeclose" /\ k.files = call[p].files /\ k.pipe = call[p].pipe
  BY <1>3, <1>4 DEF CallRec
<1>6. CallFits(k)
  <2> HIDE DEF k
  <2> QED  BY <1>3, <1>5 DEF CallFits
<1>7. OneCall(p, k)
  BY <1>1, <1>5, <1>6 DEF OneCall
<1> HIDE DEF k
<1> QED  BY <1>1, <1>2, <1>5, <1>7, CallOnlyKeeps

LEMMA PipeSecondKeeps ==
  ASSUME IInv, NEW p \in Proc, PipeSecond(p), UNCHANGED <<procVars, panicked>>
  PROVE  IInv'
<1> DEFINE g == call[p].files[1]
<1>0. Types /\ RefsAccounted /\ FileInv
  BY DEF IInv
<1>1. /\ In(p, "pipe") /\ UNCHANGED <<procVars, fds, pages, sleeping, panicked>>
      /\ call[p].op = "pipe" /\ status[p] = "live" /\ sleeping[p] = None
  BY InIs DEF PipeSecond
<1>2. call[p].files \in Seq(File) /\ Len(call[p].files) = 1
  BY <1>0, <1>1, CallFields DEF Types, CallFits
<1>3. g \in File /\ call[p].files = <<g>> /\ 1 \in DOMAIN call[p].files
  BY <1>2, ShortSeqs
<1>4. files[g] = New /\ FdRefs(g) = {} /\ CallRefs(g) = {<<p, 1>>} /\ Holders(g) = 1
  BY <1>0, <1>1, <1>3, Sole
<1> HIDE DEF g
<1>5. \A f \in File : Among(call[p].files, f) = Hit(g, f)
  BY <1>3, AmongIs
<1>6. ASSUME NEW f \in FreeFile, files' = [files EXCEPT ![f].ref = 1],
             Goes(p, [op |-> "make", files |-> Append(call[p].files, f)])
      PROVE  IInv'
  <2> DEFINE k == [op |-> "make", files |-> <<g, f>>]
  <2>0. f \in File
    BY <1>6 DEF FreeFile
  <2>1. call' = [call EXCEPT ![p] = k]
    <3> DEFINE t == Append(call[p].files, f)
    <3>1. t \in Seq(File) /\ Len(t) = 2 /\ t[1] = g /\ t[2] = f
      BY <1>2, <1>3, <2>0, AppendProperties
    <3> HIDE DEF t
    <3>2. t = <<g, f>>
      BY <3>1, ShortSeqs
    <3> QED  BY <1>6, <3>2 DEF Goes, t
  <2>2. k.op = "make" /\ k.files = <<g, f>> /\ k \in CallRec
    BY <1>3, <2>0 DEF CallRec
  <2>3. CallFits(k)
    <3> HIDE DEF k
    <3> QED  BY <2>2 DEF CallFits
  <2>4. OneCall(p, k)
    BY <2>1, <2>2, <2>3 DEF OneCall
  <2> HIDE DEF k
  <2>5. Gets(p, k, f)
    <3>1. \A h \in File : Among(k.files, h) = Among(call[p].files, h) + Hit(f, h)
      BY <1>5, <2>2, AmongIs
    <3>2. \A i \in DOMAIN k.files : k.files[i] = g \/ k.files[i] = f
      BY <2>2
    <3> QED  BY <1>3, <1>4, <2>0, <2>2, <3>1, <3>2 DEF Gets
  <2> QED  BY <1>1, <1>6, <2>0, <2>4, <2>5, AllocKeeps
<1>7. ASSUME Goes(p, User), files' = files PROVE IInv'
  <2>1. User \in CallRec /\ CallFits(User) /\ User.op = "user" /\ User.files = <<>>
    <3>1. User \in CallRec /\ User.op = "user" /\ User.files = <<>>
      BY DEF User, CallRec
    <3> QED  BY <3>1 DEF CallFits
  <2>2. OneCall(p, User)
    BY <1>7, <2>1 DEF OneCall, Goes
  <2>3. ASSUME NEW f \in File
        PROVE  \/ files'[f].ref = Holders(f)'
               \/ files'[f].ref = 1 /\ Holders(f)' = 0 /\ [files'[f] EXCEPT !.ref = 0] = Closed
    <3>1. Cardinality(CallSet(call', f)) + Hit(g, f) = Cardinality(CallSet(call, f)) + 0
      <4>1. Len(call[p].files) <= 2 /\ Len(User.files) <= 2
        BY <1>2, <2>1
      <4>2. call \in [Proc -> CallRec] /\ call' = [call EXCEPT ![p] = User]
        BY <1>0, <2>2 DEF Types, OneCall
      <4>3. Cardinality(CallSet(call', f)) + Among(call[p].files, f)
              = Cardinality(CallSet(call, f)) + Among(User.files, f)
        BY <2>1, <4>1, <4>2, CallOne
      <4> QED  BY <1>5, <4>3, AmongIs
    <3>2. Cardinality(FdSet(fds', f)) = Cardinality(FdSet(fds, f))
      BY <1>1
    <3>3. Holders(f) = Cardinality(FdSet(fds, f)) + Cardinality(CallSet(call, f))
          /\ Holders(f)' = Cardinality(FdSet(fds', f)) + Cardinality(CallSet(call', f))
      BY HoldersIs DEF FdRefs, CallRefs
    <3>4. /\ Cardinality(CallSet(call, f)) \in Nat /\ Cardinality(CallSet(call', f)) \in Nat
          /\ Cardinality(FdSet(fds, f)) \in Nat
      BY SetsFinite
    <3>5. CASE f = g
      <4>1. Hit(g, f) = 1 /\ files[f].ref = 1 /\ [files[f] EXCEPT !.ref = 0] = Closed
        BY <1>4, <3>5, NewIs DEF Hit
      <4>2. Holders(f)' = 0
        BY <1>4, <3>1, <3>2, <3>3, <3>4, <3>5, <4>1
      <4> QED  BY <1>7, <4>1, <4>2
    <3>6. CASE f # g
      <4>1. Hit(g, f) = 0
        BY <3>6 DEF Hit
      <4>2. Holders(f)' = Holders(f)
        BY <3>1, <3>2, <3>3, <3>4, <4>1
      <4> QED  BY <1>0, <1>7, <4>2 DEF RefsAccounted
    <3> QED  BY <3>5, <3>6
  <2>4. RefsAccounted'
    BY <2>3 DEF RefsAccounted
  <2> QED  BY <1>1, <1>7, <2>1, <2>2, <2>4, CallOnlyKeeps
<1> QED  BY <1>6, <1>7 DEF PipeSecond, First

LEMMA StartKeeps ==
  ASSUME IInv, NEW p \in Proc, NEW d \in Fd, Calls(p), fds[p][d] # None,
         NEW o \in {"read", "write"}, NEW n \in Nat, NEW buf \in Seq(Nat),
         files[fds[p][d]].type = "pipe", files[fds[p][d]].readable = (o = "read"),
         o = "read" => n <= MaxRead /\ Len(buf) < n, o = "write" => Len(buf) \in 1..Size,
         Goes(p, [op |-> o, files |-> <<>>, pipe |-> files[fds[p][d]].pipe, n |-> n, buf |-> buf]),
         UNCHANGED <<procVars, fds, files, pages, sleeping, panicked>>
  PROVE  IInv'
<1> DEFINE f == fds[p][d]
           k == [op |-> o, files |-> <<>>, pipe |-> files[f].pipe, n |-> n, buf |-> buf]
<1>1. f \in File /\ files[f].pipe \in Page
  BY DEF IInv, Types, FileRec, FileInv, FileOK
<1> HIDE DEF f
<1>2. k.op = o /\ k.files = <<>> /\ k.pipe = files[f].pipe /\ k.n = n /\ k.buf = buf /\ k \in CallRec
  BY <1>1 DEF CallRec
<1>3. call' = [call EXCEPT ![p] = k]
  BY DEF Goes, f
<1> HIDE DEF k
<1>4. OneCall(p, k)
  <2>1. CallFits(k)
    BY <1>2 DEF CallFits
  <2> QED  BY <1>2, <1>3, <2>1 DEF OneCall
<1>5. \E e \in Fd : /\ fds[p][e] # None /\ files[fds[p][e]].pipe = k.pipe
                    /\ files[fds[p][e]].readable = (k.op = "read")
  BY <1>2 DEF f
<1>6. /\ status[p] = "live" /\ sleeping[p] = None /\ call[p].op = "user"
      /\ call[p].files = <<>>
  BY CallsIs
<1> QED  BY <1>2, <1>4, <1>5, <1>6, CallOnlyKeeps

LEMMA StartReadKeeps ==
  ASSUME IInv, NEW p \in Proc, NEW d \in Fd, NEW n \in 1..MaxRead, StartRead(p, d, n),
         UNCHANGED <<procVars, panicked>>
  PROVE  IInv'
<1>1. n \in Nat /\ n <= MaxRead /\ Len(<<>>) < n /\ <<>> \in Seq(Nat)
  BY PipeAssumption
<1>2. /\ Calls(p) /\ fds[p][d] # None
      /\ files[fds[p][d]].type = "pipe" /\ files[fds[p][d]].readable
      /\ Goes(p, [op |-> "read", files |-> <<>>, pipe |-> files[fds[p][d]].pipe, n |-> n, buf |-> <<>>])
      /\ UNCHANGED <<procVars, fds, files, pages, sleeping, panicked>>
  BY DEF StartRead
<1>3. files[fds[p][d]].readable = ("read" = "read")
  BY <1>2
<1> QED  BY <1>1, <1>2, <1>3, StartKeeps

LEMMA StartWriteKeeps ==
  ASSUME IInv, NEW p \in Proc, NEW d \in Fd, NEW s \in Chunk, StartWrite(p, d, s),
         UNCHANGED <<procVars, panicked>>
  PROVE  IInv'
<1>1. s \in Seq(Nat) /\ Len(s) \in 1..Size /\ Len(s) \in Nat
  <2>1. s \in Seq(Nat \ {0}) /\ Len(s) \in 1..Size
    BY PipeAssumption
  <2> QED  BY <2>1, PipeAssumption
<1>2. /\ Calls(p) /\ fds[p][d] # None
      /\ files[fds[p][d]].type = "pipe" /\ files[fds[p][d]].writable
      /\ Goes(p, [op |-> "write", files |-> <<>>, pipe |-> files[fds[p][d]].pipe,
                  n |-> Len(s), buf |-> s])
      /\ UNCHANGED <<procVars, fds, files, pages, sleeping, panicked>>
  BY DEF StartWrite
<1>3. files[fds[p][d]].readable = ("write" = "read")
  <2>1. fds[p][d] \in File
    BY <1>2 DEF IInv, Types
  <2>2. files[fds[p][d]].writable = ~files[fds[p][d]].readable
        /\ files[fds[p][d]].readable \in BOOLEAN
    BY <1>2, <2>1 DEF IInv, Types, FileInv, FileOK, FileRec
  <2> QED  BY <1>2, <2>2
<1> QED  BY <1>1, <1>2, <1>3, StartKeeps

\* No pipe gains or loses an end, and only files p refers to change.
FilesQuiet(p) ==
  \A f \in File :
    /\ FileOK(files'[f])
    /\ \/ files'[f] = files[f]
       \/ \E i \in DOMAIN call[p].files : call[p].files[i] = f
       \/ FdRefs(f) # {}
    /\ files'[f].pipe = files[f].pipe
    /\ files[f].pipe # None => files'[f].readable = files[f].readable

LEMMA QuietKeeps ==
  ASSUME IInv, NEW p \in Proc, NEW k, OneCall(p, k), status[p] = "live", sleeping[p] = None,
         UNCHANGED <<procVars, pages, sleeping, panicked>>,
         fds' \in [Proc -> [Fd -> File \cup {None}]], \A q \in Proc : q # p => fds'[q] = fds[q],
         files' \in [File -> FileRec], FilesQuiet(p),
         \A f \in File : Balanced(p, k, f) /\ LostStays(k, f),
         k.op \in {"user", "close"}, call[p].op \in {"user", "open", "close"}
  PROVE  IInv'
<1>0. /\ Types /\ StatusInv /\ FileInv /\ RefsAccounted /\ PageInv /\ HoldInv /\ RingInv /\ SleepInv
      /\ UNCHANGED procVars /\ UNCHANGED <<procVars, panicked>> /\ pages' = pages
      /\ sleeping' = sleeping /\ UNCHANGED <<procVars, pages, sleeping>>
  BY DEF IInv, procVars
<1>1. Types'
  <2>1. pages' \in [Page -> PageRec] /\ sleeping' \in [Proc -> Page \cup {None}]
    BY <1>0 DEF Types
  <2> QED  BY <1>0, <2>1, TypesKept
<1>2. StatusInv'
  BY <1>0, StatusKept
<1>3. FileInv'
  BY <1>0, FileKept DEF FilesQuiet
<1>4. RefsAccounted'
  BY <1>0, RefsKept
<1>5. PageInv'
  BY <1>0, PageKept DEF FilesQuiet
<1>6. HoldInv'
  <2>1. \A q \in Proc, d \in Fd : fds[q][d] # None => fds[q][d] \in File
    BY <1>0 DEF Types
  <2>2. \A q \in Proc, d \in Fd :
          fds[q][d] # None /\ files[fds[q][d]].pipe # None =>
            /\ files'[fds[q][d]].pipe = files[fds[q][d]].pipe
            /\ files'[fds[q][d]].readable = files[fds[q][d]].readable
    BY <2>1 DEF FilesQuiet
  <2> QED  BY <1>0, <2>2, HoldKept
<1>7. RingInv'
  BY <1>0, RingKept
<1>8. SleepInv'
  BY <1>0, SleepSame
<1> QED  BY <1>1, <1>2, <1>3, <1>4, <1>5, <1>6, <1>7, <1>8 DEF IInv

\* One descriptor is assigned.
Assigned(p, d, h) ==
  /\ fds' \in [Proc -> [Fd -> File \cup {None}]]
  /\ \A q \in Proc : q # p => fds'[q] = fds[q]
  /\ \A f \in File :
       /\ Cardinality(FdSet(fds', f)) + Hit(fds[p][d], f) = Cardinality(FdSet(fds, f)) + Hit(h, f)
       /\ FdRefs(f) = {} /\ h # f => FdSet(fds', f) = {}

Assigns(p, d, h) == fds' = [fds EXCEPT ![p][d] = h]

LEMMA FdAssigned ==
  ASSUME IInv, NEW p \in Proc, NEW d \in Fd, NEW h \in File \cup {None}, Assigns(p, d, h)
  PROVE  Assigned(p, d, h)
<1>1. fds \in [Proc -> [Fd -> File \cup {None}]]
  BY DEF IInv, Types
<1>2. \A q \in Proc : q # p => fds'[q] = fds[q]
  BY <1>1 DEF Assigns
<1>3. ASSUME NEW f \in File
      PROVE  Cardinality(FdSet(fds', f)) + Hit(fds[p][d], f) = Cardinality(FdSet(fds, f)) + Hit(h, f)
  <2>1. fds' \in [Proc -> [Fd -> File \cup {None}]] /\ fds'[p][d] = h
    BY <1>1 DEF Assigns
  <2>2. OnlyAt(fds, fds', p, d)
    BY <1>1 DEF Assigns, OnlyAt
  <2>3. fds \in FdTable /\ fds' \in FdTable
    BY <1>1, <2>1 DEF FdTable
  <2>4. Cardinality(FdSet(fds', f)) + Hit(fds[p][d], f) = Cardinality(FdSet(fds, f)) + Hit(fds'[p][d], f)
    BY <2>2, <2>3, FdOne
  <2> QED  BY <2>1, <2>4
<1>4. ASSUME NEW f \in File, FdRefs(f) = {}, h # f PROVE FdSet(fds', f) = {}
  BY <1>1, <1>4 DEF Assigns, FdRefs, FdSet
<1>5. fds' \in [Proc -> [Fd -> File \cup {None}]]
  BY <1>1 DEF Assigns
<1> QED  BY <1>2, <1>3, <1>4, <1>5 DEF Assigned

LEMMA UserFits == User \in CallRec /\ CallFits(User) /\ User.op = "user" /\ User.files = <<>>
<1>1. User \in CallRec /\ User.op = "user" /\ User.files = <<>>
  BY DEF User, CallRec
<1> QED  BY <1>1 DEF CallFits

LEMMA Sums ==
  /\ \A f, g : Hit(f, g) \in {0, 1}
  /\ \A f, g : f # g => Hit(f, g) = 0
  /\ \A f : Hit(f, f) = 1
BY DEF Hit

LEMMA DupKeeps ==
  ASSUME IInv, NEW p \in Proc, NEW d \in Fd, Dup(p, d), UNCHANGED <<procVars, panicked>>
  PROVE  IInv'
<1> DEFINE h == fds[p][d]
<1>0. Types /\ RefsAccounted /\ FileInv
  BY DEF IInv
<1>1. /\ Calls(p) /\ h # None
      /\ files' = [files EXCEPT ![h].ref = @ + 1]
      /\ call' = call /\ UNCHANGED <<procVars, pages, sleeping, panicked>>
  BY DEF Dup
<1>2. PICK e \in Fd : fds[p][e] = None /\ fds' = [fds EXCEPT ![p][e] = h]
  BY DEF Dup, First, FreeFd
<1>3. h \in File /\ FdRefs(h) # {}
  BY <1>0, <1>1, InRefs
<1> HIDE DEF h
<1>4. status[p] = "live" /\ sleeping[p] = None /\ call[p] = User
  BY <1>1, CallsIs
<1>5. OneCall(p, User)
  <2>1. call' = [call EXCEPT ![p] = User]
    BY <1>0, <1>1, <1>4 DEF Types
  <2> QED  BY <2>1, UserFits DEF OneCall
<1>6. /\ fds' \in [Proc -> [Fd -> File \cup {None}]]
      /\ \A q \in Proc : q # p => fds'[q] = fds[q]
      /\ \A f \in File :
           /\ Cardinality(FdSet(fds', f)) + Hit(fds[p][e], f)
                = Cardinality(FdSet(fds, f)) + Hit(h, f)
           /\ FdRefs(f) = {} /\ h # f => FdSet(fds', f) = {}
  <2>1. Assigned(p, e, h)
    BY <1>2, <1>3, FdAssigned DEF Assigns
  <2> QED  BY <2>1 DEF Assigned
<1>7. files \in [File -> FileRec] /\ files[h].ref \in Nat /\ files[h].ref >= 1
  BY <1>0, <1>3, Referenced DEF Types
<1>8. /\ files' \in [File -> FileRec]
      /\ \A f \in File : f # h => files'[f] = files[f]
      /\ files'[h].ref = files[h].ref + 1 /\ files'[h].pipe = files[h].pipe
      /\ files'[h].readable = files[h].readable /\ files'[h].writable = files[h].writable
      /\ files'[h].type = files[h].type
  BY <1>1, <1>3, <1>7 DEF FileRec
<1>9. FilesQuiet(p)
  <2>1. FileOK(files'[h])
    <3>1. FileOK(files[h])
      BY <1>0, <1>3 DEF FileInv
    <3>2. files'[h].ref # 0
      BY <1>7, <1>8
    <3> QED  BY <1>8, <3>1, <3>2 DEF FileOK
  <2> QED  BY <1>0, <1>3, <1>8, <2>1 DEF FilesQuiet, FileInv
<1>10. ASSUME NEW f \in File PROVE Balanced(p, User, f) /\ LostStays(User, f)
  <2>1. /\ Cardinality(FdSet(fds', f)) = Cardinality(FdSet(fds, f)) + Hit(h, f)
        /\ Cardinality(FdSet(fds, f)) \in Nat
    <3>1. Hit(fds[p][e], f) = 0 /\ Hit(h, f) \in Nat
      BY <1>2, Constants DEF Hit
    <3>2. Cardinality(FdSet(fds', f)) \in Nat /\ Cardinality(FdSet(fds, f)) \in Nat
      BY SetsFinite
    <3> QED  BY <1>6, <3>1, <3>2
  <2>2. files'[f].ref = files[f].ref + Hit(h, f) /\ files[f].ref \in Nat /\ Hit(h, f) \in Nat
    BY <1>0, <1>8 DEF Hit, Types, FileRec
  <2>3. Among(call[p].files, f) = 0 /\ Among(User.files, f) = 0
    BY <1>4, AmongIs
  <2>4. Balanced(p, User, f)
    <3>1. \A a, b, c \in Nat : (a + b) \in Nat /\ (a + b) + (c + 0) = a + ((c + b) + 0)
      OBVIOUS
    <3> QED  BY <2>1, <2>2, <2>3, <3>1 DEF Balanced
  <2>5. LostStays(User, f)
    BY <1>3, <1>6, <1>8, <2>3 DEF LostStays
  <2> QED  BY <2>4, <2>5
<1>11. User.op \in {"user", "close"} /\ call[p].op \in {"user", "open", "close"}
  BY <1>4, UserFits
<1> QED  BY <1>1, <1>4, <1>5, <1>6, <1>8, <1>9, <1>10, <1>11, QuietKeeps

LEMMA CloseKeeps ==
  ASSUME IInv, NEW p \in Proc, NEW d \in Fd, Close(p, d), UNCHANGED <<procVars, panicked>>
  PROVE  IInv'
<1> DEFINE h == fds[p][d]
           k == Closing(<<h>>)
<1>0. Types /\ RefsAccounted /\ FileInv
  BY DEF IInv
<1>1. /\ Calls(p) /\ h # None
      /\ fds' = [fds EXCEPT ![p][d] = None]
      /\ call' = [call EXCEPT ![p] = k] /\ files' = files
      /\ UNCHANGED <<procVars, pages, sleeping, panicked>>
  BY DEF Close, Goes
<1>3. h \in File /\ FdRefs(h) # {}
  BY <1>0, <1>1, InRefs
<1>4. status[p] = "live" /\ sleeping[p] = None /\ call[p] = User
  BY <1>1, CallsIs
<1>5. OneCall(p, k) /\ k.files = <<h>> /\ k.op \in {"user", "close"}
  <2> HIDE DEF h
  <2>1. <<h>> \in Seq(File) /\ Len(<<h>>) \in 0..2
    BY <1>3
  <2> QED  BY <1>1, <2>1, ClosingIs DEF OneCall
<1> HIDE DEF k
<1>6. /\ fds' \in [Proc -> [Fd -> File \cup {None}]]
      /\ \A q \in Proc : q # p => fds'[q] = fds[q]
      /\ \A f \in File :
           /\ Cardinality(FdSet(fds', f)) + Hit(h, f)
                = Cardinality(FdSet(fds, f)) + Hit(None, f)
           /\ FdRefs(f) = {} /\ None # f => FdSet(fds', f) = {}
  <2>1. Assigned(p, d, None)
    BY <1>1, FdAssigned DEF Assigns
  <2> QED  BY <2>1 DEF Assigned, h
<1> HIDE DEF h
<1>8. files' \in [File -> FileRec]
  BY <1>0, <1>1 DEF Types
<1>9. FilesQuiet(p)
  BY <1>0, <1>1 DEF FilesQuiet, FileInv
<1>10. ASSUME NEW f \in File PROVE Balanced(p, k, f) /\ LostStays(k, f)
  <2>1. /\ Cardinality(FdSet(fds', f)) + Hit(h, f) = Cardinality(FdSet(fds, f))
        /\ Cardinality(FdSet(fds, f)) \in Nat
    <3>1. Hit(None, f) = 0 /\ Hit(h, f) \in Nat
      BY Constants DEF Hit
    <3>2. Cardinality(FdSet(fds', f)) \in Nat /\ Cardinality(FdSet(fds, f)) \in Nat
      BY SetsFinite
    <3> QED  BY <1>6, <3>1, <3>2
  <2>2. files'[f].ref = files[f].ref /\ files[f].ref \in Nat
    BY <1>0, <1>1 DEF Types, FileRec
  <2>3. Among(call[p].files, f) = 0 /\ Among(k.files, f) = Hit(h, f)
    BY <1>4, <1>5, AmongIs
  <2>4. Balanced(p, k, f)
    BY <2>1, <2>2, <2>3 DEF Balanced
  <2>5. LostStays(k, f)
    BY <1>1, <1>3, <1>6, <2>3, Constants DEF LostStays, Hit
  <2> QED  BY <2>4, <2>5
<1>11. call[p].op \in {"user", "open", "close"}
  BY <1>4, UserFits
<1> QED  BY <1>1, <1>4, <1>5, <1>6, <1>8, <1>9, <1>10, <1>11, QuietKeeps

LEMMA OpenSetKeeps ==
  ASSUME IInv, NEW p \in Proc, OpenSet(p), UNCHANGED <<procVars, panicked>>
  PROVE  IInv'
<1> DEFINE h == call[p].files[1]
           m == call[p].mode
<1>0. Types /\ RefsAccounted /\ FileInv
  BY DEF IInv
<1>1. /\ In(p, "open") /\ call[p].op = "open" /\ status[p] = "live" /\ sleeping[p] = None
      /\ files' = [files EXCEPT ![h].type = "other", ![h].readable = m[1], ![h].writable = m[2]]
      /\ UNCHANGED <<procVars, pages, sleeping, panicked>>
  BY InIs DEF OpenSet
<1>2. call[p].files \in Seq(File) /\ Len(call[p].files) = 1 /\ m[1] \in BOOLEAN /\ m[2] \in BOOLEAN
  <2>1. m \in Mode /\ call[p].files \in Seq(File) /\ Len(call[p].files) = 1
    BY <1>0, <1>1, CallFields DEF Types, CallFits
  <2>2. m \in BOOLEAN \X BOOLEAN
    BY <2>1, PipeAssumption
  <2> QED  BY <2>1, <2>2
<1>3. h \in File /\ call[p].files = <<h>> /\ 1 \in DOMAIN call[p].files
  BY <1>2, ShortSeqs
<1>4. /\ files[h] = New /\ FdRefs(h) = {} /\ CallRefs(h) = {<<p, 1>>} /\ Holders(h) = 1
      /\ files[h].ref = 1 /\ files[h].pipe = None
  BY <1>0, <1>1, <1>3, Sole, NewIs
<1> HIDE DEF h, m
<1>5. \A f \in File : Among(call[p].files, f) = Hit(h, f)
  BY <1>3, AmongIs
<1>6. /\ files' \in [File -> FileRec]
      /\ \A f \in File : f # h => files'[f] = files[f]
      /\ files'[h].ref = 1 /\ files'[h].pipe = None /\ files'[h].type = "other"
  <2>1. files \in [File -> FileRec]
    BY <1>0 DEF Types
  <2>2. [files[h] EXCEPT !.type = "other", !.readable = m[1], !.writable = m[2]] \in FileRec
    BY <1>2, <1>4, NewIs DEF FileRec
  <2>3. files' = [files EXCEPT ![h] = [files[h] EXCEPT !.type = "other", !.readable = m[1],
                                                       !.writable = m[2]]]
    BY <1>1, <1>3, <2>1
  <2>4. files' \in [File -> FileRec] /\ \A f \in File : f # h => files'[f] = files[f]
    BY <1>3, <2>1, <2>2, <2>3
  <2>5. files'[h] = [files[h] EXCEPT !.type = "other", !.readable = m[1], !.writable = m[2]]
    BY <1>3, <2>1, <2>3
  <2>6. files'[h].ref = 1 /\ files'[h].pipe = None /\ files'[h].type = "other"
    <3>1. files[h] \in FileRec
      BY <1>4, NewIs
    <3> QED  BY <1>4, <2>5, <3>1 DEF FileRec
  <2> QED  BY <2>4, <2>6
<1>7. FilesQuiet(p)
  <2>1. FileOK(files'[h])
    BY <1>6 DEF FileOK
  <2> QED  BY <1>0, <1>3, <1>4, <1>6, <2>1 DEF FilesQuiet, FileInv
<1>8. ASSUME NEW f \in File
      PROVE  /\ files'[f].ref = files[f].ref /\ files[f].ref \in Nat
             /\ FdRefs(f) = {} /\ CallRefs(f) = {} => h # f
             /\ Cardinality(FdSet(fds, f)) \in Nat
             /\ Hit(h, f) \in Nat
  BY <1>0, <1>4, <1>6, SetsFinite DEF Types, FileRec, Hit
<1>9. ASSUME NEW e \in FreeFd(p), fds' = [fds EXCEPT ![p][e] = h], Goes(p, User)
      PROVE  IInv'
  <2>1. e \in Fd /\ fds[p][e] = None
    BY <1>9 DEF FreeFd
  <2>2. OneCall(p, User)
    BY <1>9, UserFits DEF OneCall, Goes
  <2>3. /\ fds' \in [Proc -> [Fd -> File \cup {None}]]
        /\ \A q \in Proc : q # p => fds'[q] = fds[q]
        /\ \A f \in File :
             /\ Cardinality(FdSet(fds', f)) + Hit(fds[p][e], f)
                  = Cardinality(FdSet(fds, f)) + Hit(h, f)
             /\ FdRefs(f) = {} /\ h # f => FdSet(fds', f) = {}
    <3>1. Assigned(p, e, h)
      BY <1>3, <1>9, <2>1, FdAssigned DEF Assigns
    <3> QED  BY <3>1 DEF Assigned
  <2>4. ASSUME NEW f \in File PROVE Balanced(p, User, f) /\ LostStays(User, f)
    <3>1. Cardinality(FdSet(fds', f)) = Cardinality(FdSet(fds, f)) + Hit(h, f)
      <4>1. Hit(fds[p][e], f) = 0
        BY <2>1, Constants DEF Hit
      <4>2. Cardinality(FdSet(fds', f)) \in Nat
        BY SetsFinite
      <4> QED  BY <2>3, <4>1, <4>2
    <3>2. Among(call[p].files, f) = Hit(h, f) /\ Among(User.files, f) = 0
      BY <1>5, AmongIs
    <3>3. Balanced(p, User, f)
      BY <1>8, <3>1, <3>2 DEF Balanced
    <3>4. LostStays(User, f)
      BY <1>6, <1>8, <2>3, <3>2 DEF LostStays
    <3> QED  BY <3>3, <3>4
  <2>5. User.op \in {"user", "close"} /\ call[p].op \in {"user", "open", "close"}
    BY <1>1, UserFits
  <2> QED  BY <1>1, <1>6, <1>7, <2>2, <2>3, <2>4, <2>5, QuietKeeps
<1>10. ASSUME Goes(p, Closing(<<h>>)), fds' = fds PROVE IInv'
  <2> DEFINE k == Closing(<<h>>)
  <2>1. OneCall(p, k) /\ k.files = <<h>> /\ k.op \in {"user", "close"}
    <3>1. <<h>> \in Seq(File) /\ Len(<<h>>) \in 0..2
      BY <1>3
    <3> QED  BY <1>10, <3>1, ClosingIs DEF OneCall, Goes
  <2> HIDE DEF k
  <2>2. ASSUME NEW f \in File PROVE Balanced(p, k, f) /\ LostStays(k, f)
    <3>1. Among(call[p].files, f) = Hit(h, f) /\ Among(k.files, f) = Hit(h, f)
      BY <1>5, <2>1, AmongIs
    <3>2. Balanced(p, k, f)
      BY <1>8, <1>10, <3>1 DEF Balanced
    <3>3. LostStays(k, f)
      BY <1>6, <1>8, <1>10, <3>1 DEF LostStays, FdRefs, Hit
    <3> QED  BY <3>2, <3>3
  <2>3. /\ fds' \in [Proc -> [Fd -> File \cup {None}]]
        /\ \A q \in Proc : q # p => fds'[q] = fds[q]
    BY <1>0, <1>10 DEF Types
  <2>4. call[p].op \in {"user", "open", "close"}
    BY <1>1
  <2> QED  BY <1>1, <1>6, <1>7, <2>1, <2>2, <2>3, <2>4, QuietKeeps
<1>11. \/ \E e \in FreeFd(p) : fds' = [fds EXCEPT ![p][e] = h] /\ Goes(p, User)
       \/ Goes(p, Closing(<<h>>)) /\ fds' = fds
  BY DEF OpenSet, First, h
<1> QED  BY <1>9, <1>10, <1>11

LEMMA PageFinite ==
  ASSUME NEW fs, NEW c, NEW g
  PROVE  /\ IsFiniteSet(Ends(fs, g)) /\ Cardinality(Ends(fs, g)) \in Nat
         /\ IsFiniteSet(Closers(c, g)) /\ Cardinality(Closers(c, g)) \in Nat
<1>1. Ends(fs, g) \in SUBSET File /\ Closers(c, g) \in SUBSET Proc
  BY DEF Ends, Closers
<1>2. IsFiniteSet(Ends(fs, g)) /\ IsFiniteSet(Closers(c, g))
  BY <1>1, Constants, FS_Subset
<1> QED  BY <1>2, FS_CardinalityType

LEMMA HeadTail ==
  ASSUME NEW s \in Seq(File), Len(s) \in 1..2
  PROVE  /\ Head(s) \in File /\ 1 \in DOMAIN s /\ s[1] = Head(s)
         /\ Tail(s) \in Seq(File) /\ Len(Tail(s)) = Len(s) - 1 /\ Len(Tail(s)) \in 0..1
         /\ \A f : Among(s, f) = Hit(Head(s), f) + Among(Tail(s), f)
<1>1. s # <<>> /\ Len(s) \in Nat /\ DOMAIN s = 1..Len(s) /\ 1 \in DOMAIN s
  BY LenProperties, EmptySeq
<1>2. /\ Head(s) = s[1] /\ Head(s) \in File
      /\ Tail(s) \in Seq(File) /\ Len(Tail(s)) = Len(s) - 1
      /\ \A i \in 1..(Len(s) - 1) : Tail(s)[i] = s[i + 1]
  BY <1>1, HeadTailProperties
<1> DEFINE t == Tail(s)
<1>3. /\ Head(s) = s[1] /\ t \in Seq(File) /\ Len(t) = Len(s) - 1
      /\ Len(s) = 2 => t[1] = s[2]
  BY <1>1, <1>2
<1> HIDE DEF t
<1>4. \A f : Among(s, f) = Hit(s[1], f) + Among(t, f)
  <2>1. CASE Len(s) = 1
    <3>1. s = <<s[1]>> /\ t = <<>>
      BY <1>3, <2>1, ShortSeqs
    <3>2. \A f : Among(s, f) = Hit(s[1], f)
      <4>1. PICK a : s = <<a>> /\ s[1] = a
        BY <3>1
      <4>2. \A f : Among(<<a>>, f) = Hit(a, f)
        BY AmongIs
      <4> QED  BY <4>1, <4>2
    <3>3. \A f : Among(t, f) = 0
      BY <3>1, AmongIs
    <3> QED  BY <3>2, <3>3, Sums
  <2>2. CASE Len(s) = 2
    <3>1. s = <<s[1], s[2]>>
      BY <2>2, ShortSeqs
    <3>2. Len(t) = 1
      BY <1>3, <2>2
    <3>3. t = <<s[2]>>
      BY <1>3, <2>2, <3>2, ShortSeqs
    <3>4. \A f : Among(s, f) = Hit(s[1], f) + Hit(s[2], f)
      <4>1. PICK a, b : s = <<a, b>> /\ s[1] = a /\ s[2] = b
        BY <3>1
      <4>2. \A f : Among(<<a, b>>, f) = Hit(a, f) + Hit(b, f)
        BY AmongIs
      <4> QED  BY <4>1, <4>2
    <3>5. \A f : Among(t, f) = Hit(s[2], f)
      BY <3>3, AmongIs
    <3> QED  BY <3>4, <3>5
  <2> QED  BY <2>1, <2>2
<1>5. Len(t) \in 0..1
  BY <1>3
<1> QED  BY <1>1, <1>2, <1>3, <1>4, <1>5 DEF t

LEMMA CloseRefKeeps ==
  ASSUME IInv, NEW p \in Proc, CloseRef(p), UNCHANGED <<procVars, panicked>>
  PROVE  IInv'
<1> DEFINE s == call[p].files
           f == Head(s)
           rest == Tail(s)
           g == files[f].pipe
<1>0. /\ Types /\ StatusInv /\ FileInv /\ RefsAccounted /\ PageInv /\ HoldInv /\ RingInv /\ SleepInv
  BY DEF IInv
<1>1. /\ In(p, "close") /\ call[p].op = "close" /\ status[p] = "live" /\ sleeping[p] = None
      /\ files' = Dropped(f) /\ fds' = fds /\ pages' = pages /\ sleeping' = sleeping
      /\ UNCHANGED procVars /\ UNCHANGED <<procVars, pages, sleeping, panicked>>
  BY InIs DEF CloseRef
<1>2. s \in Seq(File) /\ Len(s) \in 1..2
  BY <1>0, <1>1, CallFields DEF Types, CallFits
<1>3. /\ f \in File /\ 1 \in DOMAIN s /\ s[1] = f
      /\ rest \in Seq(File) /\ Len(rest) \in 0..1
      /\ \A x : Among(s, x) = Hit(f, x) + Among(rest, x)
  BY <1>2, HeadTail
<1>4. <<p, 1>> \in CallRefs(f)
  BY <1>0, <1>3, InRefs
<1>5. /\ files[f].ref \in Nat /\ files[f].ref >= 1 /\ files[f] \in FileRec
      /\ files \in [File -> FileRec] /\ FileOK(files[f])
      /\ files[f].ref = 1 => FdRefs(f) = {}
  BY <1>0, <1>3, <1>4, Referenced DEF Types, FileInv
<1>6. /\ IF g # None /\ files'[f].pipe = None
         THEN Goes(p, [op |-> "look", files |-> rest, file |-> f, pipe |-> g])
         ELSE Goes(p, Closing(rest))
  BY DEF CloseRef
<1> HIDE DEF f, rest, g
<1>7. /\ files' \in [File -> FileRec]
      /\ \A x \in File : x # f => files'[x] = files[x]
      /\ files'[f].ref = files[f].ref - 1
      /\ FileOK(files'[f])
      /\ files[f].ref = 1 => files'[f] = Closed
      /\ files[f].ref # 1 => /\ files'[f].pipe = files[f].pipe
                             /\ files'[f].readable = files[f].readable
  <2>1. CASE files[f].ref = 1
    <3>1. files' = [files EXCEPT ![f] = Closed]
      BY <1>1, <2>1 DEF Dropped
    <3>2. /\ files' \in [File -> FileRec] /\ files'[f] = Closed
          /\ \A x \in File : x # f => files'[x] = files[x]
      BY <1>3, <1>5, <3>1, NewIs
    <3> QED  BY <2>1, <3>2, NewIs
  <2>2. CASE files[f].ref # 1
    <3>0. files[f].ref > 1
      BY <1>5, <2>2
    <3> DEFINE r == [files[f] EXCEPT !.ref = files[f].ref - 1]
    <3>1. files' = [files EXCEPT ![f] = r]
      BY <1>1, <1>3, <1>5, <3>0 DEF Dropped
    <3>2. /\ r \in FileRec /\ r.ref = files[f].ref - 1 /\ r.ref # 0 /\ r.type = files[f].type
          /\ r.pipe = files[f].pipe /\ r.readable = files[f].readable /\ r.writable = files[f].writable
      BY <1>5, <3>0 DEF FileRec
    <3> HIDE DEF r
    <3>3. FileOK(r)
      BY <1>5, <3>2 DEF FileOK
    <3>4. /\ files' \in [File -> FileRec] /\ files'[f] = r
          /\ \A x \in File : x # f => files'[x] = files[x]
      BY <1>3, <1>5, <3>1, <3>2
    <3> QED  BY <2>2, <3>2, <3>3, <3>4
  <2> QED  BY <2>1, <2>2
<1>8. ASSUME NEW k, k.files = rest, NEW x \in File PROVE Balanced(p, k, x) /\ LostStays(k, x)
  <2>1. files'[x].ref + Hit(f, x) = files[x].ref /\ files'[x].ref \in Nat /\ files[x].ref \in Nat
    BY <1>0, <1>5, <1>7 DEF Hit, Types, FileRec
  <2>2. Among(call[p].files, x) = Hit(f, x) + Among(rest, x)
    BY <1>3
  <2>3. Among(rest, x) \in Nat /\ Hit(f, x) \in Nat /\ Cardinality(FdSet(fds, x)) \in Nat
    BY AmongNat, SetsFinite, Sums
  <2>4. Balanced(p, k, x)
    BY <1>1, <1>8, <2>1, <2>2, <2>3 DEF Balanced
  <2>5. CallRefs(x) = {} => Among(call[p].files, x) = 0
    <3>1. CallRefs(x) = {} => \A i \in DOMAIN call[p].files : call[p].files[i] # x
      BY <1>0, InRefs
    <3> QED  BY <3>1 DEF Among, Has, Hit
  <2>6. CallRefs(x) = {} => Hit(f, x) = 0 /\ Among(rest, x) = 0
    BY <2>2, <2>3, <2>5
  <2>7. CallRefs(x) = {} => x # f
    BY <1>4
  <2>8. LostStays(k, x)
    BY <1>1, <1>7, <1>8, <2>6, <2>7 DEF LostStays, FdRefs
  <2> QED  BY <2>4, <2>8
<1>9. /\ fds' \in [Proc -> [Fd -> File \cup {None}]]
      /\ \A q \in Proc : q # p => fds'[q] = fds[q]
  BY <1>0, <1>1 DEF Types
<1>10. \A x \in File : FileOK(files'[x]) /\ (files'[x] = files[x] \/ \E i \in DOMAIN s : s[i] = x)
  BY <1>0, <1>3, <1>7 DEF FileInv
<1>11. CASE ~(g # None /\ files'[f].pipe = None)
  <2> DEFINE k == Closing(rest)
  <2>1. Goes(p, k)
    BY <1>6, <1>11
  <2>2. k \in CallRec /\ CallFits(k) /\ k.files = rest /\ k.op \in {"user", "close"}
    BY <1>3, ClosingIs
  <2> HIDE DEF k
  <2>3. OneCall(p, k)
    BY <2>1, <2>2 DEF OneCall, Goes
  <2>4. files'[f].pipe = files[f].pipe
    BY <1>7, <1>11, NewIs DEF g
  <2>5. FilesQuiet(p)
    <3>1. files[f].pipe # None => files'[f].readable = files[f].readable
      BY <1>7, <2>4, NewIs
    <3> QED  BY <1>7, <1>10, <2>4, <3>1 DEF FilesQuiet
  <2>6. \A x \in File : Balanced(p, k, x) /\ LostStays(k, x)
    BY <1>8, <2>2
  <2>7. call[p].op \in {"user", "open", "close"}
    BY <1>1
  <2> QED  BY <1>1, <1>7, <1>9, <2>2, <2>3, <2>5, <2>6, <2>7, QuietKeeps
<1>12. CASE g # None /\ files'[f].pipe = None
  <2> DEFINE k == [op |-> "look", files |-> rest, file |-> f, pipe |-> g]
  <2>1. call' = [call EXCEPT ![p] = k]
    BY <1>6, <1>12 DEF Goes
  <2>2. g \in Page
    BY <1>5, <1>12 DEF g, FileRec
  <2>3. k \in CallRec /\ k.op = "look" /\ k.files = rest /\ k.pipe = g
    BY <1>3, <2>2 DEF CallRec
  <2> HIDE DEF k
  <2>4. OneCall(p, k)
    <3>1. CallFits(k)
      BY <1>3, <2>3 DEF CallFits
    <3> QED  BY <2>1, <2>3, <3>1 DEF OneCall
  <2>5. files[f].ref = 1 /\ files'[f] = Closed /\ FdRefs(f) = {}
    BY <1>5, <1>7, <1>12 DEF g
  <2>6. Types'
    <3>1. UNCHANGED <<procVars, panicked>>
      BY <1>1
    <3>2. pages' \in [Page -> PageRec] /\ sleeping' \in [Proc -> Page \cup {None}]
      BY <1>0, <1>1 DEF Types
    <3> QED  BY <1>0, <1>7, <1>9, <2>4, <3>1, <3>2, TypesKept
  <2>7. StatusInv'
    BY <1>0, <1>1, <1>9, <2>4, StatusKept
  <2>8. FileInv'
    BY <1>0, <1>10, <2>3, <2>4, FileKept
  <2>9. RefsAccounted'
    BY <1>0, <1>8, <2>3, <2>4, RefsKept
  <2>10. PageInv'
    <3>1. /\ call'[p] = k /\ \A q \in Proc : q # p => call'[q] = call[q]
      BY <1>0, <2>4, OthersCall
    <3>2. /\ Ends(files', g) = Ends(files, g) \ {f} /\ f \in Ends(files, g)
          /\ \A h \in Page : h # g => Ends(files', h) = Ends(files, h)
      <4>1. files'[f].pipe = None /\ files[f].pipe = g /\ g # None
        BY <1>12 DEF g
      <4>2. \A h \in Page : None # h
        BY Constants
      <4>3. \A x \in File, h \in Page :
              x \in Ends(files', h) <=> x \in Ends(files, h) /\ (h # g \/ x # f)
        BY <1>3, <1>7, <2>2, <4>1, <4>2 DEF Ends
      <4>4. \A h : Ends(files', h) \subseteq File /\ Ends(files, h) \subseteq File
        BY DEF Ends
      <4>5. f \in Ends(files, g)
        BY <1>3, <4>1 DEF Ends
      <4>6. ASSUME NEW h \in Page, h # g PROVE Ends(files', h) = Ends(files, h)
        BY <4>3, <4>4, <4>6
      <4>7. Ends(files', g) = Ends(files, g) \ {f}
        BY <2>2, <4>3, <4>4
      <4> QED  BY <4>5, <4>6, <4>7
    <3>3. /\ Closers(call', g) = Closers(call, g) \cup {p} /\ p \notin Closers(call, g)
          /\ \A h \in Page : h # g => Closers(call', h) = Closers(call, h)
      <4>1. \A h \in Page, q \in Proc :
              q \in Closers(call', h) <=> (q \in Closers(call, h) \/ (h = g /\ q = p))
        BY <1>1, <2>3, <3>1 DEF Closers
      <4>2. \A h : Closers(call', h) \subseteq Proc /\ Closers(call, h) \subseteq Proc
        BY DEF Closers
      <4>3. p \notin Closers(call, g)
        BY <1>1 DEF Closers
      <4> QED  BY <2>2, <4>1, <4>2, <4>3
    <3>4. /\ Cardinality(Ends(files', g)) = Cardinality(Ends(files, g)) - 1
          /\ Cardinality(Closers(call', g)) = Cardinality(Closers(call, g)) + 1
      <4>1. Cardinality(Ends(files, g) \ {f}) = Cardinality(Ends(files, g)) - 1
        BY <3>2, PageFinite, FS_RemoveElement
      <4>2. Cardinality(Closers(call, g) \cup {p}) = Cardinality(Closers(call, g)) + 1
        BY <3>3, PageFinite, FS_AddElement
      <4> QED  BY <3>2, <3>3, <4>1, <4>2
    <3>5. /\ pages[g].used
          /\ (Cardinality(Ends(files, g)) + Cardinality(Closers(call, g))) + Cleared(pages[g]) <= 2
          /\ Cleared(pages[g]) < 2
          /\ Cleared(pages[g]) = 0 => 2 <= Cardinality(Ends(files, g)) + Cardinality(Closers(call, g))
      BY <1>0, <2>2, <3>2 DEF PageInv
    <3>6. /\ (Cardinality(Ends(files', g)) + Cardinality(Closers(call', g))) + Cleared(pages[g]) <= 2
          /\ Cleared(pages[g]) = 0 => 2 <= Cardinality(Ends(files', g)) + Cardinality(Closers(call', g))
      <4>1. Cleared(pages[g]) \in Nat
        BY DEF Cleared
      <4> QED  BY <3>4, <3>5, <4>1, PageFinite
    <3>7. \A e, x \in File : /\ files'[e].pipe # None /\ files'[e].pipe = files'[x].pipe
                             /\ files'[e].readable = files'[x].readable
                             => e = x
      BY <1>0, <1>7, <1>12 DEF PageInv
    <3>8. ASSUME NEW h \in Page
          PROVE  IF pages'[h].used
                 THEN /\ (Cardinality(Ends(files', h)) + Cardinality(Closers(call', h))) + Cleared(pages'[h]) <= 2
                      /\ Cleared(pages'[h]) < 2
                      /\ Cleared(pages'[h]) = 0 =>
                           2 <= Cardinality(Ends(files', h)) + Cardinality(Closers(call', h))
                 ELSE Ends(files', h) = {} /\ Closers(call', h) = {}
      <4>1. CASE h = g
        BY <1>1, <3>5, <3>6, <4>1
      <4>2. CASE h # g
        BY <1>0, <1>1, <3>2, <3>3, <4>2 DEF PageInv
      <4> QED  BY <4>1, <4>2
    <3> QED  BY <3>7, <3>8 DEF PageInv
  <2>11. HoldInv'
    <3>1. \A q \in Proc, d \in Fd : fds[q][d] # None => fds[q][d] \in File /\ fds[q][d] # f
      BY <1>0, <2>5, InRefs
    <3>2. \A q \in Proc, d \in Fd :
            fds[q][d] # None /\ files[fds[q][d]].pipe # None =>
              /\ files'[fds[q][d]].pipe = files[fds[q][d]].pipe
              /\ files'[fds[q][d]].readable = files[fds[q][d]].readable
      BY <1>7, <3>1
    <3>3. k.op \notin {"read", "write"}
      BY <2>3
    <3> QED  BY <1>0, <1>1, <2>4, <3>2, <3>3, HoldKept
  <2>12. RingInv'
    BY <1>0, <1>1, RingKept
  <2>13. SleepInv'
    <3>1. UNCHANGED <<procVars, pages, sleeping>>
      BY <1>1
    <3> QED  BY <1>0, <1>1, <2>4, <3>1, SleepSame
  <2> QED  BY <2>6, <2>7, <2>8, <2>9, <2>10, <2>11, <2>12, <2>13 DEF IInv
<1> QED  BY <1>11, <1>12

LEMMA ClearedNat == \A pg : Cleared(pg) \in {0, 1, 2}
BY DEF Cleared

LEMMA PipeCloseKeeps ==
  ASSUME IInv, NEW p \in Proc, PipeClose(p), UNCHANGED <<procVars, panicked>>
  PROVE  IInv'
<1> DEFINE g == call[p].pipe
           pg == IF call[p].writable THEN [pages[g] EXCEPT !.writeopen = FALSE]
                                     ELSE [pages[g] EXCEPT !.readopen = FALSE]
           pu == [pg EXCEPT !.used = StillUsed(pg)]
           k == Closing(call[p].files)
<1>0. /\ Types /\ StatusInv /\ FileInv /\ RefsAccounted /\ PageInv /\ HoldInv /\ RingInv /\ SleepInv
  BY DEF IInv
<1>1. /\ In(p, "pipeclose") /\ call[p].op = "pipeclose" /\ status[p] = "live" /\ sleeping[p] = None
      /\ pages' = [pages EXCEPT ![g] = pu] /\ sleeping' = Wakeup(g)
      /\ call' = [call EXCEPT ![p] = k] /\ fds' = fds /\ files' = files
      /\ UNCHANGED procVars /\ killed' = killed /\ UNCHANGED <<procVars, panicked>>
  BY InIs DEF PipeClose, Goes, procVars
<1>2. call[p].files \in Seq(File) /\ Len(call[p].files) \in 0..2 /\ g \in Page
  BY <1>0, <1>1, CallFields DEF Types, Inside
<1>3. k \in CallRec /\ CallFits(k) /\ k.files = call[p].files /\ k.op \in {"user", "close"}
  BY <1>2, ClosingIs
<1> HIDE DEF g, k
<1>4. OneCall(p, k)
  BY <1>1, <1>3 DEF OneCall
<1>5. /\ call'[p] = k /\ \A q \in Proc : q # p => call'[q] = call[q]
  BY <1>0, <1>4, OthersCall
<1>6. /\ pg \in PageRec /\ pg.nread = pages[g].nread /\ pg.nwrite = pages[g].nwrite
      /\ Cleared(pg) \in {Cleared(pages[g]), Cleared(pages[g]) + 1}
      /\ Cleared(pg) # 0
  <2>1. pages[g] \in PageRec
    BY <1>0, <1>2 DEF Types
  <2>2. CASE call[p].writable
    <3>1. pg = [pages[g] EXCEPT !.writeopen = FALSE]
      BY <2>2
    <3> HIDE DEF pg
    <3>2. /\ pg \in PageRec /\ pg.nread = pages[g].nread /\ pg.nwrite = pages[g].nwrite
          /\ pg.readopen = pages[g].readopen /\ ~pg.writeopen
      BY <2>1, <3>1 DEF PageRec
    <3> QED  BY <3>2 DEF Cleared
  <2>3. CASE ~call[p].writable
    <3>1. pg = [pages[g] EXCEPT !.readopen = FALSE]
      BY <2>3
    <3> HIDE DEF pg
    <3>2. /\ pg \in PageRec /\ pg.nread = pages[g].nread /\ pg.nwrite = pages[g].nwrite
          /\ pg.writeopen = pages[g].writeopen /\ ~pg.readopen
      BY <2>1, <3>1 DEF PageRec
    <3> QED  BY <3>2 DEF Cleared
  <2> QED  BY <2>2, <2>3
<1> HIDE DEF pg
<1>7. /\ pu \in PageRec /\ pu.nread = pages[g].nread /\ pu.nwrite = pages[g].nwrite
      /\ Cleared(pu) = Cleared(pg) /\ Cleared(pu) # 0
      /\ pu.used <=> Cleared(pu) < 2
  <2>1. StillUsed(pg) \in BOOLEAN
    BY DEF StillUsed
  <2>2. /\ pu \in PageRec /\ pu.nread = pg.nread /\ pu.nwrite = pg.nwrite
        /\ pu.readopen = pg.readopen /\ pu.writeopen = pg.writeopen
    BY <1>6, <2>1 DEF PageRec
  <2>3. pu.used = StillUsed(pg)
    BY <1>6, <2>1 DEF PageRec
  <2>4. StillUsed(pg) <=> Cleared(pg) < 2
    BY <1>6 DEF StillUsed, Cleared, PageRec
  <2> QED  BY <1>6, <2>2, <2>3, <2>4 DEF Cleared
<1> HIDE DEF pu
<1>8. /\ pages' \in [Page -> PageRec] /\ pages'[g] = pu
      /\ \A h \in Page : h # g => pages'[h] = pages[h]
  BY <1>0, <1>1, <1>2, <1>7 DEF Types
<1>9. \A q \in Proc : sleeping'[q] # None => sleeping'[q] = sleeping[q] /\ sleeping[q] # g
  BY <1>1 DEF Wakeup
<1>10. Types'
  <2>1. fds' \in [Proc -> [Fd -> File \cup {None}]] /\ files' \in [File -> FileRec]
    BY <1>0, <1>1 DEF Types
  <2>2. sleeping' \in [Proc -> Page \cup {None}]
    BY <1>0, <1>1 DEF Types, Wakeup
  <2>3. UNCHANGED <<procVars, panicked>>
    BY <1>1
  <2> QED  BY <1>0, <1>4, <1>8, <2>1, <2>2, <2>3, TypesKept
<1>11. StatusInv'
  BY <1>0, <1>1, <1>4, StatusKept
<1>12. FileInv'
  <2>1. \A f \in File : FileOK(files'[f]) /\ files'[f] = files[f]
    BY <1>0, <1>1 DEF FileInv
  <2>2. k.op \notin {"open", "pipe", "make"}
    BY <1>3
  <2> QED  BY <1>0, <1>4, <2>1, <2>2, FileKept
<1>13. RefsAccounted'
  <2>1. ASSUME NEW f \in File PROVE Balanced(p, k, f)
    BY <1>0, <1>1, <1>3 DEF Balanced, Types, FileRec
  <2>2. ASSUME NEW f \in File PROVE LostStays(k, f)
    <3>1. \A i \in DOMAIN call[p].files : CallRefs(f) = {} => call[p].files[i] # f
      BY <1>0, InRefs
    <3>2. CallRefs(f) = {} => Among(call[p].files, f) = 0
      BY <3>1 DEF Among, Has, Hit
    <3> QED  BY <1>1, <1>3, <3>2 DEF LostStays, FdRefs
  <2> QED  BY <1>0, <1>4, <2>1, <2>2, RefsKept
<1>14. PageInv'
  <2>1. /\ Closers(call', g) = Closers(call, g) \ {p} /\ p \in Closers(call, g)
        /\ \A h \in Page : h # g => Closers(call', h) = Closers(call, h)
    <3>1. \A h \in Page, q \in Proc :
            q \in Closers(call', h) <=> q \in Closers(call, h) /\ (h # g \/ q # p)
      BY <1>1, <1>3, <1>5 DEF Closers, g
    <3>2. \A h : Closers(call', h) \subseteq Proc /\ Closers(call, h) \subseteq Proc
      BY DEF Closers
    <3>3. p \in Closers(call, g)
      BY <1>1 DEF Closers, g
    <3>4. ASSUME NEW h \in Page, h # g PROVE Closers(call', h) = Closers(call, h)
      BY <3>1, <3>2, <3>4
    <3>5. Closers(call', g) = Closers(call, g) \ {p}
      BY <1>2, <3>1, <3>2
    <3> QED  BY <3>3, <3>4, <3>5
  <2>2. Cardinality(Closers(call', g)) = Cardinality(Closers(call, g)) - 1
    <3>1. Cardinality(Closers(call, g) \ {p}) = Cardinality(Closers(call, g)) - 1
      BY <2>1, PageFinite, FS_RemoveElement
    <3> QED  BY <2>1, <3>1
  <2>3. /\ pages[g].used
        /\ (Cardinality(Ends(files, g)) + Cardinality(Closers(call, g))) + Cleared(pages[g]) <= 2
    BY <1>0, <1>2, <2>1 DEF PageInv
  <2>4. /\ Cardinality(Ends(files, g)) \in Nat /\ Cardinality(Closers(call, g)) \in Nat
        /\ Cardinality(Closers(call', g)) \in Nat
    BY PageFinite
  <2>5. (Cardinality(Ends(files, g)) + Cardinality(Closers(call', g))) + Cleared(pu) <= 2
    <3>1. Cleared(pages[g]) \in Nat /\ Cleared(pu) \in Nat
      BY ClearedNat
    <3> QED  BY <1>6, <1>7, <2>2, <2>3, <2>4, <3>1
  <2>6. ~pu.used => Ends(files, g) = {} /\ Closers(call', g) = {}
    <3>1. ASSUME ~pu.used
          PROVE Cardinality(Ends(files, g)) = 0 /\ Cardinality(Closers(call', g)) = 0
      <4>1. Cleared(pu) = 2
        BY <1>7, <3>1, ClearedNat
      <4> QED  BY <2>4, <2>5, <4>1
    <3> QED  BY <3>1, PageFinite, FS_EmptySet
  <2>7. \A e, f \in File : /\ files'[e].pipe # None /\ files'[e].pipe = files'[f].pipe
                           /\ files'[e].readable = files'[f].readable
                           => e = f
    BY <1>0, <1>1 DEF PageInv
  <2>8. ASSUME NEW h \in Page
        PROVE  IF pages'[h].used
               THEN /\ (Cardinality(Ends(files', h)) + Cardinality(Closers(call', h)))
                         + Cleared(pages'[h]) <= 2
                    /\ Cleared(pages'[h]) < 2
                    /\ Cleared(pages'[h]) = 0 =>
                         2 <= Cardinality(Ends(files', h)) + Cardinality(Closers(call', h))
               ELSE Ends(files', h) = {} /\ Closers(call', h) = {}
    <3>1. CASE h = g
      BY <1>1, <1>7, <1>8, <2>5, <2>6, <3>1
    <3>2. CASE h # g
      BY <1>0, <1>1, <1>8, <2>1, <3>2 DEF PageInv
    <3> QED  BY <3>1, <3>2
  <2> QED  BY <2>7, <2>8 DEF PageInv
<1>15. HoldInv'
  <2>1. k.op \notin {"read", "write"}
    BY <1>3
  <2> QED  BY <1>0, <1>1, <1>4, <2>1, HoldKept
<1>16. RingInv'
  <2>1. \A h \in Page : Fill(pages'[h]) <= Size
    BY <1>0, <1>7, <1>8 DEF RingInv, Fill
  <2> QED  BY <2>1 DEF RingInv
<1>17. SleepInv'
  <2>1. \A q \in Proc : sleeping'[q] # None =>
          /\ sleeping'[q] = sleeping[q] /\ call'[q] = call[q] /\ killed'[q] = killed[q]
          /\ pages'[sleeping[q]] = pages[sleeping[q]]
    <3>1. \A q \in Proc : sleeping[q] \in Page \cup {None}
      BY <1>0 DEF Types
    <3> QED  BY <1>1, <1>5, <1>8, <1>9, <3>1
  <2> QED  BY <1>0, <2>1, SleepKept
<1> QED  BY <1>10, <1>11, <1>12, <1>13, <1>14, <1>15, <1>16, <1>17 DEF IInv

\* The page of a read or a write is in use, and somebody has the end for it.
LEMMA Reached ==
  ASSUME IInv, NEW q \in Proc, call[q].op \in {"read", "write"}
  PROVE  /\ call[q].pipe \in Page /\ pages[call[q].pipe].used
         /\ \E f \in File : /\ files[f].pipe = call[q].pipe
                            /\ files[f].readable = (call[q].op = "read") /\ FdRefs(f) # {}
<1>0. Types /\ PageInv /\ HoldInv
  BY DEF IInv
<1>1. call[q].pipe \in Page
  BY <1>0, CallFields DEF Types
<1>2. PICK d \in Fd : /\ fds[q][d] # None /\ files[fds[q][d]].pipe = call[q].pipe
                      /\ files[fds[q][d]].readable = (call[q].op = "read")
  BY <1>0 DEF HoldInv
<1>3. fds[q][d] \in File /\ FdRefs(fds[q][d]) # {}
  BY <1>0, <1>2, InRefs
<1>4. fds[q][d] \in Ends(files, call[q].pipe)
  BY <1>2, <1>3 DEF Ends
<1> QED  BY <1>0, <1>1, <1>2, <1>3, <1>4 DEF PageInv

LEMMA FreshIs ==
  /\ Fresh \in PageRec /\ Fresh.used /\ Cleared(Fresh) = 0 /\ Fill(Fresh) = 0
  /\ Size \in Nat /\ Wrap \in Nat /\ Wrap > Size /\ Size > 0
<1>1. Size \in Nat /\ Wrap \in Nat /\ Wrap > Size /\ Size > 0
  BY PipeAssumption
<1>2. Fresh \in PageRec
  BY <1>1 DEF Fresh, PageRec
<1>3. Fresh.used /\ Fresh.readopen /\ Fresh.writeopen /\ Fresh.nread = 0 /\ Fresh.nwrite = 0
  BY DEF Fresh
<1>4. Cleared(Fresh) = 0
  BY <1>3 DEF Cleared
<1>5. 0 % Wrap = 0
  BY <1>1
<1> QED  BY <1>1, <1>2, <1>3, <1>4, <1>5 DEF Fill

LEMMA PipeMakeKeeps ==
  ASSUME IInv, NEW p \in Proc, PipeMake(p), UNCHANGED <<procVars, panicked>>
  PROVE  IInv'
<1> DEFINE rf == call[p].files[1]
           wf == call[p].files[2]
<1>0. /\ Types /\ StatusInv /\ FileInv /\ RefsAccounted /\ PageInv /\ HoldInv /\ RingInv /\ SleepInv
  BY DEF IInv
<1>1. /\ In(p, "make") /\ call[p].op = "make" /\ status[p] = "live" /\ sleeping[p] = None
      /\ sleeping' = sleeping
      /\ UNCHANGED procVars /\ killed' = killed /\ UNCHANGED <<procVars, panicked>>
  BY InIs DEF PipeMake, procVars
<1>2. PICK g \in Page : /\ ~pages[g].used /\ pages' = [pages EXCEPT ![g] = Fresh]
                        /\ files' = [files EXCEPT ![rf] = PipeEnd(TRUE, g), ![wf] = PipeEnd(FALSE, g)]
  BY DEF PipeMake
<1>3. /\ call[p].files \in Seq(File) /\ Len(call[p].files) = 2
      /\ rf \in File /\ wf \in File /\ call[p].files = <<rf, wf>>
      /\ 1 \in DOMAIN call[p].files /\ 2 \in DOMAIN call[p].files
  <2>1. call[p].files \in Seq(File) /\ Len(call[p].files) = 2
    BY <1>0, <1>1, CallFields DEF Types, CallFits
  <2> QED  BY <2>1, ShortSeqs
<1>4. /\ files[rf] = New /\ FdRefs(rf) = {} /\ CallRefs(rf) = {<<p, 1>>}
      /\ files[wf] = New /\ FdRefs(wf) = {} /\ CallRefs(wf) = {<<p, 2>>}
      /\ files[rf].ref = 1 /\ files[wf].ref = 1
  BY <1>0, <1>1, <1>3, Sole
<1>5. rf # wf
  <2>1. <<p, 1>> # <<p, 2>>
    OBVIOUS
  <2> QED  BY <1>4, <2>1
<1>6. \/ \E d0, d1 \in Fd :
           /\ fds[p][d0] = None /\ fds[p][d1] = None /\ d0 # d1
           /\ fds' = [fds EXCEPT ![p][d0] = rf, ![p][d1] = wf]
           /\ Goes(p, User)
      \/ Goes(p, Closing(call[p].files)) /\ fds' = fds
  BY DEF PipeMake, First, FreeFd
<1>7. \A x : Among(call[p].files, x) = Hit(rf, x) + Hit(wf, x)
  <2>1. PICK a, b : call[p].files = <<a, b>> /\ a = rf /\ b = wf
    BY <1>3
  <2>2. \A x : Among(<<a, b>>, x) = Hit(a, x) + Hit(b, x)
    BY AmongIs
  <2> QED  BY <2>1, <2>2
<1> HIDE DEF rf, wf
<1>8. PICK k : /\ OneCall(p, k) /\ k.op \in {"user", "close"}
               /\ \/ /\ k = User
                     /\ \E d0, d1 \in Fd :
                          /\ fds[p][d0] = None /\ fds[p][d1] = None /\ d0 # d1
                          /\ fds' = [fds EXCEPT ![p][d0] = rf, ![p][d1] = wf]
                  \/ k.files = call[p].files /\ fds' = fds
  <2>1. CASE Goes(p, Closing(call[p].files)) /\ fds' = fds
    <3> DEFINE c == Closing(call[p].files)
    <3>1. c \in CallRec /\ CallFits(c) /\ c.files = call[p].files /\ c.op \in {"user", "close"}
      <4>1. Len(call[p].files) \in 0..2
        BY <1>3
      <4> QED  BY <1>3, <4>1, ClosingIs
    <3>2. call' = [call EXCEPT ![p] = c]
      BY <2>1 DEF Goes
    <3> HIDE DEF c
    <3> QED  BY <2>1, <3>1, <3>2 DEF OneCall
  <2>2. CASE /\ Goes(p, User)
             /\ \E d0, d1 \in Fd :
                  /\ fds[p][d0] = None /\ fds[p][d1] = None /\ d0 # d1
                  /\ fds' = [fds EXCEPT ![p][d0] = rf, ![p][d1] = wf]
    BY <2>2, UserFits DEF OneCall, Goes
  <2> QED  BY <1>6, <2>1, <2>2
\* the descriptors
<1>9. /\ fds' \in [Proc -> [Fd -> File \cup {None}]]
      /\ \A q \in Proc : q # p => fds'[q] = fds[q]
      /\ \A x \in File : Cardinality(FdSet(fds', x)) + Among(k.files, x)
                           = Cardinality(FdSet(fds, x)) + Among(call[p].files, x)
      /\ \A x \in File : x # rf /\ x # wf /\ FdRefs(x) = {} =>
                           FdSet(fds', x) = {} /\ Among(k.files, x) = 0
  <2>0. fds \in [Proc -> [Fd -> File \cup {None}]]
    BY <1>0 DEF Types
  <2>1. CASE k.files = call[p].files /\ fds' = fds
    <3>1. \A x : x # rf /\ x # wf => Among(call[p].files, x) = 0
      BY <1>7 DEF Hit
    <3> QED  BY <2>0, <2>1, <3>1 DEF FdRefs
  <2>2. ASSUME k = User, NEW d0 \in Fd, NEW d1 \in Fd,
               fds[p][d0] = None, fds[p][d1] = None, d0 # d1,
               fds' = [fds EXCEPT ![p][d0] = rf, ![p][d1] = wf]
        PROVE  /\ fds' \in [Proc -> [Fd -> File \cup {None}]]
               /\ \A q \in Proc : q # p => fds'[q] = fds[q]
               /\ \A x \in File : Cardinality(FdSet(fds', x)) + Among(k.files, x)
                                    = Cardinality(FdSet(fds, x)) + Among(call[p].files, x)
               /\ \A x \in File : x # rf /\ x # wf /\ FdRefs(x) = {} =>
                                    FdSet(fds', x) = {} /\ Among(k.files, x) = 0
    <3> DEFINE t == [fds EXCEPT ![p][d0] = rf]
    <3>1. /\ t \in [Proc -> [Fd -> File \cup {None}]] /\ t[p][d0] = rf /\ t[p][d1] = None
          /\ \A q \in Proc, e \in Fd : q # p \/ e # d0 => t[q][e] = fds[q][e]
          /\ \A q \in Proc : q # p => t[q] = fds[q]
      BY <1>3, <2>0, <2>2
    <3>2. /\ fds' \in [Proc -> [Fd -> File \cup {None}]] /\ fds'[p][d1] = wf
          /\ \A q \in Proc, e \in Fd : q # p \/ e # d1 => fds'[q][e] = t[q][e]
          /\ \A q \in Proc : q # p => fds'[q] = t[q]
      BY <1>3, <2>0, <2>2
    <3> HIDE DEF t
    <3>3. ASSUME NEW x \in File
          PROVE  /\ Cardinality(FdSet(fds', x)) + Among(k.files, x)
                      = Cardinality(FdSet(fds, x)) + Among(call[p].files, x)
                 /\ x # rf /\ x # wf /\ FdRefs(x) = {} =>
                      FdSet(fds', x) = {} /\ Among(k.files, x) = 0
      <4>1. Cardinality(FdSet(t, x)) + Hit(fds[p][d0], x) = Cardinality(FdSet(fds, x)) + Hit(t[p][d0], x)
        <5>1. OnlyAt(fds, t, p, d0)
          BY <3>1 DEF OnlyAt
        <5>2. fds \in FdTable /\ t \in FdTable
          BY <2>0, <3>1 DEF FdTable
        <5> QED  BY <5>1, <5>2, FdOne
      <4>2. Cardinality(FdSet(fds', x)) + Hit(t[p][d1], x) = Cardinality(FdSet(t, x)) + Hit(fds'[p][d1], x)
        <5>1. OnlyAt(t, fds', p, d1)
          BY <3>2 DEF OnlyAt
        <5>2. t \in FdTable /\ fds' \in FdTable
          BY <3>1, <3>2 DEF FdTable
        <5> QED  BY <5>1, <5>2, FdOne
      <4>3. Hit(None, x) = 0 /\ Hit(rf, x) \in Nat /\ Hit(wf, x) \in Nat
        BY Constants DEF Hit
      <4>4. /\ Cardinality(FdSet(t, x)) \in Nat /\ Cardinality(FdSet(fds, x)) \in Nat
            /\ Cardinality(FdSet(fds', x)) \in Nat
        BY SetsFinite
      <4>5. Cardinality(FdSet(fds', x)) = Cardinality(FdSet(fds, x)) + (Hit(rf, x) + Hit(wf, x))
        BY <2>2, <3>1, <3>2, <4>1, <4>2, <4>3, <4>4
      <4>6. Among(k.files, x) = 0
        BY <2>2, AmongIs
      <4>7. Cardinality(FdSet(fds', x)) + Among(k.files, x)
              = Cardinality(FdSet(fds, x)) + Among(call[p].files, x)
        BY <1>7, <4>3, <4>4, <4>5, <4>6
      <4>8. ASSUME x # rf, x # wf, FdRefs(x) = {} PROVE FdSet(fds', x) = {}
        <5>1. Hit(rf, x) = 0 /\ Hit(wf, x) = 0
          BY <4>8 DEF Hit
        <5>2. Cardinality(FdSet(fds, x)) = 0
          BY <4>8, FS_EmptySet DEF FdRefs
        <5>3. Cardinality(FdSet(fds', x)) = 0
          BY <4>4, <4>5, <5>1, <5>2
        <5> QED  BY <5>3, SetsFinite, FS_EmptySet
      <4> QED  BY <4>6, <4>7, <4>8
    <3>4. \A q \in Proc : q # p => fds'[q] = fds[q]
      BY <3>1, <3>2
    <3> QED  BY <3>2, <3>3, <3>4
  <2> QED  BY <1>8, <2>1, <2>2
\* the files and the page
<1>10. /\ \A r \in BOOLEAN : PipeEnd(r, g) \in FileRec /\ FileOK(PipeEnd(r, g))
       /\ \A r \in BOOLEAN : PipeEnd(r, g).pipe = g /\ PipeEnd(r, g).readable = r /\ PipeEnd(r, g).ref = 1
  <2>1. \A r \in BOOLEAN : PipeEnd(r, g) \in FileRec
    BY DEF PipeEnd, FileRec
  <2>2. \A r \in BOOLEAN : /\ PipeEnd(r, g).pipe = g /\ PipeEnd(r, g).readable = r
                           /\ PipeEnd(r, g).ref = 1 /\ PipeEnd(r, g).type = "pipe"
                           /\ PipeEnd(r, g).writable = ~r
    BY DEF PipeEnd
  <2>3. g # None
    BY Constants
  <2> QED  BY <2>1, <2>2, <2>3 DEF FileOK
<1>11. /\ files' \in [File -> FileRec]
       /\ files'[rf] = PipeEnd(TRUE, g) /\ files'[wf] = PipeEnd(FALSE, g)
       /\ \A x \in File : x # rf /\ x # wf => files'[x] = files[x]
  <2>1. files \in [File -> FileRec] /\ TRUE \in BOOLEAN /\ FALSE \in BOOLEAN
    BY <1>0 DEF Types
  <2> QED  BY <1>2, <1>3, <1>5, <1>10, <2>1
<1>12. /\ pages' \in [Page -> PageRec] /\ pages'[g] = Fresh
       /\ \A h \in Page : h # g => pages'[h] = pages[h]
  BY <1>0, <1>2, FreshIs DEF Types
<1>13. Types'
  <2>1. UNCHANGED <<procVars, panicked>> /\ sleeping' \in [Proc -> Page \cup {None}]
    BY <1>0, <1>1 DEF Types
  <2> QED  BY <1>0, <1>8, <1>9, <1>11, <1>12, <2>1, TypesKept
<1>14. StatusInv'
  BY <1>0, <1>1, <1>8, <1>9, StatusKept
<1>15. FileInv'
  <2>1. ASSUME NEW x \in File
        PROVE  /\ FileOK(files'[x])
               /\ \/ files'[x] = files[x]
                  \/ files[x].ref = 0
                  \/ \E i \in DOMAIN call[p].files : call[p].files[i] = x
                  \/ FdRefs(x) # {}
    BY <1>0, <1>3, <1>10, <1>11 DEF FileInv, rf, wf
  <2>2. k.op \notin {"open", "pipe", "make"}
    BY <1>8
  <2> QED  BY <1>0, <1>8, <2>1, <2>2, FileKept
<1>16. RefsAccounted'
  <2>1. ASSUME NEW x \in File PROVE Balanced(p, k, x) /\ LostStays(k, x)
    <3>1. files'[x].ref = files[x].ref /\ files[x].ref \in Nat
      BY <1>0, <1>4, <1>10, <1>11 DEF Types, FileRec
    <3>2. Balanced(p, k, x)
      BY <1>9, <3>1 DEF Balanced
    <3>3. LostStays(k, x)
      BY <1>4, <1>9, <1>11 DEF LostStays
    <3> QED  BY <3>2, <3>3
  <2> QED  BY <1>0, <1>8, <2>1, RefsKept
<1>17. Ends(files, g) = {} /\ Closers(call, g) = {} /\ files[rf].pipe = None /\ files[wf].pipe = None
  BY <1>0, <1>2, <1>4, NewIs DEF PageInv
<1>18. PageInv'
  <2>1. /\ call'[p] = k /\ \A q \in Proc : q # p => call'[q] = call[q]
    BY <1>0, <1>8, OthersCall
  <2>2. ASSUME NEW h \in Page PROVE Closers(call', h) = Closers(call, h)
    <3>1. \A q \in Proc : q \in Closers(call', h) <=> q \in Closers(call, h)
      BY <1>1, <1>8, <2>1 DEF Closers
    <3>2. Closers(call', h) \subseteq Proc /\ Closers(call, h) \subseteq Proc
      BY DEF Closers
    <3> QED  BY <3>1, <3>2
  <2>3. ASSUME NEW h \in Page, h # g PROVE Ends(files', h) = Ends(files, h)
    <3>1. h # None
      BY Constants
    <3>2. \A x \in File : x \in Ends(files', h) <=> x \in Ends(files, h)
      BY <1>10, <1>11, <1>17, <2>3, <3>1 DEF Ends
    <3>3. Ends(files', h) \subseteq File /\ Ends(files, h) \subseteq File
      BY DEF Ends
    <3> QED  BY <3>2, <3>3
  <2>4. Ends(files', g) = {rf} \cup {wf}
    <3>1. \A x \in File : x \in Ends(files', g) <=> x = rf \/ x = wf
      BY <1>3, <1>10, <1>11, <1>17 DEF Ends
    <3>2. Ends(files', g) \subseteq File
      BY DEF Ends
    <3> QED  BY <1>3, <3>1, <3>2
  <2>5. Cardinality(Ends(files', g)) = 2 /\ Cardinality(Closers(call', g)) = 0
    <3>1. IsFiniteSet({rf}) /\ Cardinality({rf}) = 1
      BY FS_Singleton
    <3>2. Cardinality({rf} \cup {wf}) = 2
      <4>1. wf \notin {rf}
        BY <1>5
      <4>2. Cardinality({rf} \cup {wf})
              = IF wf \in {rf} THEN Cardinality({rf}) ELSE Cardinality({rf}) + 1
        BY <3>1, FS_AddElement
      <4> QED  BY <3>1, <4>1, <4>2
    <3> QED  BY <1>17, <2>2, <2>4, <3>2, FS_EmptySet
  <2>6. ASSUME NEW h \in Page
        PROVE  IF pages'[h].used
               THEN /\ (Cardinality(Ends(files', h)) + Cardinality(Closers(call', h)))
                         + Cleared(pages'[h]) <= 2
                    /\ Cleared(pages'[h]) < 2
                    /\ Cleared(pages'[h]) = 0 =>
                         2 <= Cardinality(Ends(files', h)) + Cardinality(Closers(call', h))
               ELSE Ends(files', h) = {} /\ Closers(call', h) = {}
    <3>1. CASE h = g
      BY <1>12, <2>5, <3>1, FreshIs
    <3>2. CASE h # g
      BY <1>0, <1>12, <2>2, <2>3, <3>2 DEF PageInv
    <3> QED  BY <3>1, <3>2
  <2>7. ASSUME NEW e \in File, NEW x \in File, files'[e].pipe # None, files'[e].pipe = files'[x].pipe,
               files'[e].readable = files'[x].readable
        PROVE  e = x
    <3>1. CASE files'[e].pipe = g
      <4>1. e \in {rf, wf} /\ x \in {rf, wf}
        BY <2>4, <2>7, <3>1 DEF Ends
      <4>2. files'[rf].readable = TRUE /\ files'[wf].readable = FALSE
        BY <1>10, <1>11
      <4> QED  BY <2>7, <4>1, <4>2
    <3>2. CASE files'[e].pipe # g
      <4>1. files'[e] = files[e] /\ files'[x] = files[x]
        BY <1>10, <1>11, <2>7, <3>2
      <4> QED  BY <1>0, <2>7, <4>1 DEF PageInv
    <3> QED  BY <3>1, <3>2
  <2> QED  BY <2>6, <2>7 DEF PageInv
<1>19. HoldInv'
  <2>1. \A q \in Proc, d \in Fd : fds[q][d] # None => fds[q][d] \in File
    BY <1>0 DEF Types
  <2>2. \A q \in Proc, d \in Fd :
          fds[q][d] # None /\ files[fds[q][d]].pipe # None =>
            /\ files'[fds[q][d]].pipe = files[fds[q][d]].pipe
            /\ files'[fds[q][d]].readable = files[fds[q][d]].readable
    BY <1>11, <1>17, <2>1
  <2>3. k.op \notin {"read", "write"}
    BY <1>8
  <2> QED  BY <1>0, <1>8, <1>9, <2>2, <2>3, HoldKept
<1>20. RingInv'
  <2>1. \A h \in Page : Fill(pages'[h]) <= Size
    BY <1>0, <1>12, FreshIs DEF RingInv
  <2> QED  BY <2>1 DEF RingInv
<1>21. SleepInv'
  <2>1. /\ call'[p] = k /\ \A q \in Proc : q # p => call'[q] = call[q]
    BY <1>0, <1>8, OthersCall
  <2>2. ASSUME NEW q \in Proc, sleeping[q] # None
        PROVE  call'[q] = call[q] /\ pages'[sleeping[q]] = pages[sleeping[q]]
    <3>1. call[q].op \in {"read", "write"} /\ sleeping[q] = call[q].pipe
      BY <1>0, <2>2 DEF SleepInv, SleepersBlocked
    <3>2. pages[sleeping[q]].used /\ sleeping[q] \in Page
      BY <3>1, Reached
    <3>3. q # p
      BY <1>1, <2>2
    <3> QED  BY <1>2, <1>12, <2>1, <3>2, <3>3
  <2>3. \A q \in Proc : sleeping'[q] # None =>
          /\ sleeping'[q] = sleeping[q] /\ call'[q] = call[q] /\ killed'[q] = killed[q]
          /\ pages'[sleeping[q]] = pages[sleeping[q]]
    BY <1>1, <2>2
  <2> QED  BY <1>0, <2>3, SleepKept
<1> QED  BY <1>13, <1>14, <1>15, <1>16, <1>18, <1>19, <1>20, <1>21 DEF IInv

-----------------------------------------------------------------------------
(* The ring.                                                               *)
\* A multiple of the divisor added or taken away.
LEMMA ModIs ==
  ASSUME NEW D \in Nat \ {0}, NEW r \in 0..(D - 1)
  PROVE  r % D = r /\ (r + D) % D = r /\ (r - D) % D = r
<1>1. \A a, q \in Int : a = D * q + r => a % D = r
  OBVIOUS
<1>2. 0 \in Int /\ 1 \in Int /\ -1 \in Int /\ r \in Int /\ r + D \in Int /\ r - D \in Int
  OBVIOUS
<1>3. r = D * 0 + r /\ r + D = D * 1 + r /\ r - D = D * (-1) + r
  OBVIOUS
<1> QED  BY <1>1, <1>2, <1>3

LEMMA WrapIs ==
  ASSUME NEW r \in 0..(Wrap - 1), NEW k \in 0..Size
  PROVE  (r + k) % Wrap = IF r + k < Wrap THEN r + k ELSE (r + k) - Wrap
<1>1. Wrap \in Nat \ {0} /\ Size \in Nat /\ Wrap > Size
  BY FreshIs
<1>2. CASE r + k < Wrap
  <2>1. (r + k) \in 0..(Wrap - 1)
    BY <1>1, <1>2
  <2> QED  BY <1>1, <1>2, <2>1, ModIs
<1>3. CASE r + k >= Wrap
  <2>1. ((r + k) - Wrap) \in 0..(Wrap - 1) /\ ((r + k) - Wrap) + Wrap = r + k
    BY <1>1, <1>3
  <2>2. (((r + k) - Wrap) + Wrap) % Wrap = (r + k) - Wrap
    BY <1>1, <2>1, ModIs
  <2>3. ~(r + k < Wrap)
    BY <1>1, <1>3
  <2> QED  BY <2>1, <2>2, <2>3
<1> QED  BY <1>1, <1>2, <1>3

LEMMA FillIs ==
  ASSUME NEW pg \in PageRec
  PROVE  /\ Fill(pg) = IF pg.nwrite >= pg.nread THEN pg.nwrite - pg.nread
                       ELSE (pg.nwrite - pg.nread) + Wrap
         /\ Fill(pg) \in Nat
         /\ pg.nread \in 0..(Wrap - 1) /\ pg.nwrite \in 0..(Wrap - 1)
<1>1. Wrap \in Nat \ {0} /\ Size \in Nat /\ Wrap > Size
  BY FreshIs
<1>2. pg.nread \in 0..(Wrap - 1) /\ pg.nwrite \in 0..(Wrap - 1)
  BY DEF PageRec
<1> DEFINE r == pg.nread  w == pg.nwrite
<1>3. Fill(pg) = (w - r) % Wrap
  BY DEF Fill
<1> HIDE DEF r, w
<1>4. r \in 0..(Wrap - 1) /\ w \in 0..(Wrap - 1)
  BY <1>2 DEF r, w
<1>5. CASE w >= r
  <2>1. (w - r) \in 0..(Wrap - 1)
    BY <1>1, <1>4, <1>5
  <2>2. (w - r) % Wrap = w - r
    BY <1>1, <2>1, ModIs
  <2> QED  BY <1>2, <1>3, <1>4, <1>5, <2>1, <2>2 DEF r, w
<1>6. CASE ~(w >= r)
  <2>1. ((w - r) + Wrap) \in 0..(Wrap - 1) /\ ((w - r) + Wrap) - Wrap = w - r
    BY <1>1, <1>4, <1>6
  <2>2. (((w - r) + Wrap) - Wrap) % Wrap = (w - r) + Wrap
    BY <1>1, <2>1, ModIs
  <2>3. (w - r) % Wrap = (w - r) + Wrap
    BY <2>1, <2>2
  <2> QED  BY <1>2, <1>3, <1>4, <1>6, <2>1, <2>3 DEF r, w
<1> QED  BY <1>5, <1>6

\* Reading k bytes and writing k bytes.
LEMMA FillMoves ==
  ASSUME NEW pg \in PageRec, NEW u \in PageRec, Fill(pg) <= Size, NEW k \in Nat
  PROVE  /\ /\ k <= Fill(pg) /\ u.nread = (pg.nread + k) % Wrap /\ u.nwrite = pg.nwrite
            => Fill(u) = Fill(pg) - k
         /\ /\ k <= Size - Fill(pg) /\ u.nwrite = (pg.nwrite + k) % Wrap /\ u.nread = pg.nread
            => Fill(u) = Fill(pg) + k
<1> DEFINE r == pg.nread  w == pg.nwrite
<1>1. Wrap \in Nat \ {0} /\ Size \in Nat /\ Wrap > Size
  BY FreshIs
<1>2. /\ Fill(pg) = IF w >= r THEN w - r ELSE (w - r) + Wrap
      /\ Fill(pg) \in Nat /\ r \in 0..(Wrap - 1) /\ w \in 0..(Wrap - 1)
  BY FillIs
<1>3. Fill(u) = IF u.nwrite >= u.nread THEN u.nwrite - u.nread ELSE (u.nwrite - u.nread) + Wrap
  BY FillIs
<1> HIDE DEF r, w
<1>4. ASSUME k <= Fill(pg), u.nread = (r + k) % Wrap, u.nwrite = w
      PROVE  Fill(u) = Fill(pg) - k
  <2>1. k \in 0..Size
    BY <1>1, <1>2, <1>4
  <2>2. (r + k) % Wrap = IF r + k < Wrap THEN r + k ELSE (r + k) - Wrap
    BY <1>2, <2>1, WrapIs
  <2> QED  BY <1>1, <1>2, <1>3, <1>4, <2>2
<1>5. ASSUME k <= Size - Fill(pg), u.nwrite = (w + k) % Wrap, u.nread = r
      PROVE  Fill(u) = Fill(pg) + k
  <2>1. k \in 0..Size
    BY <1>1, <1>2, <1>5
  <2>2. (w + k) % Wrap = IF w + k < Wrap THEN w + k ELSE (w + k) - Wrap
    BY <1>2, <2>1, WrapIs
  <2> QED  BY <1>1, <1>2, <1>3, <1>5, <2>2
<1> QED  BY <1>4, <1>5 DEF r, w

\* Steps of a read or a write: a page, the call and who sleeps change.
LEMMA IoKeeps ==
  ASSUME IInv, NEW p \in Proc, call[p].op \in {"read", "write"}, sleeping[p] = None,
         NEW k, OneCall(p, k),
         k.op = "user" \/ (k.op = call[p].op /\ k.pipe = call[p].pipe),
         NEW u \in PageRec, pages' = [pages EXCEPT ![call[p].pipe] = u], Fill(u) <= Size,
         u.used = pages[call[p].pipe].used, u.readopen = pages[call[p].pipe].readopen,
         u.writeopen = pages[call[p].pipe].writeopen,
         sleeping' \in [Proc -> Page \cup {None}], SleepInv',
         UNCHANGED <<procVars, fds, files, panicked>>
  PROVE  IInv'
<1> DEFINE g == call[p].pipe
<1>0. /\ Types /\ StatusInv /\ FileInv /\ RefsAccounted /\ PageInv /\ HoldInv /\ RingInv /\ SleepInv
      /\ UNCHANGED procVars /\ UNCHANGED <<procVars, panicked>> /\ fds' = fds /\ files' = files
  BY DEF IInv, procVars
<1>1. /\ g \in Page /\ call[p].files = <<>> /\ status[p] = "live"
      /\ call[p] # User
  BY <1>0, CallFields DEF Types, CallFits, StatusInv, User
<1>2. k.files = <<>> /\ k.op \in {"user", "read", "write"}
  BY DEF OneCall, CallFits
<1> HIDE DEF g
<1>3. /\ pages' \in [Page -> PageRec] /\ pages'[g] = u
      /\ \A h \in Page : h # g => pages'[h] = pages[h]
  BY <1>0, <1>1 DEF Types, g
<1>4. Types'
  <2>1. files' \in [File -> FileRec] /\ fds' \in [Proc -> [Fd -> File \cup {None}]]
    BY <1>0 DEF Types
  <2> QED  BY <1>0, <1>3, <2>1, TypesKept
<1>5. StatusInv'
  BY <1>0, <1>1, StatusKept
<1>6. FileInv'
  <2>1. \A f \in File : FileOK(files'[f])
    BY <1>0 DEF FileInv
  <2> QED  BY <1>0, <1>2, <2>1, FileKept
<1>7. RefsAccounted'
  <2>1. ASSUME NEW f \in File PROVE Balanced(p, k, f) /\ LostStays(k, f)
    <3>1. Among(k.files, f) = 0 /\ Among(call[p].files, f) = 0
      BY <1>1, <1>2, AmongIs
    <3>2. files[f].ref \in Nat
      BY <1>0 DEF Types, FileRec
    <3> QED  BY <1>0, <3>1, <3>2 DEF Balanced, LostStays, FdRefs
  <2> QED  BY <1>0, <2>1, RefsKept
<1>8. PageInv'
  <2>1. \A h \in Page : /\ pages'[h].used = pages[h].used
                        /\ pages'[h].readopen = pages[h].readopen
                        /\ pages'[h].writeopen = pages[h].writeopen
    BY <1>3 DEF g
  <2> QED  BY <1>0, <1>2, <2>1, PageKept
<1>9. HoldInv'
  BY <1>0, HoldKept
<1>10. RingInv'
  <2>1. \A h \in Page : Fill(pages'[h]) <= Size
    BY <1>0, <1>3 DEF RingInv
  <2> QED  BY <2>1 DEF RingInv
<1> QED  BY <1>4, <1>5, <1>6, <1>7, <1>8, <1>9, <1>10 DEF IInv

\* Who goes on sleeping in the page a step of p changes.
LEMMA IoSleep ==
  ASSUME IInv, NEW p \in Proc, call[p].op \in {"read", "write"}, NEW k, OneCall(p, k),
         NEW u, pages' = [pages EXCEPT ![call[p].pipe] = u], UNCHANGED killed,
         \A q \in Proc : q # p /\ sleeping'[q] # None =>
           /\ sleeping'[q] = sleeping[q]
           /\ \/ sleeping[q] # call[p].pipe
              \/ call[q].op = "read" /\ Fill(u) = 0 /\ u.writeopen
              \/ call[q].op = "write" /\ Fill(u) = Size /\ u.readopen,
         \/ sleeping'[p] = None
         \/ /\ sleeping'[p] = call[p].pipe /\ ~killed[p] /\ k.pipe = call[p].pipe
            /\ \/ k.op = "read" /\ Fill(u) = 0 /\ u.writeopen
               \/ k.op = "write" /\ Fill(u) = Size /\ u.readopen
  PROVE  SleepInv'
<1> DEFINE g == call[p].pipe
<1>0. Types /\ SleepInv /\ g \in Page
  BY CallFields DEF IInv, Types
<1> HIDE DEF g
<1>1. pages'[g] = u /\ \A h \in Page : h # g => pages'[h] = pages[h]
  BY <1>0 DEF g, Types
<1>2. call'[p] = k /\ \A q \in Proc : q # p => call'[q] = call[q]
  BY <1>0, OthersCall
<1>3. ASSUME NEW q \in Proc, sleeping'[q] # None
      PROVE  /\ ~killed'[q] /\ sleeping'[q] = call'[q].pipe
             /\ \/ call'[q].op = "read"  /\ Fill(pages'[sleeping'[q]]) = 0    /\ pages'[sleeping'[q]].writeopen
                \/ call'[q].op = "write" /\ Fill(pages'[sleeping'[q]]) = Size /\ pages'[sleeping'[q]].readopen
  <2>1. CASE q = p
    BY <1>1, <1>2, <1>3, <2>1 DEF g
  <2>2. CASE q # p
    <3>1. /\ sleeping'[q] = sleeping[q] /\ call'[q] = call[q] /\ sleeping[q] \in Page
          /\ ~killed[q] /\ sleeping[q] = call[q].pipe
      BY <1>0, <1>2, <1>3, <2>2 DEF SleepInv, SleepersBlocked, Types
    <3>2. CASE sleeping[q] = g
      BY <1>1, <1>3, <2>2, <3>1, <3>2 DEF g
    <3>3. CASE sleeping[q] # g
      BY <1>0, <1>1, <1>3, <3>1, <3>3 DEF SleepInv, SleepersBlocked
    <3> QED  BY <3>2, <3>3
  <2> QED  BY <2>1, <2>2
<1> QED  BY <1>3 DEF SleepInv, SleepersBlocked

LEMMA OldestIs ==
  ASSUME NEW pg \in PageRec, NEW k \in Nat
  PROVE  Oldest(pg, k) \in Seq(Nat) /\ Len(Oldest(pg, k)) = k
<1>1. Size \in Nat \ {0} /\ pg.data \in [0..(Size - 1) -> Nat] /\ pg.nread \in Nat
  BY FreshIs DEF PageRec
<1>2. \A a \in Int : a % Size \in 0..(Size - 1)
  BY <1>1
<1>3. \A j \in 1..k : pg.data[(pg.nread + j - 1) % Size] \in Nat
  <2>1. \A j \in 1..k : pg.nread + j - 1 \in Int
    BY <1>1
  <2>2. \A j \in 1..k : (pg.nread + j - 1) % Size \in 0..(Size - 1)
    BY <1>2, <2>1
  <2> QED  BY <1>1, <2>2
<1> QED  BY <1>3 DEF Oldest

LEMMA MinIs ==
  ASSUME NEW a \in Nat, NEW b \in Nat
  PROVE  /\ Min(a, b) \in Nat /\ Min(a, b) <= a /\ Min(a, b) <= b
         /\ Min(a, b) = a \/ Min(a, b) = b
BY DEF Min

\* A read does not sleep, and does not end early, before the pipe is empty.
ReadOf(c, pg, k, buf, u) ==
  /\ k = Min(c.n - Len(c.buf), Fill(pg))
  /\ buf = c.buf \o Oldest(pg, k)
  /\ u = [pg EXCEPT !.nread = (pg.nread + k) % Wrap]

LEMMA ReadIs ==
  ASSUME NEW c \in CallRec, CallFits(c), c.op = "read",
         NEW pg \in PageRec, Fill(pg) <= Size,
         NEW k, NEW buf, NEW u, ReadOf(c, pg, k, buf, u)
  PROVE  /\ k \in Nat /\ buf \in Seq(Nat) /\ Len(buf) = Len(c.buf) + k
         /\ u \in PageRec /\ u.used = pg.used
         /\ u.readopen = pg.readopen
         /\ u.writeopen = pg.writeopen
         /\ Fill(u) = Fill(pg) - k /\ Fill(u) \in Nat /\ Fill(u) <= Size
         /\ Len(buf) < c.n => Fill(u) = 0 /\ Fill(pg) < Size
<1>1. /\ c.pipe \in Page /\ c.n \in Nat /\ c.buf \in Seq(Nat) /\ c.n <= MaxRead /\ Len(c.buf) < c.n
      /\ Len(c.buf) \in Nat
  <2>1. c.pipe \in Page /\ c.n \in Nat /\ c.buf \in Seq(Nat)
    BY CallFields
  <2>2. c.n <= MaxRead /\ Len(c.buf) < c.n
    BY DEF CallFits
  <2> QED  BY <2>1, <2>2, LenProperties
<1>2. Fill(pg) \in Nat /\ pg.nread \in 0..(Wrap - 1)
  BY FillIs
<1>3. Wrap \in Nat \ {0} /\ Size \in Nat /\ MaxRead \in Nat /\ MaxRead <= Size
  BY PipeAssumption
<1>4. /\ k = Min(c.n - Len(c.buf), Fill(pg)) /\ buf = c.buf \o Oldest(pg, k)
      /\ u = [pg EXCEPT !.nread = (pg.nread + k) % Wrap]
  BY DEF ReadOf
<1>5. k \in Nat /\ k <= Fill(pg) /\ k <= c.n - Len(c.buf) /\ (k = Fill(pg) \/ k = c.n - Len(c.buf))
  <2>1. c.n - Len(c.buf) \in Nat
    BY <1>1
  <2> QED  BY <1>2, <1>4, <2>1, MinIs
<1>6. buf \in Seq(Nat) /\ Len(buf) = Len(c.buf) + k
  <2> DEFINE o == Oldest(pg, k)
  <2>1. o \in Seq(Nat) /\ Len(o) = k
    BY <1>2, <1>5, OldestIs
  <2> HIDE DEF o
  <2>2. c.buf \o o \in Seq(Nat) /\ Len(c.buf \o o) = Len(c.buf) + Len(o)
    BY <1>1, <2>1, ConcatProperties
  <2> QED  BY <1>4, <2>1, <2>2 DEF o
<1>7. /\ u \in PageRec /\ u.used = pg.used /\ u.readopen = pg.readopen /\ u.writeopen = pg.writeopen
      /\ u.nread = (pg.nread + k) % Wrap /\ u.nwrite = pg.nwrite
  <2>1. (pg.nread + k) % Wrap \in 0..(Wrap - 1)
    <3>1. \A a \in Int : a % Wrap \in 0..(Wrap - 1)
      BY <1>3
    <3>2. pg.nread + k \in Int
      BY <1>2, <1>3, <1>5
    <3> QED  BY <3>1, <3>2
  <2> QED  BY <1>2, <1>4, <2>1 DEF PageRec
<1>8. Fill(u) = Fill(pg) - k
  BY <1>2, <1>5, <1>7, FillMoves
<1>9. Fill(u) \in Nat /\ Fill(u) <= Size
  BY <1>2, <1>3, <1>5, <1>8
<1>10. Len(buf) < c.n => Fill(u) = 0 /\ Fill(pg) < Size
  <2>1. ASSUME Len(buf) < c.n PROVE Fill(u) = 0 /\ Fill(pg) < Size
    <3>1. k # c.n - Len(c.buf) /\ k < c.n
      BY <1>1, <1>5, <1>6, <2>1
    <3>2. k = Fill(pg)
      BY <1>5, <3>1
    <3> QED  BY <1>1, <1>2, <1>3, <1>8, <3>1, <3>2
  <2> QED  BY <2>1
<1> QED  BY <1>5, <1>6, <1>7, <1>8, <1>9, <1>10

LEMMA ReadKeeps ==
  ASSUME IInv, NEW p \in Proc, ReadStep(p)
  PROVE  IInv'
<1> DEFINE c == call[p]
           g == c.pipe
           pg == pages[g]
           k == Min(c.n - Len(c.buf), Fill(pg))
           buf == c.buf \o Oldest(pg, k)
           u == [pg EXCEPT !.nread = (@ + k) % Wrap]
<1>0. Types /\ SleepInv /\ RingInv
  BY DEF IInv
<1>1. /\ In(p, "read") /\ c.op = "read" /\ c.op \in {"read", "write"} /\ sleeping[p] = None
      /\ UNCHANGED <<procVars, fds, files, panicked>> /\ killed' = killed
  BY InIs DEF ReadStep, procVars
<1>2. g \in Page /\ c.n \in Nat /\ c.buf \in Seq(Nat) /\ c.n <= MaxRead /\ c \in CallRec /\ c.files = <<>>
  <2>1. g \in Page /\ c.n \in Nat /\ c.buf \in Seq(Nat)
    BY <1>0, <1>1, CallFields DEF Types
  <2>2. c.n <= MaxRead /\ c \in CallRec /\ c.files = <<>>
    BY <1>0, <1>1 DEF Types, CallFits
  <2> QED  BY <2>1, <2>2
<1>3. pages' = [pages EXCEPT ![g] = u]
  <2>1. pages' = [pages EXCEPT ![g].nread = (@ + k) % Wrap]
    BY DEF ReadStep
  <2>2. pages \in [Page -> PageRec]
    BY <1>0 DEF Types
  <2> HIDE DEF k
  <2> QED  BY <1>2, <2>1, <2>2
<1>4. /\ k \in Nat /\ buf \in Seq(Nat) /\ Len(buf) = Len(c.buf) + k
      /\ u \in PageRec /\ u.used = pg.used /\ u.readopen = pg.readopen /\ u.writeopen = pg.writeopen
      /\ Fill(u) = Fill(pg) - k /\ Fill(u) \in Nat /\ Fill(u) <= Size
      /\ Len(buf) < c.n => Fill(u) = 0 /\ Fill(pg) < Size
  <2>1. ReadOf(c, pg, k, buf, u)
    BY DEF ReadOf
  <2>2. pg \in PageRec /\ Fill(pg) <= Size /\ c \in CallRec /\ CallFits(c)
    BY <1>0, <1>2 DEF Types, RingInv
  <2> HIDE DEF c, pg, k, buf, u
  <2> QED  BY <1>1, <2>1, <2>2, ReadIs
<1>5. \/ Len(buf) = c.n /\ Goes(p, User) /\ sleeping' = Wakeup(g)
      \/ Len(buf) < c.n /\ Goes(p, User) /\ sleeping' = sleeping
      \/ /\ Len(buf) < c.n /\ pg.writeopen /\ ~killed[p] /\ sleeping' = [sleeping EXCEPT ![p] = g]
         /\ call' = [call EXCEPT ![p].buf = buf]
  BY DEF ReadStep, Returns, Sleeps, Ended
<1> HIDE DEF k, buf, u, c, pg
<1>6. \A q \in Proc : /\ q # p /\ sleeping[q] = g =>
                           \/ call[q].op = "read"  /\ Fill(pg) = 0    /\ pg.writeopen
                           \/ call[q].op = "write" /\ Fill(pg) = Size /\ pg.readopen
                      /\ sleeping[q] \in Page \cup {None}
  BY <1>0, <1>2, Constants DEF SleepInv, SleepersBlocked, Types, pg
<1>7. \A q \in Proc : q # p /\ sleeping[q] # None /\ Len(buf) < c.n =>
           \/ sleeping[q] # g
           \/ call[q].op = "read" /\ Fill(u) = 0 /\ u.writeopen
           \/ call[q].op = "write" /\ Fill(u) = Size /\ u.readopen
  BY <1>4, <1>6, FreshIs
<1> DEFINE Good(m) ==
               /\ OneCall(p, m)
               /\ m.op = "user" \/ (m.op = "read" /\ m.pipe = g)
               /\ sleeping' \in [Proc -> Page \cup {None}]
               /\ \A q \in Proc : q # p /\ sleeping'[q] # None =>
                    /\ sleeping'[q] = sleeping[q]
                    /\ \/ sleeping[q] # g
                       \/ call[q].op = "read" /\ Fill(u) = 0 /\ u.writeopen
                       \/ call[q].op = "write" /\ Fill(u) = Size /\ u.readopen
               /\ \/ sleeping'[p] = None
                  \/ /\ sleeping'[p] = g /\ ~killed[p] /\ m.op = "read" /\ m.pipe = g
                     /\ Fill(u) = 0 /\ u.writeopen
<1>8. \E m : Good(m)
  <2>0. sleeping \in [Proc -> Page \cup {None}]
    BY <1>0 DEF Types
  <2>1. CASE Len(buf) = c.n /\ Goes(p, User) /\ sleeping' = Wakeup(g)
    <3>1. OneCall(p, User) /\ User.op = "user"
      BY <2>1, UserFits DEF OneCall, Goes
    <3>2. sleeping' = [q \in Proc |-> IF sleeping[q] = g THEN None ELSE sleeping[q]]
      BY <2>1 DEF Wakeup
    <3>3. sleeping' \in [Proc -> Page \cup {None}]
      BY <2>0, <3>2
    <3>4. \A q \in Proc : sleeping'[q] # None => sleeping'[q] = sleeping[q] /\ sleeping[q] # g
      BY <3>2
    <3>5. sleeping'[p] = None
      BY <1>1, <3>2
    <3>6. Good(User)
      BY <3>1, <3>3, <3>4, <3>5
    <3> QED  BY <3>6
  <2>2. CASE Len(buf) < c.n /\ Goes(p, User) /\ sleeping' = sleeping
    <3>1. OneCall(p, User) /\ User.op = "user"
      BY <2>2, UserFits DEF OneCall, Goes
    <3>2. Good(User)
      BY <1>1, <1>7, <2>0, <2>2, <3>1
    <3> QED  BY <3>2
  <2>3. CASE /\ Len(buf) < c.n /\ pg.writeopen /\ ~killed[p] /\ sleeping' = [sleeping EXCEPT ![p] = g]
             /\ call' = [call EXCEPT ![p].buf = buf]
    <3> DEFINE m == [c EXCEPT !.buf = buf]
    <3>1. /\ m.op = "read" /\ m.files = <<>> /\ m.n = c.n /\ m.buf = buf /\ m.pipe = g /\ m \in CallRec
      BY <1>1, <1>2, <1>4 DEF CallRec, c
    <3>2. call' = [call EXCEPT ![p] = m]
      BY <1>0, <2>3 DEF Types, c
    <3> HIDE DEF m
    <3>3. OneCall(p, m)
      <4>1. CallFits(m)
        BY <1>2, <2>3, <3>1 DEF CallFits
      <4> QED  BY <3>1, <3>2, <4>1 DEF OneCall
    <3>4. sleeping' \in [Proc -> Page \cup {None}] /\ sleeping'[p] = g
          /\ \A q \in Proc : q # p => sleeping'[q] = sleeping[q]
      BY <1>2, <2>0, <2>3
    <3>5. Good(m)
      BY <1>4, <1>7, <2>3, <3>1, <3>3, <3>4
    <3> QED  BY <3>5
  <2> QED  BY <1>5, <2>1, <2>2, <2>3
<1>9. PICK m : Good(m)
  BY <1>8
<1>10. SleepInv'
  BY <1>1, <1>3, <1>9, IoSleep DEF c, g
<1> QED  BY <1>1, <1>3, <1>4, <1>9, <1>10, IoKeeps DEF c, g, pg

LEMMA StoredIs ==
  ASSUME NEW pg \in PageRec, NEW s \in Seq(Nat)
  PROVE  LET u == Stored(pg, s) IN
           /\ u \in PageRec /\ u.used = pg.used /\ u.readopen = pg.readopen
           /\ u.writeopen = pg.writeopen /\ u.nread = pg.nread
           /\ u.nwrite = (pg.nwrite + Len(s)) % Wrap
<1> DEFINE at(i) == ((i - pg.nwrite) % Size) + 1
           data == [i \in DOMAIN pg.data |-> IF at(i) <= Len(s) THEN s[at(i)] ELSE pg.data[i]]
           nwrite == (pg.nwrite + Len(s)) % Wrap
           u == Stored(pg, s)
<1>1. /\ Size \in Nat \ {0} /\ Wrap \in Nat \ {0} /\ pg.data \in [0..(Size - 1) -> Nat] /\ pg.nwrite \in Nat
      /\ Len(s) \in Nat
  BY FreshIs, LenProperties DEF PageRec
<1>2. \A i \in 0..(Size - 1) : at(i) \in Nat /\ at(i) >= 1
  <2>1. \A a \in Int : a % Size \in 0..(Size - 1)
    BY <1>1
  <2>2. ASSUME NEW i \in 0..(Size - 1) PROVE at(i) \in Nat /\ at(i) >= 1
    <3>1. i - pg.nwrite \in Int
      BY <1>1
    <3>2. (i - pg.nwrite) % Size \in 0..(Size - 1)
      BY <2>1, <3>1
    <3> DEFINE r == (i - pg.nwrite) % Size
    <3>3. r \in 0..(Size - 1)
      BY <3>2
    <3> HIDE DEF r
    <3>4. r + 1 \in Nat /\ r + 1 >= 1
      BY <1>1, <3>3
    <3> QED  BY <3>4 DEF r
  <2> QED  BY <2>2
<1>3. data \in [0..(Size - 1) -> Nat]
  <2> HIDE DEF at
  <2>1. \A i \in 0..(Size - 1) : at(i) <= Len(s) => s[at(i)] \in Nat
    <3>1. \A j \in 1..Len(s) : s[j] \in Nat
      BY ElementOfSeq
    <3> QED  BY <1>1, <1>2, <3>1
  <2> QED  BY <1>1, <2>1
<1>4. nwrite \in 0..(Wrap - 1)
  <2>1. \A a \in Int : a % Wrap \in 0..(Wrap - 1)
    BY <1>1
  <2>2. pg.nwrite + Len(s) \in Int
    BY <1>1
  <2> QED  BY <2>1, <2>2
<1>5. u = [pg EXCEPT !.data = data, !.nwrite = nwrite]
  BY DEF Stored
<1> HIDE DEF data, at, u
<1>6. /\ u.used = pg.used /\ u.readopen = pg.readopen /\ u.writeopen = pg.writeopen
      /\ u.nread = pg.nread /\ u.nwrite = nwrite /\ u \in PageRec
  <2> HIDE DEF nwrite
  <2> QED  BY <1>3, <1>4, <1>5 DEF PageRec
<1> QED  BY <1>6 DEF u

WriteOf(c, pg, k, buf, u) ==
  /\ k = Min(Len(c.buf), Room(pg))
  /\ buf = SubSeq(c.buf, k + 1, Len(c.buf))
  /\ u = Stored(pg, SubSeq(c.buf, 1, k))

\* A write does not sleep, and is not refused, before the pipe is full.
LEMMA WriteIs ==
  ASSUME NEW c \in CallRec, CallFits(c), c.op = "write",
         NEW pg \in PageRec, Fill(pg) <= Size,
         NEW k, NEW buf, NEW u, WriteOf(c, pg, k, buf, u)
  PROVE  /\ k \in Nat /\ buf \in Seq(Nat) /\ Len(buf) = Len(c.buf) - k
         /\ u \in PageRec /\ u.used = pg.used
         /\ u.readopen = pg.readopen
         /\ u.writeopen = pg.writeopen
         /\ Fill(u) = Fill(pg) + k /\ Fill(u) \in Nat /\ Fill(u) <= Size
         /\ buf # <<>> => Fill(u) = Size /\ Fill(pg) > 0 /\ Len(buf) \in 1..Size
<1>1. c.buf \in Seq(Nat) /\ Len(c.buf) \in Nat /\ Len(c.buf) >= 1 /\ Len(c.buf) <= Size
  <2>1. c.buf \in Seq(Nat)
    BY CallFields
  <2>2. Len(c.buf) \in 1..Size
    BY DEF CallFits
  <2> QED  BY <2>1, <2>2, LenProperties, FreshIs
<1>2. Fill(pg) \in Nat /\ Size \in Nat /\ Size - Fill(pg) \in Nat
  BY FillIs, FreshIs
<1>3. /\ k = Min(Len(c.buf), Size - Fill(pg)) /\ buf = SubSeq(c.buf, k + 1, Len(c.buf))
      /\ u = Stored(pg, SubSeq(c.buf, 1, k))
  BY DEF WriteOf, Room
<1>4. /\ k \in Nat /\ k <= Len(c.buf) /\ k <= Size - Fill(pg)
      /\ k = Len(c.buf) \/ k = Size - Fill(pg)
  BY <1>1, <1>2, <1>3, MinIs
<1> DEFINE s == SubSeq(c.buf, 1, k)
           t == SubSeq(c.buf, k + 1, Len(c.buf))
           b == c.buf
<1>5. \A j \in 1..Len(b) : b[j] \in Nat
  BY <1>1, ElementOfSeq
<1>6. s \in Seq(Nat) /\ Len(s) = k
  <2> HIDE DEF b
  <2>1. \A j \in 1..k : j \in 1..Len(b)
    BY <1>1, <1>4 DEF b
  <2>2. \A j \in 1..k : b[j] \in Nat
    BY <1>5, <2>1
  <2>3. s = [j \in 1..k |-> b[j]]
    BY <1>1, <1>4 DEF b
  <2> QED  BY <1>4, <2>2, <2>3
<1>7. t \in Seq(Nat) /\ Len(t) = Len(c.buf) - k
  BY <1>1, <1>4, <1>5
<1> HIDE DEF s, t, b
<1>8. /\ u \in PageRec /\ u.used = pg.used /\ u.readopen = pg.readopen
      /\ u.writeopen = pg.writeopen /\ u.nread = pg.nread
      /\ u.nwrite = (pg.nwrite + k) % Wrap
  <2>1. u = Stored(pg, s)
    BY <1>3 DEF s
  <2> DEFINE v == Stored(pg, s)
  <2>2. /\ v \in PageRec /\ v.used = pg.used /\ v.readopen = pg.readopen
        /\ v.writeopen = pg.writeopen /\ v.nread = pg.nread
        /\ v.nwrite = (pg.nwrite + Len(s)) % Wrap
    BY <1>6, StoredIs
  <2> HIDE DEF v
  <2>3. u = v
    BY <2>1 DEF v
  <2> QED  BY <1>6, <2>2, <2>3
<1>9. Fill(u) = Fill(pg) + k
  BY <1>4, <1>8, FillMoves
<1>10. Fill(u) \in Nat /\ Fill(u) <= Size
  BY <1>2, <1>4, <1>9
<1>11. buf = t
  BY <1>3 DEF t
<1>12. ASSUME buf # <<>> PROVE Fill(u) = Size /\ Fill(pg) > 0 /\ Len(buf) \in 1..Size
  <2>1. Len(t) # 0
    BY <1>7, <1>11, <1>12, EmptySeq
  <2>2. k # Len(c.buf) /\ k = Size - Fill(pg)
    BY <1>1, <1>4, <1>7, <2>1
  <2> DEFINE n == Len(c.buf)  fill == Fill(pg)  now == Fill(u)
  <2>3. n \in Nat /\ n <= Size /\ fill \in Nat /\ Size \in Nat /\ k \in Nat
        /\ k <= n /\ k # n /\ k = Size - fill /\ now = fill + k /\ Len(t) = n - k
    BY <1>1, <1>2, <1>4, <1>7, <1>9, <2>2
  <2> HIDE DEF n, fill, now
  <2>4. now = Size /\ fill > 0 /\ Len(t) \in 1..Size
    BY <2>3
  <2> QED  BY <1>11, <2>4 DEF fill, now
<1> QED  BY <1>4, <1>7, <1>8, <1>9, <1>10, <1>11, <1>12

LEMMA WriteKeeps ==
  ASSUME IInv, NEW p \in Proc, WriteStep(p)
  PROVE  IInv'
<1> DEFINE c == call[p]
           g == c.pipe
           pg == pages[g]
           k == Min(Len(c.buf), Room(pg))
           buf == SubSeq(c.buf, k + 1, Len(c.buf))
           u == Stored(pg, SubSeq(c.buf, 1, k))
<1>0. Types /\ SleepInv /\ RingInv
  BY DEF IInv
<1>1. /\ In(p, "write") /\ c.op = "write" /\ c.op \in {"read", "write"} /\ sleeping[p] = None
      /\ UNCHANGED <<procVars, fds, files, panicked>> /\ killed' = killed
  BY InIs DEF WriteStep, procVars
<1>2. g \in Page /\ c.n \in Nat /\ c.buf \in Seq(Nat) /\ c \in CallRec /\ CallFits(c) /\ c.files = <<>>
  <2>1. g \in Page /\ c.n \in Nat /\ c.buf \in Seq(Nat)
    BY <1>0, <1>1, CallFields DEF Types
  <2>2. c \in CallRec /\ CallFits(c) /\ c.files = <<>>
    BY <1>0, <1>1 DEF Types, CallFits
  <2> QED  BY <2>1, <2>2
<1>3. pages' = [pages EXCEPT ![g] = u]
  BY DEF WriteStep
<1>4. /\ k \in Nat /\ buf \in Seq(Nat) /\ Len(buf) = Len(c.buf) - k
      /\ u \in PageRec /\ u.used = pg.used /\ u.readopen = pg.readopen /\ u.writeopen = pg.writeopen
      /\ Fill(u) = Fill(pg) + k /\ Fill(u) \in Nat /\ Fill(u) <= Size
      /\ buf # <<>> => Fill(u) = Size /\ Fill(pg) > 0 /\ Len(buf) \in 1..Size
  <2>1. WriteOf(c, pg, k, buf, u)
    BY DEF WriteOf
  <2>2. pg \in PageRec /\ Fill(pg) <= Size
    BY <1>0, <1>2 DEF Types, RingInv
  <2> HIDE DEF c, pg, k, buf, u
  <2> QED  BY <1>1, <1>2, <2>1, <2>2, WriteIs
<1>5. \/ Goes(p, User) /\ sleeping' = Wakeup(g)
      \/ buf # <<>> /\ Goes(p, User) /\ sleeping' = sleeping
      \/ /\ buf # <<>> /\ pg.readopen /\ ~killed[p] /\ sleeping' = [Wakeup(g) EXCEPT ![p] = g]
         /\ call' = [call EXCEPT ![p].buf = buf]
  BY DEF WriteStep, Returns, Sleeps
<1> HIDE DEF k, buf, u, c, pg
<1>6. \A q \in Proc : /\ q # p /\ sleeping[q] = g =>
                           \/ call[q].op = "read"  /\ Fill(pg) = 0    /\ pg.writeopen
                           \/ call[q].op = "write" /\ Fill(pg) = Size /\ pg.readopen
                      /\ sleeping[q] \in Page \cup {None}
  BY <1>0, <1>2, Constants DEF SleepInv, SleepersBlocked, Types, pg
<1>7. \A q \in Proc : q # p /\ sleeping[q] # None /\ buf # <<>> =>
           \/ sleeping[q] # g
           \/ call[q].op = "read" /\ Fill(u) = 0 /\ u.writeopen
           \/ call[q].op = "write" /\ Fill(u) = Size /\ u.readopen
  BY <1>4, <1>6, FreshIs
<1> DEFINE Good(m) ==
             /\ OneCall(p, m)
             /\ m.op = "user" \/ (m.op = "write" /\ m.pipe = g)
             /\ sleeping' \in [Proc -> Page \cup {None}]
             /\ \A q \in Proc : q # p /\ sleeping'[q] # None =>
                  /\ sleeping'[q] = sleeping[q]
                  /\ \/ sleeping[q] # g
                     \/ call[q].op = "read" /\ Fill(u) = 0 /\ u.writeopen
                     \/ call[q].op = "write" /\ Fill(u) = Size /\ u.readopen
             /\ \/ sleeping'[p] = None
                \/ /\ sleeping'[p] = g /\ ~killed[p] /\ m.op = "write" /\ m.pipe = g
                   /\ Fill(u) = Size /\ u.readopen
<1>8. \E m : Good(m)
  <2>0. sleeping \in [Proc -> Page \cup {None}]
    BY <1>0 DEF Types
  <2> DEFINE w == Wakeup(g)
  <2>4. /\ w \in [Proc -> Page \cup {None}] /\ w[p] = None
        /\ \A q \in Proc : w[q] # None => w[q] = sleeping[q] /\ sleeping[q] # g
    BY <1>1, <2>0 DEF Wakeup
  <2> HIDE DEF w
  <2>1. CASE Goes(p, User) /\ sleeping' = w
    <3>1. OneCall(p, User) /\ User.op = "user"
      BY <2>1, UserFits DEF OneCall, Goes
    <3>2. Good(User)
      BY <2>1, <2>4, <3>1
    <3> QED  BY <3>2
  <2>2. CASE buf # <<>> /\ Goes(p, User) /\ sleeping' = sleeping
    <3>1. OneCall(p, User) /\ User.op = "user"
      BY <2>2, UserFits DEF OneCall, Goes
    <3>2. Good(User)
      BY <1>1, <1>7, <2>0, <2>2, <3>1
    <3> QED  BY <3>2
  <2>3. CASE /\ buf # <<>> /\ pg.readopen /\ ~killed[p] /\ sleeping' = [w EXCEPT ![p] = g]
             /\ call' = [call EXCEPT ![p].buf = buf]
    <3> DEFINE m == [c EXCEPT !.buf = buf]
    <3>1. /\ m.op = "write" /\ m.files = <<>> /\ m.n = c.n /\ m.buf = buf /\ m.pipe = g /\ m \in CallRec
      BY <1>1, <1>2, <1>4 DEF CallRec, c
    <3>2. call' = [call EXCEPT ![p] = m]
      BY <1>0, <2>3 DEF Types, c
    <3> HIDE DEF m
    <3>3. OneCall(p, m)
      <4>1. CallFits(m)
        BY <1>4, <2>3, <3>1 DEF CallFits
      <4> QED  BY <3>1, <3>2, <4>1 DEF OneCall
    <3>4. sleeping' \in [Proc -> Page \cup {None}] /\ sleeping'[p] = g
          /\ \A q \in Proc : q # p => sleeping'[q] = w[q]
      BY <1>2, <2>3, <2>4
    <3>5. Good(m)
      BY <1>4, <2>3, <2>4, <3>1, <3>3, <3>4
    <3> QED  BY <3>5
  <2> QED  BY <1>5, <2>1, <2>2, <2>3 DEF w
<1>9. PICK m : Good(m)
  BY <1>8
<1>10. SleepInv'
  BY <1>1, <1>3, <1>9, IoSleep DEF c, g
<1> QED  BY <1>1, <1>3, <1>4, <1>9, <1>10, IoKeeps DEF c, g, pg

-----------------------------------------------------------------------------
(* fork, exit, kill and wait.                                              *)
LEMMA ProcKeeps ==
  ASSUME IInv, NEW p \in Proc, call' = call, pages' = pages, Types', StatusInv', SleepInv',
         \A q \in Proc : call[q].op \in {"read", "write"} => fds'[q] = fds[q],
         call[p] = User \/ files' = files, FilesQuiet(p),
         \A f \in File : Balanced(p, call[p], f) /\ LostStays(call[p], f)
  PROVE  IInv'
<1>0. /\ Types /\ StatusInv /\ FileInv /\ RefsAccounted /\ PageInv /\ HoldInv /\ RingInv
  BY DEF IInv
<1>1. OneCall(p, call[p])
  BY <1>0 DEF OneCall, Types
<1>2. RefsAccounted'
  BY <1>0, <1>1, RefsKept
<1>3. FileInv'
  <2>1. call[p].op \in {"open", "pipe", "make"} =>
          \A i \in DOMAIN call[p].files : files'[call[p].files[i]] = New
    BY <1>0, UserFits DEF FileInv
  <2> QED  BY <1>0, <1>1, <2>1, FileKept DEF FilesQuiet
<1>4. PageInv'
  BY <1>0, <1>1, PageKept DEF FilesQuiet
<1>5. HoldInv'
  <2>1. \A q \in Proc, d \in Fd : fds[q][d] # None => fds[q][d] \in File
    BY <1>0 DEF Types
  <2>2. \A q \in Proc, d \in Fd :
          fds[q][d] # None /\ files[fds[q][d]].pipe # None =>
            /\ files'[fds[q][d]].pipe = files[fds[q][d]].pipe
            /\ files'[fds[q][d]].readable = files[fds[q][d]].readable
    BY <2>1 DEF FilesQuiet
  <2> QED  BY <1>0, <1>1, <2>2, HoldKept
<1>6. RingInv'
  BY <1>0, RingKept
<1> QED  BY <1>2, <1>3, <1>4, <1>5, <1>6 DEF IInv

\* Steps that do not touch files.
LEMMA FilesSame ==
  ASSUME IInv, NEW p \in Proc, files' = files, fds' = fds
  PROVE  FilesQuiet(p) /\ \A f \in File : Balanced(p, call[p], f) /\ LostStays(call[p], f)
<1>0. Types /\ FileInv
  BY DEF IInv
<1>1. FilesQuiet(p)
  BY <1>0 DEF FilesQuiet, FileInv
<1>2. ASSUME NEW f \in File PROVE Balanced(p, call[p], f) /\ LostStays(call[p], f)
  <2>1. files[f].ref \in Nat
    BY <1>0 DEF Types, FileRec
  <2>2. \A i \in DOMAIN call[p].files : CallRefs(f) = {} => call[p].files[i] # f
    BY <1>0, InRefs
  <2>3. CallRefs(f) = {} => Among(call[p].files, f) = 0
    BY <2>2 DEF Among, Has
  <2> QED  BY <2>1, <2>3 DEF Balanced, LostStays, FdRefs
<1> QED  BY <1>1, <1>2

LEMMA ExitKeeps ==
  ASSUME IInv, NEW p \in Proc, Exit(p)
  PROVE  IInv'
<1>0. Types /\ StatusInv /\ SleepInv
  BY DEF IInv
<1>1. /\ call[p] = User /\ status' = [status EXCEPT ![p] = "zombie"]
      /\ parent' = parent /\ killed' = killed /\ fds' = fds /\ files' = files /\ pages' = pages
      /\ call' = call /\ sleeping' = sleeping /\ panicked' = panicked
  BY DEF Exit
<1>2. Types'
  BY <1>0, <1>1 DEF Types
<1>3. StatusInv'
  BY <1>0, <1>1 DEF StatusInv, Types
<1>4. SleepInv'
  BY <1>0, <1>1, SleepKept
<1> QED  BY <1>1, <1>2, <1>3, <1>4, FilesSame, ProcKeeps

LEMMA KillKeeps ==
  ASSUME IInv, NEW t \in Proc, Kill(t)
  PROVE  IInv'
<1>0. Types /\ StatusInv /\ SleepInv
  BY DEF IInv
<1>1. /\ killed' = [killed EXCEPT ![t] = TRUE] /\ sleeping' = [sleeping EXCEPT ![t] = None]
      /\ status' = status /\ parent' = parent /\ fds' = fds /\ files' = files /\ pages' = pages
      /\ call' = call /\ panicked' = panicked
  BY DEF Kill
<1>2. Types'
  BY <1>0, <1>1 DEF Types
<1>3. StatusInv'
  BY <1>0, <1>1 DEF StatusInv
<1>4. SleepInv'
  <2>1. \A q \in Proc : sleeping'[q] # None =>
          /\ sleeping'[q] = sleeping[q] /\ call'[q] = call[q] /\ killed'[q] = killed[q]
          /\ pages'[sleeping[q]] = pages[sleeping[q]]
    BY <1>0, <1>1 DEF Types
  <2> QED  BY <1>0, <2>1, SleepKept
<1> QED  BY <1>1, <1>2, <1>3, <1>4, FilesSame, ProcKeeps

LEMMA UsesIs ==
  ASSUME NEW p \in Proc, NEW f \in File
  PROVE  /\ Uses(p, f) = Cardinality(FdsAt(fds, p, f)) /\ Uses(p, f) \in Nat
         /\ FdRefs(f) = {} => Uses(p, f) = 0
<1>1. Uses(p, f) = Cardinality(FdsAt(fds, p, f))
  BY DEF Uses, FdsAt
<1>2. FdsAt(fds, p, f) \in SUBSET Fd
  BY DEF FdsAt
<1>3. Uses(p, f) \in Nat
  BY <1>1, <1>2, RowCounts
<1>4. ASSUME FdRefs(f) = {} PROVE Uses(p, f) = 0
  <2>1. \A d \in Fd : fds[p][d] = f => <<p, d>> \in FdRefs(f)
    BY DEF FdRefs, FdSet
  <2>2. FdsAt(fds, p, f) = {}
    BY <1>4, <2>1 DEF FdsAt
  <2> QED  BY <1>1, <2>2, FS_EmptySet
<1> QED  BY <1>1, <1>3, <1>4

LEMMA ForkKeeps ==
  ASSUME IInv, NEW p \in Proc, Fork(p)
  PROVE  IInv'
<1>0. Types /\ StatusInv /\ SleepInv /\ FileInv /\ RefsAccounted
  BY DEF IInv
<1>1. /\ Calls(p) /\ files' = [f \in File |-> [files[f] EXCEPT !.ref = @ + Uses(p, f)]]
      /\ killed' = killed /\ pages' = pages /\ call' = call /\ sleeping' = sleeping
      /\ panicked' = panicked
  BY DEF Fork
<1>2. PICK n \in Proc : /\ status[n] = "unused" /\ status' = [status EXCEPT ![n] = "live"]
                        /\ parent' = [parent EXCEPT ![n] = p]
                        /\ fds' = [fds EXCEPT ![n] = fds[p]]
  BY DEF Fork, First
<1>3. /\ call[p] = User /\ call[p].op = "user" /\ call[n] = User /\ call[n].op = "user"
      /\ \A d \in Fd : fds[n][d] = None
  <2>1. call[n] = User /\ User.op = "user" /\ \A d \in Fd : fds[n][d] = None
    BY <1>0, <1>2, UserFits DEF StatusInv
  <2> QED  BY <1>1, <2>1, CallsIs
<1>4. /\ fds \in [Proc -> [Fd -> File \cup {None}]] /\ files \in [File -> FileRec]
      /\ fds' \in [Proc -> [Fd -> File \cup {None}]]
      /\ \A q \in Proc : q # n => fds'[q] = fds[q]
  BY <1>0, <1>2 DEF Types
<1>5. ASSUME NEW f \in File
      PROVE  /\ Uses(p, f) \in Nat /\ Uses(p, f) = Cardinality(FdsAt(fds, p, f))
             /\ FdRefs(f) = {} => Uses(p, f) = 0
             /\ Cardinality(FdSet(fds', f)) = Cardinality(FdSet(fds, f)) + Uses(p, f)
             /\ Cardinality(FdSet(fds, f)) \in Nat
  <2>0. NoFds(fds, n) /\ Inherits(fds, fds', p, n)
    BY <1>2, <1>3 DEF NoFds, Inherits
  <2>1. Cardinality(FdSet(fds', f)) = Cardinality(FdSet(fds, f)) + Cardinality(FdsAt(fds, p, f))
    BY <1>4, <2>0, FdFork
  <2> QED  BY <2>1, UsesIs, SetsFinite
<1>6. ASSUME NEW f \in File
      PROVE  /\ files'[f] \in FileRec /\ files[f].ref \in Nat
             /\ files'[f].ref = files[f].ref + Uses(p, f)
             /\ files'[f].pipe = files[f].pipe /\ files'[f].readable = files[f].readable
             /\ FileOK(files'[f])
             /\ FdRefs(f) = {} => files'[f] = files[f]
  <2> DEFINE r == files[f]  m == Uses(p, f)  s == [r EXCEPT !.ref = r.ref + m]
  <2>1. r \in FileRec /\ m \in Nat /\ FileOK(r)
    BY <1>0, <1>4, <1>5 DEF FileInv
  <2>2. files'[f] = s
    BY <1>1
  <2> HIDE DEF r, m
  <2>3. /\ s \in FileRec /\ s.ref = r.ref + m /\ s.pipe = r.pipe /\ s.readable = r.readable
        /\ s.writable = r.writable /\ s.type = r.type /\ r.ref \in Nat
    BY <2>1 DEF FileRec
  <2>4. m = 0 => s = r
    BY <2>1, <2>3 DEF FileRec
  <2> HIDE DEF s
  <2>5. FileOK(s)
    <3>1. CASE m = 0
      BY <2>1, <2>4, <3>1
    <3>2. CASE m # 0
      <4>1. s.ref # 0
        BY <2>1, <2>3, <3>2
      <4> QED  BY <2>1, <2>3, <4>1 DEF FileOK
    <3> QED  BY <3>1, <3>2
  <2> QED  BY <1>5, <2>2, <2>3, <2>4, <2>5 DEF r, m
<1>7. files' \in [File -> FileRec]
  BY <1>1, <1>6
<1>8. Types'
  BY <1>0, <1>1, <1>2, <1>4, <1>7 DEF Types
<1>9. StatusInv'
  <2>1. \A q \in Proc : q # n => status'[q] = status[q]
    BY <1>2
  <2>2. status'[n] = "live"
    BY <1>0, <1>2 DEF Types
  <2> QED  BY <1>0, <1>1, <1>4, <2>1, <2>2 DEF StatusInv
<1>10. SleepInv'
  BY <1>0, <1>1, SleepKept
<1>11. FilesQuiet(p)
  BY <1>6 DEF FilesQuiet
<1>12. ASSUME NEW f \in File PROVE Balanced(p, call[p], f) /\ LostStays(call[p], f)
  <2>1. Among(call[p].files, f) = 0
    BY <1>3, AmongIs
  <2>2. Balanced(p, call[p], f)
    BY <1>5, <1>6, <2>1 DEF Balanced
  <2>3. ASSUME FdRefs(f) = {} PROVE FdSet(fds', f) = {}
    <3>1. Cardinality(FdSet(fds, f)) = 0
      BY <2>3, FS_EmptySet DEF FdRefs
    <3>2. Cardinality(FdSet(fds', f)) = 0
      BY <1>5, <2>3, <3>1
    <3> QED  BY <3>2, SetsFinite, FS_EmptySet
  <2> QED  BY <1>6, <2>1, <2>2, <2>3 DEF LostStays
<1>13. \A q \in Proc : call[q].op \in {"read", "write"} => fds'[q] = fds[q]
  BY <1>3, <1>4
<1> QED  BY <1>1, <1>3, <1>8, <1>9, <1>10, <1>11, <1>12, <1>13, ProcKeeps

LEMMA ReapKeeps ==
  ASSUME IInv, NEW p \in Proc, NEW c \in Proc, Reap(p, c)
  PROVE  IInv'
<1>0. Types /\ StatusInv /\ SleepInv /\ FileInv /\ RefsAccounted
  BY DEF IInv
<1>1. /\ call[p] = User /\ status[c] = "zombie"
      /\ pages' = pages /\ call' = call /\ sleeping' = sleeping
  BY DEF Reap
<1>2. CASE LastOfPipe(c)
  <2>1. /\ panicked' = TRUE /\ status' = status /\ parent' = parent /\ killed' = killed
        /\ fds' = fds /\ files' = files
    BY <1>2 DEF Reap, procVars
  <2>2. Types'
    BY <1>0, <1>1, <2>1 DEF Types
  <2>3. StatusInv'
    BY <1>0, <1>1, <2>1 DEF StatusInv
  <2>4. SleepInv'
    BY <1>0, <1>1, <2>1, SleepKept
  <2> QED  BY <1>1, <2>1, <2>2, <2>3, <2>4, FilesSame, ProcKeeps
<1>3. CASE ~LastOfPipe(c)
  <2>1. /\ status' = [status EXCEPT ![c] = "unused"] /\ parent' = [parent EXCEPT ![c] = None]
        /\ killed' = [killed EXCEPT ![c] = FALSE]
        /\ fds' = [fds EXCEPT ![c] = [d \in Fd |-> None]]
        /\ files' = Released(c) /\ panicked' = panicked
    BY <1>3 DEF Reap
  <2>2. /\ call[p].op = "user" /\ call[p].files = <<>> /\ call[c] = User /\ call[c].op = "user"
        /\ sleeping[c] = None
    <3>1. call[c] = User /\ User.op = "user" /\ User.files = <<>>
      BY <1>0, <1>1, UserFits DEF StatusInv
    <3>2. sleeping[c] = None
      BY <1>0, <3>1 DEF SleepInv, SleepersBlocked
    <3> QED  BY <1>1, <3>1, <3>2
  <2>3. /\ fds \in [Proc -> [Fd -> File \cup {None}]] /\ files \in [File -> FileRec]
        /\ fds' \in [Proc -> [Fd -> File \cup {None}]]
        /\ \A q \in Proc : q # c => fds'[q] = fds[q]
        /\ \A d \in Fd : fds'[c][d] = None
    BY <1>0, <2>1 DEF Types
  <2>4. ASSUME NEW f \in File
        PROVE  /\ Uses(c, f) \in Nat
               /\ FdRefs(f) = {} => Uses(c, f) = 0
               /\ Cardinality(FdSet(fds', f)) + Uses(c, f) = Cardinality(FdSet(fds, f))
               /\ Cardinality(FdSet(fds, f)) \in Nat /\ Cardinality(FdSet(fds', f)) \in Nat
    <3>1. Cardinality(FdSet(fds', f)) + Cardinality(FdsAt(fds, c, f)) = Cardinality(FdSet(fds, f))
      BY <2>1, <2>3, FdReap
    <3> QED  BY <3>1, UsesIs, SetsFinite
  <2>5. ASSUME NEW f \in File
        PROVE  files[f].ref \in Nat /\ Uses(c, f) <= files[f].ref
    <3>1. CASE FdRefs(f) = {}
      BY <1>0, <2>4, <3>1, Referenced
    <3>2. CASE FdRefs(f) # {}
      <4>1. files[f].ref = Holders(f) /\ files[f].ref \in Nat
        BY <1>0, <3>2, Referenced
      <4>2. Holders(f) = Cardinality(FdSet(fds, f)) + Cardinality(CallSet(call, f))
        BY HoldersIs DEF FdRefs, CallRefs
      <4>3. Cardinality(CallSet(call, f)) \in Nat
        BY SetsFinite
      <4> QED  BY <2>4, <4>1, <4>2, <4>3
    <3> QED  BY <3>1, <3>2
  <2>6. ASSUME NEW f \in File
        PROVE  /\ files'[f] \in FileRec
               /\ files'[f].ref = files[f].ref - Uses(c, f)
               /\ files'[f].pipe = files[f].pipe
               /\ files[f].pipe # None => files'[f].readable = files[f].readable
               /\ FileOK(files'[f])
               /\ FdRefs(f) = {} => files'[f] = files[f]
    <3> DEFINE r == files[f]  m == Uses(c, f)  s == [r EXCEPT !.ref = r.ref - m]
    <3>1. r \in FileRec /\ m \in Nat /\ FileOK(r) /\ r.ref \in Nat /\ m <= r.ref
      BY <1>0, <2>3, <2>4, <2>5 DEF FileInv
    <3>2. files'[f] = IF r.ref > m THEN s ELSE Closed
      BY <2>1 DEF Released
    <3>3. r.pipe # None /\ m > 0 => r.ref # m
      BY <1>3 DEF LastOfPipe
    <3> HIDE DEF r, m
    <3>4. CASE r.ref > m
      <4>1. /\ s \in FileRec /\ s.ref = r.ref - m /\ s.pipe = r.pipe /\ s.readable = r.readable
            /\ s.writable = r.writable /\ s.type = r.type /\ s.ref # 0
        BY <3>1, <3>4 DEF FileRec
      <4>2. m = 0 => s = r
        BY <3>1, <4>1 DEF FileRec
      <4> HIDE DEF s
      <4>3. FileOK(s)
        BY <3>1, <4>1 DEF FileOK
      <4> QED  BY <2>4, <3>2, <3>4, <4>1, <4>2, <4>3 DEF r, m
    <3>5. CASE ~(r.ref > m)
      <4>1. r.ref = m /\ files'[f] = Closed
        BY <3>1, <3>2, <3>5
      <4>2. r.pipe = None
        <5>1. CASE m = 0
          BY <3>1, <4>1, <5>1, NewIs DEF FileOK
        <5>2. CASE m # 0
          BY <3>1, <3>3, <4>1, <5>2
        <5> QED  BY <5>1, <5>2
      <4>3. m = 0 => r = Closed
        BY <3>1, <4>1 DEF FileOK
      <4> QED  BY <2>4, <3>1, <4>1, <4>2, <4>3, NewIs DEF r, m
    <3> QED  BY <3>4, <3>5
  <2>7. files' \in [File -> FileRec]
    BY <2>1, <2>6 DEF Released
  <2>8. Types'
    BY <1>0, <1>1, <2>1, <2>3, <2>7 DEF Types
  <2>9. StatusInv'
    <3>1. \A q \in Proc : q # c => status'[q] = status[q]
      BY <2>1
    <3> QED  BY <1>0, <1>1, <2>2, <2>3, <3>1 DEF StatusInv
  <2>10. SleepInv'
    <3>1. \A q \in Proc : sleeping'[q] # None =>
            /\ sleeping'[q] = sleeping[q] /\ call'[q] = call[q] /\ killed'[q] = killed[q]
            /\ pages'[sleeping[q]] = pages[sleeping[q]]
      BY <1>0, <1>1, <2>1, <2>2 DEF Types
    <3> QED  BY <1>0, <3>1, SleepKept
  <2>11. FilesQuiet(p)
    BY <2>6 DEF FilesQuiet
  <2>12. ASSUME NEW f \in File PROVE Balanced(p, call[p], f) /\ LostStays(call[p], f)
    <3>1. Among(call[p].files, f) = 0
      BY <2>2, AmongIs
    <3>2. Balanced(p, call[p], f)
      BY <2>4, <2>5, <2>6, <3>1 DEF Balanced
    <3>3. ASSUME FdRefs(f) = {} PROVE FdSet(fds', f) = {}
      <4>1. Cardinality(FdSet(fds, f)) = 0
        BY <3>3, FS_EmptySet DEF FdRefs
      <4>2. Cardinality(FdSet(fds', f)) = 0
        BY <2>4, <4>1
      <4> QED  BY <4>2, SetsFinite, FS_EmptySet
    <3> QED  BY <2>6, <3>1, <3>2, <3>3 DEF LostStays
  <2>13. \A q \in Proc : call[q].op \in {"read", "write"} => fds'[q] = fds[q]
    BY <2>2, <2>3
  <2> QED  BY <1>1, <2>8, <2>9, <2>10, <2>11, <2>12, <2>13, ProcKeeps
<1> QED  BY <1>2, <1>3

-----------------------------------------------------------------------------
LEMMA InitHolds == Init => IInv
<1> SUFFICES ASSUME Init PROVE IInv
  OBVIOUS
<1>1. /\ status = [p \in Proc |-> IF p = 1 THEN "live" ELSE "unused"]
      /\ parent = [p \in Proc |-> None] /\ killed = [p \in Proc |-> FALSE]
      /\ fds = [p \in Proc |-> [d \in Fd |-> None]] /\ files = [f \in File |-> Closed]
      /\ pages = [g \in Page |-> [Fresh EXCEPT !.used = FALSE]]
      /\ call = [p \in Proc |-> User] /\ sleeping = [p \in Proc |-> None]
      /\ panicked = FALSE
  BY DEF Init
<1>2. \A p \in Proc : call[p] = User /\ call[p].op = "user" /\ call[p].files = <<>>
  <2>1. \A p \in Proc : call[p] = User
    BY <1>1
  <2> QED  BY <2>1, UserFits
<1>3. \A p \in Proc, d \in Fd : fds[p][d] = None
  BY <1>1
<1>4. \A f \in File : files[f] = Closed
  BY <1>1
<1>5. \A g \in Page : pages[g] \in PageRec /\ ~pages[g].used /\ Fill(pages[g]) = 0
  <2> DEFINE u == [Fresh EXCEPT !.used = FALSE]
  <2>1. u \in PageRec /\ ~u.used /\ u.nread = Fresh.nread /\ u.nwrite = Fresh.nwrite
    BY FreshIs DEF PageRec
  <2>2. \A g \in Page : pages[g] = u
    BY <1>1
  <2> HIDE DEF u
  <2>3. Fill(u) = Fill(Fresh)
    BY <2>1 DEF Fill
  <2> QED  BY <2>1, <2>2, <2>3, FreshIs
<1>6. Types
  <2>1. call \in [Proc -> CallRec] /\ \A p \in Proc : CallFits(call[p])
    BY <1>1, <1>2, UserFits
  <2>2. pages \in [Page -> PageRec]
    BY <1>1, <1>5
  <2>3. files \in [File -> FileRec]
    BY <1>1, NewIs
  <2> QED  BY <1>1, <2>1, <2>2, <2>3 DEF Types
<1>7. StatusInv
  BY <1>2, <1>3 DEF StatusInv
<1>8. FileInv
  BY <1>2, <1>4, NewIs DEF FileInv
<1>9. RefsAccounted
  <2>1. ASSUME NEW f \in File PROVE files[f].ref = Holders(f)
    <3>1. FdSet(fds, f) = {}
      <4>1. f # None
        BY Constants
      <4> QED  BY <1>3, <4>1 DEF FdSet
    <3>2. CallSet(call, f) = {}
      BY <1>2 DEF CallSet
    <3>3. Holders(f) = 0
      <4>1. Holders(f) = Cardinality(FdSet(fds, f)) + Cardinality(CallSet(call, f))
        BY HoldersIs DEF FdRefs, CallRefs
      <4> QED  BY <3>1, <3>2, <4>1, FS_EmptySet
    <3> QED  BY <1>4, <3>3, NewIs
  <2> QED  BY <2>1 DEF RefsAccounted
<1>10. PageInv
  <2>1. ASSUME NEW g \in Page PROVE Ends(files, g) = {} /\ Closers(call, g) = {}
    <3>1. g # None
      BY Constants
    <3> QED  BY <1>2, <1>4, <3>1, NewIs DEF Ends, Closers
  <2> QED  BY <1>4, <1>5, <2>1, NewIs DEF PageInv
<1>11. HoldInv
  BY <1>2 DEF HoldInv
<1>12. RingInv
  BY <1>5, FreshIs DEF RingInv
<1>13. SleepInv
  BY <1>1 DEF SleepInv, SleepersBlocked
<1> QED  BY <1>6, <1>7, <1>8, <1>9, <1>10, <1>11, <1>12, <1>13 DEF IInv

LEMMA NamingKeeps ==
  ASSUME IInv, NEW p \in Proc, Naming(p)
  PROVE  IInv'
<1>1. UNCHANGED <<procVars, panicked>>
  BY DEF Naming
<1>2. CASE OpenSet(p)
  BY <1>1, <1>2, OpenSetKeeps
<1>3. CASE \E m \in Mode : OpenAlloc(p, m)
  BY <1>1, <1>3, OpenAllocKeeps
<1>4. CASE PipeFirst(p)
  BY <1>1, <1>4, PipeFirstKeeps
<1>5. CASE PipeSecond(p)
  BY <1>1, <1>5, PipeSecondKeeps
<1>6. CASE PipeNoPage(p)
  BY <1>1, <1>6, PipeNoPageKeeps
<1>7. CASE PipeMake(p)
  BY <1>1, <1>7, PipeMakeKeeps
<1>8. CASE CloseRef(p)
  BY <1>1, <1>8, CloseRefKeeps
<1>9. CASE CloseLook(p)
  BY <1>1, <1>9, CloseLookKeeps
<1>10. CASE PipeClose(p)
  BY <1>1, <1>10, PipeCloseKeeps
<1>11. ASSUME NEW d \in Fd, Dup(p, d) PROVE IInv'
  BY <1>1, <1>11, DupKeeps
<1>12. ASSUME NEW d \in Fd, Close(p, d) PROVE IInv'
  BY <1>1, <1>12, CloseKeeps
<1>13. ASSUME NEW d \in Fd, NEW n \in 1..MaxRead, StartRead(p, d, n) PROVE IInv'
  BY <1>1, <1>13, StartReadKeeps
<1>14. ASSUME NEW d \in Fd, NEW s \in Chunk, StartWrite(p, d, s) PROVE IInv'
  BY <1>1, <1>14, StartWriteKeeps
<1> QED
  BY <1>2, <1>3, <1>4, <1>5, <1>6, <1>7, <1>8, <1>9, <1>10, <1>11, <1>12, <1>13, <1>14 DEF Naming

LEMMA NextKeeps == IInv /\ [Next]_vars => IInv'
<1> SUFFICES ASSUME IInv, [Next]_vars PROVE IInv'
  OBVIOUS
<1>1. CASE UNCHANGED vars
  <2>1. /\ status' = status /\ parent' = parent /\ killed' = killed /\ fds' = fds
        /\ files' = files /\ pages' = pages /\ call' = call /\ sleeping' = sleeping
        /\ panicked' = panicked
    BY <1>1 DEF vars, procVars
  <2>2. Types'
    BY <2>1 DEF IInv, Types
  <2>3. StatusInv'
    BY <2>1 DEF IInv, StatusInv
  <2>4. SleepInv'
    BY <2>1, SleepKept DEF IInv
  <2>5. 1 \in Proc
    BY PipeAssumption DEF Proc
  <2> QED  BY <2>1, <2>2, <2>3, <2>4, <2>5, FilesSame, ProcKeeps
<1>2. CASE Next
  <2>1. PICK p \in Proc : \/ Naming(p) \/ ReadStep(p) \/ WriteStep(p)
                          \/ Fork(p) \/ Exit(p) \/ Kill(p)
                          \/ \E c \in Proc : Reap(p, c)
    BY <1>2 DEF Next
  <2> QED
    BY <2>1, NamingKeeps, ReadKeeps, WriteKeeps, ForkKeeps, ExitKeeps, KillKeeps, ReapKeeps
<1> QED  BY <1>1, <1>2

LEMMA Invariant == Spec => []IInv
BY InitHolds, NextKeeps, PTL DEF Spec

LEMMA PagesReached == IInv => PagesAccounted
<1> SUFFICES ASSUME IInv PROVE PagesAccounted
  OBVIOUS
<1>1. Types /\ PageInv
  BY DEF IInv
<1>2. ASSUME NEW g \in Page, ~pages[g].used PROVE ~Reachable(g)
  <2>1. Ends(files, g) = {} /\ Closers(call, g) = {}
    BY <1>1, <1>2 DEF PageInv
  <2>2. \A p \in Proc : call[p].op \in {"read", "write"} => call[p].pipe # g
    BY <1>2, Reached
  <2>3. \A p \in Proc : call[p].op \in {"look", "pipeclose"} => call[p].pipe # g
    BY <2>1 DEF Closers
  <2> QED  BY <2>1, <2>2, <2>3 DEF Ends, Inside, Reachable
<1>3. ASSUME NEW g \in Page, pages[g].used, ~Reachable(g)
      PROVE  pages[g].readopen # pages[g].writeopen
  <2>1. Ends(files, g) = {} /\ Closers(call, g) = {}
    BY <1>3 DEF Ends, Closers, Inside, Reachable
  <2>2. Cardinality(Ends(files, g)) = 0 /\ Cardinality(Closers(call, g)) = 0
    BY <2>1, FS_EmptySet
  <2>3. Cleared(pages[g]) # 0
    BY <1>1, <1>3, <2>2 DEF PageInv
  <2>4. Cleared(pages[g]) < 2
    BY <1>1, <1>3 DEF PageInv
  <2>5. pages[g].readopen \in BOOLEAN /\ pages[g].writeopen \in BOOLEAN
    BY <1>1 DEF Types, PageRec
  <2> QED  BY <2>3, <2>4, <2>5 DEF Cleared
<1>4. \A g \in Page, e, f \in File : /\ files[e].pipe = g /\ files[f].pipe = g
                                     /\ files[e].readable = files[f].readable
                                     => e = f
  BY <1>1, Constants DEF PageInv
<1> QED  BY <1>2, <1>3, <1>4 DEF PagesAccounted

LEMMA TypesAreOK == Types => TypeOK
<1> SUFFICES ASSUME Types PROVE TypeOK
  OBVIOUS
<1>1. ASSUME NEW p \in Proc
      PROVE  /\ call[p].files \in Seq(File) /\ Len(call[p].files) <= 2
             /\ call[p].op \in {"user", "open", "pipe", "make", "close"} \cup Inside
             /\ call[p].op \in Inside => call[p].pipe \in Page
  <2>1. call[p] \in CallRec /\ CallFits(call[p])
    BY DEF Types
  <2>2. \A n \in 0..2 : n <= 2
    OBVIOUS
  <2> QED  BY <2>1, <2>2, CallFields
<1> QED  BY <1>1 DEF Types, TypeOK

\* The flag of one end is cleared, and p has the other end: there is no file
\* for the first one.
LEMMA OneEnd ==
  ASSUME IInv, NEW p \in Proc, call[p].op \in {"read", "write"},
         LET pg == pages[call[p].pipe] IN ~pg.readopen \/ ~pg.writeopen
  PROVE  \A f \in File : files[f].pipe = call[p].pipe =>
           (files[f].readable <=> call[p].op = "read")
<1> DEFINE g == call[p].pipe
           E == Ends(files, g)
<1>1. /\ g \in Page /\ pages[g].used
      /\ \E f \in File : files[f].pipe = g /\ files[f].readable = (call[p].op = "read")
  BY Reached
<1>2. Cardinality(E) <= 1
  <2> DEFINE a == Cardinality(Ends(files, g))  b == Cardinality(Closers(call, g))
             c == Cleared(pages[g])
  <2>1. a \in Nat /\ b \in Nat
    BY PageFinite
  <2>2. (a + b) + c <= 2
    BY <1>1 DEF IInv, PageInv
  <2>3. c \in Nat /\ c >= 1
    <3>1. ~pages[g].readopen \/ ~pages[g].writeopen
      OBVIOUS
    <3> QED  BY <3>1 DEF Cleared
  <2> HIDE DEF a, b, c
  <2>4. a <= 1
    BY <2>1, <2>2, <2>3
  <2> QED  BY <2>4 DEF a
<1>3. PICK e \in File : files[e].pipe = g /\ files[e].readable = (call[p].op = "read")
  BY <1>1
<1>4. e \in E
  BY <1>3 DEF Ends
<1>5. E = {e}
  <2>1. IsFiniteSet(E) /\ Cardinality(E) \in Nat
    BY PageFinite
  <2> HIDE DEF E
  <2>2. Cardinality(E) # 0
    BY <1>4, <2>1, FS_EmptySet
  <2>3. Cardinality(E) = 1
    BY <1>2, <2>1, <2>2
  <2>4. \E x : E = {x}
    BY <2>1, <2>3, FS_Singleton
  <2> QED  BY <1>4, <2>4
<1>6. \A f \in File : files[f].pipe = g => f = e
  BY <1>5 DEF Ends
<1> QED  BY <1>3, <1>6

LEMMA EndsStep ==
  ASSUME IInv, Next, NEW p \in Proc, call[p].op \in {"read", "write"}, last'.by = p, ~killed[p],
         last'.ret # call[p].n
  PROVE  LET pg == pages[call[p].pipe] IN ~pg.readopen \/ ~pg.writeopen
<1>1. p # None /\ Nothing.by = None
  BY Constants DEF Nothing
<1>2. last' # Nothing
  BY <1>1
<1>3. PICK q \in Proc : \/ Naming(q) \/ ReadStep(q) \/ WriteStep(q)
                        \/ Fork(q) \/ Exit(q) \/ Kill(q)
                        \/ \E c \in Proc : Reap(q, c)
  BY DEF Next
<1>4. ReadStep(q) \/ WriteStep(q)
  BY <1>2, <1>3 DEF Naming, Fork, Exit, Kill, Reap
<1>5. \A r, b : Returns(q, r, b) => q = p /\ r # call[p].n
  <2>1. ASSUME NEW r, NEW b, Returns(q, r, b) PROVE q = p /\ r # call[p].n
    <3>1. last'.by = q /\ last'.ret = r
      BY <2>1 DEF Returns
    <3> QED  BY <3>1
  <2> QED  BY <2>1
<1>6. \A g, slp, b : ~Sleeps(q, g, slp, b)
  BY <1>2 DEF Sleeps
<1>7. CASE ReadStep(q)
  BY <1>5, <1>6, <1>7 DEF ReadStep, Ended
<1>8. CASE WriteStep(q)
  BY <1>5, <1>6, <1>8 DEF WriteStep
<1> QED  BY <1>4, <1>7, <1>8

-----------------------------------------------------------------------------
(* The types of the variables, and what each call under way knows.         *)
THEOREM TypeCorrect == Spec => []TypeOK
<1>1. IInv => TypeOK
  BY TypesAreOK DEF IInv
<1> QED  BY <1>1, Invariant, PTL

(* However the halves of fileclose, pipe, fork and wait interleave: the     *)
(* count of a file is the references to it, no page is given back that a    *)
(* file or a call can reach, and one that nobody can reach is kept only if  *)
(* both its closes were taken for the same end.                             *)
THEOREM ReferencesKept == Spec => []FilesAccounted
<1>1. IInv => FilesAccounted
  BY PagesReached DEF IInv, FilesAccounted
<1> QED  BY <1>1, Invariant, PTL

(* No reader sleeps with data in the pipe or the last writer gone, and no   *)
(* writer with room or the last reader gone: no wakeup is missed.           *)
THEOREM NoSleeperForgotten == Spec => []SleepersBlocked
<1>1. IInv => SleepersBlocked
  BY DEF IInv, SleepInv
<1> QED  BY <1>1, Invariant, PTL

(* A read that ends early and a write that is refused tell the truth: the   *)
(* other end has been closed by everybody.                                  *)
THEOREM EndsTrue == Spec => EndIsTrue
<1>1. ASSUME IInv, Next, NEW p \in Proc,
             call[p].op \in {"read", "write"}, last'.by = p, ~killed[p], last'.ret # call[p].n
      PROVE  \A f \in File : files[f].pipe = call[p].pipe =>
               (files[f].readable <=> call[p].op = "read")
  BY <1>1, EndsStep, OneEnd
<1> DEFINE A == \A p \in Proc :
       call[p].op \in {"read", "write"} /\ last'.by = p /\ ~killed[p] =>
         \/ last'.ret = call[p].n
         \/ \A f \in File : files[f].pipe = call[p].pipe =>
              (files[f].readable <=> call[p].op = "read")
<1>2. IInv /\ [Next]_vars => [A]_vars
  BY <1>1
<1>3. EndIsTrue <=> [][A]_vars
  BY PTL DEF EndIsTrue
<1> HIDE DEF A
<1> QED  BY <1>2, <1>3, Invariant, PTL DEF Spec

-----------------------------------------------------------------------------
(* The stream.                                                             *)

\* Slots of the ring: adding a multiple of the size changes nothing.
LEMMA SlotIs ==
  ASSUME NEW a \in Int, NEW b \in Int, NEW q \in Int, a = b + Size * q
  PROVE  a % Size = b % Size /\ b % Size \in 0..(Size - 1)
<1>1. Size \in Nat \ {0}
  BY FreshIs
<1>2. \A D \in Nat \ {0}, x \in Int : x % D \in 0..(D - 1) /\ x = D * (x \div D) + (x % D)
  <2>1. \A D \in Nat \ {0}, x \in Int : x % D \in 0..(D - 1)
    OBVIOUS
  <2>2. ASSUME NEW D \in Nat \ {0}, NEW x \in Int PROVE x = D * (x \div D) + (x % D)
    OBVIOUS
  <2> QED  BY <2>1, <2>2
<1>3. ASSUME NEW D \in Nat \ {0}, NEW x \in Int, NEW d \in Int, NEW r \in 0..(D - 1), x = D * d + r
      PROVE  x % D = r
  BY <1>3
<1> DEFINE r == b % Size  d == b \div Size
<1>4. r \in 0..(Size - 1) /\ b = Size * d + r /\ d \in Int
  BY <1>1, <1>2
<1> HIDE DEF r, d
<1>5. a = Size * (d + q) + r /\ d + q \in Int
  <2>1. Size * (d + q) = Size * d + Size * q
    BY <1>1, <1>4
  <2> QED  BY <1>1, <1>4, <2>1
<1>6. a % Size = r
  BY <1>1, <1>3, <1>4, <1>5
<1> QED  BY <1>4, <1>6 DEF r

\* The counters wrap at a multiple of the size.
LEMMA WrapSlot ==
  ASSUME NEW r \in 0..(Wrap - 1), NEW k \in 0..Size
  PROVE  \E q \in Int : (r + k) % Wrap = (r + k) + Size * q
<1>1. /\ Size \in Nat \ {0} /\ Wrap \in Nat /\ Wrap % Size = 0
      /\ (r + k) % Wrap = IF r + k < Wrap THEN r + k ELSE (r + k) - Wrap
  BY WrapIs, PipeAssumption
<1>2. PICK m \in Int : Wrap = Size * m
  <2> DEFINE m == Wrap \div Size
  <2>1. Wrap = Size * m + (Wrap % Size) /\ m \in Int
    BY <1>1
  <2> HIDE DEF m
  <2>2. Wrap = Size * m
    BY <1>1, <2>1
  <2> QED  BY <2>1, <2>2
<1>3. CASE r + k < Wrap
  <2>1. (r + k) % Wrap = (r + k) + Size * 0
    BY <1>1, <1>3
  <2> QED  BY <2>1
<1>4. CASE ~(r + k < Wrap)
  <2>1. Size * (-m) = -(Size * m) /\ -m \in Int
    BY <1>1, <1>2
  <2>2. (r + k) % Wrap = (r + k) + Size * (-m)
    BY <1>1, <1>2, <1>4, <2>1
  <2> QED  BY <2>1, <2>2
<1> QED  BY <1>3, <1>4

\* nwrite is as far in front of nread as the ring is full.
LEMMA WriteSlot ==
  ASSUME NEW pg \in PageRec, Fill(pg) <= Size
  PROVE  \E q \in Int : pg.nwrite = (pg.nread + Fill(pg)) + Size * q
<1> DEFINE r == pg.nread  w == pg.nwrite  f == Fill(pg)
<1>1. /\ f = IF w >= r THEN w - r ELSE (w - r) + Wrap
      /\ f \in Nat /\ r \in 0..(Wrap - 1) /\ w \in 0..(Wrap - 1) /\ f \in 0..Size
      /\ Wrap \in Nat
  BY FillIs, FreshIs
<1> HIDE DEF r, w, f
<1>2. (r + f) % Wrap = w
  <2>1. (r + f) % Wrap = IF r + f < Wrap THEN r + f ELSE (r + f) - Wrap
    BY <1>1, WrapIs
  <2> QED  BY <1>1, <2>1
<1>3. \E q \in Int : (r + f) % Wrap = (r + f) + Size * q
  BY <1>1, WrapSlot
<1> QED  BY <1>2, <1>3 DEF r, w, f

\* What the ring holds is read from nread on, modulo the size of the ring.
LEMMA ContentIs ==
  ASSUME NEW pg \in PageRec
  PROVE  /\ Len(Content(pg)) = Fill(pg) /\ Content(pg) \in Seq(Nat)
         /\ \A j \in 1..Fill(pg) : Content(pg)[j] = pg.data[(pg.nread + j - 1) % Size]
<1>1. Fill(pg) \in Nat
  BY FillIs
<1>2. Content(pg) \in Seq(Nat) /\ Len(Content(pg)) = Fill(pg)
  BY <1>1, OldestIs DEF Content
<1>3. Content(pg) = [j \in 1..Fill(pg) |-> pg.data[(pg.nread + j - 1) % Size]]
  BY DEF Content, Oldest
<1> QED  BY <1>2, <1>3

\* The oldest k bytes are taken from the front.
LEMMA ReadStream ==
  ASSUME NEW pg \in PageRec, NEW u \in PageRec, Fill(pg) <= Size,
         NEW k \in Nat, k <= Fill(pg),
         u.nread = (pg.nread + k) % Wrap, u.nwrite = pg.nwrite, u.data = pg.data
  PROVE  /\ Oldest(pg, k) = SubSeq(Content(pg), 1, k)
         /\ Content(pg) = Oldest(pg, k) \o Content(u)
<1> DEFINE F == Fill(pg)  r == pg.nread  old == Content(pg)  new == Content(u)  o == Oldest(pg, k)
<1>1. F \in Nat /\ r \in 0..(Wrap - 1) /\ k \in 0..Size /\ Wrap \in Nat /\ Size \in Nat
  BY FillIs, FreshIs
<1>2. Fill(u) = F - k
  BY FillMoves
<1>3. /\ old \in Seq(Nat) /\ Len(old) = F
      /\ \A j \in 1..F : old[j] = pg.data[(r + j - 1) % Size]
  BY ContentIs
<1>4. /\ new \in Seq(Nat) /\ Len(new) = F - k
      /\ \A j \in 1..(F - k) : new[j] = pg.data[(u.nread + j - 1) % Size]
  BY <1>2, ContentIs
<1>5. /\ o \in Seq(Nat) /\ Len(o) = k
      /\ \A j \in 1..k : o[j] = pg.data[(r + j - 1) % Size]
  BY OldestIs DEF Oldest
<1>6. PICK q \in Int : u.nread = (r + k) + Size * q
  BY <1>1, WrapSlot
<1> HIDE DEF F, r, old, new, o
<1>7. \A j \in 1..(F - k) : new[j] = old[k + j]
  <2> SUFFICES ASSUME NEW j \in 1..(F - k) PROVE new[j] = old[k + j]
    OBVIOUS
  <2>1. k + j \in 1..F /\ r + (k + j) - 1 \in Int /\ u.nread + j - 1 \in Int
    BY <1>1 DEF PageRec
  <2>2. u.nread + j - 1 = (r + (k + j) - 1) + Size * q
    BY <1>1, <1>6
  <2>3. (u.nread + j - 1) % Size = (r + (k + j) - 1) % Size
    BY <2>1, <2>2, SlotIs
  <2> QED  BY <1>3, <1>4, <2>1, <2>3
<1>8. o = SubSeq(old, 1, k)
  <2> DEFINE s == SubSeq(old, 1, k)
  <2>1. s \in Seq(Nat) /\ Len(s) = k /\ \A j \in 1..k : s[j] = old[j]
    <3>1. \A j \in 1..k : old[j] \in Nat
      BY <1>1, <1>3, ElementOfSeq DEF F
    <3>2. s = [j \in 1..k |-> old[j]]
      BY <1>1, <1>3
    <3> HIDE DEF s
    <3> QED  BY <3>1, <3>2
  <2> HIDE DEF s
  <2>2. \A j \in 1..k : j \in 1..F
    BY <1>1 DEF F
  <2>3. \A j \in 1..Len(o) : o[j] = s[j]
    BY <1>3, <1>5, <2>1, <2>2
  <2>4. o = s
    BY <1>5, <2>1, <2>3, SeqEqual
  <2> QED  BY <2>4 DEF s
<1>9. old = o \o new
  <2> DEFINE c == o \o new
  <2>1. /\ c \in Seq(Nat) /\ Len(c) = k + (F - k)
        /\ \A j \in 1..(k + (F - k)) : c[j] = IF j <= k THEN o[j] ELSE new[j - k]
    <3>1. /\ c \in Seq(Nat) /\ Len(c) = Len(o) + Len(new)
          /\ \A j \in 1..(Len(o) + Len(new)) : c[j] = IF j <= Len(o) THEN o[j] ELSE new[j - Len(o)]
      BY <1>4, <1>5, ConcatProperties
    <3> HIDE DEF c
    <3> QED  BY <1>4, <1>5, <3>1
  <2> HIDE DEF c
  <2>2. k + (F - k) = F
    BY <1>1
  <2>3. ASSUME NEW j \in 1..F PROVE old[j] = c[j]
    <3>1. CASE j <= k
      <4>1. j \in 1..k
        BY <1>1, <3>1
      <4> QED  BY <1>3, <1>5, <2>1, <2>2, <3>1, <4>1
    <3>2. CASE ~(j <= k)
      <4>1. j - k \in 1..(F - k) /\ k + (j - k) = j
        BY <1>1, <3>2
      <4> QED  BY <1>7, <2>1, <2>2, <3>2, <4>1
    <3> QED  BY <3>1, <3>2
  <2>4. old = c
    BY <1>3, <2>1, <2>2, <2>3, SeqEqual
  <2> QED  BY <2>4 DEF c
<1> QED  BY <1>8, <1>9 DEF o, old, new

\* Bytes written go behind what is in the ring, which stays as it is.
LEMMA WriteStream ==
  ASSUME NEW pg \in PageRec, Fill(pg) <= Size, NEW s \in Seq(Nat), Len(s) <= Size - Fill(pg)
  PROVE  Content(Stored(pg, s)) = Content(pg) \o s
<1> DEFINE F == Fill(pg)  r == pg.nread  w == pg.nwrite  old == Content(pg)
           u == Stored(pg, s)  new == Content(u)  k == Len(s)
           at(i) == ((i - w) % Size) + 1
<1>1. F \in Nat /\ r \in 0..(Wrap - 1) /\ w \in 0..(Wrap - 1) /\ k \in 0..Size /\ Wrap \in Nat /\ Size \in Nat
      /\ k \in Nat /\ k <= Size - F
  <2>1. k \in Nat
    BY LenProperties
  <2>2. F \in Nat /\ r \in 0..(Wrap - 1) /\ w \in 0..(Wrap - 1) /\ Wrap \in Nat /\ Size \in Nat
    BY FillIs, FreshIs
  <2> HIDE DEF F, r, w
  <2> QED  BY <2>1, <2>2 DEF F
<1>2. /\ u \in PageRec /\ u.nread = r /\ u.nwrite = (w + k) % Wrap
      /\ u.data = [i \in 0..(Size - 1) |-> IF at(i) <= k THEN s[at(i)] ELSE pg.data[i]]
  <2>1. u \in PageRec /\ u.nread = r /\ u.nwrite = (w + k) % Wrap
    BY StoredIs
  <2>2. DOMAIN pg.data = 0..(Size - 1)
    BY DEF PageRec
  <2>3. u.data = [i \in DOMAIN pg.data |-> IF at(i) <= k THEN s[at(i)] ELSE pg.data[i]]
    BY DEF Stored, PageRec
  <2> QED  BY <2>1, <2>2, <2>3
<1> HIDE DEF u
<1>3. Fill(u) = F + k
  BY <1>1, <1>2, FillMoves
<1>4. /\ old \in Seq(Nat) /\ Len(old) = F
      /\ \A j \in 1..F : old[j] = pg.data[(r + j - 1) % Size]
  BY ContentIs
<1>5. /\ new \in Seq(Nat) /\ Len(new) = F + k
      /\ \A j \in 1..(F + k) : new[j] = u.data[(r + j - 1) % Size]
  <2>1. /\ Len(Content(u)) = Fill(u) /\ Content(u) \in Seq(Nat)
        /\ \A j \in 1..Fill(u) : Content(u)[j] = u.data[(u.nread + j - 1) % Size]
    BY <1>2, ContentIs
  <2> HIDE DEF F, r, k
  <2> QED  BY <1>2, <1>3, <2>1
<1>6. PICK m \in Int : w = (r + F) + Size * m
  BY WriteSlot
<1> HIDE DEF F, r, w, old, new, at, k
\* slot j of what is in the ring, counted from nwrite
<1>7. ASSUME NEW j \in 1..(F + k)
      PROVE  /\ (r + j - 1) % Size \in 0..(Size - 1)
             /\ at((r + j - 1) % Size) = IF j <= F THEN (Size - F) + j ELSE j - F
  <2> DEFINE i == (r + j - 1) % Size
  <2>1. Size \in Nat \ {0} /\ r + j - 1 \in Int /\ F + k <= Size
    BY <1>1, FreshIs
  <2>2. \A x \in Int : x % Size \in 0..(Size - 1)
    BY <2>1
  <2>3. i \in 0..(Size - 1) /\ i \in Int
    <3>1. i \in 0..(Size - 1)
      BY <2>1, <2>2
    <3> HIDE DEF i
    <3> QED  BY <2>1, <3>1
  <2>4. PICK q \in Int : i = (r + j - 1) + Size * q
    <3> DEFINE d == (r + j - 1) \div Size
    <3>1. \A D \in Nat \ {0}, x \in Int : x = D * (x \div D) + (x % D) /\ x \div D \in Int
      <4>1. ASSUME NEW D \in Nat \ {0}, NEW x \in Int PROVE x = D * (x \div D) + (x % D)
        OBVIOUS
      <4>2. ASSUME NEW D \in Nat \ {0}, NEW x \in Int PROVE x \div D \in Int
        OBVIOUS
      <4> QED  BY <4>1, <4>2
    <3>2. r + j - 1 = Size * d + i /\ d \in Int
      BY <2>1, <3>1
    <3> HIDE DEF d, i
    <3>3. Size * (-d) = -(Size * d) /\ -d \in Int
      BY <2>1, <3>2
    <3>4. i = (r + j - 1) + Size * (-d)
      BY <2>1, <2>3, <3>2, <3>3
    <3> QED  BY <3>3, <3>4
  <2> HIDE DEF i
  <2>5. Size * (q - m) = Size * q - Size * m /\ q - m \in Int
    BY <1>6, <2>1, <2>4
  <2>6. i - w = (j - 1 - F) + Size * (q - m)
    BY <1>1, <1>6, <2>1, <2>3, <2>4, <2>5
  <2>7. i - w \in Int /\ j - 1 - F \in Int
    BY <1>1, <2>3
  <2>8. (i - w) % Size = (j - 1 - F) % Size
    BY <2>5, <2>6, <2>7, SlotIs
  <2>9. (j - 1 - F) % Size = IF j <= F THEN (Size - F) + (j - 1) ELSE j - 1 - F
    <3>1. CASE j <= F
      <4>1. (Size - F) + (j - 1) \in 0..(Size - 1) /\ ((Size - F) + (j - 1)) - Size = j - 1 - F
        BY <1>1, <2>1, <3>1
      <4>2. (((Size - F) + (j - 1)) - Size) % Size = (Size - F) + (j - 1)
        BY <2>1, <4>1, ModIs
      <4> QED  BY <3>1, <4>1, <4>2
    <3>2. CASE ~(j <= F)
      <4>1. j - 1 - F \in 0..(Size - 1)
        BY <1>1, <2>1, <3>2
      <4>2. (j - 1 - F) % Size = j - 1 - F
        BY <2>1, <4>1, ModIs
      <4> QED  BY <3>2, <4>2
    <3> QED  BY <3>1, <3>2
  <2>10. at(i) = ((i - w) % Size) + 1
    BY DEF at
  <2>11. at(i) = IF j <= F THEN (Size - F) + j ELSE j - F
    BY <1>1, <2>1, <2>8, <2>9, <2>10
  <2> QED  BY <2>3, <2>11 DEF i
<1>8. ASSUME NEW j \in 1..(F + k) PROVE new[j] = IF j <= F THEN old[j] ELSE s[j - F]
  <2> DEFINE i == (r + j - 1) % Size
  <2>1. /\ i \in 0..(Size - 1)
        /\ at(i) = IF j <= F THEN (Size - F) + j ELSE j - F
    BY <1>7
  <2>2. new[j] = u.data[i]
    BY <1>5
  <2>3. j <= F => old[j] = pg.data[i]
    BY <1>1, <1>4
  <2> HIDE DEF i
  <2>4. u.data[i] = IF at(i) <= k THEN s[at(i)] ELSE pg.data[i]
    BY <1>2, <2>1
  <2>5. CASE j <= F
    <3>1. ~(at(i) <= k)
      BY <1>1, <2>1, <2>5
    <3> QED  BY <2>2, <2>3, <2>4, <2>5, <3>1
  <2>6. CASE ~(j <= F)
    <3>1. at(i) = j - F /\ at(i) <= k
      BY <1>1, <2>1, <2>6
    <3> QED  BY <2>2, <2>4, <2>6, <3>1
  <2> QED  BY <2>5, <2>6
<1> DEFINE c == old \o s
<1>9. /\ c \in Seq(Nat) /\ Len(c) = Len(old) + Len(s)
      /\ \A j \in 1..(Len(old) + Len(s)) : c[j] = IF j <= Len(old) THEN old[j] ELSE s[j - Len(old)]
  BY <1>4, ConcatProperties
<1> HIDE DEF c
<1>10. new = c
  <2>1. Len(new) = Len(c) /\ \A j \in 1..Len(new) : new[j] = c[j]
    BY <1>4, <1>5, <1>8, <1>9 DEF k
  <2> QED  BY <1>5, <1>9, <2>1, SeqEqual
<1> QED  BY <1>10 DEF new, u, old, c

\* The part of a page that holds its content.
SameRing(a, b) == a.data = b.data /\ a.nread = b.nread /\ a.nwrite = b.nwrite

LEMMA SameContent ==
  ASSUME NEW a, NEW b, SameRing(a, b)
  PROVE  Content(a) = Content(b)
<1>1. Fill(a) = Fill(b)
  BY DEF Fill, SameRing
<1> QED  BY <1>1 DEF Content, Oldest, SameRing

\* Steps of no read and no write.
LEMMA NothingMoves ==
  ASSUME IInv, NEW p \in Proc,
         \/ Naming(p) \/ Fork(p) \/ Exit(p) \/ Kill(p)
         \/ \E c \in Proc : Reap(p, c)
  PROVE  /\ \A q \in Proc : call[q].op \in {"read", "write"} => call'[q] = call[q]
         /\ \A g \in Page : pages[g].used => Content(pages'[g]) = Content(pages[g])
<1>0. Types
  BY DEF IInv
<1>1. \/ call' = call
      \/ call[p].op \notin {"read", "write"} /\ \E k : Goes(p, k)
  <2>1. Calls(p) => call[p].op \notin {"read", "write"}
    BY CallsIs
  <2>2. CASE Naming(p)
    <3>1. CASE OpenSet(p)
      BY <3>1 DEF OpenSet, In
    <3>2. CASE \E m \in Mode : OpenAlloc(p, m)
      BY <2>1, <3>2 DEF OpenAlloc
    <3>3. CASE PipeFirst(p)
      BY <2>1, <3>3 DEF PipeFirst
    <3>4. CASE PipeSecond(p)
      BY <3>4 DEF PipeSecond, In
    <3>5. CASE PipeNoPage(p)
      BY <3>5 DEF PipeNoPage, In
    <3>6. CASE PipeMake(p)
      BY <3>6 DEF PipeMake, In
    <3>7. CASE CloseRef(p)
      BY <3>7 DEF CloseRef, In
    <3>8. CASE CloseLook(p)
      BY <3>8 DEF CloseLook, In
    <3>9. CASE PipeClose(p)
      BY <3>9 DEF PipeClose, In
    <3>10. CASE \E d \in Fd : Dup(p, d)
      BY <3>10 DEF Dup
    <3>11. CASE \E d \in Fd : Close(p, d)
      BY <2>1, <3>11 DEF Close
    <3>12. CASE \E d \in Fd, n \in 1..MaxRead : StartRead(p, d, n)
      BY <2>1, <3>12 DEF StartRead
    <3>13. CASE \E d \in Fd, s \in Chunk : StartWrite(p, d, s)
      BY <2>1, <3>13 DEF StartWrite
    <3> QED
      BY <2>2, <3>1, <3>2, <3>3, <3>4, <3>5, <3>6, <3>7, <3>8, <3>9, <3>10, <3>11, <3>12, <3>13 DEF Naming
  <2>3. CASE \/ Fork(p) \/ Exit(p) \/ Kill(p)
             \/ \E c \in Proc : Reap(p, c)
    BY <2>3 DEF Fork, Exit, Kill, Reap
  <2> QED  BY <2>2, <2>3
<1>2. \A q \in Proc : call[q].op \in {"read", "write"} => call'[q] = call[q]
  BY <1>0, <1>1 DEF Goes, Types
<1>3. \/ pages' = pages
      \/ PipeMake(p)
      \/ PipeClose(p)
  <2>1. CASE Naming(p)
    BY <2>1 DEF Naming, OpenSet, OpenAlloc, PipeFirst, PipeSecond, PipeNoPage, CloseRef, CloseLook,
                Dup, Close, StartRead, StartWrite
  <2>2. CASE \/ Fork(p) \/ Exit(p) \/ Kill(p)
             \/ \E c \in Proc : Reap(p, c)
    BY <2>2 DEF Fork, Exit, Kill, Reap
  <2> QED  BY <2>1, <2>2
<1>4. ASSUME NEW g \in Page, pages[g].used PROVE Content(pages'[g]) = Content(pages[g])
  <2>1. CASE PipeMake(p)
    <3>1. PICK h \in Page : ~pages[h].used /\ pages' = [pages EXCEPT ![h] = Fresh]
      BY <2>1 DEF PipeMake
    <3>2. pages'[g] = pages[g]
      BY <1>0, <1>4, <3>1 DEF Types
    <3> QED  BY <3>2
  <2>2. CASE PipeClose(p)
    <3> DEFINE h == call[p].pipe
               pg == IF call[p].writable THEN [pages[h] EXCEPT !.writeopen = FALSE]
                                         ELSE [pages[h] EXCEPT !.readopen = FALSE]
               u == [pg EXCEPT !.used = StillUsed(pg)]
    <3>1. pages' = [pages EXCEPT ![h] = u] /\ call[p].op = "pipeclose"
      BY <2>2 DEF PipeClose, In
    <3>2. h \in Page /\ pages \in [Page -> PageRec]
      BY <1>0, <3>1, CallFields DEF Types, Inside
    <3>3. SameRing(u, pages[h])
      BY <3>2 DEF SameRing, PageRec
    <3> HIDE DEF u, h
    <3>4. SameRing(pages'[g], pages[g])
      BY <3>1, <3>2, <3>3 DEF SameRing
    <3> QED  BY <3>4, SameContent
  <2> QED  BY <1>3, <2>1, <2>2
<1> QED  BY <1>2, <1>4

LEMMA ReadMoves ==
  ASSUME IInv, NEW p \in Proc, ReadStep(p)
  PROVE  LET g == call[p].pipe
             old == Content(pages[g])
             new == Content(pages'[g])
         IN /\ call[p].op = "read" /\ g \in Page
            /\ \A q \in Proc : q # p => call'[q] = call[q]
            /\ \A h \in Page : h # g => pages'[h] = pages[h]
            /\ call'[p] = call[p] => new = old
            /\ \E k \in 0..Len(old) : /\ Buf(p)' = Buf(p) \o SubSeq(old, 1, k)
                                      /\ old = SubSeq(old, 1, k) \o new
<1> DEFINE c == call[p]
           g == c.pipe
           pg == pages[g]
           k == Min(c.n - Len(c.buf), Fill(pg))
           buf == c.buf \o Oldest(pg, k)
           u == [pg EXCEPT !.nread = (@ + k) % Wrap]
<1>0. Types /\ RingInv
  BY DEF IInv
<1>1. /\ c.op = "read" /\ pages' = [pages EXCEPT ![g].nread = (@ + k) % Wrap]
  BY DEF ReadStep, In
<1>2. g \in Page /\ c \in CallRec /\ CallFits(c) /\ c.buf \in Seq(Nat) /\ pg \in PageRec
      /\ Fill(pg) <= Size /\ pages \in [Page -> PageRec] /\ call \in [Proc -> CallRec]
  BY <1>0, <1>1, CallFields DEF Types, RingInv
<1>3. /\ pages'[g] = u /\ \A h \in Page : h # g => pages'[h] = pages[h]
  <2> HIDE DEF k
  <2> QED  BY <1>1, <1>2
<1>4. /\ k \in Nat /\ buf \in Seq(Nat) /\ Len(buf) = Len(c.buf) + k /\ u \in PageRec
      /\ k <= Fill(pg)
  <2>1. ReadOf(c, pg, k, buf, u)
    BY DEF ReadOf
  <2> HIDE DEF c, pg, k, buf, u
  <2>2. /\ k \in Nat /\ buf \in Seq(Nat) /\ Len(buf) = Len(c.buf) + k /\ u \in PageRec
        /\ Fill(u) = Fill(pg) - k /\ Fill(u) \in Nat
    BY <1>1, <1>2, <2>1, ReadIs
  <2>3. Fill(pg) \in Nat
    BY <1>2, FillIs
  <2> QED  BY <2>2, <2>3
<1>5. u.nread = (pg.nread + k) % Wrap /\ u.nwrite = pg.nwrite /\ u.data = pg.data
  <2> HIDE DEF k
  <2> QED  BY <1>2 DEF PageRec
<1>6. buf = c.buf \o Oldest(pg, k)
  OBVIOUS
<1>7. \/ Goes(p, User) /\ last'.buf = buf
      \/ call' = [call EXCEPT ![p].buf = buf]
  <2> HIDE DEF buf
  <2>1. \A r : Returns(p, r, buf) => Goes(p, User) /\ last'.buf = buf
    BY DEF Returns
  <2> QED  BY <2>1 DEF ReadStep, Sleeps, buf
<1> HIDE DEF u, k, buf, pg, g, c
<1>8. /\ Oldest(pg, k) = SubSeq(Content(pg), 1, k)
      /\ Content(pg) = Oldest(pg, k) \o Content(u)
  BY <1>2, <1>4, <1>5, ReadStream
<1>9. \A q \in Proc : q # p => call'[q] = call[q]
  BY <1>2, <1>7 DEF Goes
<1>10. /\ Buf(p)' = buf /\ Buf(p) = c.buf
       /\ call'[p] = call[p] => buf = c.buf
  <2>0. Buf(p) = c.buf
    BY <1>1 DEF Buf, c
  <2>1. CASE Goes(p, User) /\ last'.buf = buf
    <3>1. call'[p] = User /\ User.op = "user" /\ call[p].op = "read"
      BY <1>1, <1>2, <2>1, UserFits DEF Goes, c
    <3>2. call'[p].op = "user"
      BY <3>1
    <3> QED  BY <2>0, <2>1, <3>1, <3>2 DEF Buf
  <2>2. CASE call' = [call EXCEPT ![p].buf = buf]
    <3> DEFINE m == [c EXCEPT !.buf = buf]
    <3>1. m.op = "read" /\ m.buf = buf
      BY <1>1, <1>2 DEF CallRec
    <3>2. call'[p] = m
      BY <1>2, <2>2 DEF c
    <3> HIDE DEF m
    <3> QED  BY <2>0, <3>1, <3>2 DEF Buf, c
  <2> QED  BY <1>7, <2>1, <2>2
<1>11. ASSUME buf = c.buf PROVE Content(u) = Content(pg)
  <2> DEFINE o == Oldest(pg, k)
  <2>1. k = 0
    <3>1. Len(c.buf) \in Nat
      BY <1>2, LenProperties
    <3> QED  BY <1>4, <1>11, <3>1
  <2>2. o \in Seq(Nat) /\ Len(o) = 0
    BY <1>2, <1>4, <2>1, OldestIs
  <2>3. o = <<>>
    BY <2>2, EmptySeq
  <2>4. Content(u) \in Seq(Nat)
    BY <1>4, ContentIs
  <2> HIDE DEF o
  <2>5. Content(pg) = <<>> \o Content(u)
    BY <1>8, <2>3 DEF o
  <2> QED  BY <2>4, <2>5, ConcatEmptySeq
<1>12. k \in 0..Len(Content(pg))
  <2>1. Len(Content(pg)) = Fill(pg) /\ Fill(pg) \in Nat
    BY <1>2, ContentIs, FillIs
  <2> QED  BY <1>4, <2>1
<1>13. pages'[g] = u /\ pages[g] = pg /\ g = call[p].pipe
  BY <1>3 DEF pg, g, c
<1>14. /\ Buf(p)' = Buf(p) \o SubSeq(Content(pg), 1, k)
       /\ Content(pg) = SubSeq(Content(pg), 1, k) \o Content(u)
  BY <1>6, <1>8, <1>10
<1>15. /\ call[p].op = "read" /\ g \in Page
       /\ \A h \in Page : h # g => pages'[h] = pages[h]
       /\ call'[p] = call[p] => Content(u) = Content(pg)
  BY <1>1, <1>2, <1>3, <1>10, <1>11 DEF c
<1> QED  BY <1>9, <1>12, <1>13, <1>14, <1>15 DEF g, c

LEMMA WriteMoves ==
  ASSUME IInv, NEW p \in Proc, WriteStep(p)
  PROVE  LET g == call[p].pipe
             old == Content(pages[g])
             new == Content(pages'[g])
         IN /\ call[p].op = "write" /\ g \in Page
            /\ \A q \in Proc : q # p => call'[q] = call[q]
            /\ \A h \in Page : h # g => pages'[h] = pages[h]
            /\ call'[p] = call[p] => new = old
            /\ \E k \in 0..Len(Buf(p)) : /\ Buf(p) = SubSeq(Buf(p), 1, k) \o Buf(p)'
                                         /\ new = old \o SubSeq(Buf(p), 1, k)
<1> DEFINE c == call[p]
           g == c.pipe
           pg == pages[g]
           k == Min(Len(c.buf), Room(pg))
           buf == SubSeq(c.buf, k + 1, Len(c.buf))
           s == SubSeq(c.buf, 1, k)
           u == Stored(pg, s)
<1>0. Types /\ RingInv
  BY DEF IInv
<1>1. /\ c.op = "write" /\ pages' = [pages EXCEPT ![g] = u]
  BY DEF WriteStep, In
<1>2. g \in Page /\ c \in CallRec /\ CallFits(c) /\ c.buf \in Seq(Nat) /\ pg \in PageRec
      /\ Fill(pg) <= Size /\ pages \in [Page -> PageRec] /\ call \in [Proc -> CallRec]
  BY <1>0, <1>1, CallFields DEF Types, RingInv
<1>3. /\ pages'[g] = u /\ \A h \in Page : h # g => pages'[h] = pages[h]
  <2> HIDE DEF u
  <2> QED  BY <1>1, <1>2
<1>4. /\ k \in Nat /\ buf \in Seq(Nat) /\ Len(buf) = Len(c.buf) - k
      /\ k <= Len(c.buf) /\ k <= Size - Fill(pg) /\ Len(c.buf) \in Nat
  <2>1. WriteOf(c, pg, k, buf, u)
    BY DEF WriteOf
  <2> HIDE DEF c, pg, k, buf, u
  <2>2. /\ k \in Nat /\ buf \in Seq(Nat) /\ Len(buf) = Len(c.buf) - k
        /\ Fill(u) = Fill(pg) + k /\ Fill(u) <= Size
    BY <1>1, <1>2, <2>1, WriteIs
  <2>3. Fill(pg) \in Nat /\ Len(c.buf) \in Nat /\ Len(buf) \in Nat /\ Size \in Nat
    BY <1>2, <2>2, FillIs, LenProperties, FreshIs
  <2> QED  BY <2>2, <2>3
<1>6. c.buf = s \o buf /\ s \in Seq(Nat) /\ Len(s) = k
  <2> DEFINE b == c.buf
  <2>0. b \in Seq(Nat) /\ k \in Nat /\ k <= Len(b) /\ Len(b) \in Nat /\ \A i \in 1..Len(b) : b[i] \in Nat
    BY <1>2, <1>4, ElementOfSeq
  <2> HIDE DEF k
  <2>1. s = SubSeq(b, 1, k) /\ buf = SubSeq(b, k + 1, Len(b))
    OBVIOUS
  <2> HIDE DEF b
  <2>2. s \in Seq(Nat) /\ Len(s) = k /\ \A i \in 1..k : s[i] = b[i]
    <3>1. s = [i \in 1..k |-> b[i]]
      BY <2>0, <2>1
    <3>2. \A i \in 1..k : b[i] \in Nat
      BY <2>0
    <3> HIDE DEF s
    <3> QED  BY <2>0, <3>1, <3>2
  <2>3. /\ buf \in Seq(Nat) /\ Len(buf) = Len(b) - k
        /\ \A i \in 1..(Len(b) - k) : buf[i] = b[k + i]
    <3>1. buf = [i \in 1..(Len(b) - k) |-> b[k + i]]
      BY <2>0, <2>1
    <3>2. \A i \in 1..(Len(b) - k) : k + i \in 1..Len(b)
      BY <2>0
    <3>3. \A i \in 1..(Len(b) - k) : b[k + i] \in Nat
      BY <2>0, <3>2
    <3>4. Len(b) - k \in Nat
      BY <2>0
    <3> HIDE DEF buf
    <3> QED  BY <3>1, <3>3, <3>4
  <2> HIDE DEF s, buf
  <2> DEFINE t == s \o buf
  <2>4. /\ t \in Seq(Nat) /\ Len(t) = Len(s) + Len(buf)
        /\ \A i \in 1..(Len(s) + Len(buf)) : t[i] = IF i <= Len(s) THEN s[i] ELSE buf[i - Len(s)]
    BY <2>2, <2>3, ConcatProperties
  <2> HIDE DEF t
  <2>5. ASSUME NEW i \in 1..Len(b) PROVE b[i] = t[i]
    <3>0. Len(s) + Len(buf) = Len(b) /\ Len(s) = k
      BY <2>0, <2>2, <2>3
    <3>1. CASE i <= k
      <4>1. i \in 1..k
        BY <2>0, <3>1
      <4> QED  BY <2>2, <2>4, <3>0, <3>1, <4>1
    <3>2. CASE ~(i <= k)
      <4>1. i - k \in 1..(Len(b) - k) /\ k + (i - k) = i
        BY <2>0, <3>2
      <4> QED  BY <2>3, <2>4, <3>0, <3>2, <4>1
    <3> QED  BY <3>1, <3>2
  <2>6. Len(b) = Len(t)
    BY <2>0, <2>2, <2>3, <2>4
  <2>7. b = t
    BY <2>0, <2>4, <2>5, <2>6, SeqEqual
  <2> QED  BY <2>2, <2>7 DEF b, t
<1>7. \/ Goes(p, User) /\ last'.buf = buf
      \/ call' = [call EXCEPT ![p].buf = buf]
  <2> HIDE DEF buf
  <2>1. \A r : Returns(p, r, buf) => Goes(p, User) /\ last'.buf = buf
    BY DEF Returns
  <2> QED  BY <2>1 DEF WriteStep, Sleeps, buf
<1>5. u = Stored(pg, s) /\ s = SubSeq(c.buf, 1, k)
  OBVIOUS
<1> HIDE DEF u, k, buf, s, pg, g, c
<1>8. Content(u) = Content(pg) \o s
  BY <1>2, <1>4, <1>5, <1>6, WriteStream
<1>9. \A q \in Proc : q # p => call'[q] = call[q]
  BY <1>2, <1>7 DEF Goes
<1>10. /\ Buf(p)' = buf /\ Buf(p) = c.buf
       /\ call'[p] = call[p] => buf = c.buf
  <2>0. Buf(p) = c.buf
    BY <1>1 DEF Buf, c
  <2>1. CASE Goes(p, User) /\ last'.buf = buf
    <3>1. call'[p] = User /\ User.op = "user" /\ call[p].op = "write"
      BY <1>1, <1>2, <2>1, UserFits DEF Goes, c
    <3>2. call'[p].op = "user"
      BY <3>1
    <3> QED  BY <2>0, <2>1, <3>1, <3>2 DEF Buf
  <2>2. CASE call' = [call EXCEPT ![p].buf = buf]
    <3> DEFINE m == [c EXCEPT !.buf = buf]
    <3>1. m.op = "write" /\ m.buf = buf
      BY <1>1, <1>2 DEF CallRec
    <3>2. call'[p] = m
      BY <1>2, <2>2 DEF c
    <3> HIDE DEF m
    <3> QED  BY <2>0, <3>1, <3>2 DEF Buf, c
  <2> QED  BY <1>7, <2>1, <2>2
<1>11. ASSUME buf = c.buf PROVE Content(u) = Content(pg)
  <2>1. Len(s) = 0
    BY <1>4, <1>6, <1>11
  <2>2. s = <<>>
    BY <1>6, <2>1, EmptySeq
  <2>3. Content(pg) \in Seq(Nat)
    BY <1>2, ContentIs
  <2> QED  BY <1>8, <2>2, <2>3, ConcatEmptySeq
<1>12. k \in 0..Len(c.buf)
  BY <1>4
<1>13. pages'[g] = u /\ pages[g] = pg /\ g = call[p].pipe
  BY <1>3 DEF pg, g, c
<1>14. /\ Buf(p) = SubSeq(Buf(p), 1, k) \o Buf(p)'
       /\ Content(u) = Content(pg) \o SubSeq(Buf(p), 1, k)
       /\ k \in 0..Len(Buf(p))
  BY <1>5, <1>6, <1>8, <1>10, <1>12
<1>15. /\ call[p].op = "write" /\ g \in Page
       /\ \A h \in Page : h # g => pages'[h] = pages[h]
       /\ call'[p] = call[p] => Content(u) = Content(pg)
  BY <1>1, <1>2, <1>3, <1>10, <1>11 DEF c
<1> QED  BY <1>9, <1>13, <1>14, <1>15 DEF g, c

(* A pipe is a stream: what a writer gets rid of is put behind what is in   *)
(* the ring and a reader takes from the front, across full and empty rings, *)
(* sleeps and the wrap of the counters; nothing else changes the content.   *)
THEOREM PipeIsStream == Spec => StreamKept
<1> DEFINE Kept(g) ==
      LET old == Content(pages[g])
          new == Content(pages'[g])
      IN \/ new = old /\ \A p \in Proc : ~Moves(p, g)
         \/ \E p \in Proc :
              /\ Moves(p, g)
              /\ IF call[p].op = "write"
                 THEN \E s \in {SubSeq(Buf(p), 1, k) : k \in 0..Len(Buf(p))} :
                        Buf(p) = s \o Buf(p)' /\ new = old \o s
                 ELSE \E s \in {SubSeq(old, 1, k) : k \in 0..Len(old)} :
                        Buf(p)' = Buf(p) \o s /\ old = s \o new
<1>1. ASSUME IInv, Next, NEW g \in Page, pages[g].used PROVE Kept(g)
  <2>1. PICK p \in Proc : \/ Naming(p) \/ ReadStep(p) \/ WriteStep(p)
                          \/ Fork(p) \/ Exit(p) \/ Kill(p)
                          \/ \E c \in Proc : Reap(p, c)
    BY <1>1 DEF Next
  <2>2. CASE ReadStep(p)
    <3>1. /\ call[p].op = "read"
          /\ \A q \in Proc : q # p => call'[q] = call[q]
          /\ \A h \in Page : h # call[p].pipe => pages'[h] = pages[h]
      BY <1>1, <2>2, ReadMoves
    <3>2. CASE call[p].pipe # g
      BY <3>1, <3>2 DEF Moves
    <3>3. CASE call[p].pipe = g
      <4> DEFINE old == Content(pages[g])  new == Content(pages'[g])
      <4>1. /\ call'[p] = call[p] => new = old
            /\ \E k \in 0..Len(old) : /\ Buf(p)' = Buf(p) \o SubSeq(old, 1, k)
                                      /\ old = SubSeq(old, 1, k) \o new
        BY <1>1, <2>2, <3>3, ReadMoves
      <4> HIDE DEF old, new
      <4>2. CASE call'[p] = call[p]
        BY <3>1, <4>1, <4>2 DEF Moves, old, new
      <4>3. CASE call'[p] # call[p]
        <5>1. Moves(p, g) /\ call[p].op # "write"
          BY <3>1, <3>3, <4>3 DEF Moves
        <5>2. \E s \in {SubSeq(old, 1, k) : k \in 0..Len(old)} :
                Buf(p)' = Buf(p) \o s /\ old = s \o new
          BY <4>1
        <5> QED  BY <5>1, <5>2 DEF old, new
      <4> QED  BY <4>2, <4>3
    <3> QED  BY <3>2, <3>3
  <2>3. CASE WriteStep(p)
    <3>1. /\ call[p].op = "write"
          /\ \A q \in Proc : q # p => call'[q] = call[q]
          /\ \A h \in Page : h # call[p].pipe => pages'[h] = pages[h]
      BY <1>1, <2>3, WriteMoves
    <3>2. CASE call[p].pipe # g
      BY <3>1, <3>2 DEF Moves
    <3>3. CASE call[p].pipe = g
      <4> DEFINE old == Content(pages[g])  new == Content(pages'[g])
      <4>1. /\ call'[p] = call[p] => new = old
            /\ \E k \in 0..Len(Buf(p)) : /\ Buf(p) = SubSeq(Buf(p), 1, k) \o Buf(p)'
                                         /\ new = old \o SubSeq(Buf(p), 1, k)
        BY <1>1, <2>3, <3>3, WriteMoves
      <4> HIDE DEF old, new
      <4>2. CASE call'[p] = call[p]
        BY <3>1, <4>1, <4>2 DEF Moves, old, new
      <4>3. CASE call'[p] # call[p]
        <5>1. Moves(p, g)
          BY <3>1, <3>3, <4>3 DEF Moves
        <5>2. \E s \in {SubSeq(Buf(p), 1, k) : k \in 0..Len(Buf(p))} :
                Buf(p) = s \o Buf(p)' /\ new = old \o s
          BY <4>1
        <5> QED  BY <3>1, <5>1, <5>2 DEF old, new
      <4> QED  BY <4>2, <4>3
    <3> QED  BY <3>2, <3>3
  <2>4. CASE \/ Naming(p) \/ Fork(p) \/ Exit(p) \/ Kill(p)
             \/ \E c \in Proc : Reap(p, c)
    <3>1. /\ \A q \in Proc : call[q].op \in {"read", "write"} => call'[q] = call[q]
          /\ Content(pages'[g]) = Content(pages[g])
      BY <1>1, <2>4, NothingMoves
    <3> QED  BY <3>1 DEF Moves
  <2> QED  BY <2>1, <2>2, <2>3, <2>4
<1> DEFINE A == \A g \in Page : pages[g].used /\ pages'[g].used => Kept(g)
<1>2. IInv /\ [Next]_vars => [A]_vars
  <2> HIDE DEF Kept
  <2> QED  BY <1>1
<1>3. StreamKept <=> [][A]_vars
  BY PTL DEF StreamKept
<1> HIDE DEF A
<1> QED  BY <1>2, <1>3, Invariant, PTL DEF Spec

=============================================================================
