------------------------------- MODULE Memory -------------------------------
(***************************************************************************)
(* The memory of user processes: kernel/mem/pmem.c and mem/vmem.c, and     *)
(* those who use them, fork_process, growproc and free_process of          *)
(* proc/proc.c, exec_process of proc/exec.c and sys_exec.                  *)
(*                                                                         *)
(* pmem.c has two regions, the kernel's with stacks, trap frames, page     *)
(* tables and the arguments of exec, and the users'; the free pages of     *)
(* each are counted.  A page table is the set of the pages it maps.  All   *)
(* user addresses share one second-level and one third-level table, taken  *)
(* when the first page is mapped.                                          *)
(*                                                                         *)
(* Sizes are in units of half a page: sbrk need not end at a page.         *)
(* pmem_alloc and pmem_free hold a lock, fork and wait hold p->lock, so    *)
(* exec and sbrk, which hold none, go page by page beside the others.      *)
(***************************************************************************)
EXTENDS Integers, FiniteSets, FiniteSetsExt

CONSTANTS Task,        \* the slots of the process table
          UserPages, KernelPages,  \* the sizes of the two regions
          MaxPage,     \* bound: the pages of an address space
          ImagePages,  \* how many pages the segment of a program has
          Increments,  \* what sbrk is asked for
          MaxArgs      \* EXEC_MAXARG

\* The first process has a page for its program and one for its stack.
ASSUME MemoryAssumption == /\ IsFiniteSet(Task) /\ Task # {}
                           /\ UserPages \in Nat /\ KernelPages \in Nat /\ MaxPage \in Nat
                           /\ UserPages >= 2 /\ KernelPages >= 7 /\ MaxPage >= 2
                           /\ ImagePages \subseteq 1..(MaxPage - 1) /\ MaxArgs \in Nat
                           /\ Increments \subseteq Int

VARIABLES ufree,       \* user_region.allocable
          kfree,       \* kern_region.allocable
          stage,       \* where each process is in fork, exec or sbrk
          map, size,   \* the leaves of p->pagetable, and p->sz
          new,         \* in exec: the page table being built
          args,        \* in sys_exec: how many pages argbufs holds
          goal, next,  \* in sbrk: newsz, and the next page to map
          panicked

memVars == <<ufree, kfree, stage, map, size, new, args, goal, next, panicked>>

VPage == 0..MaxPage
NoTable == [map |-> {}, low |-> FALSE, next |-> 0, pages |-> 0, mapped |-> 0]

PageUp(u) == (u + 1) \div 2
Start(v) == 2 * v

\* A process that has given all its memory back faults, and is killed.
Runs(p) == stage[p] = "user" /\ map[p] # {}
Idle == {p \in Task : stage[p] = "none"}
Building == {p \in Task : stage[p] \in {"load", "stack", "argv"}}

MemTypeOK ==
  /\ ufree \in 0..UserPages /\ kfree \in 0..KernelPages
  /\ stage \in [Task -> {"none", "user", "args", "load", "stack", "argv", "grow", "zombie"}]
  /\ map \in [Task -> SUBSET VPage]
  /\ size \in [Task -> 0..Start(MaxPage)] /\ goal \in [Task -> 0..Start(MaxPage)]
  /\ next \in [Task -> 0..(MaxPage + 1)] /\ args \in [Task -> 0..MaxArgs]
  /\ new \in [Task -> [map : SUBSET VPage, low : BOOLEAN, next : 0..MaxPage,
                       pages : 0..MaxPage, mapped : 0..Start(MaxPage)]]
  /\ panicked \in BOOLEAN

\* kstack and trapframe; the root, and the two tables above the trampoline and the
\* trap frame; the two below which the pages of a program are.
TaskPages == 2
TopTables == 3
LowTables == 2
Tables(t) == IF t.low THEN TopTables + LowTables ELSE TopTables

\* init runs a program of one page.
MemInit == LET p == CHOOSE q \in Task : TRUE IN
  /\ ufree = UserPages - 2
  /\ kfree = KernelPages - TaskPages - TopTables - LowTables
  /\ stage = [q \in Task |-> IF q = p THEN "user" ELSE "none"]
  /\ map = [q \in Task |-> IF q = p THEN {0, 1} ELSE {}]
  /\ size = [q \in Task |-> IF q = p THEN Start(2) ELSE 0]
  /\ new = [q \in Task |-> NoTable]
  /\ args = [q \in Task |-> 0] /\ goal = [q \in Task |-> 0] /\ next = [q \in Task |-> 0]
  /\ panicked = FALSE

-----------------------------------------------------------------------------
(* pmem.c and vmem.c *)

\* Mutant: a page that the new size ends in is given back.
DeallocatedPart(m, old, to) == {v \in m : to \div 2 <= v /\ Start(v) < old}

\* uvmdealloc(oldsz, newsz): what it unmaps and gives to pmem_free.
Deallocated(m, old, to) == {v \in m : PageUp(to) <= v /\ Start(v) < old}

Freed(m, old, to) == Cardinality(Deallocated(m, old, to))

\* uvmcopy: as many pages as there are, the lowest first.
Copied(m) == {v \in m : Cardinality({w \in m : w <= v}) <= ufree}

\* vm_mappages panics when pmem_alloc has no kernel page for a table, or on a remap.
MemPanics == panicked' = TRUE /\ UNCHANGED <<ufree, kfree, stage, map, size, new, args, goal, next>>

-----------------------------------------------------------------------------
(* fork_process, exit and wait *)

\* With p->lock of the child held.  The first page that is copied takes the tables.
Fork(p, q) ==
  LET child == Copied(map[p])
      failsAt == Start(Min(map[p] \ child))
      left == child \ Deallocated(child, failsAt, 0) IN
  /\ Runs(p) /\ q \in Idle
  /\ kfree > TaskPages
  /\ IF kfree < TaskPages + TopTables + (IF child = {} THEN 0 ELSE LowTables) THEN MemPanics
     ELSE IF child = map[p]
     THEN /\ stage' = [stage EXCEPT ![q] = "user"]
          /\ map' = [map EXCEPT ![q] = child] /\ size' = [size EXCEPT ![q] = size[p]]
          /\ ufree' = ufree - Cardinality(child)
          /\ kfree' = kfree - (TaskPages + TopTables + LowTables)
          /\ UNCHANGED <<new, args, goal, next, panicked>>
     ELSE \* uvmdealloc in uvmcopy, then proc_freepagetable and free_process
          /\ ufree' = ufree - Cardinality(child) + Freed(child, failsAt, 0) + Freed(left, size[p], 0)
          /\ UNCHANGED <<kfree, stage, map, size, new, args, goal, next, panicked>>

ExitTask(p) == /\ stage[p] = "user"
               /\ stage' = [stage EXCEPT ![p] = "zombie"]
               /\ UNCHANGED <<ufree, kfree, map, size, new, args, goal, next, panicked>>

\* free_process, in the wait of another process.
FreeTask(p) ==
  /\ stage[p] = "zombie" /\ \E q \in Task : stage[q] = "user"
  /\ stage' = [stage EXCEPT ![p] = "none"]
  /\ ufree' = ufree + Freed(map[p], size[p], 0)
  /\ kfree' = kfree + TaskPages + TopTables + LowTables
  /\ map' = [map EXCEPT ![p] = {}] /\ size' = [size EXCEPT ![p] = 0]
  /\ UNCHANGED <<new, args, goal, next, panicked>>

-----------------------------------------------------------------------------
(* growproc *)

Grow(p, n) ==
  /\ Runs(p) /\ n > 0 /\ size[p] + n <= Start(MaxPage)
  /\ stage' = [stage EXCEPT ![p] = "grow"]
  /\ goal' = [goal EXCEPT ![p] = size[p] + n]
  /\ next' = [next EXCEPT ![p] = PageUp(size[p])]
  /\ UNCHANGED <<ufree, kfree, map, size, new, args, panicked>>

GrowPage(p) ==
  /\ stage[p] = "grow" /\ Start(next[p]) < goal[p] /\ ufree > 0
  /\ IF next[p] \in map[p] THEN MemPanics  \* vm_mappages: remap
     ELSE /\ map' = [map EXCEPT ![p] = @ \cup {next[p]}]
          /\ ufree' = ufree - 1
          /\ next' = [next EXCEPT ![p] = @ + 1]
          /\ UNCHANGED <<kfree, stage, size, new, args, goal, panicked>>

GrowFails(p) ==
  /\ stage[p] = "grow" /\ Start(next[p]) < goal[p] /\ ufree = 0
  /\ stage' = [stage EXCEPT ![p] = "user"]
  /\ map' = [map EXCEPT ![p] = @ \ Deallocated(@, Start(next[p]), size[p])]
  /\ ufree' = Freed(map[p], Start(next[p]), size[p])
  /\ goal' = [goal EXCEPT ![p] = 0] /\ next' = [next EXCEPT ![p] = 0]
  /\ UNCHANGED <<kfree, size, new, args, panicked>>

GrowEnds(p) == /\ stage[p] = "grow" /\ Start(next[p]) >= goal[p]
               /\ stage' = [stage EXCEPT ![p] = "user"]
               /\ size' = [size EXCEPT ![p] = goal[p]]
               /\ goal' = [goal EXCEPT ![p] = 0] /\ next' = [next EXCEPT ![p] = 0]
               /\ UNCHANGED <<ufree, kfree, map, new, args, panicked>>

Shrink(p, n) ==
  LET to == Max({0, size[p] - n}) IN
  /\ Runs(p) /\ n > 0
  /\ size' = [size EXCEPT ![p] = to]
  /\ map' = [map EXCEPT ![p] = @ \ Deallocated(@, size[p], to)]
  /\ ufree' = ufree + Freed(map[p], size[p], to)
  /\ UNCHANGED <<kfree, stage, new, args, goal, next, panicked>>

-----------------------------------------------------------------------------
(* sys_exec and exec_process *)

SysExec(p) == /\ Runs(p)
              /\ stage' = [stage EXCEPT ![p] = "args"]
              /\ UNCHANGED <<ufree, kfree, map, size, new, args, goal, next, panicked>>

FetchArg(p) == /\ stage[p] = "args" /\ args[p] < MaxArgs /\ kfree > 0
               /\ args' = [args EXCEPT ![p] = @ + 1] /\ kfree' = kfree - 1
               /\ UNCHANGED <<ufree, stage, map, size, new, goal, next, panicked>>

\* cleanup, with the page of an argument that is not mapped already given back.
Cleanup(p, k) == /\ stage' = [stage EXCEPT ![p] = "user"]
                 /\ args' = [args EXCEPT ![p] = 0]
                 /\ kfree' = kfree + args[p] + k

FetchFails(p) == /\ stage[p] = "args"
                 /\ Cleanup(p, 0)
                 /\ UNCHANGED <<ufree, map, size, new, goal, next, panicked>>

\* proc_pagetable; without a page for the root it is FetchFails again.
StartExec(p, pages) ==
  /\ stage[p] = "args" /\ kfree > 0
  /\ IF kfree < TopTables THEN MemPanics
     ELSE /\ kfree' = kfree - TopTables
          /\ new' = [new EXCEPT ![p] = [NoTable EXCEPT !.pages = pages]]
          /\ stage' = [stage EXCEPT ![p] = "load"]
          /\ UNCHANGED <<ufree, map, size, args, goal, next, panicked>>

\* map_segment, one page: of the segment, then of the stack.
MapPage(p) ==
  LET t == new[p]  take == IF t.low THEN 0 ELSE LowTables IN
  /\ stage[p] \in {"load", "stack"} /\ ufree > 0
  /\ stage[p] = "load" => t.next < t.pages
  /\ IF kfree < take THEN MemPanics
     ELSE /\ ufree' = ufree - 1 /\ kfree' = kfree - take
          /\ new' = [new EXCEPT ![p] = [t EXCEPT !.map = @ \cup {t.next}, !.low = TRUE, !.next = @ + 1,
                       !.mapped = IF stage[p] = "stack" THEN Start(t.pages + 1) ELSE @]]
          /\ stage' = [stage EXCEPT ![p] = IF @ = "stack" THEN "argv" ELSE @]
          /\ UNCHANGED <<map, size, args, goal, next, panicked>>

\* A segment ends anywhere in its last page; mapped_sz is rounded up after the last.
SegmentDone(p) == /\ stage[p] = "load" /\ new[p].next = new[p].pages
                  /\ new' = [new EXCEPT ![p].mapped = Start(new[p].pages)]
                  /\ stage' = [stage EXCEPT ![p] = "stack"]
                  /\ UNCHANGED <<ufree, kfree, map, size, args, goal, next, panicked>>

\* bad: proc_freepagetable(pagetable, mapped_sz)
Bad(p) == /\ new' = [new EXCEPT ![p] = NoTable]
          /\ ufree' = ufree + Freed(new[p].map, new[p].mapped, 0)
          /\ Cleanup(p, Tables(new[p]))
          /\ UNCHANGED <<map, size, goal, next, panicked>>

ExecFails(p) == /\ \/ stage[p] = "load" /\ new[p].next < new[p].pages /\ ufree = 0
                   \/ stage[p] = "stack" /\ ufree = 0
                   \/ stage[p] = "argv"  \* the arguments do not fit on the stack
                /\ Bad(p)

Commit(p) ==
  /\ stage[p] = "argv"
  /\ map' = [map EXCEPT ![p] = new[p].map]
  /\ size' = [size EXCEPT ![p] = Start(new[p].pages + 1)]
  /\ ufree' = ufree + Freed(map[p], size[p], 0)
  /\ new' = [new EXCEPT ![p] = NoTable]
  /\ Cleanup(p, TopTables + LowTables)
  /\ UNCHANGED <<goal, next, panicked>>

MemNext ==
  /\ ~panicked
  /\ \E p \in Task :
       \/ \E q \in Task : Fork(p, q)
       \/ ExitTask(p) \/ FreeTask(p)
       \/ \E n \in Increments : Grow(p, n) \/ Shrink(p, -n)
       \/ GrowPage(p) \/ GrowFails(p) \/ GrowEnds(p)
       \/ SysExec(p) \/ FetchArg(p) \/ FetchFails(p)
       \/ \E pages \in ImagePages : StartExec(p, pages)
       \/ MapPage(p) \/ SegmentDone(p) \/ ExecFails(p) \/ Commit(p)

MemSpec == MemInit /\ [][MemNext]_memVars

-----------------------------------------------------------------------------
(* Properties *)

\* A process has the pages below its size and no other: sbrk maps none twice, and
\* the end of the process, which goes by the size, misses none.
SizeCovers == \A p \in Task : stage[p] \notin {"none", "grow"} =>
  map[p] = {v \in VPage : Start(v) < size[p]}

\* The pages that programs have, and those of the programs exec builds.
Mapped == {m \in Task \X VPage : m[2] \in map[m[1]]}
Built == {m \in Task \X VPage : m[2] \in new[m[1]].map}
Saved == {m \in Task \X (1..MaxArgs) : m[2] <= args[m[1]]}

\* Every kernel page that is not free is someone's.
KernelPagesAccounted ==
  kfree + Cardinality(Task \ Idle) * (TaskPages + TopTables + LowTables) + Cardinality(Saved)
        + Cardinality(Building) * TopTables
        + Cardinality({p \in Building : new[p].low}) * LowTables = KernelPages

\* The user pages that are neither free nor mapped.
Lost == UserPages - ufree - Cardinality(Mapped) - Cardinality(Built)

\* Everything is given back once by whoever fails or ends, except for what
\* exec_process mapped of a segment of more than one page when memory ran out.
MemorySafe ==
  /\ [](SizeCovers /\ KernelPagesAccounted /\ Lost >= 0)
  /\ [][Lost' # Lost => \E p \in Task : stage[p] = "load" /\ new[p].next > 0 /\ stage'[p] = "user"]_memVars
=============================================================================
