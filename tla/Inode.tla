-------------------------------- MODULE Inode --------------------------------
(***************************************************************************)
(* Inodes, names and descriptors: kernel/fs/fs.c, fs/dir.c and the calls   *)
(* of syscall/sysfile.c and fs/file.c that reach them.                     *)
(*                                                                         *)
(* There is one directory, the root, with plain files in it.  The cache    *)
(* has room for every inode, so a slot is named after its inode.  What is  *)
(* written through with iupdate is kept once.  begin_op admits at once.    *)
(*                                                                         *)
(* A call is cut where it waits for a sleep lock while others can see what *)
(* it did, and in iput where icache.lock is given up and taken again.      *)
(* What is done under the lock of the root directory is one step, unless   *)
(* an inode is locked meanwhile.                                           *)
(*                                                                         *)
(* Three paths of sysfile.c lead out of what the others rely on, and one   *)
(* leads to the panic of ialloc.  The model stops there, and trouble says  *)
(* where.                                                                  *)
(***************************************************************************)
EXTENDS Integers, FiniteSets

CONSTANTS User,   \* the processes
          NoHolder, \* a lock that is not held
          File,   \* the names
          NoName, \* outside a call
          INodes, \* sb.ninodes - 1: inode 0 is no inode
          Fds     \* NOFILE

ASSUME InodeAssumption == /\ INodes \in Nat /\ Fds \in Nat
                          /\ IsFiniteSet(User) /\ IsFiniteSet(File)
                          /\ NoHolder \notin User /\ NoName \notin File

VARIABLES names,            \* the entries of the root directory
          itype,            \* dinode.type is not ITYPE_EMPTY
          nlink,            \* the links of the inode
          iref, ivalid,     \* the slot: ip->ref, ip->valid
          ilocked,          \* who holds ip->lock
          rootLocked,       \* who holds the lock of the root directory
          fds,              \* the inode each descriptor leads to
          at, ip, want,     \* where a call is, its inode, the name it is for
          inOp,             \* between begin_op and end_op
          trouble

fileVars == <<names, itype, nlink>>
slotVars == <<iref, ivalid, ilocked, rootLocked>>
callVars == <<fds, at, ip, want, inOp>>
inodeVars == <<fileVars, slotVars, callVars, trouble>>

INum == 1..INodes
NoInode == 0
Fd == 1..Fds

InodeTypeOK ==
  /\ names \in [File -> INum \cup {NoInode}]
  /\ itype \in [INum -> BOOLEAN] /\ ivalid \in [INum -> BOOLEAN]
  /\ nlink \in [INum -> 0..(Cardinality(File) + Cardinality(User))]
  /\ iref \in [INum -> 0..((Fds + 1) * Cardinality(User))]
  /\ ilocked \in [INum -> User \cup {NoHolder}] /\ rootLocked \in User \cup {NoHolder}
  /\ fds \in [User -> [Fd -> INum \cup {NoInode}]]
  /\ at \in [User -> {"out", "opening", "opened", "creating", "unlinking", "unlinked", "linking",
                      "linked", "undoing", "iput", "freeing", "trunc", "freed", "unref"}]
  /\ ip \in [User -> INum \cup {NoInode}]
  /\ inOp \in [User -> BOOLEAN] /\ want \in [User -> File \cup {NoName}]
  /\ trouble \in {"no", "open", "close", "link", "ialloc", "no type", "nlink"}

InodeInit ==
  /\ names = [n \in File |-> NoInode]
  /\ itype = [i \in INum |-> FALSE] /\ nlink = [i \in INum |-> 0]
  /\ iref = [i \in INum |-> 0] /\ ivalid = [i \in INum |-> FALSE]
  /\ ilocked = [i \in INum |-> NoHolder] /\ rootLocked = NoHolder
  /\ fds = [p \in User |-> [f \in Fd |-> NoInode]]
  /\ at = [p \in User |-> "out"] /\ ip = [p \in User |-> NoInode]
  /\ want = [p \in User |-> NoName]
  /\ inOp = [p \in User |-> FALSE]
  /\ trouble = "no"

-----------------------------------------------------------------------------
(* fs.c *)

Step(p, from, to) == at[p] = from /\ at' = [at EXCEPT ![p] = to]

\* iget: a slot that was free is read again by ilock.
Iget(p, i) == /\ iref' = [iref EXCEPT ![i] = @ + 1]
              /\ ivalid' = [ivalid EXCEPT ![i] = @ /\ iref[i] > 0]
              /\ ip' = [ip EXCEPT ![p] = i]

\* ilock can go on, to read the inode and find that it is one.
Unlocked(p) == ilocked[ip[p]] = NoHolder
NoType(p) == ~ivalid[ip[p]] /\ ~itype[ip[p]]

Panics(why) == trouble' = why /\ UNCHANGED <<fileVars, slotVars, callVars>>

\* Mutant: the test does not ask for other references.
LastOfUnlinkedAny(i) == ivalid[i] /\ nlink[i] = 0

LastOfUnlinked(i) == iref[i] = 1 /\ ivalid[i] /\ nlink[i] = 0

LeaveCall(p) == /\ iref' = [iref EXCEPT ![ip[p]] = @ - 1]
                /\ ip' = [ip EXCEPT ![p] = NoInode]
                /\ want' = [want EXCEPT ![p] = NoName]
                /\ inOp' = [inOp EXCEPT ![p] = FALSE]

\* iput, under icache.lock: the last reference to an inode without links frees it.
IputLast(p) == /\ Step(p, "iput", "freeing")
               /\ LastOfUnlinked(ip[p])
               /\ UNCHANGED <<fileVars, slotVars, fds, ip, want, inOp, trouble>>

Iput(p) == /\ Step(p, "iput", "out")
           /\ ~LastOfUnlinked(ip[p])
           /\ LeaveCall(p)
           /\ UNCHANGED <<fileVars, ivalid, ilocked, rootLocked, fds, trouble>>

FreeLock(p) == /\ Step(p, "freeing", "trunc")
               /\ Unlocked(p)
               /\ ilocked' = [ilocked EXCEPT ![ip[p]] = p]
               /\ UNCHANGED <<fileVars, iref, ivalid, rootLocked, fds, ip, want, inOp, trouble>>

\* itrunc and iupdate: log_write panics when nobody is in an operation.
FreeInode(p) ==
  /\ at[p] = "trunc"
  /\ IF \A q \in User : ~inOp[q] THEN Panics("close")
     ELSE /\ Step(p, "trunc", "freed")
          /\ itype' = [itype EXCEPT ![ip[p]] = FALSE]
          /\ UNCHANGED <<names, nlink, slotVars, fds, ip, want, inOp, trouble>>

FreeUnlock(p) == /\ Step(p, "freed", "unref")
                 /\ ivalid' = [ivalid EXCEPT ![ip[p]] = FALSE]
                 /\ ilocked' = [ilocked EXCEPT ![ip[p]] = NoHolder]
                 /\ UNCHANGED <<fileVars, iref, rootLocked, fds, ip, want, inOp, trouble>>

FreeUnref(p) == /\ Step(p, "unref", "out")
                /\ LeaveCall(p)
                /\ UNCHANGED <<fileVars, ivalid, ilocked, rootLocked, fds, trouble>>

-----------------------------------------------------------------------------
(* The calls.  namex takes the lock of the root directory and gives it back *)

Finds(p, n, to) == /\ rootLocked = NoHolder /\ names[n] # NoInode
                   /\ Step(p, "out", to)
                   /\ Iget(p, names[n])
                   /\ inOp' = [inOp EXCEPT ![p] = TRUE]
                   /\ UNCHANGED <<fileVars, ilocked, fds, trouble>>

\* sys_open, with O_CREATE or without: the name is there.
Open(p, n) == Finds(p, n, "opening") /\ UNCHANGED <<rootLocked, want>>

\* inode_create: the name is not there, ialloc finds the first empty inode.
Create(p, n) ==
  /\ rootLocked = NoHolder /\ names[n] = NoInode
  /\ Step(p, "out", "creating")
  /\ rootLocked' = p
  /\ \E i \in INum : /\ ~itype[i] /\ \A j \in 1..(i - 1) : itype[j]
                     /\ itype' = [itype EXCEPT ![i] = TRUE] /\ nlink' = [nlink EXCEPT ![i] = 0]
                     /\ Iget(p, i)
  /\ want' = [want EXCEPT ![p] = n] /\ inOp' = [inOp EXCEPT ![p] = TRUE]
  /\ UNCHANGED <<names, ilocked, fds, trouble>>

\* ialloc finds none.
NoInodes(p, n) == /\ at[p] = "out" /\ rootLocked = NoHolder /\ names[n] = NoInode
                  /\ \A i \in INum : itype[i]
                  /\ Panics("ialloc")

Reads(p) == ivalid' = [ivalid EXCEPT ![ip[p]] = TRUE]

CreateLock(p) ==
  /\ Step(p, "creating", "opened")
  /\ Unlocked(p)
  /\ Reads(p) /\ ilocked' = [ilocked EXCEPT ![ip[p]] = p]
  /\ nlink' = [nlink EXCEPT ![ip[p]] = 1]
  /\ names' = [names EXCEPT ![want[p]] = ip[p]]
  /\ rootLocked' = NoHolder
  /\ UNCHANGED <<itype, iref, fds, ip, want, inOp, trouble>>

OpenLock(p) ==
  /\ at[p] = "opening" /\ Unlocked(p)
  /\ IF NoType(p) THEN Panics("no type")
     ELSE /\ Step(p, "opening", "opened")
          /\ Reads(p) /\ ilocked' = [ilocked EXCEPT ![ip[p]] = p]
          /\ UNCHANGED <<fileVars, iref, rootLocked, fds, ip, want, inOp, trouble>>

\* filealloc and fdalloc: a descriptor takes over the reference.
Opened(p, f) ==
  /\ fds[p][f] = NoInode /\ \A g \in 1..(f - 1) : fds[p][g] # NoInode
  /\ Step(p, "opened", "out")
  /\ fds' = [fds EXCEPT ![p][f] = ip[p]] /\ ip' = [ip EXCEPT ![p] = NoInode]
  /\ ilocked' = [ilocked EXCEPT ![ip[p]] = NoHolder]
  /\ want' = [want EXCEPT ![p] = NoName] /\ inOp' = [inOp EXCEPT ![p] = FALSE]
  /\ UNCHANGED <<fileVars, iref, ivalid, rootLocked, trouble>>

\* No file; also sys_mknod, whose file is not opened.
OpenedNoFile(p) == /\ Step(p, "opened", "iput")
                   /\ ilocked' = [ilocked EXCEPT ![ip[p]] = NoHolder]
                   /\ UNCHANGED <<fileVars, iref, ivalid, rootLocked, fds, ip, want, inOp, trouble>>

\* No descriptor: fileclose puts the inode, iunlockput unlocks and puts it again.
OpenedNoFd(p) == /\ at[p] = "opened" /\ \A f \in Fd : fds[p][f] # NoInode
                 /\ Panics("open")

Unlink(p, n) == /\ Finds(p, n, "unlinking")
                /\ rootLocked' = p
                /\ want' = [want EXCEPT ![p] = n]

\* The name goes, and the directory is given back, while the inode is locked.
UnlinkLock(p) ==
  /\ at[p] = "unlinking" /\ Unlocked(p)
  /\ IF NoType(p) THEN Panics("no type")
     ELSE IF nlink[ip[p]] < 1 THEN Panics("nlink")
     ELSE /\ Step(p, "unlinking", "unlinked")
          /\ Reads(p) /\ ilocked' = [ilocked EXCEPT ![ip[p]] = p]
          /\ names' = [names EXCEPT ![want[p]] = NoInode]
          /\ rootLocked' = NoHolder
          /\ UNCHANGED <<itype, nlink, iref, fds, ip, want, inOp, trouble>>

\* Then the link.
UnlinkCount(p) == /\ Step(p, "unlinked", "iput")
                  /\ nlink' = [nlink EXCEPT ![ip[p]] = @ - 1]
                  /\ ilocked' = [ilocked EXCEPT ![ip[p]] = NoHolder]
                  /\ UNCHANGED <<names, itype, iref, ivalid, rootLocked, fds, ip, want, inOp, trouble>>

\* sys_link counts the link first.
Link(p, old, n) == /\ Finds(p, old, "linking")
                   /\ want' = [want EXCEPT ![p] = n]
                   /\ UNCHANGED rootLocked

LinkLock(p) ==
  /\ at[p] = "linking" /\ Unlocked(p)
  /\ IF NoType(p) THEN Panics("no type")
     ELSE /\ Step(p, "linking", "linked")
          /\ Reads(p)
          /\ nlink' = [nlink EXCEPT ![ip[p]] = @ + 1]
          /\ UNCHANGED <<names, itype, iref, ilocked, rootLocked, fds, ip, want, inOp, trouble>>

LinkName(p) == /\ rootLocked = NoHolder
               /\ Step(p, "linked", IF names[want[p]] = NoInode THEN "iput" ELSE "undoing")
               /\ names' = [names EXCEPT ![want[p]] = IF @ = NoInode THEN ip[p] ELSE @]
               /\ UNCHANGED <<itype, nlink, slotVars, fds, ip, want, inOp, trouble>>

\* The name exists: the inode is locked to take the link back, and put while it is
\* locked; nobody unlocks it any more.
LinkUndo(p) == at[p] = "undoing" /\ Unlocked(p) /\ Panics("link")

\* sys_close, and free_process for each descriptor: outside any operation.
Close(p, f) == /\ fds[p][f] # NoInode
               /\ Step(p, "out", "iput")
               /\ ip' = [ip EXCEPT ![p] = fds[p][f]]
               /\ fds' = [fds EXCEPT ![p][f] = NoInode]
               /\ UNCHANGED <<fileVars, slotVars, want, inOp, trouble>>

InodeNext ==
  /\ trouble = "no"
  /\ \E p \in User :
       \/ \E n \in File : \/ Open(p, n) \/ Create(p, n) \/ NoInodes(p, n) \/ Unlink(p, n)
                          \/ \E old \in File : Link(p, old, n)
       \/ CreateLock(p) \/ OpenLock(p) \/ OpenedNoFile(p) \/ OpenedNoFd(p)
       \/ UnlinkLock(p) \/ UnlinkCount(p) \/ LinkLock(p) \/ LinkName(p) \/ LinkUndo(p)
       \/ \E f \in Fd : Opened(p, f) \/ Close(p, f)
       \/ IputLast(p) \/ Iput(p) \/ FreeLock(p) \/ FreeInode(p) \/ FreeUnlock(p) \/ FreeUnref(p)

InodeSpec == InodeInit /\ [][InodeNext]_inodeVars

-----------------------------------------------------------------------------
(* Properties *)

FdsOf(i) == {d \in User \X Fd : fds[d[1]][d[2]] = i}
CallsOn(i) == {p \in User : ip[p] = i}
NamesOf(i) == {n \in File : names[n] = i}

\* ip->ref counts the descriptors and the calls that hold the inode.
IrefsAddUp == \A i \in INum : iref[i] = Cardinality(FdsOf(i)) + Cardinality(CallsOn(i))

\* What a name or a descriptor leads to is an inode with a type: the window in iput
\* between its test and its work lets nobody in.
NeverFreedInUse == \A i \in INum :
  ~itype[i] => /\ NamesOf(i) = {} /\ FdsOf(i) = {}
               /\ \A p \in CallsOn(i) : at[p] \in {"freed", "unref"}

\* Where a call stands that has counted a link and not made its name, or removed a
\* name and not counted it.
Ahead == {"linked", "undoing", "unlinked"}

\* nlink counts the names, the links that sys_link is about to make, and the names
\* that sys_unlink has just removed.
LinksAddUp == \A i \in INum : itype[i] =>
  nlink[i] = Cardinality(NamesOf(i)) + Cardinality({p \in CallsOn(i) : at[p] \in Ahead})

\* A lock is held by someone who is about to give it back.
LocksInUse ==
  /\ \A i \in INum : ilocked[i] # NoHolder =>
       ip[ilocked[i]] = i /\ at[ilocked[i]] \in {"opened", "unlinked", "trunc", "freed"}
  /\ rootLocked # NoHolder => at[rootLocked] \in {"creating", "unlinking"}

\* The last reference to a file without a name goes when the file is freed: iput
\* tests it under icache.lock.  The one exception is a call that has just freed the
\* inode: if a file was made of it and unlinked before the call drops its reference,
\* it drops the last one untested, and the new file stays on the disk for good.
FreedByTheLast == \A i \in INum :
  itype[i] /\ nlink[i] = 0 /\ iref[i] > 0 /\ iref'[i] = 0 => \E p \in CallsOn(i) : at[p] = "unref"

\* Until one of the bad paths is taken, references, links, types and locks
\* agree, and no call finds an inode without a type or a link.
FilesSafe == /\ [](/\ IrefsAddUp /\ NeverFreedInUse /\ LinksAddUp /\ LocksInUse
                  /\ trouble \notin {"no type", "nlink"})
             /\ [][FreedByTheLast]_inodeVars
=============================================================================
