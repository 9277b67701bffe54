\* Four callers and eight descriptors: two requests fit, and the two callers that
\* wait share the two descriptors that are left.  A log ring of four
\* bytes.  Two processes and three activations on a stack.  Three processes in
\* six user pages, the kernel's not enough for all.  Two users of two inodes.
SPECIFICATION Machine
CONSTANTS
  Caller = {c1, c2, c3, c4}
  NoCaller = NoCaller
  Reader = {c2, c3, c4}
  NDesc = 8
  Logger = {l1, l2}
  RingSize = 4
  MaxRecord = 3
  Levels = {0, 1}
  MaxBytes = 10
  Runner = {r1, r2}
  Nobody = Nobody
  Scheduler = Scheduler
  MinSlice = 2
  MaxDepth = 3
  MaxLocks = 2
  Task = {t1, t2, t3}
  UserPages = 6
  KernelPages = 20
  MaxPage = 3
  ImagePages = {1, 2}
  Increments <- ByHalves
  MaxArgs = 1
  User = {u1, u2}
  NoHolder = NoHolder
  NoName = NoName
  File = {a, b}
  INodes = 2
  Fds = 1
INVARIANTS TypesOK RequestsAccounted KlogConsistent TrapSafe
PROPERTIES TransferInTime RequestEnds MemorySafe FilesSafe
\* Some components stop: the log ring at its bound, memory and inodes in a panic.
CHECK_DEADLOCK FALSE
