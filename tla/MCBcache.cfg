\* Three processes use three blocks through a cache of two buffers.
SPECIFICATION Spec
CONSTANTS
  Proc = {p1, p2, p3}
  NBuf = 2
  Block = {1, 2, 3}
  Data = {d1, d2}
  MaxLogged = 1
  MaxPins = 2
  NoProc = NoProc
INVARIANTS TypeOK CacheCoherent SleepersBlocked
PROPERTIES ImplementsBlockStore
SYMMETRY Symmetry
\* The kernel stops after a panic.
CHECK_DEADLOCK FALSE
