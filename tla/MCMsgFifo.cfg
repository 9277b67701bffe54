\* Messages told apart by their length through one ring of two slots: order,
\* truncation, blocking on full and on empty.  Three callers of msgget, two
\* keys, two queues.
SPECIFICATION Fifo
CONSTANTS
  Proc = {p1, p2, p3}
  NQueue = 2
  Depth = 2
  MaxSize = 2
  Key = {k0, k1}
  Zero = k0
  Body = {m1}
  Nothing = Nothing
  Killable = {p1}
SYMMETRY Symmetric
INVARIANTS TypeOK SleepersBlocked RingOK HandedStable
PROPERTIES ImplementsService
\* Every process may be blocked in msgrecv for good: nobody has to send.
CHECK_DEADLOCK FALSE
