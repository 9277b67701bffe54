\* Two processes call msgget with the same key at the same time.
SPECIFICATION Spec
CONSTANTS
  Proc = {p1, p2}
  NQueue = 2
  Depth = 1
  MaxSize = 1
  Key = {k0}
  Zero = k0
  Body = {m1}
  Nothing = Nothing
  Killable = {}
INVARIANTS OneQueuePerKey
CHECK_DEADLOCK FALSE
