\* One pipe, a ring of two bytes whose counters wrap at four: writes of two
\* bytes and reads of one and two meet full and empty rings, and a kill.
SPECIFICATION Spec
CONSTANTS
  NProc = 2
  NFile = 2
  NFd = 2
  NPage = 1
  Size = 2
  Wrap = 4
  Chunk <- Bytes
  MaxRead = 2
  Mode = {}
  Killable = {2}
INVARIANTS SleepersBlocked
PROPERTIES StreamKept
\* The kernel stops after a panic.
CHECK_DEADLOCK FALSE
