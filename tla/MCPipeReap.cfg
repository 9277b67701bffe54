\* A parent, its child and one pipe between them.
SPECIFICATION Spec
CONSTANTS
  NProc = 2
  NFile = 2
  NFd = 2
  NPage = 1
  Size = 1
  Wrap = 2
  Chunk = {}
  MaxRead = 1
  Mode = {}
  Killable = {}
INVARIANTS NoPanic
CHECK_DEADLOCK FALSE
