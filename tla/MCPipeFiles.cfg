\* A parent and its child, three open files: the ends of a pipe are shared,
\* duplicated, inherited and closed while their slots are used again.
SPECIFICATION Spec
CONSTANTS
  NProc = 2
  NFile = 3
  NFd = 2
  NPage = 1
  Size = 1
  Wrap = 2
  Chunk <- Byte
  MaxRead = 1
  Mode <- Modes
  Killable = {}
INVARIANTS TypeOK FilesAccounted
PROPERTIES EndIsTrue
\* The kernel stops after a panic.
CHECK_DEADLOCK FALSE
