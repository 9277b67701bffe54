\* Operations of one block that may write it twice, two of which may share a
\* transaction; more blocks than buffers, so that pins left behind end in a
\* panic; the machine stops twice, so a recovery may be cut short as well.
SPECIFICATION Spec
CONSTANTS
  Proc = {p1, p2}
  Block = {b1, b2, b3, b4}
  Data = {d0, d1}
  Data0 = d0
  LogSize = 3
  MaxOp = 1
  NBuf = 3
  MaxPin = 2
  MaxCrash = 2
SYMMETRY Symmetric
INVARIANTS TypeOK DirtyPinned
PROPERTIES ImplementsTxDisk WriteAhead
\* After a panic and the last crash nothing more happens.
CHECK_DEADLOCK FALSE
