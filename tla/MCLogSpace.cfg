\* Three processes compete for a log of two blocks: admission, sleeping and
\* waking in begin_op.  The contents of the blocks do not matter.
SPECIFICATION FairSpec
CONSTANTS
  Proc = {p1, p2, p3}
  Block = {b1, b2, b3}
  Data = {d0}
  Data0 = d0
  LogSize = 3
  MaxOp = 1
  NBuf = 4
  MaxPin = 2
  MaxCrash = 1
INVARIANTS CommitAlone SleepersHaveWaker RoomReserved
PROPERTIES SomeoneAdmitted
CHECK_DEADLOCK FALSE
