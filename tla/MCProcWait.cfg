\* Three slots and one creation: every exit reaches a parent that waits, and
\* kill reaches a process that computes; who sleeps on the channel may sleep for ever.
SPECIFICATION FairSpec
CONSTANTS
  NSlot = 3
  Chan = {disk}
  Status = {0}
  MaxPid = 3
  MaxKill = 1
PROPERTIES WaitReturns KillReachesUser
CHECK_DEADLOCK FALSE
