\* Four slots and five pids: creation, exit and wait in every order, with slots
\* taken again before and after their children end; three slots and four pids
\* with sleeping on a channel and two kills as well.
SPECIFICATION Life
CONSTANTS
  NSlot = 4
  Chan = {disk}
  Status = {0}
  MaxPid = 5
  MaxKill = 2
INVARIANTS TypeOK OnlyCurrentRuns ExitNotMissed
PROPERTIES ZombieReaped WaitAnswers
CHECK_DEADLOCK FALSE
