\* Two processes, two levels with the kernel's slices of 2 and 4 ticks, the
\* ticks of both harts; with one tick less between two boosts a process starves.
SPECIFICATION FairSpec
CONSTANTS
  N = 2
  NCPU = 2
  Levels = 2
  PrioMax = 2
  Quantum <- QuantumDoubles
  AgeAt = 2
  BoostEvery = 5
  Churn = TRUE
  Prios = {0, 2}
  MaxSet = 1
INVARIANTS TypeOK SliceBounded
PROPERTIES NoStarvation
CHECK_DEADLOCK FALSE
