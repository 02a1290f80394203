SPECIFICATION FairSpec
CONSTANTS
  w1 = w1
  Workers = {w1}
  NRLUASTATES = 2
  Threads <- MCThreads
  Params <- MCMixed
  MaxActions = 2
  UsecPerSec = 2
  MaxTime = 2
  GcCalls = 1
INVARIANTS StatesServed SharedTableSafe StagesInOrder NothingLeaked
PROPERTIES ActionsDone CalmGcEnds
CHECK_DEADLOCK FALSE
