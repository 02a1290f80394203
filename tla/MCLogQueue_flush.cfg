SPECIFICATION FairSpec
CONSTANTS
  w1 = w1
  Writers = {w1}
  Lines = 2
  Limit = 2
  GcCalls = 1
PROPERTIES FlushedByThread
CHECK_DEADLOCK FALSE
