SPECIFICATION FairSpec
CONSTANTS
  w1 = w1
  w2 = w2
  Writers = {w1, w2}
  Lines = 4
  Limit = 2
  GcCalls = 1
INVARIANTS LinesInOrder FlushedAtEnd
PROPERTIES LinesWritten CalmGc
CHECK_DEADLOCK FALSE
