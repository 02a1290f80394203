SPECIFICATION FairSpec
CONSTANTS
  Callers = {c1}
  Calls = 1
  CallQueues = {"send", "recv", "bc"}
  Limit = 0
  EventLimit = 50
  MaxMessages = 1
  GcCalls = 1
INVARIANTS NoLostWakeup LockOrder SendingRespected
PROPERTIES QueuesEmptied CalmShutdown
CHECK_DEADLOCK FALSE
