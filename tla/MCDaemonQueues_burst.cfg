SPECIFICATION Spec
CONSTANTS
  Callers = {c1}
  Calls = 3
  CallQueues = {"bc"}
  Limit = 4
  EventLimit = 3
  MaxMessages = 1
  GcCalls = 0
INVARIANT AssertionHolds
CHECK_DEADLOCK FALSE
