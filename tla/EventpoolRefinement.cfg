SPECIFICATION FairSpec
CONSTANTS
  Reasons = {r1}
  Listeners = {l1, l2}
  Events = {e1, e2}
  Workers = {w1, w2}
  QueueLimit = 1
  InitModes = {"threaded"}
  GcCalls = 0
  NoTask = NoTask
PROPERTIES ImplementsEventBus EventuallyDone
CHECK_DEADLOCK FALSE
