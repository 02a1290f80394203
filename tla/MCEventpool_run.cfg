SPECIFICATION Spec
CONSTANTS
  Reasons = {r1, r2}
  Listeners = {l1, l2}
  Events = {e1, e2, e3}
  Workers = {w1, w2}
  QueueLimit = 1
  InitModes = {"threaded", "no_threads"}
  GcCalls = 1
  NoTask = NoTask
SYMMETRY Symmetry
INVARIANTS DeliveryInv CountMatchesList Delivery TasksAlive NoStrandedEvent DeliveryOrder
CHECK_DEADLOCK FALSE
