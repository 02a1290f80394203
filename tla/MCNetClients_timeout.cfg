SPECIFICATION Spec
CONSTANTS
  ReqLen = 2
  CmdLen = 2
  HttpAnswers <- MCAnswers
  Kinds = {"http"}
  MaxCuts = 2
  MaxRetries = 0
INVARIANTS CallbackObjectAlive
CHECK_DEADLOCK FALSE
