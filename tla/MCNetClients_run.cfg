SPECIFICATION FairSpec
CONSTANTS
  ReqLen = 2
  CmdLen = 2
  HttpAnswers <- MCAnswers
  Kinds = {"http", "mail"}
  MaxCuts = 2
  MaxRetries = 1
INVARIANTS MemorySafe AnsweredOnce MailTaken WholeContent WantedWatched
PROPERTIES RequestsEnd
CHECK_DEADLOCK FALSE
