CONSTANTS
  Messages = 3
  Limit = 2
  Connects = 2
  BUFFER_SIZE = 3
  Room = 5
  Length <- MCLength
  Writers <- MCWriters
  Readers <- MCReaders
SPECIFICATION FairSpec
INVARIANTS MessagesInOrder CalmGcSafe
PROPERTIES MessagesHandled CalmGcEnds
CHECK_DEADLOCK FALSE
