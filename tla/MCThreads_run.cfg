CONSTANTS
  n1 = n1
  n2 = n2
  n3 = n3
  main = main
  adhoc = adhoc
  Nodes <- MCNodes
  Ids <- MCIds
  id <- MCid
  Callers <- MCCallers
  Main = main
  Polling <- MCPolling
  Broadcaster = n3
  Reloads = 1
SPECIFICATION FairSpec
INVARIANTS ThreadsTracked CalmGcJoinsAll
PROPERTIES EveryThreadStarts CalmGcEnds
CHECK_DEADLOCK FALSE
