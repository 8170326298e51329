\* Two processes whose servers have yet to listen; every bind succeeds.
CONSTANTS
  NB_PROCESS = 2
  Backlog = 5
  Unbindable = {}
  Tracked = {}
SPECIFICATION FairSpec
PROPERTIES RetriesConnection
CHECK_DEADLOCK FALSE
