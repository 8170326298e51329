\* Two processes that listen; the tracker of the first one runs.
CONSTANTS
  NB_PROCESS = 2
  Backlog = 5
  Unbindable = {}
  Tracked = {0}
SPECIFICATION ListeningFairSpec
PROPERTIES FirstTextIsTracked RelayEnds
CHECK_DEADLOCK FALSE
