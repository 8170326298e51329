\* Three processes that listen, at most three connections, no tracker.
CONSTANTS
  NB_PROCESS = 3
  Backlog = 5
  Unbindable = {}
  Tracked = {}
SPECIFICATION ListeningSpec
INVARIANTS RaceOnlyAtStarter LogTells
PROPERTIES IsHopTrace
CONSTRAINTS FewConnections ZeroFirst
CHECK_DEADLOCK FALSE
