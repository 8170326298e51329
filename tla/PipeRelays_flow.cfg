\* One text per semaphore, stream and pipe; three processes in a chain.
SPECIFICATION Safe
CONSTANTS
  Procs = {1, 2}
  To <- Others
  Chain = {1, 2, 3}
  SemMax = 1
  Stream = 1
  PipeMax = 1
  Main = main
CONSTRAINT Flowing
INVARIANTS StuckOnlyWhenFull NothingWithoutDeath
PROPERTIES SilencedByTracker
CHECK_DEADLOCK FALSE
