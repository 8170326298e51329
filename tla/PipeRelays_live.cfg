\* One text per semaphore, stream and pipe; two processes in the chain.
SPECIFICATION Live
CONSTANTS
  Procs = {1, 2}
  To <- Others
  Chain = {1, 2}
  SemMax = 1
  Stream = 1
  PipeMax = 1
  Main = main
CONSTRAINT Quieter
PROPERTIES NoObserverStops InterruptEnds EndIsRelayed TubeOpens
CHECK_DEADLOCK FALSE
