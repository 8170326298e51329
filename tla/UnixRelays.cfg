\* Two processes; one connection waits for accept.
SPECIFICATION Spec
CONSTANTS
  Backlog = 1
  Main = main
CONSTRAINT OneInterrupt
INVARIANTS OneTextOnly
PROPERTIES GoesRound StopWaitsForPeer InterruptEnds OneHopAtMost RepeatsOrHangs
CHECK_DEADLOCK FALSE
