\* Two processes; semaphores that can be at their limit, streams of one text.
SPECIFICATION Spec
CONSTANTS
  Procs = {1, 2}
  To <- Others
  SemMax = 2
  Stream = 1
  Main = main
CONSTRAINT Quiet
INVARIANTS RelayOK
PROPERTIES IsRelayFlow InterruptEnds GoesOn PeerDeathEnds StartsOrStops
CHECK_DEADLOCK FALSE
