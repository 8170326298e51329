\* Two relaying processes; main may be interrupted while it forks.
CONSTANTS
  NB_PROCESS = 2
  MaxWrites = 2
  Main = Main
  Observer = Observer
SPECIFICATION FairSpec
CHECK_DEADLOCK FALSE
PROPERTIES HandlerExits
