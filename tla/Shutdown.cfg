\* Two relaying processes and two texts.
CONSTANTS
  NB_PROCESS = 2
  MaxWrites = 2
  Main = Main
  Observer = Observer
SPECIFICATION FairSpec
INVARIANTS NobodyLeft LogComplete
PROPERTIES EndsEverywhere
CHECK_DEADLOCK FALSE
