\* Two processes, the bind of the first may fail, a full queue at once.
CONSTANTS
  NB_PROCESS = 2
  Backlog = 0
  Unbindable = {0}
  Tracked = {0, 1}
SPECIFICATION Spec
INVARIANTS TypeOK Exclusion
PROPERTIES AtMostOneText
CHECK_DEADLOCK FALSE
