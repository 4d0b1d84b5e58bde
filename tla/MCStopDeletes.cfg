\* The state file after an ordinary stop.
CONSTANTS
  Interval = 2
  MaxSelectors = 1
  MaxSequence = 6
SPECIFICATION Spec
PROPERTIES
  StopDeletesStateFile
CHECK_DEADLOCK FALSE
