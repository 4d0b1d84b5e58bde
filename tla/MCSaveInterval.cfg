\* The interval of the saves.
CONSTANTS
  Interval = 2
  MaxSelectors = 1
  MaxSequence = 6
SPECIFICATION Spec
INVARIANTS
  SavedEveryInterval
CHECK_DEADLOCK FALSE
