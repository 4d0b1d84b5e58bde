\* The state file over kills, restarts and reconnects.
CONSTANTS
  Interval = 2
  MaxSelectors = 1
  MaxSequence = 6
SPECIFICATION Spec
INVARIANTS
  TypeOK
  SavedMeansHandled
  NothingSkipped
  BoundedReplay
PROPERTY
  IsResumableReader
CHECK_DEADLOCK FALSE
