\* Two threads that throw: the second exception leaves the destructor.
CONSTANTS
  RetryCount = 1
  Window = 1
  ImportCapacity = 1
  ExportCapacity = 1
  MaxBatch = 1
  MaxPackets = 1
  ExportMetrics = TRUE
SPECIFICATION ProcSpec
INVARIANTS
  NeverTerminates
CHECK_DEADLOCK FALSE
