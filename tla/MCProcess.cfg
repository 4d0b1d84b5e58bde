\* The whole process with one packet: signals, failures, joins, a stalled proxy.
CONSTANTS
  RetryCount = 1
  Window = 1
  ImportCapacity = 1
  ExportCapacity = 1
  MaxBatch = 1
  MaxPackets = 1
  ExportMetrics = TRUE
SPECIFICATION FairProcSpec
INVARIANTS
  ProcTypeOK
  NoWaitOnFetchedFuture
  StopsForAReason
  ReturnsAfterAllThreads
PROPERTIES
  SignalEndsProcess
  FailureEndsProcess
  ThreadsEnd
  RunsPipeline
  ShutdownRunsDown
CHECK_DEADLOCK FALSE
