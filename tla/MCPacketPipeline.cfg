\* The forwarding path: three packets in payloads of one or two, queues of two and
\* one, a schedule of one retry (every attempt on a broken stream costs a packet),
\* a flow-control window of one packet.
CONSTANTS
  RetryCount = 1
  Window = 1
  ImportCapacity = 2
  ExportCapacity = 1
  MaxBatch = 2
  MaxPackets = 3
SPECIFICATION FairSpec
INVARIANTS
  TypeOK
  NewestIsAdmitted
  Conserved
  EvictsOnlyUnderPressure
  Ordered
  FinishNeverHangs
  GivesUpOnlyWhenSpent
PROPERTIES
  IsLossyFifo
  ShutdownAdvances
  EveryPacketDecided
CHECK_DEADLOCK FALSE
