\* Payloads of up to three records, cut anywhere; eight bits for both widths.
CONSTANTS
  Records <- MCRecords
  MaxRecords = 3
  MINRECLEN = 1
  SizeBits = 8
  IntBits = 8
SPECIFICATION Spec
INVARIANTS
  TypeOK
  OffsetInBuffer
  PayloadAllOrNothing
  EveryPacketTabulates
  SumsExactInRange
PROPERTIES
  PayloadEnds
  PayloadRunsDown
CHECK_DEADLOCK FALSE
