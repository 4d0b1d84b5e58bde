\* The counters and windows of two streams over two packets, when the telemetry
\* may fall silent.
CONSTANTS
  Streams = {s1, s2}
  NoStream = NoStream
  MaxPackets = 2
SPECIFICATION FairSpec
INVARIANTS
  TypeOK
  TotalsAddUp
  ReportAddsUp
  OneWindowEach
PROPERTIES
  EveryWindowAveraged
CHECK_DEADLOCK FALSE
