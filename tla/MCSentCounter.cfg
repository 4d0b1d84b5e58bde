\* The counter of the packets sent.
CONSTANTS
  Streams = {s1, s2}
  NoStream = NoStream
  MaxPackets = 3
SPECIFICATION Spec
SYMMETRY Symmetry
INVARIANTS
  SentMeansSent
CHECK_DEADLOCK FALSE
