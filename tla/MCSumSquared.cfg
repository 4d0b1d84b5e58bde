\* The sums of samples whose squares pass the width of int.
CONSTANTS
  Records <- MCRecords
  MaxRecords = 1
  MINRECLEN = 1
  SizeBits = 8
  IntBits = 8
SPECIFICATION Spec
INVARIANTS
  SumSquaredExact
CHECK_DEADLOCK FALSE
