\* Every GRPC section with files that change at any time, and SEEDLink sections
\* with up to two selectors, also numbered with a gap.
CONSTANTS
  Words <- MCWords
  Size <- MCSize
  Upper <- MCUpper
  Inis <- MCInis
  None = None
SPECIFICATION Spec
INVARIANTS
  TypeOK
  ServerSettingsReachChannel
  EverySelectorAsked
  NeverTooNarrow
CHECK_DEADLOCK FALSE
