\* What the notes on credentials say of a server certificate, and of a client's
\* key and certificate that are both set.
CONSTANTS
  Words <- MCWords
  Size <- MCSize
  Upper <- MCUpper
  Inis <- MCInis
  None = None
SPECIFICATION Spec
INVARIANTS
  SomeCredentialNoteHolds
CHECK_DEADLOCK FALSE
