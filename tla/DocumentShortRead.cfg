SPECIFICATION Spec
CONSTANTS
  Lengths <- MCLengths
  BUFFER_SIZE = 3
  MaxDocuments = 1
  ShortReads = TRUE
INVARIANTS
  IvIsFirstEightBytes
CHECK_DEADLOCK FALSE
