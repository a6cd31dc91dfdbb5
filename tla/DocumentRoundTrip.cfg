SPECIFICATION FairSpec
CONSTANTS
  Lengths <- MCLengths
  BUFFER_SIZE = 3
  MaxDocuments = 2
  ShortReads = FALSE
INVARIANTS
  TypeOK
  PlaintextPrefix
  RoundTrip
  KeystreamOnce
PROPERTIES
  ImplementsTransfer
  DecryptEnds
\* The application stops after MaxDocuments documents.
CHECK_DEADLOCK FALSE
