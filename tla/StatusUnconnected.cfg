SPECIFICATION Spec
CONSTANTS
  Ops = {"getConnectionStatus"}
  MaxCalls = 3
  MaxConnects = 2
  IvHalf <- MCIvHalf
  ReplySizes <- MCReplySizes
  Faults = {}
INVARIANTS
  StatusThrowsIOException
