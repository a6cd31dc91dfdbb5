SPECIFICATION FairSpec
CONSTANTS
  Ops = {"getNextBlockId"}
  MaxCalls = 4
  MaxConnects = 2
  IvHalf <- MCIvHalf
  ReplySizes <- MCReplySizes
  Faults = {"deviant", "timeout", "native"}
INVARIANTS
  InSync
  NoKeystreamReuse
PROPERTIES
  NothingAfterTaint
