SPECIFICATION Spec
CONSTANTS
  Ops = {"submit"}
  MaxCalls = 3
  MaxConnects = 2
  IvHalf <- MCIvHalf
  ReplySizes <- MCReplySizes
  Faults = {}
INVARIANTS
  FailedMeansNotAccepted
