SPECIFICATION FairSpec
CONSTANTS
  Ops <- ClientOps
  MaxCalls = 4
  MaxConnects = 2
  IvHalf <- MCIvHalf
  ReplySizes <- MCReplySizes
  Faults = {}
INVARIANTS
  TypeOK
  InSync
  AnswerMatchesRequest
PROPERTIES
  OnlyLossFails
  ImplementsService
  CallTerminates
