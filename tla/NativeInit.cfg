SPECIFICATION Spec
CONSTANTS
  Threads = {t1, t2}
  Registers <- blockchainInit
  Thrown <- MCThrown
  Used <- MCUsed
  MaxCalls = 2
INVARIANTS
  TypeOK
  InstanceIsComplete
  CanThrow
  OneInstance
PROPERTIES
  StaysInitialized
  ImplementsInstance
  CallEnds
CHECK_DEADLOCK FALSE
