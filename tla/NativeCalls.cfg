SPECIFICATION Spec
CONSTANTS
  Code <- MCCode
  Lost <- MCLost
  Authenticated <- MCAuthenticated
INVARIANTS
  TypeOK
  ReleasesHeld
  LostIsKnown
  FailureIsReported
  AuthenticatedFirst
