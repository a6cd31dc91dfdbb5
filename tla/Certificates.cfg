SPECIFICATION Spec
CONSTANTS
  Ids <- MCIds
  Values = {v, empty}
  Empty = empty
  Entities = {a, b}
  MaxCalls = 3
INVARIANTS
  TypeOK
  AttestedIsSigned
  FieldsRoundTrip
  NoIvReuse
  EncryptedRoundTrip
SYMMETRY Symmetry
CHECK_DEADLOCK FALSE
