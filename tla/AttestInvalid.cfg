SPECIFICATION Spec
CONSTANTS
  Ids <- MCIds
  Values = {v, empty}
  Empty = empty
  Entities = {a, b}
  MaxCalls = 2
PROPERTIES
  InvalidMeansFalse
CHECK_DEADLOCK FALSE
