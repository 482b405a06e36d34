SPECIFICATION Spec
CONSTANTS
  a = a
  b = b
  Keys = {k1, k2}
  Values = {a, b}
  KeySize <- MCKeySize
  ValueSize <- MCValueSize
  PageCount = 3
  PageSize = 56
  PowerLossAt <- BetweenRecords
  NULL = NULL
  Garbage = Garbage
PROPERTY PresencePreserved
PROPERTY RestartKeepsValues
PROPERTY SetIsRead
SYMMETRY Symmetry
