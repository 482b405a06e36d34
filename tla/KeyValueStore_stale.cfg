SPECIFICATION Spec
CONSTANTS
  a = a
  b = b
  Keys = {k1}
  Values = {a, b}
  KeySize <- MCKeySize
  ValueSize <- MCValueSize
  PageCount = 2
  PageSize = 64
  PowerLossAt <- BetweenRecords
  NULL = NULL
  Garbage = Garbage
PROPERTY CollectKeepsValues
