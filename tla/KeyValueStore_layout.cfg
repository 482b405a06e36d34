SPECIFICATION FairSpec
CONSTANTS
  a = a
  b = b
  Keys = {k1, k2}
  Values = {a, b}
  KeySize <- MCKeySize
  ValueSize <- MCValueSize
  PageCount = 2
  PageSize = 64
  PowerLossAt <- Anywhere
  NULL = NULL
  Garbage = Garbage
INVARIANT Structure
PROPERTY CallsReturn
