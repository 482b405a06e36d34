SPECIFICATION Spec
CONSTANTS
  Versions <- MCVersions
  Length <- MCLength
  PageWords = 6
  Pages = 2
  Erased = Erased
  Garbled = Garbled
  Faults = {"power"}
  MaxFaults = 1
INVARIANT GoodUpdateInstalls
