SPECIFICATION FairSpec
CONSTANTS
  Versions <- MCVersions
  Length <- MCLength
  PageWords = 6
  Pages = 2
  Erased = Erased
  Garbled = Garbled
  Faults = {"power", "erase", "storage"}
  MaxFaults = 2
INVARIANT RunsNewestWhole
INVARIANT NothingGarbled
PROPERTY KeepsWholeExecutable
PROPERTY InstallCompletes
