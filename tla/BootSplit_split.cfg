SPECIFICATION FairSpec
CONSTANTS
  Blocks = 3
  Clients = {"main", "update", "execute", "python"}
  Script <- MCScript
  MaxFaults = 3
  MaxRestarts = 2
PROPERTY StaysWhole
INVARIANT ValidMeansInstalled
INVARIANT NestsOnlyAfterFault
PROPERTY CleanUpdateRuns
CHECK_DEADLOCK FALSE
