SPECIFICATION FairSpec
CONSTANTS
  DeviceWrites = 1
  HostWrites = 0
  MaxConnects = 2
  RingSize = 1
  Duplicated = {}
  Writers = {"connected"}
  NULL = NULL
PROPERTIES
  RetryDelivers
CHECK_DEADLOCK FALSE
