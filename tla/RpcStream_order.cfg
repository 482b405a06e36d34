SPECIFICATION Spec
CONSTANTS
  DeviceWrites = 2
  HostWrites = 1
  MaxConnects = 1
  RingSize = 1
  Duplicated = {"data", "ack"}
  Writers = {"connected"}
  NULL = NULL
INVARIANTS
  DeliversInOrder
  SendsWhenAcked
CHECK_DEADLOCK FALSE
