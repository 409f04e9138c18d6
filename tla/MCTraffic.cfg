SPECIFICATION Spec
CHECK_DEADLOCK FALSE
CONSTANTS
  Ids = {1, 2}
  DeviceOrder <- TwoDevices
  Addrs = {"a", "b", "c", "d", "m"}
  Pushes <- Limits
  MinorMin = 2
  Minors = 3
  Nodes = 7
  Width = 8
  Hashes = {0, 6, 7}
  MaxValues = 2
  MaxPref = 6
  RxShift = 1
  MaxApplies = 2
  MaxFailures = 1
INVARIANT TxIsLimited
INVARIANT RxIsLimited
INVARIANT Idempotent
