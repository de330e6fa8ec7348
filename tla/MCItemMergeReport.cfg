SPECIFICATION Spec
CHECK_DEADLOCK FALSE
CONSTANTS
  a = a
  b = b
  Devices = {a, b}
  Holders = {a}
  Fields = {f}
  LIFECYCLE = life
  Nothing = Nothing
  HISTORY_LIMIT = 1
  SNAPSHOT_AFTER_OPS = 2
  DeviceOrder <- MCOrder
  WallTimes <- MCWallTimes
  Ticks = 16
  MAX_MILLIS = 9
  SKEW_GUARD_MS = 1
  MaxOps = 3
  MaxRecords = 6
  MaxSnapshots = 2
  MaxLosses = 0
INVARIANTS
  NothingReported
