SPECIFICATION Spec
CHECK_DEADLOCK FALSE
CONSTANTS
  a = a
  b = b
  Devices = {a, b}
  Holders = {a}
  Fields = {f}
  LIFECYCLE = life
  Nothing = Nothing
  HISTORY_LIMIT = 1
  SNAPSHOT_AFTER_OPS = 2
  DeviceOrder <- MCOrder
  WallTimes <- MCWallTimes
  Ticks = 2
  MAX_MILLIS = 4
  SKEW_GUARD_MS = 4
  MaxOps = 3
  MaxRecords = 6
  MaxSnapshots = 2
  MaxLosses = 1
INVARIANTS
  Converges
  NothingMergedLost
  HonestAccepted
  ClockSeesItem
  PurgeKeyAgrees
PROPERTIES
  PurgeStands
