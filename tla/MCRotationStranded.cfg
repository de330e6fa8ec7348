SPECIFICATION Spec
CONSTANTS
  Devices = {a, b}
  Writers = {a}
  Newcomer = c
  MaxKeys = 1
  MaxChanges = 1
  MaxStops = 1
  MaxLate = 1
  MaxRebuilds = 1
INVARIANT NoDeviceStranded
