SPECIFICATION FairSpec
CONSTANTS
  Devices = {a, b}
  Writers = {a}
  Newcomer = c
  MaxKeys = 3
  MaxChanges = 1
  MaxStops = 1
  MaxLate = 1
  MaxRebuilds = 1
INVARIANTS
  KeysSafe
  WrapSetCurrent
  CacheOpensAtCurrent
PROPERTIES
  EveryoneFollows
