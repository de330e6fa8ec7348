SPECIFICATION MCSpec
CONSTANTS
  a = a
  b = b
  c = c
  Devices = {a, b, c}
  Written <- MCWritten
  MaxSnaps = 4
  Workers = {w1, w2}
  Items = {p, q, i}
  Poison = {p, q}
  Batch = 2
  MaxBatches = 2
  MaxFaults = 1
  Nobody = Nobody
INVARIANTS
  TypeOK
  OnePassIsRestart
  EmptyPlanAgrees
  PageHasCovers
PROPERTIES
  QueueIsServed
