SPECIFICATION Spec
CONSTANTS
  Devices = {a, b}
  Items = {i1}
  SnapIds = {s1}
  MaxSeq = 2
  MaxEpoch = 1
  MaxStore = 1
  MaxRecords = 1
  Retirable = {a}
  NoItem = none
SYMMETRY Symmetry
INVARIANTS
  ClampsBelowHeads
  NothingPastCutoff
PROPERTIES
  SuspendedHeadFrozen
