SPECIFICATION Spec
CONSTANTS
  Devices = {a, b}
  Items = {i1}
  SnapIds = {s1, s2, s3, s4}
  MaxSeq = 1
  MaxEpoch = 0
  MaxStore = 4
  MaxRecords = 2
  Retirable = {}
  NoItem = none
SYMMETRY Symmetry
INVARIANTS
  TypeOK
  BodilessCovered
  WorkIsQueued
PROPERTIES
  TwoAuthorsKept
  ImplementsVault
