SPECIFICATION Spec
CONSTANTS
  MaxSeq = 2
  MaxEpoch = 2
  MaxGen = 3
  MaxLate = 1
  MaxFaults = 2
INVARIANTS
  RestartSafe
  OneHistory
  HealingCarriesIt
  ReissueIsAdmitted
