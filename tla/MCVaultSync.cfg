SPECIFICATION Spec
CONSTANTS
  a = a
  b = b
  x = x
  y = y
  Devices = {a, b}
  Items = {x, y}
  History <- MCHistory
  Snapshots <- MCSnapshots
  Unopenable <- MCBad
  Retirable = {a}
  Cutoffs = {1}
  MaxPage = 2
INVARIANTS
  LogSound
  NothingLeftDeliverable
  NothingLeftOut
  DeliveredIsApplied
PROPERTIES
  NoDeliveryPastCutoff
