SPECIFICATION HonestSpec
CONSTANTS
  a = a
  b = b
  x = x
  y = y
  Devices = {a, b}
  Items = {x, y}
  History <- MCHistory
  Snapshots <- MCSnapshots
  Unopenable <- MCUnopenable
  Compactable <- MCCompactable
  Rank <- MCRank
  Retirable = {}
  Cutoffs = {}
  MaxPage = 2
PROPERTIES
  Converges
