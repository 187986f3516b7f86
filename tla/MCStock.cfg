\* PATCH requests race the movements.
SPECIFICATION Spec
CONSTANTS
  SKU = {s1, s2}
  Manager = {m1}
  Reorder = {r1}
  Quantity <- SmallQuantities
  MaxMoves = 2
  MaxInt = 2
  Absent = Absent
SYMMETRY Symmetry
INVARIANTS TypeOK StockInvariant
PROPERTY OnlyStalePatchSkipsLedger
