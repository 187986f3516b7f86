\* No PATCH request is served: the ledger explains the rows.
SPECIFICATION Spec
CONSTANTS
  SKU = {s1, s2}
  Manager = {}
  Reorder = {r1}
  Quantity <- SmallQuantities
  MaxMoves = 4
  MaxInt = 3
  Absent = Absent
SYMMETRY Symmetry
INVARIANTS LedgerExplainsLevels
