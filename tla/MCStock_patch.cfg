\* Does every quantity change write a movement when PATCH requests run too?
SPECIFICATION Spec
CONSTANTS
  SKU = {s1}
  Manager = {m1}
  Reorder <- ReorderLevels
  Quantity <- SmallQuantities
  MaxMoves = 3
  MaxInt = 3
  Absent = Absent
PROPERTY QuantityChangesAreMovements
