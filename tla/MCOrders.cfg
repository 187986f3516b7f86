\* Two requests race for an order and may stop half way; ignored calls may fail.
SPECIFICATION Spec
CONSTANTS
  Order = {o1}
  Key = {k1}
  Handler = {h1, h2}
  Lines = 1
  OnHand0 = 2
  Reserved0 = 1
  MaxInt = 2
  Correction <- OneUnit
  MaxRedemptions = 1
  Coupons = {FALSE}
  Requests <- RequestKinds
  Faults = {"stop", "call"}
  NoOrder = NoOrder
  NoRow = NoRow
  NoKey = NoKey
SYMMETRY Symmetry
INVARIANTS
  TypeOK
  OneStockOutcome
  LiveOrdersHoldStock
  EventsAreTrue
  RefundsFollowRelease
  InventoryAgrees
  OrderPhases
