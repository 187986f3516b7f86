\* Does a checkout that could not write its order hold no stock?
SPECIFICATION Spec
CONSTANTS
  Order = {o1}
  Key = {k1}
  Handler = {h1, h2}
  Lines = 1
  OnHand0 = 1
  Reserved0 = 0
  MaxInt = 1
  Correction = {}
  MaxRedemptions = 1
  Coupons = {FALSE}
  Requests <- RequestKinds
  Faults = {"call"}
  NoOrder = NoOrder
  NoRow = NoRow
  NoKey = NoKey
INVARIANT UnwrittenOrdersHoldNothing
