\* No failures: every request ends, and cancelled and fulfilled orders settle.
SPECIFICATION FairSpec
CONSTANTS
  Order = {o1}
  Key = {k1}
  Handler = {h1, h2}
  Lines = 1
  OnHand0 = 1
  Reserved0 = 0
  MaxInt = 1
  Correction = {}
  MaxRedemptions = 1
  Coupons = {TRUE}
  Requests <- RequestKinds
  Faults = {}
  NoOrder = NoOrder
  NoRow = NoRow
  NoKey = NoKey
PROPERTIES
  CancelReleases
  FulfilShips
  RequestsEnd
