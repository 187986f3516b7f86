\* Three checkouts compete for stock, for one Idempotency-Key and for one coupon.
SPECIFICATION Spec
CONSTANTS
  Order = {o1, o2, o3, o4}
  Key = {k1}
  Handler = {h1, h2, h3}
  Lines = 1
  OnHand0 = 2
  Reserved0 = 0
  MaxInt = 2
  Correction = {}
  MaxRedemptions = 1
  Coupons <- WithAndWithout
  Requests = {"checkout", "cancel"}
  Faults = {}
  NoOrder = NoOrder
  NoRow = NoRow
  NoKey = NoKey
SYMMETRY Symmetry
INVARIANTS
  NothingLeaks
  CouponOverrunBounded
