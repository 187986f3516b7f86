SPECIFICATION ShopSpec
CONSTANTS
  SKU = {1, 2}
  Reorder = {r1}
  Quantity = {1}
  MaxMoves = 2
  MaxInt = 1
  Absent = Absent
  Types = {"RECEIVE", "RESERVE"}
  Tx = {w1, w2}
  NoTx = NoTx
  Sku = {x1, x2}
  Offer <- MCOffer
  Units = {1, 2}
  Stocked = {1}
  Untracked = Untracked
  OffSale = OffSale
  Request = {w1, w2}
  MaxLines = 2
  MaxUnits = 2
  NoLine = NoLine
  Tax <- MCTax
  RateId = {1}
  RateBody <- MCRateBody
  RatePatch <- MCRatePatch
  CouponId = {1}
  Code = {"welcome"}
  CouponBody <- MCCouponBody
  CouponPatch <- MCCouponPatch
  Unset = Unset
  Gone = Gone
  Day = {1, 2}
  Manager = {w1, w2}
  Shopper = {s1}
  Subtotal = {1199}
  MaxRedeemed = 1
  Ordered <- MCOrdered
  Captured = 2
  ReturnId = {x1, x2}
  Desk = {w1, w2}
  MaxReturned = 1
  MaxRestocks = 2
  Refunds = {2}
  Nothing = Nothing
  Plan <- MCPlan
  Length <- MCLength
  SubId = {x1, x2}
  Call = {w1, w2}
  MaxTime = 3
  NoSub = NoSub
  Product = {p1}
  Variant = {x1, x2}
  Editor = {w1, w2}
  Unborn = Unborn
  Removed = Removed
  Keep = Keep
  NoEdit = NoEdit
  Category = {x1, x2}
  Attribute = {a1}
  Value = {c1}
  ProductVariant = {p1}
  Clerk = {w1, w2}
  New = New
  Erased = Erased
  NoTask = NoTask
  ImageKey = {x1, x2}
  Position = {0, 1}
  Same = Same
  Customer = {x1, x2}
  Rating = {1, 5}
  Worker = {w1, w2}
  Unrated = Unrated
  NoJob = NoJob
  Ttl = 2
  Timeout = 1
  Admitting = {"ADMIN"}
  Standing = {"ADMIN", "CUSTOMER", NotMember, SessionOver}
  NotMember = NotMember
  SessionOver = SessionOver
  Visit = {w1, w2}
  MaxMoment = 5
  NoEntry = NoEntry
  NoVisit = NoVisit
  File = {1, 2, 3}
  Operator = {w1, w2}
  NoRun = NoRun
  Node = {x1, x2, n3}
  Blank = Blank
  Dropped = Dropped
  Root = Root
  Omitted = Omitted
  Curator = {w1, w2}
  NoMove = NoMove
SYMMETRY Symmetry
INVARIANTS
  ShopTypeOK
  DeadlocksAreRespellings
  QuotesAddUp
  CompletedReturnsAreDone
  AccessFollowsPeriods
PROPERTIES
  LocksImplementStock
  OnlyOverlapsSpoilCarts
  OnlyOverlapsRevertSettings
  OnlyOverlapsRepeatReturns
  OnlyOverlapsSpoilProducts
  OnlyOverlapsMisplaceProducts
  OnlyOverlapsBreakImages
  OnlyRecentRolesAdmit
  OnlyOverlapsLeaveGaps
  OnlyDescendantsCloseCircles
CHECK_DEADLOCK FALSE
