\* Does refunded_cents keep up with the refunds made at Stripe?
SPECIFICATION Spec
CONSTANTS
  Order = {o1}
  Intent = {i1, i2}
  Handler = {h1, h2}
  Amount = 2
  Gateways = {"stripe"}
  Faults = {}
  NoRow = NoRow
  NoIntent = NoIntent
  NoOrder = NoOrder
INVARIANT RefundsTracked
