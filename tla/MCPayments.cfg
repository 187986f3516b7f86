\* Creates, syncs, refunds and webhook deliveries race and may stop half way.
SPECIFICATION FairSpec
CONSTANTS
  Order = {o1}
  Intent = {i1, i2}
  Handler = {h1, h2}
  Amount = 2
  Gateways <- BothGateways
  Faults = {"stop"}
  NoRow = NoRow
  NoIntent = NoIntent
  NoOrder = NoOrder
INVARIANTS
  TypeOK
  NeverChargedTwice
  MoneyBacked
PROPERTIES
  OnlyStaleWritesRegress
  PaidIsNoticed
