SPECIFICATION FairIntent
CONSTANTS
  Offers = {a}
  MaxCrashes = 4
  FullFrom = 4
INVARIANTS
  QuietOnlyIfAccepted
PROPERTIES
  OrdersStand
  NeverDowngraded
  OrderedDies
