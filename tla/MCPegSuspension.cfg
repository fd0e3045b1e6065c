SPECIFICATION FairPeg
CONSTANTS
  W = W
  B = B
  XW = XW
  WB = WB
  Assets = {W, B}
  Wrappers = {W}
  Listed = {W}
  Pairs = {XW, WB}
  Legs <- MCLegs
  Waived = {WB}
  Sustained = 2
  MaxCrashes = 1
  MaxCancelAlls = 1
PROPERTY ObservationIsHonest
PROPERTY NothingPostedOnSuspended
PROPERTY OnlyAClickClears
PROPERTY FlatInTheEnd
PROPERTY DepegIsLatched
