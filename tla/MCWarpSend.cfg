SPECIFICATION Spec
CONSTANTS
  Coins = {c1, c2}
  MaxSends = 2
  Inputs <- MCInputs
  MaxPolls = 1
INVARIANTS
  OneBurn
  DeadIsDead
  EverySendOnTheBooks
PROPERTIES
  ClosedWithNothingLeft
CHECK_DEADLOCK FALSE
SYMMETRY Sym
