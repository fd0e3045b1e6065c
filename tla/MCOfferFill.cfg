CONSTANTS
  o1 = o1
  Offers = {o1}
  ConfirmationDepth = 1
  MaxTerminalRechecks = 2
  UndoneTakes = FALSE
  ShallowFailed = FALSE
  MaxTip = 4
  MaxReorgs = 1
  MaxCrashes = 1
SPECIFICATION Spec
INVARIANTS NeverBookedTwice ClosedOnlyIfDead BookedOnlyTakes NothingForgotten
PROPERTIES HoldKeepsConfirmed
CHECK_DEADLOCK FALSE
