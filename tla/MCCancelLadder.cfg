SPECIFICATION Spec
CONSTANTS
  Ids = {a, b}
  Budget = 9
  MaxAttempts = 3
  OtherMaxAttempts = 2
  BaseDelay = 1
  MaxDelay = 3
  MinUsefulDelay = 1
  SweepWait = 4
INVARIANTS
  NoIdLost
  WaitIsServed
CHECK_DEADLOCK FALSE
