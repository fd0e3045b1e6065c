SPECIFICATION StopSpec
CONSTANTS
  Ids = {a, b}
  Offers = {a, b}
  Recovered = {}
  Late = {b}
  MidCycle = TRUE
  ShortOfXch = FALSE
  RequestTimeout = 2
  Budget = 8
  MaxAttempts = 3
  OtherMaxAttempts = 2
  BaseDelay = 1
  MaxDelay = 2
  MinUsefulDelay = 1
  SweepWait = 3
INVARIANTS
  LiveAreNamed
CHECK_DEADLOCK FALSE
