SPECIFICATION FairStop
CONSTANTS
  Ids = {a}
  Offers = {a, u}
  Recovered = {u}
  Late = {}
  MidCycle = FALSE
  ShortOfXch = TRUE
  RequestTimeout = 2
  Budget = 8
  MaxAttempts = 3
  OtherMaxAttempts = 2
  BaseDelay = 1
  MaxDelay = 2
  MinUsefulDelay = 1
  SweepWait = 3
INVARIANTS
  SilentStopSwept
  OrderSurvives
  SeededSweepGetsItsWait
PROPERTIES
  StopEnds
  LadderRuns
  SweepIsRechecked
CHECK_DEADLOCK FALSE
