SPECIFICATION FairSpec
CONSTANTS
  Resting = {r}
  Tiers = {t}
  Stall = 0
  Policies = {"keep", "cancel"}
  MaxClicks = 1
PROPERTIES
  NothingPostedOverCancelAll
  StopEnds
CHECK_DEADLOCK FALSE
