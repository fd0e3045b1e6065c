SPECIFICATION Spec
CONSTANTS
  Resting = {r}
  Tiers = {}
  Stall = 1
  Policies = {"cancel"}
  MaxClicks = 0
INVARIANT
  StopCancelsBook
CHECK_DEADLOCK FALSE
