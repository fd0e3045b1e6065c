SPECIFICATION Spec
CONSTANTS
  Resting = {}
  Tiers = {t}
  Stall = 1
  Policies = {"keep", "cancel"}
  MaxClicks = 1
INVARIANTS
  SwitchCoversBook
  FireReachesBook
  KeepForgetsNothing
  DeadEngineIsSwept
CHECK_DEADLOCK FALSE
