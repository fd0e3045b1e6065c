SPECIFICATION FairSpec
CONSTANTS
  Offers = {a}
  Window = 2
  Retry = 1
  Cap = 2
  Step = 1
  MaxFee = 3
  MaxProbes = 1
  Floors = {0}
  ErrorAlert = 2
  Gap = 1
  Cooldown = 1
  MaxIds = 1
  Gates = {"cancel_all_inflight"}
  MaxCrashes = 1
INVARIANTS
  CapSurvivesRestart
PROPERTIES
  FeeRises
  NoFeeUnderAnotherCancel
  StuckIsTold
CHECK_DEADLOCK FALSE
