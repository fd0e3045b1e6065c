SPECIFICATION FairSpec
CONSTANTS
  IdleBudget = 1
  SyncBudget = 2
  MaxBudget = 4
  MaxGap = 2
  RetryBase = 1
  RetryCap = 2
  TripFailures = 2
  ProbeInterval = 1
  NodeFailures = 2
  NodeSuccesses = 1
  NodePolls = 2
  ProbeEvery = 2
  Modes = {"auto", "wallet_only"}
  Work = 3
  MaxSlips = 1
  MaxTimeouts = 1
  MaxRefusals = 2
PROPERTY RestartsBackOff
PROPERTY StoppedComesBack
PROPERTY EngineManages
