------------------------ MODULE WalletRecoveryProps ------------------------
(* What the engine does for a wallet that is out.                          *)
EXTENDS WalletRecovery

\* The incident of 2026-09-22: restarts that come too often keep a wallet from ever
\* finishing its sync.  Each restart that stops the wallet comes a full budget after
\* the one before it, and the budget has doubled once for each of them since the
\* wallet was last synced: also for the ones whose start command failed, once the
\* owed start worked (engine.cpp, Step 8's gate; settle_wallet_start).
RestartsBackOff ==
  [][(wallet' # wallet /\ wallet' \in {"down", "starting"} /\ at = "sync")
       => since >= wallet_restart_budget(Lesser(IdleBudget, SyncBudget), began, MaxBudget)]_vars

\* A wallet that a restart stopped and did not start again does not stay down, in
\* wallet_only mode too, where no heartbeat runs without it (engine.cpp, the owed
\* start of the poll loop).
StoppedComesBack == (wallet = "down") ~> (wallet # "down")

\* Whatever happens to the wallet or the node, the engine gets back to managing its
\* offers: breaker, height source, owed start and restarts never hold each other up.
\* Only a wallet that never syncs by itself and is heard of too rarely is left alone.
EngineManages == ([]<>managed) \/ (<>[](wallet = "idle"))
=============================================================================
