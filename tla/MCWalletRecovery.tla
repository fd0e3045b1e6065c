------------------------- MODULE MCWalletRecovery -------------------------
(***************************************************************************)
(* One wallet and one node: budgets and thresholds are in the cfg.         *)
(***************************************************************************)
EXTENDS WalletRecoveryProps
===========================================================================
