-------------------------- MODULE MCShutdownCancel --------------------------
(***************************************************************************)
(* Two instances: a retried stop over the wallet's queue, and one that     *)
(* interrupts a heartbeat with a create in flight.                         *)
(***************************************************************************)
EXTENDS ShutdownCancelProps
=============================================================================
