------------------------- MODULE MCCancelEscalation -------------------------
(***************************************************************************)
(* One stranded cancel: its caps, windows and fees are in the cfg.         *)
(***************************************************************************)
EXTENDS CancelEscalationProps
=============================================================================
