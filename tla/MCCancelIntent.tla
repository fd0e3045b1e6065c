--------------------------- MODULE MCCancelIntent ---------------------------
(***************************************************************************)
(* One offer, and up to four restarts.                                     *)
(***************************************************************************)
EXTENDS CancelIntentProps
=============================================================================
