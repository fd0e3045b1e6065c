---------------------------- MODULE MCCancelLadder ----------------------------
(***************************************************************************)
(* A small ladder: the shape of the real schedule, in units of 10 s.       *)
(***************************************************************************)
EXTENDS CancelLadderProps
=============================================================================
