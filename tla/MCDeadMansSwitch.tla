-------------------------- MODULE MCDeadMansSwitch --------------------------
(***************************************************************************)
(* Three instances: the switch with a create that may land late, a Cancel  *)
(* All, and an engine that died.                                           *)
(***************************************************************************)
EXTENDS DeadMansSwitchProps
=============================================================================
