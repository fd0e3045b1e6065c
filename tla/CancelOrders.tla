---------------------------- MODULE CancelOrders ----------------------------
(***************************************************************************)
(* What the cancel-intent file promises: an offer a process ordered dead   *)
(* stays owed a cancel, through every crash and restart, until the wallet  *)
(* itself calls it over.                                                   *)
(***************************************************************************)
VARIABLES
  owed,  \* offers ordered dead
  over   \* offers the wallet calls cancelled, failed or filled

OrdersInit == owed = {} /\ over = {}

\* Orders are added freely, and withdrawn only for offers that are over.
Order ==
  /\ owed \ owed' \subseteq over
  /\ over' = over

\* The wallet closes offers, and never opens one again.
Close ==
  /\ over \subseteq over'
  /\ owed' = owed

OrdersSpec == OrdersInit /\ [][Order \/ Close]_<<owed, over>>
=============================================================================
