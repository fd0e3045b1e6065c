------------------------ MODULE ShutdownCancelProps ------------------------
(***************************************************************************)
(* What a cancelling stop owes the operator.                               *)
(***************************************************************************)
EXTENDS ShutdownCancel

\* The ladder that runs is the ladder of CancelLadder: its abstract attempts
\* and re-checks allow all that cancel_all, cancel_ids and recheck_terminal do.
LadderRuns == Init /\ [][Next]_ladderVars

\* An offer of the book that is still open in the wallet when the stop is over
\* is in the alert the operator gets.
LiveAreNamed ==
  phase = "stopped" => \A i \in book : trade[i] = "open" => i \in named

\* A stop that runs no fallback, and so alerts nobody, has swept the whole
\* wallet: no offer, tracked or not, still rests there.  Empty State is not an
\* empty wallet, and a sweep that was refused or left unanswered proves nothing.
SilentStopSwept ==
  phase = "stopped" /\ ~alerted => \A o \in Offers : trade[o] # "open"

\* From before the first cancel is sent, a crash loses no order: the next
\* process reads of every offer this stop, or one before it, wanted dead and
\* the wallet still holds open.
OrderSurvives ==
  phase # "collect" =>
    \A o \in book \cup Recovered : trade[o] = "open" => cancel_intent[o] # "none"

\* No offer is cancelled by id after a wallet-wide sweep that got no answer
\* before the wallet has been asked what became of it.
SweepIsRechecked ==
  [][\A i \in Ids : SendId(i) /\ possibly_submitted => i \notin unasked]_stopVars

\* The operator's unanswered sweep gets its wait before the fallback sends a
\* second wallet-wide one, even if no tracked offer is there to wait for.
SeededSweepGetsItsWait ==
  phase = "fallback" /\ stop_reason = "SweepPossiblySubmitted" /\ operator_sweep
    => clock >= no_sooner

StopEnds == <>(phase = "stopped")
=============================================================================
