-------------------------- MODULE CancelLadderProps --------------------------
(***************************************************************************)
(* What the ladder owes a stop, whatever the wallet answers.               *)
(***************************************************************************)
EXTENDS CancelLadder

\* Every variable has its type.  The clock and no_sooner are the only unbounded
\* counters of the code, and both stay under Budget plus one wait here.
TypeOK ==
  /\ outstanding \in SUBSET Ids /\ held_back \in SUBSET Ids
  /\ submitted \in SUBSET Ids /\ already_pending \in SUBSET Ids
  /\ resolved_dead \in SUBSET Ids /\ resolved_filled \in SUBSET Ids
  /\ released \in SUBSET Ids /\ book \in SUBSET Ids
  /\ attempts \in Nat /\ authorised_attempt \in Nat
  /\ stop_reason \in StopReasons /\ worst_class \in Classes
  /\ sweep_refused \in BOOLEAN /\ possibly_submitted \in BOOLEAN
  /\ last_attempt_possibly_submitted \in BOOLEAN
  /\ last_attempt_wait \in Nat /\ seeded_wait \in Nat
  /\ sweep_seen_running \in BOOLEAN /\ sweep_when_empty \in BOOLEAN
  /\ step \in Steps /\ clock \in 0 .. Budget /\ no_sooner \in Nat

\* No id the ladder was built with is ever lost: it is still to be cancelled,
\* held back from this attempt, in one of the four result lists, or an attempt
\* reported it as needing nothing.  Losing the refused ids was the original
\* S46 fail-open (`outstanding = oc.failed` replaced by a clear).
NoIdLost ==
  book \subseteq outstanding \cup held_back \cup submitted \cup already_pending
                 \cup resolved_dead \cup resolved_filled \cup released

\* The ids the fallback names as still live are not also reported as submitted,
\* already cancelling, dead or filled; in particular an offer a re-check found
\* FILLED is never handed to cancel_ids again.
LiveIsNotResolved ==
  (outstanding \cup held_back)
    \cap (submitted \cup already_pending \cup resolved_dead \cup resolved_filled)
  = {}

\* When the ladder ends, "Done" means exactly that no offer is believed live
\* and no sweep was refused or left unanswered; every other ending names why.
\* next() must not overwrite what record() found, nor record() what a refused
\* sweep said.
NoSilentStop ==
  step = "finish" =>
    /\ stop_reason # "Unknown"
    /\ stop_reason = "Done" <=> clean
    /\ held_back = {}

\* The attempt after a sweep that got no answer is not made, and not even
\* re-checked, before the sweep has been given its wait, in full or what a seed
\* says is left of it: the budget stops the ladder rather than clamp the wait.
WaitIsServed ==
  step \in {"recheck", "send"} => clock >= no_sooner

\* Once a re-check has seen that the unanswered sweep reached the book, this
\* ladder sends no cancel at all: a per-id cancel would queue behind the sweep
\* and build a second spend.  The evidence outlives the re-check that found it.
SeenSweepSendsNothing ==
  step = "send" /\ sweep_seen_running => outstanding = {}

\* The ladder is never stepped past its ceilings: at most MaxAttempts attempts,
\* and after a failure of class Other no retry beyond OtherMaxAttempts.
AttemptsBounded ==
  /\ attempts <= MaxAttempts
  /\ step = "sleep" => attempts < ceiling(worst_class)
  /\ step = "sleep" => worst_class # "Funding"
=============================================================================
