-------------------------- MODULE CancelIntentProps --------------------------
(***************************************************************************)
(* What an order to cancel is worth once the process that gave it is gone. *)
(***************************************************************************)
EXTENDS CancelIntent

\* Every variable has its type.
IntentTypeOK ==
  /\ trade \in [Offers -> Trades] /\ late \in SUBSET Offers
  /\ file \in [Offers -> Tags] /\ intent \in [Offers -> Tags]
  /\ on_disk \in [Offers -> Tags] /\ tracked \in [Offers -> Entries]
  /\ up \in BOOLEAN /\ cancel_all_inflight \in BOOLEAN
  /\ stop \in {"no", "claimed", "cancelling", "recorded"}
  /\ asked \in SUBSET Offers /\ accepted \in SUBSET Offers
  /\ sweep \in {"idle", "probing", "cancelling"}
  /\ todo \in SUBSET Offers /\ resolved \in SUBSET Offers
  /\ to_cancel \in SUBSET Offers /\ sending \in SUBSET Offers
  /\ recancelled \in SUBSET Offers
  /\ crashes \in 0 .. MaxCrashes

Orders == INSTANCE CancelOrders WITH owed <- listed(file), over <- IF full THEN Offers ELSE is_over

\* Until the disk fills up, an offer that was written down as ordered dead leaves
\* the file only when the wallet calls it over: not because a later process does
\* not track it, not because a probe failed, not because its cancel was accepted,
\* and not in a crash between any two steps.  The file implements CancelOrders.
OrdersStand == Orders!OrdersSpec

\* The file never makes the next boot quieter than it should be: an id tagged
\* Submitted has had a cancel accepted by the wallet, or is over; also when the
\* disk fills up and lines and tags are lost.
QuietOnlyIfAccepted ==
  \A o \in Offers : file[o] = "submitted" => trade[o] \notin {"absent", "open"}

\* An id whose cancel the wallet has accepted is not announced as an order it
\* never took: while its spend is under way no later order of the same offer, by
\* this process or the next, takes the tag back, and no sweep strikes it out,
\* until the disk fills up.
NeverDowngraded ==
  [][\A o \in Offers : ~full /\ file[o] = "submitted" /\ trade[o] = "pending_cancel"
       => file'[o] = "submitted"]_vars

\* An offer that is on file as ordered dead does not rest on the wallet's book
\* for ever, whoever crashes and whatever the wallet refuses in between; unless
\* the disk fills up.
OrderedDies == \A o \in Offers : file[o] # "none" ~> (o \in is_over \/ full)
=============================================================================
