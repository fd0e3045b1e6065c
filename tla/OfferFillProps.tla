--------------------------- MODULE OfferFillProps ---------------------------
(***************************************************************************)
(* What OfferFill promises.                                                *)
(***************************************************************************)
EXTENDS OfferFill

\* A fill moves the inventory once, whatever crashes, is found again, is revived
\* or was buffered as a cancellation before it was taken (the order of the
\* writes, and the buffered terminals that are dropped).
NeverBookedTwice == \A o \in Offers : inventory[o] <= 1

\* A row is closed as cancelled only when the offer can no longer be taken and was
\* not taken: the chain shows its coins spent otherwise.
ClosedOnlyIfDead == \A o \in Offers : row[o] = "cancelled" => is_dead(chain.spend[o])

\* A row is marked filled, and the inventory moved, only for an offer the chain
\* shows taken, confirmation_depth_blocks deep: not for one the wallet calls
\* CONFIRMED.
BookedOnlyTakes ==
  \A o \in Offers : row[o] = "filled" =>
    chain.spend[o].by = "take" /\ at_depth(chain.spend[o].at, chain.tip)

\* An open row is in somebody's hands: tracked, buffered, in the call under way,
\* or given up with a log line for the next process.
NothingForgotten ==
  up => \A o \in open_rows :
          \/ o \in offers \cup call.terminals \cup call.dead
          \/ o \in pending_dead_writes \cup abandoned
          \/ o \in offers_of(seen)
          \/ pending_unconfirmed_terminals[o] # NotBuffered

\* A cancel by id is never sent over the CONFIRMED of a take the engine has read:
\* it would erase what the proof waits for.
HoldKeepsConfirmed ==
  [][\A o \in Offers, st \in Statuses :
       SendCancel(o, st) /\ held(o) /\ status[o] = "confirmed" =>
         ~(chain.spend[o].by = "take" /\ chain.spend[o].at = confirmed_at_index[o])]_vars

=============================================================================
