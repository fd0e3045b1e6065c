------------------------ MODULE DeadMansSwitchProps ------------------------
(* What the dead man's switch, the stop and the Cancel All promise about   *)
(* the book.                                                               *)
EXTENDS DeadMansSwitch

Requests == {"sweep", "cancel", "create"} \X (Offers \cup {NoOffer})

\* Every variable has its type: a call in flight keeps its request until it is
\* taken, and the ages never pass the limit they are compared with.
SwitchTypeOK ==
  /\ trade \in [Offers -> {"absent", "open", "pending_cancel", "cancelled"}]
  /\ entry \in [Offers -> {"absent", "open", "cancel_pending"}]
  /\ call \in [Clients -> [req : Requests,
                           is : {"idle", "sent", "accepted", "refused", "unanswered"}]]
  /\ beat \in 0 .. Stall /\ claim \in 0 .. Stall
  /\ sw \in {"sleep", "tick", "latch", "book", "sent", "exited"}
  /\ mtx \in {"free", "switch", "stop", "exit"}
  /\ ca \in {"idle", "sweep", "pause", "each", "each_sent", "again", "again_sent"}
  /\ cur \in Offers \cup {NoOffer} /\ untried \subseteq Tiers
  /\ ca_todo \subseteq Offers /\ unmanaged \subseteq Tiers /\ called \subseteq Offers
  /\ clicks \in 0 .. MaxClicks

\* Once the wallet has taken the switch's cancel, no offer rests that the cancel
\* did not reach, whatever the posting the switch interrupted was doing: a late
\* create is still in the poster's hands, or the process has said that it may be
\* live.
SwitchCoversBook ==
  covered => \A o \in open :
    o \in unmanaged \/ (o = cur /\ cycle \in {"create", "late"})

\* A stop that cancels the book has its grace: the switch fires over it only once
\* the stop's claim is a whole stall old, however stale the heartbeat was.
GraceIsGiven ==
  [][sw = "tick" /\ sw' = "latch" /\ graceful_cancel_active => claim = Stall]_vars

\* A fire is never used up on the way: the stall that latched the watchdog has
\* reached the wallet, is on its way there, or met a stop that keeps the book.
FireReachesBook ==
  fired => \/ sw \in {"latch", "book", "sent"}
           \/ covered \/ cancel_failed \/ offers_kept

\* A stop that keeps the book, and did not give up on a create, leaves every
\* offer of this run that rests in State, or counted as unanswered.
KeepForgetsNothing ==
  offers_kept /\ stop = "down" =>
    \A o \in open \cap Tiers : entry[o] # "absent" \/ o \in unmanaged

\* An engine that ends unasked has had its book cancelled, once, or has told the
\* operator that it could not be.
DeadEngineIsSwept ==
  run = "exited" /\ ~stop_requested => covered \/ cancel_failed

\* From an operator's Cancel All until the offers it flagged are gone, no offer
\* is created.
NothingPostedOverCancelAll ==
  [][cycle = "tiers" /\ cycle' = "create" =>
       ~inflight /\ \A o \in called : entry[o] # "cancel_pending"]_vars

\* A stop ends the process: however the Cancel All it waits for went, wherever the
\* heartbeat hangs and whoever holds the cancel.
StopEnds == stop_requested ~> run = "exited"

\* A stop that is to cancel the book, asked for before the process is over, has
\* tried to: it ran, or the switch did.
StopCancelsBook ==
  run = "exited" /\ stop_requested /\ ~offers_kept =>
    stop = "down" \/ covered \/ cancel_failed

=============================================================================
