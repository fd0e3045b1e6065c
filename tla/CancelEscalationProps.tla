----------------------- MODULE CancelEscalationProps -----------------------
(***************************************************************************)
(* What the escalation owes the operator's purse and the operator.         *)
(***************************************************************************)
EXTENDS CancelEscalation

Fees == 0 .. MaxFee

\* However often the process dies, it sees the wallet accept at most Cap paid
\* re-cancels of one offer: every one of them is on record before it is paid,
\* and the next process counts the records.
CapSurvivesRestart == \A o \in Offers : paid[o].n <= Cap

\* An attempt to pay: a re-cancel sent at a fee.
Bids(o) == at # "paying" /\ at' = "paying" /\ cur' = o

\* Every bid is higher than all the fees this offer was seen to pay, by this
\* process or an earlier one, or is the most one bid may be: "a bid that only
\* repeats the last one -- which the mempool refuses as a replacement".
FeeRises ==
  [][\A o \in Offers : Bids(o) => fee' > paid[o].fee \/ fee' = MaxFee]_vars

\* No escalation pays under a stop, a Cancel All or a fired switch that closed
\* its gate while the wallet and the node were being asked.
NoFeeUnderAnotherCancel ==
  [][\A o \in Offers : Bids(o) => gates = {} /\ o \in flagged]_vars

\* An offer whose cancel never lands does not stay that way in silence: it is
\* resolved, or the operator is told, or a stop or the switch has the book.
StuckIsTold ==
  \A o \in Offers :
    o \in flagged ~> \/ o \notin flagged \/ trade[o] = "over" \/ o \in told
                     \/ gates \ {"cancel_all_inflight"} # {}
=============================================================================
