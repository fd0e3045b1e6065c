----------------------------- MODULE ChiaWallet -----------------------------
(***************************************************************************)
(* The Chia wallet as the cancel paths of XOPTrader use it: not code of    *)
(* the repository, but what its calls and comments rely on (chia 2.7.4).   *)
(*                                                                         *)
(* cancel_offer and cancel_offers queue behind the wallet state lock and   *)
(* keep running when the client has given up on them.  cancel_offers       *)
(* sweeps every open or cancelling trade, one after the other; a sweep can *)
(* fail part of the way through.  Neither looks at the trade's status      *)
(* before it builds a spend.  get_offer takes no lock.  A client has one   *)
(* call out at a time.                                                     *)
(***************************************************************************)
EXTENDS Naturals, Sequences

CONSTANTS
  Offers,     \* every offer the wallet may hold
  ShortOfXch  \* the wallet may have no XCH for a fee

VARIABLES
  coins,      \* what became of an offer's coins on chain
  trade,      \* the wallet's trade record of the offer
  spends,     \* the offers a cancel spend was built for
  queue,      \* requests received and not finished, the first one running
  sweep_todo, \* trades the running sweep has still to reach
  reply       \* to the client's last call

walletVars == <<coins, trade, spends, queue, sweep_todo, reply>>

Coins   == {"none", "unspent", "taken", "dead"}
Trades  == {"absent", "open", "pending_cancel", "cancelled", "confirmed"}
Replies == {"none", "waiting", "lost", "accepted", "refused", "funding",
            "unanswered"}

\* cancel_offers; cancel_offer with a spend on chain; and without one, which
\* only closes the wallet's own record.
SweepRequest     == <<"sweep">>
SecureRequest(o) == <<"secure", o>>
LocalRequest(o)  == <<"local", o>>
Requests == {SweepRequest} \cup {SecureRequest(o) : o \in Offers}
                           \cup {LocalRequest(o) : o \in Offers}

\* The trades a sweep that starts now will go through.
sweepable == {o \in Offers : trade[o] \in {"open", "pending_cancel"}}

Running(request) == queue # <<>> /\ Head(queue) = request

\* The client's call is over, and it has not read the answer yet.
answered == reply \in {"accepted", "refused", "funding", "unanswered"}

\* The client sends a request, at once after the last one's answer if it likes;
\* the request may be lost on the way.
Send(request) ==
  /\ reply = "none" \/ answered
  /\ \/ queue' = Append(queue, request) /\ reply' = "waiting"
     \/ UNCHANGED queue /\ reply' = "lost"
  /\ sweep_todo' = IF queue' = <<SweepRequest>> THEN sweepable ELSE sweep_todo
  /\ UNCHANGED <<coins, trade, spends>>

\* The running request is done and the next one starts.  The client waits for
\* the last one, if for any.
Finish(answer) ==
  /\ queue' = Tail(queue)
  /\ reply' = IF reply = "waiting" /\ Len(queue) = 1 THEN answer ELSE reply
  /\ sweep_todo' = IF queue' # <<>> /\ Head(queue') = SweepRequest
                   THEN {o \in Offers : trade'[o] \in {"open", "pending_cancel"}}
                   ELSE {}

\* Coins that are spent already leave the trade as the chain made it.
Mark(o, status) ==
  trade' = [trade EXCEPT ![o] = IF coins[o] = "unspent" THEN status ELSE @]

BuildSpend(o) ==
  /\ Mark(o, "pending_cancel")
  /\ spends' = spends \cup {o}
  /\ UNCHANGED coins

\* The running sweep builds the cancel spend of one more trade.
SweepOne(o) ==
  /\ Running(SweepRequest) /\ o \in sweep_todo
  /\ BuildSpend(o)
  /\ sweep_todo' = sweep_todo \ {o}
  /\ UNCHANGED <<queue, reply>>

SweepDone ==
  /\ Running(SweepRequest) /\ sweep_todo = {}
  /\ UNCHANGED <<coins, trade, spends>>
  /\ Finish("accepted")

\* A cancel of one offer on chain, over whatever status its trade has.
CancelSecurely(o) ==
  /\ Running(SecureRequest(o))
  /\ BuildSpend(o)
  /\ Finish("accepted")

\* A cancel of the wallet's record alone: the offer file can still be taken.
CancelLocally(o) ==
  /\ Running(LocalRequest(o))
  /\ Mark(o, "cancelled")
  /\ UNCHANGED <<coins, spends>>
  /\ Finish("accepted")

\* The running request fails: the wallet is not synced, or has no XCH for the
\* fee of a single cancel.
Refuse ==
  /\ queue # <<>>
  /\ UNCHANGED <<coins, trade, spends>>
  /\ \/ Finish("refused")
     \/ ShortOfXch /\ Head(queue) # SweepRequest /\ Finish("funding")

\* The client's call ends with no answer, or, when it could not connect, with
\* an error it knows the wallet never saw the request behind.
NoAnswer ==
  /\ \/ reply \in {"waiting", "lost"} /\ reply' = "unanswered"
     \/ reply = "lost" /\ reply' = "refused"
  /\ UNCHANGED <<coins, trade, spends, queue, sweep_todo>>

\* A taker spends the offer's coins.  The wallet calls an open or cancelling
\* trade CONFIRMED; one it has closed itself it no longer looks at.
Take(o) ==
  /\ coins[o] = "unspent"
  /\ coins' = [coins EXCEPT ![o] = "taken"]
  /\ trade' = [trade EXCEPT ![o] = IF @ = "cancelled" THEN @ ELSE "confirmed"]
  /\ sweep_todo' = sweep_todo \ {o}
  /\ UNCHANGED <<spends, queue, reply>>

\* A cancel spend confirms: the offer is dead.
CancelLands(o) ==
  /\ coins[o] = "unspent" /\ o \in spends
  /\ coins' = [coins EXCEPT ![o] = "dead"]
  /\ trade' = [trade EXCEPT ![o] = "cancelled"]
  /\ sweep_todo' = sweep_todo \ {o}
  /\ UNCHANGED <<spends, queue, reply>>

WalletNext ==
  \/ SweepDone \/ Refuse \/ NoAnswer
  \/ \E o \in Offers : \/ SweepOne(o) \/ CancelSecurely(o) \/ CancelLocally(o)
                       \/ Take(o) \/ CancelLands(o)

\* It reads the answer, and will not send at once.
ReadReply ==
  /\ answered
  /\ reply' = "none"
  /\ UNCHANGED <<coins, trade, spends, queue, sweep_todo>>
=============================================================================
