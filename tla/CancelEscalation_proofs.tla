---------------------- MODULE CancelEscalation_proofs ----------------------
(***************************************************************************)
(* Proofs about the escalation, for any number of offers and restarts and  *)
(* any window, cap, step and fee: what is paid stays under the cap across  *)
(* restarts, and every bid rises.                                          *)
(*                                                                         *)
(* The argument: the write-ahead record of an offer is never behind what   *)
(* was paid for it, an anchored track is never behind either, because it   *)
(* is read from the record, and a bid is made only while the track is      *)
(* under the cap.  How long a track waits plays no part in it, so the      *)
(* invariant gives no type to its back-off.                                *)
(***************************************************************************)
EXTENDS CancelEscalationProps, TLAPS

Fields == {"anchored", "age", "wait", "esc", "fee", "idle", "errs", "alerted"}

IsTrack(t) == DOMAIN t = Fields /\ t.esc \in Nat /\ t.fee \in Fees

\* What a step that pays nothing leaves of a track.
SameLadder(t, u) ==
  /\ IsTrack(u)
  /\ u.anchored = t.anchored /\ u.esc = t.esc /\ u.fee = t.fee

EscShape ==
  /\ DOMAIN track = Offers /\ \A o \in Offers : IsTrack(track[o])
  /\ rows \in [Offers -> [n : 0 .. Cap, fee : Fees]]
  /\ paid \in [Offers -> [n : Nat, fee : Fees]]
  /\ flagged \subseteq Offers /\ due \subseteq Offers /\ fee \in Fees

\* The record is not behind what was paid, and neither is a track read from it.
RecordLeads == \A o \in Offers : paid[o].n <= rows[o].n /\ paid[o].fee <= rows[o].fee
TrackLeads  == \A o \in Offers :
                 track[o].anchored => paid[o].n <= track[o].esc /\ paid[o].fee <= track[o].fee

\* Only anchored offers are probed.
DueAnchored ==
  /\ \A o \in due : track[o].anchored
  /\ at \in {"wallet", "node", "paying", "zero"} => cur \in Offers /\ track[cur].anchored

\* While a bid is out there is room for it: in the track and on record.
RoomForBid ==
  at \in {"paying", "zero"} =>
    track[cur].esc < Cap /\ paid[cur].n < rows[cur].n /\ fee <= rows[cur].fee

EscInv == EscShape /\ RecordLeads /\ TrackLeads /\ DueAnchored /\ RoomForBid

-----------------------------------------------------------------------------
(* Tracks. *)

\* A new track has paid nothing.
LEMMA NewTrack == IsTrack(NotSeen) /\ ~NotSeen.anchored
  BY EscalationAssumption DEF IsTrack, NotSeen, Fields, Fees, EscalationAssumption

\* A back-off keeps the ladder.
LEMMA BackOffKeeps ==
  ASSUME NEW t, IsTrack(t)
  PROVE  SameLadder(t, BackedOff(t))
  BY DEF IsTrack, SameLadder, BackedOff, Fields

\* So does waiting.
LEMMA WaitKeeps ==
  ASSUME NEW t, IsTrack(t), NEW w
  PROVE  SameLadder(t, [t EXCEPT !.wait = w])
  BY DEF IsTrack, SameLadder, Fields

\* And a failed call.
LEMMA ErrorKeeps ==
  ASSUME NEW t, IsTrack(t), NEW e, NEW w
  PROVE  SameLadder(t, [t EXCEPT !.errs = e, !.wait = w])
  BY DEF IsTrack, SameLadder, Fields

\* A flush of the alerts keeps every ladder.
LEMMA MarkKeeps ==
  ASSUME NEW t, NEW q, \A o \in Offers : IsTrack(t[o])
  PROVE  /\ DOMAIN Marked(t, q) = Offers
         /\ \A o \in Offers : SameLadder(t[o], Marked(t, q)[o])
<1>1. DOMAIN Marked(t, q) = Offers
  BY DEF Marked
<1>2. ASSUME NEW o \in Offers PROVE SameLadder(t[o], Marked(t, q)[o])
  <2>1. \/ Marked(t, q)[o] = t[o]
        \/ Marked(t, q)[o] = [t[o] EXCEPT !.alerted = TRUE]
    BY DEF Marked
  <2> QED BY <2>1 DEF IsTrack, SameLadder, Fields
<1> QED BY <1>1, <1>2

\* Time keeps them too.
LEMMA AgeKeeps ==
  ASSUME EscShape
  PROVE  \A o \in Offers : SameLadder(track[o], Aged[o])
  BY DEF EscShape, Aged, IsTrack, SameLadder, Fields

\* A track that is read from the record starts from it.
LEMMA AnchorReads ==
  ASSUME EscShape, NEW o \in Offers
  PROVE  /\ IsTrack(Anchored(o)) /\ Anchored(o).anchored
         /\ Anchored(o).esc = rows[o].n /\ Anchored(o).fee = rows[o].fee
<1>1. rows[o].n \in Nat /\ rows[o].fee \in Fees
  BY EscalationAssumption DEF EscShape, EscalationAssumption
<1> QED BY <1>1 DEF Anchored, NotSeen, IsTrack, Fields

\* A bid is at most the ceiling, and above the last one unless it is the ceiling.
LEMMA BidRises ==
  ASSUME NEW last \in Fees, NEW floor \in Floors
  PROVE  LET f == escalation_fee_mojos(last, floor)
         IN  f \in Fees /\ (f > last \/ f = MaxFee)
  BY EscalationAssumption
     DEF EscalationAssumption, Fees, escalation_fee_mojos, Lesser, Greater

-----------------------------------------------------------------------------
\* The initial states satisfy the invariant.
LEMMA InitEsc == Init => EscInv
<1> SUFFICES ASSUME Init PROVE EscInv
  OBVIOUS
<1>1. /\ track = [o \in Offers |-> NotSeen] /\ due = {} /\ at = "idle" /\ fee = 0
      /\ flagged = Offers
      /\ rows = [o \in Offers |-> [n |-> 0, fee |-> 0]]
      /\ paid = [o \in Offers |-> [n |-> 0, fee |-> 0]]
  BY DEF Init
<1>2. EscShape
  BY <1>1, NewTrack, EscalationAssumption DEF EscShape, EscalationAssumption, Fees
<1>3. RecordLeads
  BY <1>1 DEF RecordLeads
<1>4. TrackLeads /\ DueAnchored /\ RoomForBid
  BY <1>1, NewTrack DEF TrackLeads, DueAnchored, RoomForBid
<1> QED BY <1>2, <1>3, <1>4 DEF EscInv

\* A step that pays nothing, records nothing and starts no bid keeps it.
LEMMA LadderKept ==
  ASSUME EscInv, UNCHANGED <<rows, paid>>, DOMAIN track' = Offers,
         \A o \in Offers : SameLadder(track[o], track'[o]),
         flagged' \subseteq flagged, due' \subseteq due, fee' \in Fees,
         at' \in {"wallet", "node", "paying", "zero"} => cur' \in Offers /\ track'[cur'].anchored,
         at' \in {"paying", "zero"} =>
           cur' = cur /\ fee' = fee /\ cur \in Offers /\ at \in {"paying", "zero"}
  PROVE  EscInv'
<1> USE DEF EscInv
<1>1. EscShape'
  BY DEF EscShape, SameLadder
<1>2. RecordLeads'
  BY DEF RecordLeads
<1>3. TrackLeads'
  BY DEF TrackLeads, SameLadder
<1>4. DueAnchored'
  BY DEF DueAnchored, EscShape, SameLadder
<1>5. RoomForBid'
  BY DEF RoomForBid, SameLadder
<1> QED BY <1>1, <1>2, <1>3, <1>4, <1>5

\* A track that stays as it is keeps its ladder.
LEMMA StillKeeps ==
  ASSUME EscShape, track' = track
  PROVE  DOMAIN track' = Offers /\ \A o \in Offers : SameLadder(track[o], track'[o])
  BY DEF EscShape, SameLadder

\* The world, the gates and the clock, and the calls that only move the sweep on.
LEMMA StillStep ==
  ASSUME EscInv,
         \/ UNCHANGED vars
         \/ \E o \in Offers : \/ CoinSpent(o) \/ WalletReconciles(o) \/ Settled(o)
                              \/ Skipped(o) \/ Asks(o) \/ WalletSays(o) \/ ShortOfXch(o)
         \/ \E g \in Gates : GateCloses(g)
         \/ CancelAllEnds \/ Tick
  PROVE  EscInv'
<1>1. /\ UNCHANGED <<rows, paid, track, fee>> /\ due' \subseteq due /\ flagged' \subseteq flagged
      /\ \/ UNCHANGED <<at, cur>>
         \/ at' = "next"
         \/ at' = "wallet" /\ cur' \in due
         \/ at' = "node" /\ cur' = cur /\ at = "wallet"
         \/ at' = "zero" /\ cur' = cur /\ at = "paying"
  BY DEF vars, worldVars, alertVars, sweepVars, CoinSpent, WalletReconciles, Settled, Skipped,
         Asks, WalletSays, ShortOfXch, GateCloses, CancelAllEnds, Tick, NextDue
<1>2. DOMAIN track' = Offers /\ \A o \in Offers : SameLadder(track[o], track'[o])
  BY <1>1, StillKeeps DEF EscInv
<1>3. at' \in {"wallet", "node", "paying", "zero"} => cur' \in Offers /\ track'[cur'].anchored
  BY <1>1 DEF EscInv, EscShape, DueAnchored
<1>4. at' \in {"paying", "zero"} =>
        cur' = cur /\ fee' = fee /\ cur \in Offers /\ at \in {"paying", "zero"}
  BY <1>1, <1>3
<1> QED BY <1>1, <1>2, <1>3, <1>4, LadderKept DEF EscInv, EscShape

\* The end of a sweep on tracks that keep their ladders.
LEMMA EndStep ==
  ASSUME EscInv, NEW t, NEW q, Ends(t, q), UNCHANGED <<flagged, rows, paid>>,
         \A o \in Offers : SameLadder(track[o], t[o])
  PROVE  EscInv'
<1>1. track' = Marked(t, q) /\ due' = {} /\ at' = "idle" /\ fee' = 0
  BY DEF Ends
<1>2. DOMAIN track' = Offers /\ \A o \in Offers : SameLadder(t[o], track'[o])
  BY <1>1, MarkKeeps DEF SameLadder
<1>3. \A o \in Offers : SameLadder(track[o], track'[o])
  BY <1>2 DEF SameLadder
<1>4. 0 \in Fees
  BY EscalationAssumption DEF EscalationAssumption, Fees
<1> QED BY <1>1, <1>2, <1>3, <1>4, LadderKept

\* One track replaced by another of the same ladder.
LEMMA BecomeKeeps ==
  ASSUME EscShape, NEW c \in Offers, NEW t, SameLadder(track[c], t)
  PROVE  /\ DOMAIN Become(c, t) = Offers
         /\ \A o \in Offers : SameLadder(track[o], Become(c, t)[o])
  BY DEF EscShape, Become, SameLadder

\* A heartbeat that defers, and every way a sweep ends.
LEMMA SweepOver ==
  ASSUME EscInv,
         \/ HeartbeatDefers \/ SweepEnds \/ ProbeFails
         \/ \E o \in Offers : Yields(o) \/ RecordFails(o) \/ RecancelFails(o)
  PROVE  EscInv'
<1> USE DEF EscInv
<1>1. CASE HeartbeatDefers
  <2>1. \A o \in Offers : SameLadder(track[o], Aged[o])
    BY AgeKeeps
  <2>2. /\ DOMAIN track' = Offers
        /\ \A o \in Offers : SameLadder(Aged[o], track'[o])
    BY <1>1, <2>1, MarkKeeps DEF HeartbeatDefers, SameLadder
  <2>3. \A o \in Offers : SameLadder(track[o], track'[o])
    BY <2>1, <2>2 DEF SameLadder
  <2>4. UNCHANGED <<flagged, rows, paid, at, due, cur, fee>> /\ at = "idle"
    BY <1>1 DEF HeartbeatDefers, sweepVars
  <2> QED BY <2>2, <2>3, <2>4, LadderKept DEF EscShape
<1>2. CASE SweepEnds
  BY <1>2, EndStep DEF SweepEnds, EscShape, SameLadder
<1>3. CASE ProbeFails
  <2>1. cur \in Offers /\ IsTrack(track[cur])
    BY <1>3 DEF ProbeFails, DueAnchored, EscShape
  <2>2. \A o \in Offers : SameLadder(track[o], Become(cur, BackedOff(track[cur]))[o])
    BY <2>1, BackOffKeeps, BecomeKeeps
  <2> QED BY <1>3, <2>2, EndStep DEF ProbeFails
<1>4. CASE \E o \in Offers : Yields(o)
  BY <1>4, EndStep DEF Yields, EscShape, SameLadder
<1>5. CASE \E o \in Offers : RecordFails(o)
  <2>1. PICK o \in Offers : RecordFails(o)
    BY <1>5
  <2>2. \A p \in Offers : SameLadder(track[p], Become(o, BackedOff(track[o]))[p])
    BY BackOffKeeps, BecomeKeeps DEF EscShape
  <2> QED BY <2>1, <2>2, EndStep DEF RecordFails
<1>6. CASE \E o \in Offers : RecancelFails(o)
  <2>1. PICK o \in Offers : RecancelFails(o)
    BY <1>6
  <2>2. PICK t, q : Ends(Become(o, t), q) /\ \E e, w : t = [track[o] EXCEPT !.errs = e, !.wait = w]
    BY <2>1 DEF RecancelFails
  <2>3. \A p \in Offers : SameLadder(track[p], Become(o, t)[p])
    BY <2>2, ErrorKeeps, BecomeKeeps DEF EscShape
  <2> QED BY <2>1, <2>2, <2>3, EndStep DEF RecancelFails
<1> QED BY <1>1, <1>2, <1>3, <1>4, <1>5, <1>6

\* A verdict that pays nothing.
LEMMA VerdictStep ==
  ASSUME EscInv, NEW o \in Offers, NodeSays(o)
  PROVE  EscInv'
<1> USE DEF EscInv
<1>1. PICK coins \in proofs(o) : Judged(o, coins) /\ Verdict(o, coins) # "Escalate"
  BY DEF NodeSays
<1>2. Verdict(o, coins) \in {"Wait", "ResolvedByWallet", "Resolving", "NoProof", "Exhausted"}
  BY <1>1 DEF Verdict, decide_cancel_escalation
<1>3. PICK t, q : GoesOn(Become(o, t), q) /\ SameLadder(track[o], t)
  <2>1. IsTrack(track[o])
    BY DEF EscShape
  <2> QED BY <1>1, <1>2, <2>1, BackOffKeeps, WaitKeeps DEF Judged
<1>4. DOMAIN Become(o, t) = Offers /\ \A p \in Offers : SameLadder(track[p], Become(o, t)[p])
  BY <1>3, BecomeKeeps
<1>5. /\ track' = Become(o, t) /\ due' \subseteq due /\ fee' = 0 /\ at' = "next"
      /\ UNCHANGED <<flagged, rows, paid>>
  BY <1>3 DEF GoesOn, NodeSays
<1>6. 0 \in Fees
  BY EscalationAssumption DEF EscalationAssumption, Fees
<1> QED BY <1>4, <1>5, <1>6, LadderKept

\* A sweep begins: tracks of offers first seen are read from the record.
LEMMA SweepStep ==
  ASSUME EscInv, HeartbeatSweeps
  PROVE  EscInv'
<1> USE DEF EscInv
<1>1. PICK unread \in SUBSET {o \in flagged : ~track[o].anchored} :
        /\ track' = Followed(Marked(Aged, queued), unread)
        /\ due' \in Chosen(track')
        /\ at' = IF due' = {} THEN "idle" ELSE "first"
  BY DEF HeartbeatSweeps
<1>2. UNCHANGED <<flagged, rows, paid, fee>>
  BY DEF HeartbeatSweeps
<1> DEFINE m == Marked(Aged, queued)
<1>3. \A o \in Offers : SameLadder(track[o], m[o])
  <2>1. \A o \in Offers : SameLadder(track[o], Aged[o])
    BY AgeKeeps
  <2>2. \A o \in Offers : SameLadder(Aged[o], m[o])
    BY <2>1, MarkKeeps DEF SameLadder
  <2> QED BY <2>1, <2>2 DEF SameLadder
<1>4. \A o \in Offers :
        \/ track'[o] = NotSeen
        \/ SameLadder(track[o], track'[o])
        \/ track'[o] = Anchored(o)
  BY <1>1, <1>3 DEF Followed
<1>5. EscShape'
  <2>1. DOMAIN track' = Offers
    BY <1>1 DEF Followed
  <2>2. \A o \in Offers : IsTrack(track'[o])
    BY <1>4, NewTrack, AnchorReads DEF SameLadder
  <2>3. due' \subseteq Offers
    BY <1>1 DEF EscShape, Chosen
  <2> QED BY <1>2, <2>1, <2>2, <2>3 DEF EscShape
<1>6. RecordLeads'
  BY <1>2 DEF RecordLeads
<1>7. TrackLeads'
  <2> SUFFICES ASSUME NEW o \in Offers, track'[o].anchored
               PROVE  paid[o].n <= track'[o].esc /\ paid[o].fee <= track'[o].fee
    BY <1>2 DEF TrackLeads
  <2>1. CASE SameLadder(track[o], track'[o])
    BY <2>1 DEF TrackLeads, SameLadder
  <2>2. CASE track'[o] = Anchored(o)
    BY <2>2, AnchorReads DEF RecordLeads
  <2> QED BY <1>4, <2>1, <2>2, NewTrack
<1>8. DueAnchored'
  BY <1>1 DEF DueAnchored, Chosen, escalation_probe_due
<1>9. RoomForBid'
  BY <1>1 DEF RoomForBid
<1> QED BY <1>5, <1>6, <1>7, <1>8, <1>9

\* A bid is recorded before it is made.
LEMMA BidStep ==
  ASSUME EscInv, NEW o \in Offers, Escalates(o)
  PROVE  /\ EscInv'
         /\ fee' > paid[o].fee \/ fee' = MaxFee
<1> USE DEF EscInv
<1>1. PICK floor \in Floors : fee' = escalation_fee_mojos(track[o].fee, floor)
  BY DEF Escalates
<1>2. /\ UNCHANGED <<flagged, track, paid, due, cur>> /\ at' = "paying" /\ cur = o /\ at = "node"
      /\ rows' = [rows EXCEPT ![o] = [n   |-> Lesser(rows[o].n + 1, Cap),
                                     fee |-> Greater(rows[o].fee, fee')]]
  BY DEF Escalates, mark_offer_cancel_submitted, alertVars, may_pay, stranded
<1>3. track[o].fee \in Fees /\ track[o].esc \in Nat /\ track[o].anchored
  BY <1>2 DEF EscShape, IsTrack, DueAnchored
<1>4. fee' \in Fees /\ (fee' > track[o].fee \/ fee' = MaxFee)
  BY <1>1, <1>3, BidRises
<1>5. track[o].esc < Cap
  <2>1. PICK coins \in proofs(o) : Verdict(o, coins) = "Escalate"
    BY DEF Escalates, may_pay, stranded
  <2>2. ~(track[o].esc >= Cap)
    BY <2>1 DEF Verdict, decide_cancel_escalation
  <2> QED BY <1>3, <2>2, EscalationAssumption DEF EscalationAssumption
<1>6. paid[o].n <= track[o].esc /\ paid[o].fee <= track[o].fee
  BY <1>3 DEF TrackLeads
<1>7. /\ rows[o].n \in 0 .. Cap /\ rows[o].fee \in Fees
      /\ paid[o].n \in Nat /\ paid[o].fee \in Fees
      /\ paid[o].n <= rows[o].n /\ paid[o].fee <= rows[o].fee
  BY DEF EscShape, RecordLeads
<1>8. /\ rows'[o].n \in 0 .. Cap /\ rows'[o].fee \in Fees
      /\ paid[o].n < rows'[o].n /\ paid[o].fee <= rows'[o].fee /\ fee' <= rows'[o].fee
  <2>1. rows'[o].n = Lesser(rows[o].n + 1, Cap) /\ rows'[o].fee = Greater(rows[o].fee, fee')
    BY <1>2 DEF EscShape
  <2> QED BY <2>1, <1>3, <1>4, <1>5, <1>6, <1>7, EscalationAssumption
          DEF EscalationAssumption, Fees, Lesser, Greater
<1>9. EscShape'
  <2>1. rows' \in [Offers -> [n : 0 .. Cap, fee : Fees]]
    <3>1. [n |-> Lesser(rows[o].n + 1, Cap), fee |-> Greater(rows[o].fee, fee')]
            \in [n : 0 .. Cap, fee : Fees]
      BY <1>2, <1>8 DEF EscShape
    <3> QED BY <1>2, <3>1 DEF EscShape
  <2> QED BY <1>2, <1>4, <2>1 DEF EscShape
<1>10. RecordLeads'
  <2> SUFFICES ASSUME NEW p \in Offers
               PROVE  paid[p].n <= rows'[p].n /\ paid[p].fee <= rows'[p].fee
    BY <1>2 DEF RecordLeads
  <2>1. CASE p = o
    BY <1>7, <1>8, <2>1
  <2>2. CASE p # o
    BY <1>2, <2>2 DEF RecordLeads, EscShape
  <2> QED BY <2>1, <2>2
<1>11. TrackLeads' /\ DueAnchored'
  BY <1>2, <1>3 DEF TrackLeads, DueAnchored
<1>12. RoomForBid'
  BY <1>2, <1>5, <1>8 DEF RoomForBid
<1>13. fee' > paid[o].fee \/ fee' = MaxFee
  BY <1>3, <1>4, <1>6, <1>7, EscalationAssumption DEF EscalationAssumption, Fees
<1> QED BY <1>9, <1>10, <1>11, <1>12, <1>13

\* What the wallet accepts was recorded, and the track counts it.
LEMMA PaidStep ==
  ASSUME EscInv, NEW o \in Offers, Submitted(o)
  PROVE  EscInv'
<1> USE DEF EscInv
<1> DEFINE f == IF at = "zero" THEN 0 ELSE fee
           t == [track[o] EXCEPT !.esc = @ + 1, !.age = 0, !.wait = 0,
                                 !.fee = Greater(@, f), !.idle = 0, !.errs = 0]
<1>1. /\ track' = [track EXCEPT ![o] = t] /\ due' = due \ {cur} /\ fee' = 0 /\ at' = "next"
      /\ paid' = [paid EXCEPT ![o] = [n   |-> Lesser(paid[o].n + 1, Cap + 1),
                                     fee |-> Greater(paid[o].fee, f)]]
      /\ UNCHANGED <<flagged, rows>> /\ cur = o /\ at \in {"paying", "zero"}
  BY DEF Submitted, GoesOn, Become
<1>2. /\ track[o].esc < Cap /\ track[o].anchored /\ IsTrack(track[o])
      /\ paid[o].n < rows[o].n /\ fee <= rows[o].fee
  BY <1>1 DEF RoomForBid, DueAnchored, EscShape
<1>3. /\ rows[o].n \in 0 .. Cap /\ rows[o].fee \in Fees /\ fee \in Fees /\ 0 \in Fees
      /\ paid[o].n \in Nat /\ paid[o].fee \in Fees
      /\ paid[o].n <= track[o].esc /\ paid[o].fee <= track[o].fee
      /\ paid[o].fee <= rows[o].fee
  BY <1>2, EscalationAssumption
     DEF EscShape, RecordLeads, TrackLeads, EscalationAssumption, Fees
<1>4. f \in Fees /\ f <= rows[o].fee
  BY <1>2, <1>3 DEF Fees
<1>5. /\ DOMAIN t = Fields /\ t.esc = track[o].esc + 1
      /\ t.fee = Greater(track[o].fee, f) /\ t.anchored = track[o].anchored
  BY <1>2 DEF IsTrack, Fields
<1> DEFINE n2 == Lesser(paid[o].n + 1, Cap + 1)
           f2 == Greater(paid[o].fee, f)
<1>6. /\ IsTrack(t) /\ t.anchored
      /\ n2 \in Nat /\ f2 \in Fees
      /\ n2 <= t.esc /\ f2 <= t.fee /\ n2 <= rows[o].n /\ f2 <= rows[o].fee
  <2>1. track[o].esc \in Nat /\ track[o].fee \in Fees
    BY <1>2 DEF IsTrack
  <2>2. IsTrack(t) /\ t.anchored
    BY <2>1, <1>2, <1>4, <1>5 DEF IsTrack, Greater
  <2>3. f2 \in Fees /\ f2 <= t.fee /\ f2 <= rows[o].fee
    BY <2>1, <1>3, <1>4, <1>5, EscalationAssumption DEF Greater, Fees, EscalationAssumption
  <2>4. n2 \in Nat /\ n2 <= t.esc /\ n2 <= rows[o].n
    BY <2>1, <1>2, <1>3, <1>5, EscalationAssumption DEF Lesser, EscalationAssumption
  <2> QED BY <2>2, <2>3, <2>4
<1> HIDE DEF t, n2, f2
<1>7. /\ track'[o] = t /\ paid'[o] = [n |-> n2, fee |-> f2]
      /\ \A p \in Offers \ {o} : track'[p] = track[p] /\ paid'[p] = paid[p]
  BY <1>1 DEF EscShape, n2, f2
<1>8. EscShape'
  <2>1. [n |-> n2, fee |-> f2] \in [n : Nat, fee : Fees]
    BY <1>6
  <2>2. paid' \in [Offers -> [n : Nat, fee : Fees]]
    BY <1>1, <2>1 DEF EscShape, n2, f2
  <2>3. DOMAIN track' = Offers /\ \A p \in Offers : IsTrack(track'[p])
    BY <1>1, <1>6, <1>7 DEF EscShape
  <2> QED BY <1>1, <1>3, <2>2, <2>3 DEF EscShape
<1>9. RecordLeads'
  BY <1>1, <1>6, <1>7 DEF RecordLeads
<1>10. TrackLeads'
  BY <1>6, <1>7 DEF TrackLeads
<1>11. DueAnchored' /\ RoomForBid'
  BY <1>1, <1>6, <1>7 DEF DueAnchored, RoomForBid, EscShape
<1> QED BY <1>8, <1>9, <1>10, <1>11

\* The next process has new tracks and the record.
LEMMA CrashStep ==
  ASSUME EscInv, Crash
  PROVE  EscInv'
<1>1. /\ track' = [o \in Offers |-> NotSeen] /\ due' = {} /\ at' = "idle" /\ fee' = 0
      /\ UNCHANGED <<flagged, rows, paid>>
  BY DEF Crash
<1>2. EscShape'
  BY <1>1, NewTrack, EscalationAssumption DEF EscInv, EscShape, EscalationAssumption, Fees
<1>3. RecordLeads'
  BY <1>1 DEF EscInv, RecordLeads
<1>4. TrackLeads' /\ DueAnchored' /\ RoomForBid'
  BY <1>1, NewTrack DEF TrackLeads, DueAnchored, RoomForBid
<1> QED BY <1>2, <1>3, <1>4 DEF EscInv

\* Every step keeps the invariant.
LEMMA NextEsc == EscInv /\ [Next]_vars => EscInv'
<1> SUFFICES ASSUME EscInv, [Next]_vars PROVE EscInv'
  OBVIOUS
<1>1. CASE \/ UNCHANGED vars
           \/ \E o \in Offers : \/ CoinSpent(o) \/ WalletReconciles(o) \/ Settled(o)
                                \/ Skipped(o) \/ Asks(o) \/ WalletSays(o) \/ ShortOfXch(o)
           \/ \E g \in Gates : GateCloses(g)
           \/ CancelAllEnds \/ Tick
  BY <1>1, StillStep
<1>2. CASE \/ HeartbeatDefers \/ SweepEnds \/ ProbeFails
           \/ \E o \in Offers : Yields(o) \/ RecordFails(o) \/ RecancelFails(o)
  BY <1>2, SweepOver
<1>3. CASE \E o \in Offers : NodeSays(o)
  BY <1>3, VerdictStep
<1>4. CASE HeartbeatSweeps
  BY <1>4, SweepStep
<1>5. CASE \E o \in Offers : Escalates(o)
  BY <1>5, BidStep
<1>6. CASE \E o \in Offers : Submitted(o)
  BY <1>6, PaidStep
<1>7. CASE Crash
  BY <1>7, CrashStep
<1> QED BY <1>1, <1>2, <1>3, <1>4, <1>5, <1>6, <1>7 DEF Next, Sweeping, Probing

\* The invariant holds in every reachable state.
THEOREM EscalationInvariant == Spec => []EscInv
<1> QED BY InitEsc, NextEsc, PTL DEF Spec

\* However often the process dies and whatever is lost, refused or lands late, one
\* offer is not seen to be paid for more often than the cap.
THEOREM CapHolds == Spec => []CapSurvivesRestart
<1>1. EscInv => CapSurvivesRestart
  <2> SUFFICES ASSUME EscInv, NEW o \in Offers PROVE paid[o].n <= Cap
    BY DEF CapSurvivesRestart
  <2>1. paid[o].n \in Nat /\ rows[o].n \in 0 .. Cap /\ paid[o].n <= rows[o].n
    BY DEF EscInv, EscShape, RecordLeads
  <2> QED BY <2>1, EscalationAssumption DEF EscalationAssumption
<1> QED BY <1>1, EscalationInvariant, PTL

\* A verdict that pays nothing sends the sweep on.
LEMMA VerdictGoesOn ==
  ASSUME NEW o \in Offers, NodeSays(o)
  PROVE  at' = "next"
<1>1. PICK coins \in proofs(o) : Judged(o, coins) /\ Verdict(o, coins) # "Escalate"
  BY DEF NodeSays
<1>2. Verdict(o, coins) \in {"Wait", "ResolvedByWallet", "Resolving", "NoProof", "Exhausted"}
  BY <1>1 DEF Verdict, decide_cancel_escalation
<1> QED BY <1>1, <1>2 DEF Judged, GoesOn

\* Only an escalation makes a bid.
LEMMA BidIsEscalation ==
  ASSUME [Next]_vars, NEW o \in Offers, Bids(o)
  PROVE  Escalates(o)
<1>1. at' = "paying" /\ at # "paying" /\ cur' = o
  BY DEF Bids
<1>2. \E p \in Offers : Escalates(p)
  BY <1>1, VerdictGoesOn
     DEF Next, Sweeping, Probing, vars, worldVars, alertVars, sweepVars, CoinSpent,
         WalletReconciles, Settled, Skipped, Asks, WalletSays, ShortOfXch, GateCloses,
         CancelAllEnds, Tick, Crash, HeartbeatDefers, HeartbeatSweeps, SweepEnds, ProbeFails,
         Yields, RecordFails, RecancelFails, Ends, GoesOn, Submitted
<1> QED BY <1>1, <1>2 DEF Escalates, may_pay, stranded

\* Every bid is above all that was paid for the offer, in this process or before it,
\* or is the ceiling.
THEOREM BidsRise == Spec => FeeRises
<1>1. EscInv /\ [Next]_vars
      => [\A o \in Offers : Bids(o) => fee' > paid[o].fee \/ fee' = MaxFee]_vars
  BY BidIsEscalation, BidStep
<1> QED BY <1>1, EscalationInvariant, PTL DEF Spec, FeeRises

\* No bid is made under another cancel, nor for an offer State has let go of.
THEOREM BidsAreAlone == Spec => NoFeeUnderAnotherCancel
<1>1. [Next]_vars => [\A o \in Offers : Bids(o) => gates = {} /\ o \in flagged]_vars
  BY BidIsEscalation DEF Escalates, may_pay, escalation_must_yield
<1> QED BY <1>1, PTL DEF Spec, NoFeeUnderAnotherCancel
=============================================================================
