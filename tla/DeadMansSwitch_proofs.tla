------------------------ MODULE DeadMansSwitch_proofs ------------------------
(***************************************************************************)
(* Proofs about the dead man's switch, for any book, any number of tiers   *)
(* and clicks, any stall and any stop policy.                              *)
(*                                                                         *)
(* SwitchInv is inductive.  The calls in flight say whose each is          *)
(* (CallsMatch) and so which tier is in hand (TiersAreFresh); with that, a *)
(* sweep the wallet has taken leaves nothing resting but what is in hand   *)
(* (SweepCovers), and a tier leaves the poster's hands only into State or  *)
(* into the log (RestingAreKnown).  The stop's claim is never younger than *)
(* the heartbeat (ClaimCoversBeat), a latched fire is always somewhere     *)
(* (FireIsSpent), and while a Cancel All drains no cycle is past Step 8's  *)
(* gate (CancelAllGates).  Each part has a lemma, a case per actor.     *)
(***************************************************************************)
EXTENDS DeadMansSwitchProps, TLAPS

\* Who a request is from, and where in a posting it stands.
CallsMatch ==
  /\ \A c \in Clients \ {"cycle"} : call[c].req[1] # "create"
  /\ call["switch"].req = Sweep /\ call["exit"].req = Sweep
  /\ call["cycle"].req[1] = "create" => cycle = "create"
  /\ cycle = "create" => call["cycle"].req = <<"create", cur>>
  /\ cycle \in {"late", "expiry"} => call["cycle"].req = <<"cancel", cur>>
  /\ ca \in {"each_sent", "again_sent"} => call["all"].req[2] \in Offers

InHand == {"create", "dexie", "late", "expiry"}

\* A tier that has not been created is nowhere; one in hand is no other's.
TiersAreFresh ==
  /\ \A o \in untried : trade[o] = "absent" /\ entry[o] = "absent" /\ o \notin called
  /\ cycle \in InHand => cur \in Tiers \ untried /\ cur \notin called
  /\ cycle = "create" => entry[cur] = "absent"
  /\ cycle = "create" /\ call["cycle"].is \in {"sent", "refused"} => trade[cur] = "absent"
  /\ cycle \in {"late", "expiry"} /\ Is("cycle", "accepted") => trade[cur] # "open"

StopIsLatched ==
  /\ offers_kept => stop_requested
  /\ stop # "none" => stop_requested
  /\ stop \in {"ladder", "fallback", "falling"} => ~offers_kept
  /\ offers_kept /\ stop \in {"teardown", "down"} => ~posting
  /\ stop \in {"abandoned", "down"} => ioc = "over"

\* The claim is not younger than the heartbeat.
ClaimCoversBeat == graceful_cancel_active => beat <= claim

FireIsSpent ==
  /\ FireReachesBook
  /\ watchdog_fired => \/ sw \in {"book", "sent"}
                       \/ covered \/ cancel_failed \/ offers_kept
  /\ sw \in {"book", "sent"} => watchdog_fired

\* The wallet has taken a sweep of the switch, or of run().
swept ==
  \/ covered
  \/ sw = "sent" /\ Is("switch", "accepted")
  \/ run = "cancel" /\ Is("exit", "accepted")

SweepCovers ==
  /\ sw = "sent" <=> mtx = "switch"
  /\ run = "cancel" <=> mtx = "exit"
  /\ sw # "sent" => call["switch"].is = "idle"
  /\ run # "cancel" => call["exit"].is = "idle"
  /\ run # "loop" => ioc = "over"
  /\ swept => watchdog_fired \/ ioc = "over"
  /\ swept => \A o \in open :
                o \in unmanaged \/ (o = cur /\ cycle \in {"create", "late"})

\* Every offer of this run that rests is in State, in hand, or unanswered.
RestingAreKnown ==
  \A o \in open \cap Tiers : entry[o] # "absent" \/ o \in unmanaged \/ (o = cur /\ posting)

Managing == {"manage", "manage_sent", "post", "tiers", "posted"} \cup InHand

CancelAllGates ==
  /\ inflight <=> ca # "idle"
  /\ inflight => draining
  /\ \A o \in called : entry[o] # "open"
  /\ (\E o \in called : entry[o] = "cancel_pending") => draining
  /\ cycle = "boot" => ca = "idle" /\ called = {}
  /\ cycle \in Managing => ~inflight /\ ~draining

\* An engine whose run() is over was asked to stop, or its book has been seen to.
ExitIsTold == run = "exited" => stop_requested \/ covered \/ cancel_failed

SwitchInv ==
  /\ SwitchTypeOK /\ CallsMatch /\ TiersAreFresh /\ StopIsLatched /\ ClaimCoversBeat
  /\ FireIsSpent /\ SweepCovers /\ RestingAreKnown /\ CancelAllGates
  /\ ExitIsTold

\* What the wallet does to the trades and to the calls: it makes an offer only for
\* the create it was sent, and forgets none of a call but how it stands.
WalletMoved ==
  /\ \A o \in Offers :
       \/ trade'[o] = trade[o]
       \/ trade[o] = "open" /\ trade'[o] = "pending_cancel"
       \/ trade[o] = "pending_cancel" /\ trade'[o] = "cancelled"
       \/ /\ trade'[o] = "open" /\ call["cycle"].req = <<"create", o>>
          /\ Is("cycle", "sent") /\ call'["cycle"].is = "accepted"
  /\ \A c \in Clients :
       /\ call'[c].req = call[c].req
       /\ \/ call'[c].is = call[c].is
          \/ Is(c, "sent") /\ call'[c].is \in {"accepted", "refused", "unanswered"}
          \/ Is(c, "accepted") /\ call'[c].is = "unanswered"
       /\ ~Is(c, "accepted") /\ call'[c].is = "accepted" =>
            /\ call[c].req = Sweep => \A o \in Offers : trade'[o] # "open"
            /\ \A o \in Offers : call[c].req = <<"cancel", o>> => trade'[o] # "open"

\* What the wallet does on its own is such a move, and leaves the engine alone.
LEMMA WalletMoves ==
  ASSUME SwitchTypeOK, CallsMatch, Wallet
  PROVE  walletAlone /\ WalletMoved /\ SwitchTypeOK'
<1> USE DEF Is, Ends, Clients, Offers, Requests, WalletMoved, SwitchTypeOK,
             walletAlone,
            timeVars, latchVars, switchVars, bookVars, cycleVars, allVars, stopVars, seenVars
<1>1. CASE CancelLands /\ walletAlone
  BY <1>1 DEF CancelLands
<1>2. ASSUME NEW c \in Clients, Answer(c)
      PROVE  walletAlone /\ WalletMoved /\ SwitchTypeOK'
  <2>1. CASE GivesUp(c)
    BY <1>2, <2>1 DEF Answer, GivesUp
  <2>2. CASE WalletRefuses(c)
    BY <1>2, <2>2 DEF Answer, WalletRefuses, Cancelling, open
  <2>3. CASE WalletRuns(c)
    <3>1. CASE call[c].req[1] = "sweep"
      BY <1>2, <2>3, <3>1 DEF Answer, WalletRuns, Cancelling, Sweep
    <3>2. CASE call[c].req[1] = "cancel"
      BY <1>2, <2>3, <3>2 DEF Answer, WalletRuns, Cancelling, Sweep
    <3>3. CASE call[c].req[1] = "create"
      <4>1. c = "cycle" /\ Is("cycle", "sent") /\ call'["cycle"].is = "accepted"
        BY <2>3, <3>3 DEF WalletRuns, CallsMatch
      <4>2. PICK o : call["cycle"].req = <<"create", o>>
        BY <4>1, <3>3
      <4>3. trade' = [trade EXCEPT ![o] = "open"] /\ call' = [call EXCEPT !["cycle"].is = "accepted"]
        BY <2>3, <3>3, <4>1, <4>2 DEF WalletRuns
      <4>4. call["cycle"].req # Sweep /\ \A p \in Offers : call["cycle"].req # <<"cancel", p>>
        BY <4>2 DEF Sweep
      <4>5. WalletMoved
        BY <4>1, <4>2, <4>3, <4>4
      <4>6. SwitchTypeOK'
        BY <1>2, <4>3, ZenonT(40) DEF Answer
      <4> QED BY <1>2, <4>5, <4>6 DEF Answer
    <3> QED BY <3>1, <3>2, <3>3
  <2> QED BY <1>2, <2>1, <2>2, <2>3 DEF Answer
<1> QED BY <1>1, <1>2 DEF Wallet

\* What a Cancel All's flagging does.
LEMMA FlagMoves ==
  ASSUME SwitchTypeOK, NEW S \in SUBSET Offers, Flag(S)
  PROVE  /\ called' \subseteq Offers
         /\ \A o \in Offers :
           /\ entry'[o] = entry[o] \/ (entry[o] = "open" /\ entry'[o] = "cancel_pending")
           /\ o \in called => o \in called'
           /\ o \in called' => o \in called \/ (entry[o] = "open" /\ entry'[o] = "cancel_pending")
  BY DEF Flag, Flagged, SwitchTypeOK

\* Types: a request in flight is one of the three kinds, and ages stop at the limit.
LEMMA TypeStep ==
  ASSUME SwitchTypeOK, CallsMatch, TiersAreFresh, [Next]_vars
  PROVE  SwitchTypeOK'
<1> USE SwitchAssumption
         DEF SwitchTypeOK, Send, Take, Ends, Over, Is, Idle, Sweep, CallsMatch,
             TiersAreFresh, InHand, Offers, Clients, Requests, open, Cancelling,
             tracked, Flagged, Adopted, Later, SwitchAssumption, stepStill,
             engineStill, walletVars, timeVars, latchVars, switchVars, bookVars,
             cycleVars, allVars, stopVars, seenVars
<1>1. CASE UNCHANGED vars \/ Clock
  BY <1>1 DEF vars, Clock
<1>2. CASE Wallet
  BY <1>2, WalletMoves
<1>3. CASE Switch
  BY <1>3
     DEF Switch, SwitchWakes, SwitchTicks, SwitchLatches, SwitchCancels,
         SwitchIsAnswered, loopStill, CancelBook, BookCancelled
<1>4. CASE \/ Boot \/ Poll \/ Step8Gate \/ StaleCancel \/ StaleAnswered
           \/ NothingStale \/ PostRecheck
  BY <1>4
     DEF Boot, Poll, Step8Gate, gate, StaleCancel, StaleAnswered, NothingStale,
         PostRecheck
<1>5. CASE \/ PostTier \/ CreateAnswered \/ RetractAnswered \/ Published
           \/ PairPosted \/ CycleEnds
  BY <1>5
     DEF PostTier, Posted, CreateAnswered, Retracts, RetractAnswered, Published,
         PairPosted, CycleEnds, beatNow
<1>6. CASE AllStarts \/ AllSwept \/ AllRechecks \/ AllCancels \/ AllAnswered
  BY <1>6
     DEF AllStarts, allStill, AllSwept, AllEnds, Flag, Untold, AllRechecks,
         AllThrows, AllCancels, AllAnswered
<1>7. CASE StopLatches \/ StopSpawns \/ Stop
  BY <1>7
     DEF StopLatches, restStill, StopSpawns, stamped, beatNow, Stop, StopBegins,
         StopLadder, StopFallsBack, StopFellBack, StopDrains, StopTearsDown,
         unclaimed, CancelBook, BookCancelled
<1>8. CASE Run
  BY <1>8
     DEF Run, OutOfWork, RunReturns, RunDecides, RunCancelled, restStill,
         CancelBook, BookCancelled
<1> QED BY <1>1, <1>2, <1>3, <1>4, <1>5, <1>6, <1>7, <1>8 DEF Next, Cycle, AllGoesOn

\* Every client asks what is its own to ask, and a create is of the tier in hand.
LEMMA CallsStep ==
  ASSUME SwitchTypeOK, CallsMatch, [Next]_vars
  PROVE  CallsMatch'
<1> USE SwitchAssumption
         DEF SwitchTypeOK, CallsMatch, Send, Take, Ends, Over, Is, Idle, Sweep,
             Clients, open, stepStill, engineStill, walletVars, timeVars, latchVars,
             switchVars, bookVars, cycleVars, allVars, stopVars, seenVars
<1>1. CASE UNCHANGED vars \/ Clock
  BY <1>1 DEF vars, Clock
<1>2. CASE Wallet
  BY <1>2, WalletMoves DEF WalletMoved, walletAlone
<1>3. CASE Switch
  BY <1>3
     DEF Switch, SwitchWakes, SwitchTicks, SwitchLatches, SwitchCancels,
         SwitchIsAnswered, loopStill, CancelBook, BookCancelled
<1>4. CASE \/ Boot \/ Poll \/ Step8Gate \/ StaleCancel \/ StaleAnswered
           \/ NothingStale \/ PostRecheck
  BY <1>4
     DEF Boot, Poll, Step8Gate, gate, StaleCancel, StaleAnswered, NothingStale,
         PostRecheck
<1>5. CASE \/ PostTier \/ CreateAnswered \/ RetractAnswered \/ Published
           \/ PairPosted \/ CycleEnds
  BY <1>5
     DEF PostTier, Posted, CreateAnswered, Retracts, RetractAnswered, Published,
         PairPosted, CycleEnds, beatNow
<1>6. CASE AllStarts \/ AllSwept \/ AllRechecks \/ AllCancels \/ AllAnswered
  BY <1>6
     DEF AllStarts, allStill, AllSwept, AllEnds, Flag, Untold, AllRechecks,
         AllThrows, AllCancels, AllAnswered
<1>7. CASE StopLatches \/ StopSpawns \/ Stop
  BY <1>7
     DEF StopLatches, restStill, StopSpawns, stamped, beatNow, Stop, StopBegins,
         StopLadder, StopFallsBack, StopFellBack, StopDrains, StopTearsDown,
         unclaimed, CancelBook, BookCancelled
<1>8. CASE Run
  BY <1>8
     DEF Run, OutOfWork, RunReturns, RunDecides, RunCancelled, restStill,
         CancelBook, BookCancelled
<1> QED BY <1>1, <1>2, <1>3, <1>4, <1>5, <1>6, <1>7, <1>8 DEF Next, Cycle, AllGoesOn

\* A tier the cycle has not come to is nowhere; the one in hand no Cancel All has seen.
LEMMA FreshStep ==
  ASSUME SwitchTypeOK, CallsMatch, TiersAreFresh, CancelAllGates, [Next]_vars
  PROVE  TiersAreFresh'
<1> USE SwitchAssumption
         DEF SwitchTypeOK, CallsMatch, TiersAreFresh, CancelAllGates, Send, Take,
             Ends, Over, Is, Idle, Sweep, InHand, Managing, Clients, Offers, open,
             Cancelling, Flagged, Adopted, tracked, turning, SwitchAssumption,
             stepStill, engineStill, walletVars, timeVars, latchVars, switchVars,
             bookVars, cycleVars, allVars, stopVars, seenVars
<1>1. CASE UNCHANGED vars \/ Clock
  BY <1>1 DEF vars, Clock
<1>2. CASE Wallet
  BY <1>2, WalletMoves DEF WalletMoved, walletAlone
<1>3. CASE Switch
  BY <1>3
     DEF Switch, SwitchWakes, SwitchTicks, SwitchLatches, SwitchCancels,
         SwitchIsAnswered, loopStill, CancelBook, BookCancelled
<1>4. CASE \/ Boot \/ Poll \/ Step8Gate \/ StaleCancel \/ StaleAnswered
           \/ NothingStale \/ PostRecheck
  BY <1>4
     DEF Boot, Poll, Step8Gate, gate, StaleCancel, StaleAnswered, NothingStale,
         PostRecheck
<1>5. CASE \/ PostTier \/ CreateAnswered \/ RetractAnswered \/ Published
           \/ PairPosted \/ CycleEnds
  BY <1>5
     DEF PostTier, Posted, CreateAnswered, Retracts, RetractAnswered, Published,
         PairPosted, CycleEnds, beatNow
<1>6. CASE AllStarts
  BY <1>6 DEF AllStarts, allStill
<1>7. CASE AllSwept
  <2>1. Flag(tracked) \/ Untold
    BY <1>7 DEF AllSwept
  <2>2. tracked \in SUBSET Offers
    BY DEF tracked
  <2> QED BY <1>7, <2>1, <2>2, FlagMoves DEF AllSwept, AllEnds, allStill, Untold
<1>8. CASE AllRechecks
  <2>1. \/ Untold
        \/ \E S \in SUBSET Offers : Flag(S)
    <3>1. \A asked \in SUBSET tracked :
            {o \in asked : trade[o] = "pending_cancel"} \in SUBSET Offers
      BY DEF tracked
    <3> QED BY <1>8, <3>1 DEF AllRechecks
  <2>2. ca = "pause" /\ UNCHANGED <<allStill, walletVars, draining>>
    BY <1>8 DEF AllRechecks
  <2> QED BY <2>1, <2>2, FlagMoves DEF allStill, Untold
<1>9. CASE AllCancels \/ AllAnswered
  BY <1>9 DEF AllCancels, AllEnds, allStill, Untold, AllAnswered, Flag
<1>10. CASE StopLatches \/ StopSpawns \/ Stop
  BY <1>10
     DEF StopLatches, restStill, StopSpawns, stamped, beatNow, Stop, StopBegins,
         StopLadder, StopFallsBack, StopFellBack, StopDrains, StopTearsDown,
         unclaimed, CancelBook, BookCancelled
<1>11. CASE Run
  BY <1>11
     DEF Run, OutOfWork, RunReturns, RunDecides, RunCancelled, restStill,
         CancelBook, BookCancelled
<1> QED BY <1>1, <1>2, <1>3, <1>4, <1>5, <1>6, <1>7, <1>8, <1>9, <1>10, <1>11
       DEF Next, Cycle, AllGoesOn

\* A latched stop stays latched, and a keep waits for the create in hand.
LEMMA LatchStep ==
  ASSUME SwitchTypeOK, CallsMatch, StopIsLatched, [Next]_vars
  PROVE  StopIsLatched'
<1> USE SwitchAssumption
         DEF StopIsLatched, Send, Take, Ends, Over, Is, Idle, Sweep, posting,
             stepStill, engineStill, walletVars, timeVars, latchVars, switchVars,
             bookVars, cycleVars, allVars, stopVars, seenVars
<1>1. CASE UNCHANGED vars \/ Clock
  BY <1>1 DEF vars, Clock
<1>2. CASE Wallet
  BY <1>2, WalletMoves DEF WalletMoved, walletAlone
<1>3. CASE Switch
  BY <1>3
     DEF Switch, SwitchWakes, SwitchTicks, SwitchLatches, SwitchCancels,
         SwitchIsAnswered, loopStill, CancelBook, BookCancelled
<1>4. CASE \/ Boot \/ Poll \/ Step8Gate \/ StaleCancel \/ StaleAnswered
           \/ NothingStale \/ PostRecheck
  BY <1>4
     DEF Boot, Poll, Step8Gate, gate, StaleCancel, StaleAnswered, NothingStale,
         PostRecheck
<1>5. CASE \/ PostTier \/ CreateAnswered \/ RetractAnswered \/ Published
           \/ PairPosted \/ CycleEnds
  BY <1>5
     DEF PostTier, Posted, CreateAnswered, Retracts, RetractAnswered, Published,
         PairPosted, CycleEnds, beatNow
<1>6. CASE AllStarts \/ AllSwept \/ AllRechecks \/ AllCancels \/ AllAnswered
  BY <1>6
     DEF AllStarts, allStill, AllSwept, AllEnds, Flag, Untold, AllRechecks,
         AllThrows, AllCancels, AllAnswered
<1>7. CASE StopLatches \/ StopSpawns \/ Stop
  BY <1>7
     DEF StopLatches, restStill, StopSpawns, stamped, beatNow, Stop, StopBegins,
         StopLadder, StopFallsBack, StopFellBack, StopDrains, StopTearsDown,
         unclaimed, CancelBook, BookCancelled
<1>8. CASE Run
  BY <1>8
     DEF Run, OutOfWork, RunReturns, RunDecides, RunCancelled, restStill,
         CancelBook, BookCancelled
<1> QED BY <1>1, <1>2, <1>3, <1>4, <1>5, <1>6, <1>7, <1>8 DEF Next, Cycle, AllGoesOn

\* The stamp that starts a claim also renews the heartbeat, and both age together.
LEMMA ClaimStep ==
  ASSUME SwitchTypeOK, CallsMatch, ClaimCoversBeat, [Next]_vars
  PROVE  ClaimCoversBeat'
<1> USE SwitchAssumption
         DEF SwitchTypeOK, ClaimCoversBeat, Later, SwitchAssumption, stepStill,
             engineStill, walletVars, timeVars, latchVars, switchVars, bookVars,
             cycleVars, allVars, stopVars, seenVars
<1>1. CASE UNCHANGED vars
  BY <1>1 DEF vars
<1>2. CASE Clock
  BY <1>2 DEF Clock
<1>3. CASE Wallet
  BY <1>3, WalletMoves DEF WalletMoved, walletAlone
<1>4. CASE Switch
  BY <1>4
     DEF Switch, SwitchWakes, SwitchTicks, SwitchLatches, SwitchCancels,
         SwitchIsAnswered, loopStill, CancelBook, BookCancelled
<1>5. CASE \/ Boot \/ Poll \/ Step8Gate \/ StaleCancel \/ StaleAnswered
           \/ NothingStale \/ PostRecheck
  BY <1>5
     DEF Boot, Poll, Step8Gate, gate, StaleCancel, StaleAnswered, NothingStale,
         PostRecheck
<1>6. CASE PostTier \/ CreateAnswered
  BY <1>6 DEF PostTier, Posted, CreateAnswered, Retracts
<1>7. CASE RetractAnswered
  BY <1>7 DEF RetractAnswered
<1>8. CASE Published \/ PairPosted
  BY <1>8 DEF Published, PairPosted
<1>9. CASE CycleEnds
  BY <1>9 DEF CycleEnds, beatNow
<1>10. CASE AllStarts \/ AllSwept \/ AllRechecks \/ AllCancels \/ AllAnswered
  BY <1>10
     DEF AllStarts, allStill, AllSwept, AllEnds, Flag, Untold, AllRechecks,
         AllThrows, AllCancels, AllAnswered
<1>11. CASE StopLatches
  BY <1>11 DEF StopLatches, restStill
<1>12. CASE StopSpawns
  <2>1. CASE offers_kept
    BY <1>12, <2>1 DEF StopSpawns, stamped, beatNow
  <2>2. CASE ~offers_kept
    BY <1>12, <2>2 DEF StopSpawns, stamped, beatNow
  <2> QED BY <2>1, <2>2
<1>13. CASE Stop
  BY <1>13
     DEF Stop, StopBegins, StopLadder, StopFallsBack, StopFellBack, StopDrains,
         StopTearsDown, unclaimed, restStill, CancelBook, BookCancelled
<1>14. CASE Run
  BY <1>14
     DEF Run, OutOfWork, RunReturns, RunDecides, RunCancelled, restStill,
         CancelBook, BookCancelled
<1> QED BY <1>1, <1>2, <1>3, <1>4, <1>5, <1>6, <1>7, <1>8, <1>9, <1>10, <1>11,
       <1>12, <1>13, <1>14
       DEF Next, Cycle, AllGoesOn

\* From the tick that latches it to the wallet's answer, a fire is never lost.
LEMMA FireStep ==
  ASSUME SwitchTypeOK, CallsMatch, FireIsSpent, [Next]_vars
  PROVE  FireIsSpent'
<1> USE SwitchAssumption
         DEF FireIsSpent, Send, Take, Ends, Over, Is, Idle, Sweep, FireReachesBook,
             armed, fires, stepStill, engineStill, walletVars, timeVars, latchVars,
             switchVars, bookVars, cycleVars, allVars, stopVars, seenVars
<1>1. CASE UNCHANGED vars \/ Clock
  BY <1>1 DEF vars, Clock
<1>2. CASE Wallet
  BY <1>2, WalletMoves DEF WalletMoved, walletAlone
<1>3. CASE Switch
  <2>1. CASE SwitchWakes
    BY <2>1 DEF SwitchWakes, CancelBook, BookCancelled, loopStill
  <2>2. CASE SwitchTicks
    BY <2>2 DEF SwitchTicks, CancelBook, BookCancelled, loopStill
  <2>3. CASE SwitchLatches
    BY <2>3 DEF SwitchLatches, CancelBook, BookCancelled, loopStill
  <2>4. CASE SwitchCancels
    BY <2>4 DEF SwitchCancels, CancelBook, BookCancelled, loopStill
  <2>5. CASE SwitchIsAnswered
    BY <2>5 DEF SwitchIsAnswered, CancelBook, BookCancelled, loopStill
  <2> QED BY <1>3, <2>1, <2>2, <2>3, <2>4, <2>5 DEF Switch
<1>4. CASE \/ Boot \/ Poll \/ Step8Gate \/ StaleCancel \/ StaleAnswered
           \/ NothingStale \/ PostRecheck
  BY <1>4
     DEF Boot, Poll, Step8Gate, gate, StaleCancel, StaleAnswered, NothingStale,
         PostRecheck
<1>5. CASE \/ PostTier \/ CreateAnswered \/ RetractAnswered \/ Published
           \/ PairPosted \/ CycleEnds
  BY <1>5
     DEF PostTier, Posted, CreateAnswered, Retracts, RetractAnswered, Published,
         PairPosted, CycleEnds, beatNow
<1>6. CASE AllStarts \/ AllSwept \/ AllRechecks \/ AllCancels \/ AllAnswered
  BY <1>6
     DEF AllStarts, allStill, AllSwept, AllEnds, Flag, Untold, AllRechecks,
         AllThrows, AllCancels, AllAnswered
<1>7. CASE StopLatches \/ StopSpawns
  BY <1>7 DEF StopLatches, restStill, StopSpawns, stamped, beatNow
<1>8. CASE Stop
  <2>1. CASE StopBegins
    BY <2>1 DEF StopBegins, CancelBook, BookCancelled, restStill, unclaimed
  <2>2. CASE StopLadder
    BY <2>2 DEF StopLadder, CancelBook, BookCancelled, restStill, unclaimed
  <2>3. CASE StopFallsBack
    BY <2>3 DEF StopFallsBack, CancelBook, BookCancelled, restStill, unclaimed
  <2>4. CASE StopFellBack
    BY <2>4 DEF StopFellBack, CancelBook, BookCancelled, restStill, unclaimed
  <2>5. CASE StopDrains
    BY <2>5 DEF StopDrains, CancelBook, BookCancelled, restStill, unclaimed
  <2>6. CASE StopTearsDown
    BY <2>6 DEF StopTearsDown, CancelBook, BookCancelled, restStill, unclaimed
  <2> QED BY <1>8, <2>1, <2>2, <2>3, <2>4, <2>5, <2>6 DEF Stop
<1>9. CASE Run
  <2>1. CASE OutOfWork
    BY <2>1 DEF OutOfWork, CancelBook, BookCancelled, restStill
  <2>2. CASE RunReturns
    BY <2>2 DEF RunReturns, CancelBook, BookCancelled, restStill
  <2>3. CASE RunDecides
    BY <2>3 DEF RunDecides, CancelBook, BookCancelled, restStill
  <2>4. CASE RunCancelled
    BY <2>4 DEF RunCancelled, CancelBook, BookCancelled, restStill
  <2> QED BY <1>9, <2>1, <2>2, <2>3, <2>4 DEF Run
<1> QED BY <1>1, <1>2, <1>3, <1>4, <1>5, <1>6, <1>7, <1>8, <1>9
       DEF Next, Cycle, AllGoesOn

\* After the sweep only the create in hand can still land, and the abort predicate finds it.
LEMMA SweepStep ==
  ASSUME SwitchTypeOK, CallsMatch, TiersAreFresh, SweepCovers, FireIsSpent, [Next]_vars
  PROVE  SweepCovers'
<1> USE SwitchAssumption
         DEF SwitchTypeOK, CallsMatch, TiersAreFresh, SweepCovers, FireIsSpent,
             Send, Take, Ends, Over, Is, Idle, Sweep, swept, turning, too_late,
             InHand, Clients, Offers, open, Cancelling, stepStill, engineStill,
             walletVars, timeVars, latchVars, switchVars, bookVars, cycleVars,
             allVars, stopVars, seenVars
<1>1. CASE UNCHANGED vars \/ Clock
  BY <1>1 DEF vars, Clock
<1>2. CASE Wallet
  BY <1>2, WalletMoves DEF WalletMoved, walletAlone
<1>3. CASE Switch
  <2>1. CASE SwitchWakes
    BY <2>1 DEF SwitchWakes, CancelBook, BookCancelled, loopStill
  <2>2. CASE SwitchTicks
    BY <2>2 DEF SwitchTicks, CancelBook, BookCancelled, loopStill
  <2>3. CASE SwitchLatches
    BY <2>3 DEF SwitchLatches, CancelBook, BookCancelled, loopStill
  <2>4. CASE SwitchCancels
    BY <2>4 DEF SwitchCancels, CancelBook, BookCancelled, loopStill
  <2>5. CASE SwitchIsAnswered
    BY <2>5 DEF SwitchIsAnswered, CancelBook, BookCancelled, loopStill
  <2> QED BY <1>3, <2>1, <2>2, <2>3, <2>4, <2>5 DEF Switch
<1>4. CASE \/ Boot \/ Poll \/ Step8Gate \/ StaleCancel \/ StaleAnswered
           \/ NothingStale \/ PostRecheck
  BY <1>4
     DEF Boot, Poll, Step8Gate, gate, StaleCancel, StaleAnswered, NothingStale,
         PostRecheck
<1>5. CASE \/ PostTier \/ CreateAnswered \/ RetractAnswered \/ Published
           \/ PairPosted \/ CycleEnds
  BY <1>5
     DEF PostTier, Posted, CreateAnswered, Retracts, RetractAnswered, Published,
         PairPosted, CycleEnds, beatNow
<1>6. CASE AllStarts \/ AllSwept \/ AllRechecks \/ AllCancels \/ AllAnswered
  BY <1>6
     DEF AllStarts, allStill, AllSwept, AllEnds, Flag, Untold, AllRechecks,
         AllThrows, AllCancels, AllAnswered
<1>7. CASE StopLatches \/ StopSpawns
  BY <1>7 DEF StopLatches, restStill, StopSpawns, stamped, beatNow
<1>8. CASE Stop
  <2>1. CASE StopBegins
    BY <2>1 DEF StopBegins, CancelBook, BookCancelled, restStill, unclaimed
  <2>2. CASE StopLadder
    BY <2>2 DEF StopLadder, CancelBook, BookCancelled, restStill, unclaimed
  <2>3. CASE StopFallsBack
    BY <2>3 DEF StopFallsBack, CancelBook, BookCancelled, restStill, unclaimed
  <2>4. CASE StopFellBack
    BY <2>4 DEF StopFellBack, CancelBook, BookCancelled, restStill, unclaimed
  <2>5. CASE StopDrains
    BY <2>5 DEF StopDrains, CancelBook, BookCancelled, restStill, unclaimed
  <2>6. CASE StopTearsDown
    BY <2>6 DEF StopTearsDown, CancelBook, BookCancelled, restStill, unclaimed
  <2> QED BY <1>8, <2>1, <2>2, <2>3, <2>4, <2>5, <2>6 DEF Stop
<1>9. CASE Run
  <2>1. CASE OutOfWork
    BY <2>1 DEF OutOfWork, CancelBook, BookCancelled, restStill
  <2>2. CASE RunReturns
    BY <2>2 DEF RunReturns, CancelBook, BookCancelled, restStill
  <2>3. CASE RunDecides
    BY <2>3 DEF RunDecides, CancelBook, BookCancelled, restStill
  <2>4. CASE RunCancelled
    BY <2>4 DEF RunCancelled, CancelBook, BookCancelled, restStill
  <2> QED BY <1>9, <2>1, <2>2, <2>3, <2>4 DEF Run
<1> QED BY <1>1, <1>2, <1>3, <1>4, <1>5, <1>6, <1>7, <1>8, <1>9
       DEF Next, Cycle, AllGoesOn

\* A tier in hand is adopted, or logged as unanswered, before it leaves the poster's hands.
LEMMA RestStep ==
  ASSUME SwitchTypeOK, CallsMatch, TiersAreFresh, RestingAreKnown, [Next]_vars
  PROVE  RestingAreKnown'
<1> USE SwitchAssumption
         DEF SwitchTypeOK, CallsMatch, TiersAreFresh, RestingAreKnown, Send, Take,
             Ends, Over, Is, Idle, Sweep, posting, InHand, Clients, Offers, open,
             Cancelling, Flagged, Adopted, tracked, stepStill, engineStill,
             walletVars, timeVars, latchVars, switchVars, bookVars, cycleVars,
             allVars, stopVars, seenVars
<1>1. CASE UNCHANGED vars \/ Clock
  BY <1>1 DEF vars, Clock
<1>2. CASE Wallet
  BY <1>2, WalletMoves DEF WalletMoved, walletAlone
<1>3. CASE Switch
  BY <1>3
     DEF Switch, SwitchWakes, SwitchTicks, SwitchLatches, SwitchCancels,
         SwitchIsAnswered, loopStill, CancelBook, BookCancelled
<1>4. CASE \/ Boot \/ Poll \/ Step8Gate \/ StaleCancel \/ StaleAnswered
           \/ NothingStale \/ PostRecheck
  BY <1>4
     DEF Boot, Poll, Step8Gate, gate, StaleCancel, StaleAnswered, NothingStale,
         PostRecheck
<1>5. CASE \/ PostTier \/ CreateAnswered \/ RetractAnswered \/ Published
           \/ PairPosted \/ CycleEnds
  BY <1>5
     DEF PostTier, Posted, CreateAnswered, Retracts, RetractAnswered, Published,
         PairPosted, CycleEnds, beatNow
<1>6. CASE AllStarts \/ AllSwept \/ AllRechecks \/ AllCancels \/ AllAnswered
  BY <1>6
     DEF AllStarts, allStill, AllSwept, AllEnds, Flag, Untold, AllRechecks,
         AllThrows, AllCancels, AllAnswered
<1>7. CASE StopLatches \/ StopSpawns \/ Stop
  BY <1>7
     DEF StopLatches, restStill, StopSpawns, stamped, beatNow, Stop, StopBegins,
         StopLadder, StopFallsBack, StopFellBack, StopDrains, StopTearsDown,
         unclaimed, CancelBook, BookCancelled
<1>8. CASE Run
  BY <1>8
     DEF Run, OutOfWork, RunReturns, RunDecides, RunCancelled, restStill,
         CancelBook, BookCancelled
<1> QED BY <1>1, <1>2, <1>3, <1>4, <1>5, <1>6, <1>7, <1>8 DEF Next, Cycle, AllGoesOn

\* The gates close before a Cancel All is sent, and open when what it flagged is gone.
LEMMA GateStep ==
  ASSUME SwitchTypeOK, CallsMatch, TiersAreFresh, CancelAllGates, [Next]_vars
  PROVE  CancelAllGates'
<1> USE SwitchAssumption
         DEF SwitchTypeOK, CallsMatch, TiersAreFresh, CancelAllGates, Send, Take,
             Ends, Over, Is, Idle, Sweep, InHand, Managing, Offers, Flagged,
             Adopted, tracked, gate, still_draining, overtaken, turning, stepStill,
             engineStill, walletVars, timeVars, latchVars, switchVars, bookVars,
             cycleVars, allVars, stopVars, seenVars
<1>1. CASE UNCHANGED vars \/ Clock
  BY <1>1 DEF vars, Clock
<1>2. CASE Wallet
  BY <1>2, WalletMoves DEF WalletMoved, walletAlone
<1>3. CASE Switch
  BY <1>3
     DEF Switch, SwitchWakes, SwitchTicks, SwitchLatches, SwitchCancels,
         SwitchIsAnswered, loopStill, CancelBook, BookCancelled
<1>4. CASE Boot \/ Poll
  BY <1>4 DEF Boot, Poll
<1>5. CASE Step8Gate
  BY <1>5 DEF Step8Gate, gate
<1>6. CASE StaleCancel \/ StaleAnswered \/ NothingStale \/ PostRecheck
  BY <1>6 DEF StaleCancel, StaleAnswered, NothingStale, PostRecheck
<1>7. CASE \/ PostTier \/ CreateAnswered \/ RetractAnswered \/ Published
           \/ PairPosted \/ CycleEnds
  BY <1>7
     DEF PostTier, Posted, CreateAnswered, Retracts, RetractAnswered, Published,
         PairPosted, CycleEnds, beatNow
<1>8. CASE AllStarts
  BY <1>8 DEF AllStarts, allStill
<1>9. CASE AllSwept
  <2>1. Flag(tracked) \/ Untold
    BY <1>9 DEF AllSwept
  <2>2. tracked \in SUBSET Offers
    BY DEF tracked
  <2>3. /\ ca = "sweep" /\ UNCHANGED <<allStill, draining>>
        /\ \/ ca' = "idle" /\ inflight' = FALSE
           \/ ca' \in {"each", "pause"} /\ inflight' = inflight
    BY <1>9 DEF AllSwept, AllEnds
  <2>4. (inflight' <=> ca' # "idle") /\ (inflight' => inflight)
    BY <2>3
  <2> QED BY <2>1, <2>2, <2>3, <2>4, FlagMoves DEF allStill, Untold
<1>10. CASE AllRechecks
  <2>1. Untold \/ \E S \in SUBSET Offers : Flag(S)
    <3>1. \A asked \in SUBSET tracked :
            {o \in asked : trade[o] = "pending_cancel"} \in SUBSET Offers
      BY DEF tracked
    <3> QED BY <1>10, <3>1 DEF AllRechecks
  <2>2. ca = "pause" /\ UNCHANGED <<allStill, walletVars, draining>>
    BY <1>10 DEF AllRechecks
  <2>3. (ca' = "idle" /\ inflight' = FALSE) \/ (ca' = "again" /\ inflight' = inflight)
    BY <1>10 DEF AllRechecks, AllEnds, AllThrows
  <2>4. (inflight' <=> ca' # "idle") /\ (inflight' => inflight)
    BY <2>2, <2>3
  <2> QED BY <2>1, <2>2, <2>4, FlagMoves DEF allStill, Untold
<1>11. CASE AllCancels \/ AllAnswered
  BY <1>11 DEF AllCancels, AllEnds, allStill, Untold, AllAnswered, Flag
<1>12. CASE StopLatches \/ StopSpawns \/ Stop
  BY <1>12
     DEF StopLatches, restStill, StopSpawns, stamped, beatNow, Stop, StopBegins,
         StopLadder, StopFallsBack, StopFellBack, StopDrains, StopTearsDown,
         unclaimed, CancelBook, BookCancelled
<1>13. CASE Run
  BY <1>13
     DEF Run, OutOfWork, RunReturns, RunDecides, RunCancelled, restStill,
         CancelBook, BookCancelled
<1> QED BY <1>1, <1>2, <1>3, <1>4, <1>5, <1>6, <1>7, <1>8, <1>9, <1>10, <1>11,
       <1>12, <1>13
       DEF Next, Cycle, AllGoesOn

\* run() ends unasked only over a fired switch or after a cancel of its own.
LEMMA ExitStep ==
  ASSUME SwitchTypeOK, CallsMatch, ExitIsTold, StopIsLatched, FireIsSpent, [Next]_vars
  PROVE  ExitIsTold'
<1> USE SwitchAssumption
         DEF ExitIsTold, StopIsLatched, FireIsSpent, Send, Take, Ends, Over, Is,
             Idle, Sweep, joined, stepStill, engineStill, walletVars, timeVars,
             latchVars, switchVars, bookVars, cycleVars, allVars, stopVars, seenVars
<1>1. CASE UNCHANGED vars \/ Clock
  BY <1>1 DEF vars, Clock
<1>2. CASE Wallet
  BY <1>2, WalletMoves DEF WalletMoved, walletAlone
<1>3. CASE Switch
  BY <1>3
     DEF Switch, SwitchWakes, SwitchTicks, SwitchLatches, SwitchCancels,
         SwitchIsAnswered, loopStill, CancelBook, BookCancelled
<1>4. CASE \/ Boot \/ Poll \/ Step8Gate \/ StaleCancel \/ StaleAnswered
           \/ NothingStale \/ PostRecheck
  BY <1>4
     DEF Boot, Poll, Step8Gate, gate, StaleCancel, StaleAnswered, NothingStale,
         PostRecheck
<1>5. CASE \/ PostTier \/ CreateAnswered \/ RetractAnswered \/ Published
           \/ PairPosted \/ CycleEnds
  BY <1>5
     DEF PostTier, Posted, CreateAnswered, Retracts, RetractAnswered, Published,
         PairPosted, CycleEnds, beatNow
<1>6. CASE AllStarts \/ AllSwept \/ AllRechecks \/ AllCancels \/ AllAnswered
  BY <1>6
     DEF AllStarts, allStill, AllSwept, AllEnds, Flag, Untold, AllRechecks,
         AllThrows, AllCancels, AllAnswered
<1>7. CASE StopLatches \/ StopSpawns \/ Stop
  BY <1>7
     DEF StopLatches, restStill, StopSpawns, stamped, beatNow, Stop, StopBegins,
         StopLadder, StopFallsBack, StopFellBack, StopDrains, StopTearsDown,
         unclaimed, CancelBook, BookCancelled
<1>8. CASE Run
  BY <1>8
     DEF Run, OutOfWork, RunReturns, RunDecides, RunCancelled, restStill,
         CancelBook, BookCancelled
<1> QED BY <1>1, <1>2, <1>3, <1>4, <1>5, <1>6, <1>7, <1>8 DEF Next, Cycle, AllGoesOn

-----------------------------------------------------------------------------
\* The initial states satisfy the invariant.
LEMMA InitSwitch == Init => SwitchInv
<1> SUFFICES ASSUME Init PROVE SwitchInv
  OBVIOUS
<1>1. /\ entry = [o \in Offers |-> "absent"] /\ call = [c \in Clients |-> Idle]
      /\ trade = [o \in Offers |-> IF o \in Resting THEN "open" ELSE "absent"]
      /\ covered = FALSE /\ fired = FALSE /\ watchdog_fired = FALSE
      /\ cycle = "boot" /\ run = "loop" /\ stop = "none" /\ mtx = "free"
      /\ sw \in {"sleep", "exited"} /\ ca = "idle" /\ called = {} /\ untried = Tiers
      /\ beat = 0 /\ claim = 0 /\ clicks = 0 /\ cur = NoOffer
      /\ ca_todo = {} /\ unmanaged = {}
      /\ offers_kept = FALSE /\ graceful_cancel_active = FALSE
      /\ inflight = FALSE /\ draining = FALSE
  BY DEF Init
<1>2. SwitchTypeOK
  <2>1. Idle \in [req : Requests, is : {"idle", "sent", "accepted", "refused", "unanswered"}]
    BY DEF Idle, Sweep, Requests
  <2>2. call \in [Clients -> [req : Requests,
                              is : {"idle", "sent", "accepted", "refused", "unanswered"}]]
    BY <1>1, <2>1
  <2>3. /\ trade \in [Offers -> {"absent", "open", "pending_cancel", "cancelled"}]
        /\ entry \in [Offers -> {"absent", "open", "cancel_pending"}]
    BY <1>1
  <2>4. beat \in 0 .. Stall /\ claim \in 0 .. Stall /\ clicks \in 0 .. MaxClicks
    BY <1>1, SwitchAssumption DEF SwitchAssumption
  <2> QED BY <1>1, <2>2, <2>3, <2>4 DEF SwitchTypeOK
<1>3. \A c \in Clients : call[c] = Idle
  BY <1>1
<1>4. CallsMatch
  <2>1. \A c \in Clients : call[c].req = Sweep
    BY <1>3 DEF Idle
  <2> QED BY <1>1, <2>1 DEF CallsMatch, Clients, Sweep
<1>5. TiersAreFresh
  BY <1>1, SwitchAssumption DEF TiersAreFresh, InHand, Offers, SwitchAssumption
<1>6. StopIsLatched /\ ClaimCoversBeat /\ FireIsSpent /\ ExitIsTold
  BY <1>1, SwitchAssumption
     DEF StopIsLatched, ClaimCoversBeat, FireIsSpent, FireReachesBook, ExitIsTold,
         SwitchAssumption
<1>7. SweepCovers
  BY <1>1, <1>3 DEF SweepCovers, swept, Idle, Is, Clients
<1>8. RestingAreKnown
  BY <1>1, SwitchAssumption DEF RestingAreKnown, open, Offers, SwitchAssumption
<1>9. CancelAllGates
  BY <1>1 DEF CancelAllGates, Managing, InHand
<1> QED BY <1>2, <1>4, <1>5, <1>6, <1>7, <1>8, <1>9 DEF SwitchInv

\* Every step keeps it: each part from itself and the parts it rests on.
LEMMA SwitchStep == SwitchInv /\ [Next]_vars => SwitchInv'
<1> SUFFICES ASSUME SwitchInv, [Next]_vars PROVE SwitchInv'
  OBVIOUS
<1> USE DEF SwitchInv
<1>1. SwitchTypeOK'
  BY TypeStep
<1>2. CallsMatch' /\ TiersAreFresh'
  BY CallsStep, FreshStep
<1>3. StopIsLatched' /\ ClaimCoversBeat'
  BY LatchStep, ClaimStep
<1>4. FireIsSpent' /\ SweepCovers'
  BY FireStep, SweepStep
<1>5. RestingAreKnown' /\ CancelAllGates' /\ ExitIsTold'
  BY RestStep, GateStep, ExitStep
<1> QED BY <1>1, <1>2, <1>3, <1>4, <1>5

\* The invariant holds throughout, for any stall, any book, any stop policy and
\* any number of clicks.
THEOREM SwitchInvariant == Spec => []SwitchInv
  BY InitSwitch, SwitchStep, PTL DEF Spec

\* Every variable has its type.
THEOREM SwitchTypeCorrect == Spec => []SwitchTypeOK
<1>1. SwitchInv => SwitchTypeOK
  BY DEF SwitchInv
<1> QED BY <1>1, SwitchInvariant, PTL

-----------------------------------------------------------------------------
\* The switch's cancel leaves no offer resting but those somebody still answers for.
THEOREM CancelCoversBook == Spec => []SwitchCoversBook
<1>1. SwitchInv => SwitchCoversBook
  BY DEF SwitchInv, SweepCovers, swept, SwitchCoversBook
<1> QED BY <1>1, SwitchInvariant, PTL

\* A stall that was latched is spent on the book.
THEOREM FireIsNotLost == Spec => []FireReachesBook
<1>1. SwitchInv => FireReachesBook
  BY DEF SwitchInv, FireIsSpent
<1> QED BY <1>1, SwitchInvariant, PTL

\* A stop that keeps the book knows of every offer of this run that rests.
THEOREM KeepKnowsItsBook == Spec => []KeepForgetsNothing
<1>1. SwitchInv => KeepForgetsNothing
  BY DEF SwitchInv, StopIsLatched, RestingAreKnown, KeepForgetsNothing
<1> QED BY <1>1, SwitchInvariant, PTL

\* An engine that died of itself has had its book cancelled, or has said so.
THEOREM ExitIsCovered == Spec => []DeadEngineIsSwept
<1>1. SwitchInv => DeadEngineIsSwept
  BY DEF SwitchInv, ExitIsTold, DeadEngineIsSwept
<1> QED BY <1>1, SwitchInvariant, PTL

\* The switch does not fire over a stop's cancel before its grace is over.
THEOREM GraceIsKept == Spec => GraceIsGiven
<1>1. ASSUME SwitchInv, [Next]_vars, sw = "tick", sw' = "latch", graceful_cancel_active
      PROVE  claim = Stall
  <2>1. beat = Stall
    <3>1. CASE Switch
      BY <1>1, <3>1
         DEF Switch, SwitchWakes, SwitchTicks, SwitchLatches, SwitchCancels,
             SwitchIsAnswered, fires
    <3>2. UNCHANGED sw \/ Switch
      BY <1>1
         DEF Next, vars, switchVars, Wallet, Answer, walletAlone, Clock, Cycle,
             engineStill, stepStill, Boot, Poll, Step8Gate, StaleCancel, StaleAnswered,
             NothingStale, PostRecheck, PostTier, CreateAnswered, RetractAnswered,
             Published, PairPosted, CycleEnds, allStill, AllStarts, AllGoesOn, AllSwept,
             AllRechecks, AllCancels, AllAnswered, restStill, StopLatches, StopSpawns,
             Stop, StopBegins, StopLadder, StopFallsBack, StopFellBack, StopDrains,
             StopTearsDown, Run, OutOfWork, RunReturns, RunDecides, RunCancelled
    <3> QED BY <1>1, <3>1, <3>2
  <2>2. beat <= claim /\ claim \in 0 .. Stall /\ Stall \in Nat
    BY <1>1, SwitchAssumption
       DEF SwitchInv, ClaimCoversBeat, SwitchTypeOK, SwitchAssumption
  <2> QED BY <2>1, <2>2
<1>2. SwitchInv /\ [Next]_vars
      => [sw = "tick" /\ sw' = "latch" /\ graceful_cancel_active => claim = Stall]_vars
  BY <1>1
<1> QED BY <1>2, SwitchInvariant, PTL DEF Spec, GraceIsGiven

\* Nothing is created from a Cancel All until the offers it flagged are gone.
THEOREM CancelAllHolds == Spec => NothingPostedOverCancelAll
<1>1. ASSUME SwitchInv, cycle = "tiers"
      PROVE  ~inflight /\ \A o \in called : entry[o] # "cancel_pending"
  BY <1>1 DEF SwitchInv, CancelAllGates, Managing
<1>2. SwitchInv /\ [Next]_vars
      => [cycle = "tiers" /\ cycle' = "create" =>
            ~inflight /\ \A o \in called : entry[o] # "cancel_pending"]_vars
  BY <1>1
<1> QED BY <1>2, SwitchInvariant, PTL DEF Spec, NothingPostedOverCancelAll
=============================================================================
