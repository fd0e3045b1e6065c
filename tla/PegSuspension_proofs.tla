----------------------- MODULE PegSuspension_proofs -----------------------
(***************************************************************************)
(* Proofs about the peg watch, for any set of assets and pairs, any choice *)
(* of wrappers, listings and waived guards, and any sustained count.       *)
(***************************************************************************)
EXTENDS PegSuspensionProps, TLAPS

\* A peg that has not been suspended has not reached the count.
CountedShort == \A a \in Assets \ suspended : above_bail[a] < Needed

\* No line of the file can clear a suspension that began after it was written: the
\* loop passes a height only with a file it has read and removed, and a line written
\* since is about a peg suspended at the time.
FlagIsAsked ==
  /\ flag \cap suspended \subseteq asked
  /\ pc = "height" => flag \subseteq asked
  /\ pc \in {"market", "observe"} => flag \cap enforced \subseteq suspended

\* What Step 4 may use: references that no suspension is newer than.
FreshReferences ==
  pc = "quote" => \A p \in valid : Legs[p] \cap suspended \subseteq ref

QuotedAreAllowed ==
  pc = "post" => \A p \in quoted :
                   pair_peg_suspended(p) => p \in Waived /\ Legs[p] \cap suspended \subseteq ref

PegInv == /\ PegTypeOK /\ CountedShort
          /\ FlagIsAsked /\ FreshReferences /\ QuotedAreAllowed

\* The count is at least one, whatever the configuration says.
LEMMA NeededPositive == Needed \in Nat /\ Needed >= 1
  BY PegAssumption DEF PegAssumption, Needed

-----------------------------------------------------------------------------
\* The initial states satisfy the invariant.
LEMMA InitPeg == Init => PegInv
<1> SUFFICES ASSUME Init PROVE PegInv
  OBVIOUS
<1>1. PegTypeOK
  <2>1. /\ enforced = Assets /\ above_bail = [a \in Assets |-> 0] /\ suspended = {}
        /\ book = [p \in Pairs |-> "none"] /\ flag = {} /\ asked = {} /\ pc = "poll"
        /\ crashes = 0 /\ cancel_alls = 0
        /\ ref = {} /\ valid = {} /\ quoted = {} /\ to_cancel = {}
    BY DEF Init
  <2>2. price \in [Assets -> {"par", "off"}]
        /\ mid \in [Assets -> {"graded", "listing", "ungraded", "none"}]
    BY DEF Init, AllPar, NoMids
  <2>3. feed \in BOOLEAN /\ cancel_all \in BOOLEAN
    BY Zenon DEF Init
  <2>4. crashes \in 0 .. MaxCrashes /\ cancel_alls \in 0 .. MaxCancelAlls
    BY <2>1, PegAssumption DEF PegAssumption
  <2> QED BY <2>1, <2>2, <2>3, <2>4, NeededPositive DEF PegTypeOK
<1>2. CountedShort
  <2>1. \A a \in Assets : above_bail[a] = 0
    BY DEF Init
  <2>2. 0 < Needed
    BY NeededPositive
  <2> QED BY <2>1, <2>2 DEF CountedShort
<1>3. FlagIsAsked /\ FreshReferences /\ QuotedAreAllowed
  BY DEF Init, FlagIsAsked, FreshReferences, QuotedAreAllowed
<1> QED BY <1>1, <1>2, <1>3 DEF PegInv

\* What one observation does to the count of an asset: the run grows by one or is
\* held, or it ends.
LEMMA ObservedCount ==
  ASSUME PegInv, NEW a \in Assets, NEW seen
  PROVE  /\ observe_peg(a, seen) \in 0 .. Needed
         /\ a \in suspended => observe_peg(a, seen) = above_bail[a]
         /\ a \notin enforced => observe_peg(a, seen) = above_bail[a]
<1>1. above_bail[a] \in 0 .. Needed
  BY DEF PegInv, PegTypeOK
<1>2. a \notin suspended => above_bail[a] < Needed
  BY DEF PegInv, CountedShort
<1> QED BY <1>1, <1>2, NeededPositive DEF observe_peg

-----------------------------------------------------------------------------
(* The steps that touch the latch. *)

\* An observation keeps the invariant.
LEMMA ObserveStep ==
  ASSUME PegInv, step_observe_asset_pegs
  PROVE  PegInv'
<1> USE DEF PegInv
<1>1. PICK anchor \in usd_per_xch_anchor :
        above_bail' = [a \in Assets |-> observe_peg(a, peg_usd_observation(anchor, a))]
  BY DEF step_observe_asset_pegs
<1>2. \A a \in Assets : /\ above_bail'[a] \in 0 .. Needed
                        /\ a \notin enforced => above_bail'[a] = above_bail[a]
  BY <1>1, ObservedCount
<1>3. /\ above_bail' \in [Assets -> 0 .. Needed]
      /\ suspended' = suspended \cup {a \in enforced : above_bail'[a] >= Needed}
      /\ asked' = asked \ (suspended' \ suspended)
      /\ enforced' = enforced /\ flag' = flag /\ pc = "observe" /\ pc' = "cancel"
  BY <1>1, <1>2 DEF step_observe_asset_pegs
<1>4. PegTypeOK'
  <2>1. to_cancel' \subseteq Pairs
    BY DEF step_observe_asset_pegs, CancelScan
  <2>2. price' \in [Assets -> {"par", "off"}] /\ feed' \in BOOLEAN
        /\ mid' \in [Assets -> {"graded", "listing", "ungraded", "none"}]
    BY DEF step_observe_asset_pegs, Unread, AllPar, NoMids
  <2>3. suspended' \subseteq enforced' /\ asked' \subseteq suspended'
    BY <1>3 DEF PegTypeOK
  <2> QED BY <1>3, <2>1, <2>2, <2>3 DEF PegTypeOK, step_observe_asset_pegs, otherVars
<1>5. CountedShort'
  <2> SUFFICES ASSUME NEW a \in Assets, a \notin suspended' PROVE above_bail'[a] < Needed
    BY DEF CountedShort, Needed
  <2>1. CASE a \in enforced
    BY <1>2, <1>3, <2>1, NeededPositive
  <2>2. CASE a \notin enforced
    BY <1>2, <1>3, <2>2 DEF CountedShort
  <2> QED BY <2>1, <2>2
<1>6. FlagIsAsked'
  BY <1>3 DEF FlagIsAsked, PegTypeOK
<1>7. FreshReferences' /\ QuotedAreAllowed'
  BY <1>3 DEF FreshReferences, QuotedAreAllowed
<1> QED BY <1>4, <1>5, <1>6, <1>7

\* The operator's file and a new configuration keep it.
LEMMA ReenableStep ==
  ASSUME PegInv, check_peg_reenable_flag
  PROVE  PegInv'
<1> USE DEF PegInv, check_peg_reenable_flag
<1>1. PegTypeOK'
  BY NeededPositive DEF PegTypeOK, marketVars, cycleVars, otherVars
<1>2. CountedShort'
  BY NeededPositive DEF CountedShort, Needed, PegTypeOK
<1>3. FlagIsAsked' /\ FreshReferences' /\ QuotedAreAllowed'
  BY DEF FlagIsAsked, FreshReferences, QuotedAreAllowed
<1> QED BY <1>1, <1>2, <1>3

LEMMA BeatStep ==
  ASSUME PegInv, Beat
  PROVE  PegInv'
<1> USE DEF PegInv, Beat
<1>1. PICK now \in SUBSET Assets : Reload(now)
  OBVIOUS
<1>2. PegTypeOK'
  BY <1>1, NeededPositive DEF Reload, PegTypeOK, marketVars, cycleVars, otherVars
<1>3. CountedShort'
  BY <1>1, NeededPositive DEF Reload, CountedShort, Needed, PegTypeOK
<1>4. FlagIsAsked' /\ FreshReferences' /\ QuotedAreAllowed'
  BY <1>1 DEF Reload, FlagIsAsked, FreshReferences, QuotedAreAllowed, PegTypeOK
<1> QED BY <1>2, <1>3, <1>4

\* A crash forgets the latch and leaves the file.
LEMMA CrashStep ==
  ASSUME PegInv, Crash
  PROVE  PegInv'
<1> USE DEF PegInv, Crash
<1>1. PegTypeOK'
  <2>1. cancel_all' \in BOOLEAN /\ feed' \in BOOLEAN
    BY Zenon DEF Unread
  <2>2. crashes' \in 0 .. MaxCrashes
    BY PegAssumption DEF PegAssumption, PegTypeOK
  <2>3. price' \in [Assets -> {"par", "off"}]
        /\ mid' \in [Assets -> {"graded", "listing", "ungraded", "none"}]
    BY DEF Unread, AllPar, NoMids
  <2>4. above_bail' \in [Assets -> 0 .. Needed]
    BY NeededPositive
  <2> QED BY <2>1, <2>2, <2>3, <2>4 DEF PegTypeOK
<1>2. CountedShort'
  BY NeededPositive DEF CountedShort, Needed
<1>3. FlagIsAsked' /\ FreshReferences' /\ QuotedAreAllowed'
  BY DEF FlagIsAsked, FreshReferences, QuotedAreAllowed
<1> QED BY <1>1, <1>2, <1>3

-----------------------------------------------------------------------------
(* The steps that leave the latch alone. *)

\* With the latch as it was, the count stays short of the limit.
LEMMA CountKept ==
  ASSUME CountedShort, UNCHANGED latchVars
  PROVE  CountedShort'
  BY DEF CountedShort, latchVars, Needed

LEMMA LoopStep ==
  ASSUME PegInv, CancelAllStarts \/ RemoveFlag \/ NoNewBlock \/ BeatEnds \/ CancelThrows
  PROVE  PegInv'
<1> USE DEF PegInv, CancelAllStarts, RemoveFlag, NoNewBlock, BeatEnds, CancelThrows
<1>1. PegTypeOK'
  <2>1. cancel_all' \in BOOLEAN
    BY Zenon DEF PegTypeOK, otherVars
  <2>2. cancel_alls' \in 0 .. MaxCancelAlls
    BY PegAssumption DEF PegAssumption, PegTypeOK, otherVars
  <2> QED BY <2>1, <2>2 DEF PegTypeOK, marketVars, latchVars, cycleVars, fileVars, otherVars
<1>2. CountedShort'
  BY CountKept
<1>3. FlagIsAsked' /\ FreshReferences' /\ QuotedAreAllowed'
  BY DEF FlagIsAsked, FreshReferences, QuotedAreAllowed, pair_peg_suspended,
         latchVars, cycleVars, fileVars, PegTypeOK
<1> QED BY <1>1, <1>2, <1>3

LEMMA MarketStep ==
  ASSUME PegInv, step_update_market_state \/ MarketFails
  PROVE  PegInv'
<1> USE DEF PegInv, step_update_market_state, MarketFails
<1>1. PegTypeOK'
  BY DEF PegTypeOK, MarketData, marketVars, latchVars, fileVars, otherVars
<1>2. CountedShort'
  BY CountKept
<1>3. FlagIsAsked' /\ FreshReferences' /\ QuotedAreAllowed'
  BY DEF FlagIsAsked, FreshReferences, QuotedAreAllowed, MarketData, latchVars, fileVars
<1> QED BY <1>1, <1>2, <1>3

LEMMA QuoteStep ==
  ASSUME PegInv, revalidate_after_peg_observation \/ step_compute_quotes
  PROVE  PegInv'
<1> USE DEF PegInv, revalidate_after_peg_observation, step_compute_quotes
<1>1. PegTypeOK'
  BY DEF PegTypeOK, marketVars, latchVars, fileVars, otherVars
<1>2. CountedShort'
  BY CountKept
<1>3. FlagIsAsked'
  BY DEF FlagIsAsked, latchVars, fileVars
<1>4. FreshReferences'
  BY DEF FreshReferences, latchVars
<1>5. QuotedAreAllowed'
  BY DEF QuotedAreAllowed, FreshReferences, pair_peg_suspended, latchVars
<1> QED BY <1>1, <1>2, <1>3, <1>4, <1>5

LEMMA OfferStep ==
  ASSUME PegInv, NEW p \in Pairs, Submitted(p) \/ Refused(p) \/ Post(p) \/ Over(p)
  PROVE  PegInv'
<1> USE DEF PegInv, Submitted, Refused, Post, Over
<1>1. PegTypeOK'
  BY DEF PegTypeOK, marketVars, latchVars, cycleVars, fileVars, otherVars
<1>2. CountedShort'
  BY CountKept
<1>3. FlagIsAsked'
  BY DEF FlagIsAsked, latchVars, fileVars
<1>4. FreshReferences' /\ QuotedAreAllowed'
  BY DEF FreshReferences, QuotedAreAllowed, pair_peg_suspended, latchVars, cycleVars
<1> QED BY <1>1, <1>2, <1>3, <1>4

LEMMA BesideStep ==
  ASSUME PegInv, CancelAllEnds \/ \E a \in Assets : Click(a)
  PROVE  PegInv'
<1> USE DEF PegInv, CancelAllEnds, Click
<1>1. PegTypeOK'
  BY DEF PegTypeOK, marketVars, latchVars, cycleVars, fileVars, otherVars
<1>2. CountedShort'
  BY CountKept
<1>3. FlagIsAsked'
  BY DEF FlagIsAsked, latchVars, fileVars
<1>4. FreshReferences' /\ QuotedAreAllowed'
  BY DEF FreshReferences, QuotedAreAllowed, pair_peg_suspended, latchVars, cycleVars
<1> QED BY <1>1, <1>2, <1>3, <1>4

\* Every step keeps the invariant.
LEMMA NextPeg == PegInv /\ [Next]_vars => PegInv'
<1> SUFFICES ASSUME PegInv, [Next]_vars PROVE PegInv'
  OBVIOUS
<1>1. CASE step_observe_asset_pegs
  BY <1>1, ObserveStep
<1>2. CASE check_peg_reenable_flag
  BY <1>2, ReenableStep
<1>3. CASE Beat
  BY <1>3, BeatStep
<1>4. CASE Crash
  BY <1>4, CrashStep
<1>5. CASE CancelAllStarts \/ RemoveFlag \/ NoNewBlock \/ BeatEnds \/ CancelThrows
  BY <1>5, LoopStep
<1>6. CASE step_update_market_state \/ MarketFails
  BY <1>6, MarketStep
<1>7. CASE revalidate_after_peg_observation \/ step_compute_quotes
  BY <1>7, QuoteStep
<1>8. CASE \E p \in Pairs : Submitted(p) \/ Refused(p) \/ Post(p) \/ Over(p)
  BY <1>8, OfferStep
<1>9. CASE CancelAllEnds \/ \E a \in Assets : Click(a)
  BY <1>9, BesideStep
<1>10. CASE UNCHANGED vars
  BY <1>10 DEF PegInv, PegTypeOK, CountedShort, FlagIsAsked, FreshReferences,
               QuotedAreAllowed, pair_peg_suspended, Needed, vars, marketVars, latchVars,
               cycleVars, fileVars, otherVars
<1> QED BY <1>1, <1>2, <1>3, <1>4, <1>5, <1>6, <1>7, <1>8, <1>9, <1>10 DEF Next

\* The invariant holds in every reachable state.
THEOREM PegInvariant == Spec => []PegInv
<1>1. Init => PegInv
  BY InitPeg
<1>2. PegInv /\ [Next]_vars => PegInv'
  BY NextPeg
<1> QED BY <1>1, <1>2, PTL DEF Spec

\* Every variable of the peg watch has its type; a run never passes the sustained
\* count, and only an enforced peg is suspended.
THEOREM PegTypeCorrect == Spec => []PegTypeOK
<1>1. PegInv => PegTypeOK
  BY DEF PegInv
<1> QED BY <1>1, PegInvariant, PTL

-----------------------------------------------------------------------------
(* What the steps promise. *)

\* Only an observation adds to a count, and only it or an end of the run takes from
\* it while the loop observes.
LEMMA CountMoves ==
  ASSUME PegInv, [Next]_vars, NEW a \in Assets, above_bail'[a] # above_bail[a]
  PROVE  \/ /\ step_observe_asset_pegs
            /\ a \in enforced \ suspended
            /\ \E anchor \in usd_per_xch_anchor :
                 above_bail'[a] = observe_peg(a, peg_usd_observation(anchor, a))
         \/ above_bail'[a] = 0 /\ ~(pc = "observe" /\ pc' = "cancel")
<1>1. CASE step_observe_asset_pegs
  <2>1. PICK anchor \in usd_per_xch_anchor :
          above_bail'[a] = observe_peg(a, peg_usd_observation(anchor, a))
    BY <1>1 DEF step_observe_asset_pegs
  <2>2. a \in enforced \ suspended
    BY <2>1 DEF observe_peg
  <2> QED BY <1>1, <2>1, <2>2
<1>2. CASE check_peg_reenable_flag
  BY <1>2 DEF check_peg_reenable_flag
<1>3. CASE Beat
  BY <1>3 DEF Beat, Reload
<1>4. CASE Crash
  BY <1>4 DEF Crash
<1>5. UNCHANGED above_bail \/ step_observe_asset_pegs \/ check_peg_reenable_flag
      \/ Beat \/ Crash
  BY DEF Next, vars, latchVars, CancelAllStarts, RemoveFlag, NoNewBlock, BeatEnds,
         CancelThrows, step_update_market_state, MarketFails,
         revalidate_after_peg_observation, step_compute_quotes, Submitted, Refused, Post,
         Over, Click, CancelAllEnds
<1> QED BY <1>1, <1>2, <1>3, <1>4, <1>5

\* An asset is observed against an anchor that is not its own par; against another
\* wrapper's, that wrapper is a live one and the feed is out.
LEMMA ObservedThrough ==
  ASSUME PegInv, NEW a \in Assets, NEW anchor \in usd_per_xch_anchor,
         peg_usd_observation(anchor, a) \in {"par", "off"}
  PROVE  \/ mid[a] = "listing" /\ peg_usd_observation(anchor, a) = "par"
         \/ peg_usd_observation(anchor, a) = price[a]
         \/ ThroughOff(a)
<1>1. anchor # "none" /\ anchor # a
  BY DEF peg_usd_observation, xch_anchor_is_circular_for
<1>2. CASE mid[a] = "listing" \/ anchor = "external"
  BY <1>1, <1>2 DEF peg_usd_observation, xch_anchor_is_circular_for
<1>3. CASE mid[a] # "listing" /\ anchor # "external"
  <2>1. /\ ~feed /\ anchor \in Wrappers \cap enforced /\ anchor # a /\ anchor \notin suspended
    BY <1>1, <1>3 DEF usd_per_xch_anchor
  <2>2. peg_usd_observation(anchor, a) = IF price[a] = price[anchor] THEN "par" ELSE "off"
    BY <1>1, <1>3 DEF peg_usd_observation, xch_anchor_is_circular_for
  <2>3. price[a] \in {"par", "off"} /\ price[anchor] \in {"par", "off"}
    BY <2>1, PegAssumption DEF PegInv, PegTypeOK, PegAssumption
  <2> QED BY <2>1, <2>2, <2>3 DEF ThroughOff
<1> QED BY <1>2, <1>3

\* A peg that is off gets no all-clear from the engine's own declaration, and one at
\* par is not counted against: for every choice of wrappers, listings and feed, the
\* two limits of the header are the only exceptions.
THEOREM HonestObservation == Spec => ObservationIsHonest
<1>1. ASSUME PegInv, [Next]_vars, NEW a \in Assets
      PROVE  (pc = "observe" /\ pc' = "cancel" /\ above_bail'[a] < above_bail[a])
             => price[a] = "par" \/ mid[a] = "listing" \/ ThroughOff(a)
  <2> SUFFICES ASSUME pc = "observe", pc' = "cancel", above_bail'[a] < above_bail[a]
               PROVE  price[a] = "par" \/ mid[a] = "listing" \/ ThroughOff(a)
    OBVIOUS
  <2>1. above_bail[a] \in Nat
    BY <1>1, NeededPositive DEF PegInv, PegTypeOK
  <2>2. above_bail'[a] # above_bail[a]
    BY <2>1
  <2>3. PICK anchor \in usd_per_xch_anchor :
          above_bail'[a] = observe_peg(a, peg_usd_observation(anchor, a))
    BY <1>1, <2>2, CountMoves
  <2>4. peg_usd_observation(anchor, a) = "par"
    <3>1. peg_usd_observation(anchor, a) \in {"nothing", "par", "off", price[a]}
      BY DEF peg_usd_observation
    <3>2. price[a] \in {"par", "off"}
      BY <1>1 DEF PegInv, PegTypeOK
    <3>3. peg_usd_observation(anchor, a) \notin {"nothing", "off"}
      BY <2>1, <2>2, <2>3 DEF observe_peg
    <3> QED BY <3>1, <3>2, <3>3
  <2> QED BY <1>1, <2>4, ObservedThrough
<1>2. ASSUME PegInv, [Next]_vars, NEW a \in Assets
      PROVE  above_bail'[a] > above_bail[a] => price[a] = "off" \/ ThroughOff(a)
  <2> SUFFICES ASSUME above_bail'[a] > above_bail[a]
               PROVE  price[a] = "off" \/ ThroughOff(a)
    OBVIOUS
  <2>1. above_bail[a] \in Nat
    BY <1>2, NeededPositive DEF PegInv, PegTypeOK
  <2>2. above_bail'[a] # above_bail[a] /\ above_bail'[a] # 0
    BY <2>1
  <2>3. PICK anchor \in usd_per_xch_anchor :
          above_bail'[a] = observe_peg(a, peg_usd_observation(anchor, a))
    BY <1>2, <2>2, CountMoves
  <2>4. peg_usd_observation(anchor, a) = "off"
    BY <2>2, <2>3 DEF observe_peg
  <2> QED BY <1>2, <2>4, ObservedThrough
<1>3. PegInv /\ [Next]_vars
      => [\A a \in Assets :
            (pc = "observe" /\ pc' = "cancel" /\ above_bail'[a] < above_bail[a])
            => price[a] = "par" \/ mid[a] = "listing" \/ ThroughOff(a)]_vars
  BY <1>1
<1>4. PegInv /\ [Next]_vars
      => [\A a \in Assets :
            above_bail'[a] > above_bail[a] => price[a] = "off" \/ ThroughOff(a)]_vars
  BY <1>2
<1>5. Spec => NoFalseAllClear
  BY <1>3, PegInvariant, PTL DEF Spec, NoFalseAllClear
<1>6. Spec => NoFalseAlarm
  BY <1>4, PegInvariant, PTL DEF Spec, NoFalseAlarm
<1> QED BY <1>5, <1>6 DEF ObservationIsHonest

\* Nothing is posted on a pair a suspended asset touches, and on a pair whose guard is
\* off nothing on a reference older than the suspension.
THEOREM SuspendedPostsNothing == Spec => NothingPostedOnSuspended
<1>1. ASSUME PegInv, [Next]_vars, NEW p \in Pairs,
             book[p] = "none", book'[p] = "resting", pair_peg_suspended(p)
      PROVE  p \in Waived /\ Legs[p] \cap suspended \subseteq ref
  <2>1. Post(p)
    <3>1. CASE \E q \in Pairs : Post(q)
      BY <1>1, <3>1 DEF Post, PegInv, PegTypeOK
    <3>2. CASE \E q \in Pairs : Submitted(q) \/ Over(q)
      BY <1>1, <3>2 DEF Submitted, Over, PegInv, PegTypeOK
    <3>3. CASE CancelAllEnds
      BY <1>1, <3>3 DEF CancelAllEnds
    <3>4. UNCHANGED book \/ CancelAllEnds \/ \E q \in Pairs : Submitted(q) \/ Post(q) \/ Over(q)
      BY <1>1
         DEF Next, vars, CancelAllStarts, RemoveFlag, NoNewBlock, BeatEnds,
             CancelThrows, step_update_market_state, MarketFails, Beat, Crash,
             check_peg_reenable_flag, step_observe_asset_pegs,
             revalidate_after_peg_observation, step_compute_quotes, Refused, Click
    <3> QED BY <1>1, <3>1, <3>2, <3>3, <3>4
  <2> QED BY <1>1, <2>1 DEF Post, PegInv, QuotedAreAllowed
<1>2. PegInv /\ [Next]_vars
      => [\A p \in Pairs :
            (book[p] = "none" /\ book'[p] = "resting" /\ pair_peg_suspended(p))
            => p \in Waived /\ Legs[p] \cap suspended \subseteq ref]_vars
  BY <1>1
<1> QED BY <1>2, PegInvariant, PTL DEF Spec, NothingPostedOnSuspended

\* A suspension ends by a click made while it stood, by a configuration that gives up
\* the peg, or with the process.
THEOREM LatchIsTheOperators == Spec => OnlyAClickClears
<1>1. ASSUME PegInv, [Next]_vars, NEW a \in suspended, a \notin suspended'
      PROVE  a \notin enforced' \/ crashes' > crashes \/ a \in asked
  <2>1. CASE step_observe_asset_pegs
    BY <1>1, <2>1 DEF step_observe_asset_pegs
  <2>2. CASE check_peg_reenable_flag
    BY <1>1, <2>2 DEF check_peg_reenable_flag, PegInv, FlagIsAsked
  <2>3. CASE Beat
    BY <1>1, <2>3 DEF Beat, Reload
  <2>4. CASE Crash
    BY <1>1, <2>4 DEF Crash, PegInv, PegTypeOK
  <2>5. UNCHANGED suspended \/ step_observe_asset_pegs \/ check_peg_reenable_flag
        \/ Beat \/ Crash
    BY <1>1
       DEF Next, vars, latchVars, CancelAllStarts, RemoveFlag, NoNewBlock, BeatEnds,
           CancelThrows, step_update_market_state, MarketFails,
           revalidate_after_peg_observation, step_compute_quotes, Submitted, Refused, Post,
           Over, Click, CancelAllEnds
  <2> QED BY <1>1, <2>1, <2>2, <2>3, <2>4, <2>5
<1>2. PegInv /\ [Next]_vars
      => [\A a \in suspended \ suspended' :
            \/ a \notin enforced'
            \/ crashes' > crashes
            \/ a \in asked]_vars
  BY <1>1
<1> QED BY <1>2, PegInvariant, PTL DEF Spec, OnlyAClickClears
=============================================================================
