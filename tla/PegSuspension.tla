--------------------------- MODULE PegSuspension ---------------------------
(***************************************************************************)
(* The asset-level peg watch: what a heartbeat makes of the market's word  *)
(* about each declared peg, the latch a sustained depeg sets, the resting  *)
(* offers it withdraws, the quotes it holds back, and the flag file        *)
(* through which the operator clears it.                                   *)
(*                                                                         *)
(* A wrapper is worth its par, or "off" it by one and the same fraction:   *)
(* two wrappers that are both off are at par with each other.              *)
(***************************************************************************)
EXTENDS Integers

CONSTANTS
  Assets,         \* the declared pegged assets
  Wrappers,       \* those whose par may price XCH (not prefer_market_cross)
  Listed,         \* those whose underlying coin the external feed lists
  Pairs, Legs,    \* the markets, and the pegged assets each one touches
  Waived,         \* revive pairs whose peg guard is off
  Sustained,      \* sustained_observations
  MaxCrashes, MaxCancelAlls   \* bounds

ASSUME PegAssumption ==
  /\ Wrappers \subseteq Assets /\ Listed \subseteq Assets /\ Waived \subseteq Pairs
  /\ Legs \in [Pairs -> SUBSET Assets]
  /\ {Sustained, MaxCrashes, MaxCancelAlls} \subseteq Nat
  /\ {"external", "none"} \cap Assets = {}

VARIABLES
  enforced,           \* the assets whose peg the live configuration enforces
  above_bail,         \* PegRuntime::above_bail
  suspended,          \* the assets whose PegRuntime::suspended is set
  price, feed, mid,   \* what Step 1 brings: the truth, a usable external XCH price,
                      \* and what the published XCH/asset mid is made of
  ref,                \* the legs suspended when Step 1 built the references
  valid, quoted,      \* market_data_valid; pairs with a quote to post
  book,               \* our offer on each pair
  to_cancel,          \* the offers selective_cancel has not come to
  cancel_all,         \* cancel_all_inflight_
  flag,               \* the asset ids in peg_reenable.flag
  asked,              \* observer: suspensions the operator has clicked on
  pc, crashes, cancel_alls

marketVars == <<price, feed, mid>>
latchVars  == <<enforced, above_bail, suspended>>
cycleVars  == <<ref, valid, quoted, to_cancel>>
fileVars   == <<flag, asked>>
otherVars  == <<cancel_all, crashes, cancel_alls>>
vars == <<marketVars, latchVars, cycleVars, book, fileVars, otherVars, pc>>

pair_peg_suspended(p) == Legs[p] \cap suspended # {}

Needed == IF Sustained = 0 THEN 1 ELSE Sustained

AllPar == [a \in Assets |-> "par"]
NoMids == [a \in Assets |-> "none"]

Init == /\ enforced = Assets
        /\ above_bail = [a \in Assets |-> 0] /\ suspended = {}
        /\ price = AllPar /\ feed = FALSE /\ mid = NoMids
        /\ ref = {} /\ valid = {} /\ quoted = {} /\ to_cancel = {}
        /\ book = [p \in Pairs |-> "none"]
        /\ cancel_all = FALSE /\ flag = {} /\ asked = {}
        /\ pc = "poll" /\ crashes = 0 /\ cancel_alls = 0

-----------------------------------------------------------------------------
(* The poll loop, before it asks for a height. *)

CancelAllStarts ==
  /\ pc = "poll" /\ ~cancel_all /\ cancel_alls < MaxCancelAlls
  /\ cancel_all' = TRUE /\ cancel_alls' = cancel_alls + 1
  /\ UNCHANGED <<marketVars, latchVars, cycleVars, book, fileVars, crashes, pc>>

\* Mutant: a file with nothing to re-enable in it is left where it is.
ReenableLeavesFile ==
  /\ pc = "poll"
  /\ LET reenabled == flag \cap suspended
     IN /\ suspended' = suspended \ reenabled
        /\ above_bail' = [a \in Assets |-> IF a \in reenabled THEN 0 ELSE above_bail[a]]
        /\ asked' = asked \ reenabled
        /\ pc' = IF reenabled = {} THEN "height" ELSE "remove"
  /\ UNCHANGED <<marketVars, enforced, cycleVars, book, flag, otherVars>>

\* Every line is read and answered; a line about a peg that is not suspended is
\* ignored.
check_peg_reenable_flag ==
  /\ pc = "poll"
  /\ LET reenabled == flag \cap suspended
     IN /\ suspended' = suspended \ reenabled
        /\ above_bail' = [a \in Assets |-> IF a \in reenabled THEN 0 ELSE above_bail[a]]
        /\ asked' = asked \ reenabled
  /\ pc' = IF flag = {} THEN "height" ELSE "remove"
  /\ UNCHANGED <<marketVars, enforced, cycleVars, book, flag, otherVars>>

\* The file goes with every line in it, also one appended since it was read.
RemoveFlag ==
  /\ pc = "remove" /\ pc' = "height" /\ flag' = {}
  /\ UNCHANGED <<marketVars, latchVars, cycleVars, book, asked, otherVars>>

NoNewBlock ==
  /\ pc = "height" /\ pc' = "poll"
  /\ UNCHANGED <<marketVars, latchVars, cycleVars, book, fileVars, otherVars>>

-----------------------------------------------------------------------------
(* The heartbeat. *)

\* Market data that no later step reads is not kept.
Unread == price' = AllPar /\ feed' = FALSE /\ mid' = NoMids

\* A saved configuration is taken over, unless a Cancel All defers it: a peg it no
\* longer enforces loses its latch.
Reload(now) ==
  /\ cancel_all => now = enforced
  /\ enforced' = now
  /\ suspended' = suspended \cap now
  /\ above_bail' = [a \in Assets |-> IF a \in now THEN above_bail[a] ELSE 0]
  /\ asked' = asked \cap now

Beat ==
  /\ pc = "height" /\ pc' = "market"
  /\ \E now \in SUBSET Assets : Reload(now)
  /\ UNCHANGED <<marketVars, cycleVars, book, flag, otherVars>>

\* Step 1.  A mid is "graded" off the book, made of the listing alone, too poor to
\* value with, or not there.  A suspended asset takes no listing.  That a pair got no
\* data is one of the reasons for Step 4 to leave it out.
MarketData ==
  /\ price' \in [Assets -> {"par", "off"}] /\ feed' \in BOOLEAN
  /\ mid' \in [Assets -> {"graded", "listing", "ungraded", "none"}]
  /\ \A a \in Assets : mid'[a] = "listing" => feed' /\ a \in Listed /\ a \notin suspended
  /\ ref' = suspended

step_update_market_state ==
  /\ pc = "market" /\ pc' = "observe"
  /\ MarketData /\ valid' = Pairs
  /\ UNCHANGED <<latchVars, quoted, to_cancel, book, fileVars, otherVars>>

\* An exception skips the observation, the withdrawal of references and the cancels.
MarketFails ==
  /\ pc = "market" /\ pc' = "quote"
  /\ ref' = suspended /\ valid' = Pairs
  /\ UNCHANGED <<marketVars, latchVars, quoted, to_cancel, book, fileVars, otherVars>>

\* select_xch_usd_anchor, for any order of the pairs in the configuration.
usd_per_xch_anchor ==
  LET crosses == {w \in Wrappers \cap enforced : w \notin suspended /\ mid[w] # "none"}
  IN IF feed THEN {"external"} ELSE IF crosses = {} THEN {"none"} ELSE crosses

\* Mutant: only the external feed is thought of as a source of its own.
CircularIfUnknown(anchor, a) == anchor = "none"

xch_anchor_is_circular_for(anchor, a) == anchor = a

peg_usd_observation(anchor, a) ==
  IF xch_anchor_is_circular_for(anchor, a) \/ anchor = "none" \/ mid[a] \in {"ungraded", "none"}
  THEN "nothing"
  ELSE IF mid[a] = "listing" THEN "par"
  ELSE IF anchor = "external" THEN price[a]
  ELSE IF price[a] = price[anchor] THEN "par" ELSE "off"

\* Mutant: a gap ends the run.
ObserveResetsOnGap(a, seen) ==
  IF a \notin enforced \ suspended THEN above_bail[a]
  ELSE IF seen = "off" THEN above_bail[a] + 1 ELSE 0

\* Nothing observed holds the run; a suspended peg makes no transition.
observe_peg(a, seen) ==
  IF a \notin enforced \ suspended \/ seen = "nothing" THEN above_bail[a]
  ELSE IF seen = "off" THEN above_bail[a] + 1 ELSE 0

\* Mutant: the cancel of the transition alone.
ScanOnce ==
  IF cancel_all THEN {}
  ELSE {p \in Pairs \ Waived :
          book[p] = "resting" /\ Legs[p] \cap (suspended' \ suspended) # {}}

CancelScan ==
  IF cancel_all THEN {}
  ELSE {p \in Pairs \ Waived : book[p] = "resting" /\ Legs[p] \cap suspended' # {}}

step_observe_asset_pegs ==
  /\ pc = "observe" /\ pc' = "cancel"
  /\ \E anchor \in usd_per_xch_anchor :
       above_bail' = [a \in Assets |-> observe_peg(a, peg_usd_observation(anchor, a))]
  /\ suspended' = suspended \cup {a \in enforced : above_bail'[a] >= Needed}
  /\ asked' = asked \ (suspended' \ suspended)
  /\ to_cancel' = CancelScan
  /\ Unread
  /\ UNCHANGED <<enforced, ref, valid, quoted, book, flag, otherVars>>

\* One offer of selective_cancel.  An offer that is gone by now is still sent.
Submitted(p) ==
  /\ pc = "cancel" /\ p \in to_cancel
  /\ to_cancel' = to_cancel \ {p}
  /\ book' = [book EXCEPT ![p] = IF @ = "resting" THEN "pending" ELSE @]
  /\ UNCHANGED <<marketVars, latchVars, ref, valid, quoted, fileVars, otherVars, pc>>

Refused(p) ==
  /\ pc = "cancel" /\ p \in to_cancel
  /\ to_cancel' = to_cancel \ {p}
  /\ UNCHANGED <<marketVars, latchVars, ref, valid, quoted, book, fileVars, otherVars, pc>>

CancelThrows ==
  /\ pc = "cancel" /\ to_cancel # {} /\ to_cancel' = {}
  /\ UNCHANGED <<marketVars, latchVars, ref, valid, quoted, book, fileVars, otherVars, pc>>

\* Mutant: a reference built before the suspension stays in use.
RevalidateNothing ==
  /\ pc = "cancel" /\ to_cancel = {} /\ pc' = "quote"
  /\ UNCHANGED <<marketVars, latchVars, ref, valid, quoted, to_cancel, book, fileVars, otherVars>>

\* A reference built before a leg was suspended is withdrawn, and the quote with it.
revalidate_after_peg_observation ==
  /\ pc = "cancel" /\ to_cancel = {} /\ pc' = "quote"
  /\ valid' = {p \in valid : Legs[p] \cap suspended \subseteq ref}
  /\ UNCHANGED <<marketVars, latchVars, ref, quoted, to_cancel, book, fileVars, otherVars>>

\* Step 4, with the reasons it and the steps after it have to leave a pair out.
step_compute_quotes ==
  /\ pc = "quote" /\ pc' = "post"
  /\ \E some \in SUBSET {p \in valid : pair_peg_suspended(p) => p \in Waived} : quoted' = some
  /\ valid' = {}
  /\ UNCHANGED <<marketVars, latchVars, ref, to_cancel, book, fileVars, otherVars>>

Post(p) ==
  /\ pc = "post" /\ ~cancel_all /\ p \in quoted /\ book[p] = "none"
  /\ book' = [book EXCEPT ![p] = "resting"]
  /\ quoted' = quoted \ {p}
  /\ UNCHANGED <<marketVars, latchVars, ref, valid, to_cancel, fileVars, otherVars, pc>>

BeatEnds ==
  /\ pc = "post" /\ pc' = "poll"
  /\ quoted' = {} /\ ref' = {}
  /\ UNCHANGED <<marketVars, latchVars, valid, to_cancel, book, fileVars, otherVars>>

-----------------------------------------------------------------------------
(* What goes on beside the loop. *)

\* The GUI offers the button on a row it shows as suspended.
Click(a) ==
  /\ a \in suspended
  /\ flag' = flag \cup {a} /\ asked' = asked \cup {a}
  /\ UNCHANGED <<marketVars, latchVars, cycleVars, book, otherVars, pc>>

Over(p) ==      \* taken, or its cancel confirmed
  /\ book[p] # "none"
  /\ book' = [book EXCEPT ![p] = "none"]
  /\ UNCHANGED <<marketVars, latchVars, cycleVars, fileVars, otherVars, pc>>

CancelAllEnds ==
  /\ cancel_all /\ cancel_all' = FALSE
  /\ \E done \in SUBSET Pairs :
       book' = [p \in Pairs |-> IF p \in done /\ book[p] = "resting" THEN "pending" ELSE book[p]]
  /\ UNCHANGED <<marketVars, latchVars, cycleVars, fileVars, crashes, cancel_alls, pc>>

\* The latch lives in memory; the flag file and the offers do not.
Crash ==
  /\ crashes < MaxCrashes /\ crashes' = crashes + 1
  /\ suspended' = {} /\ above_bail' = [a \in Assets |-> 0]
  /\ Unread
  /\ ref' = {} /\ valid' = {} /\ quoted' = {} /\ to_cancel' = {}
  /\ cancel_all' = FALSE /\ asked' = {} /\ pc' = "poll"
  /\ UNCHANGED <<enforced, book, flag, cancel_alls>>

Next ==
  \/ CancelAllStarts \/ check_peg_reenable_flag \/ RemoveFlag \/ NoNewBlock
  \/ Beat \/ step_update_market_state \/ MarketFails \/ step_observe_asset_pegs
  \/ CancelThrows \/ revalidate_after_peg_observation \/ step_compute_quotes \/ BeatEnds
  \/ \E p \in Pairs : Submitted(p) \/ Refused(p) \/ Post(p) \/ Over(p)
  \/ \E a \in Assets : Click(a)
  \/ CancelAllEnds \/ Crash

Spec == Init /\ [][Next]_vars

\* The loop runs on and heights come; Step 1 gets through some day, and so does a
\* cancel that is tried again and again.
FairPeg ==
  /\ Spec
  /\ WF_vars(check_peg_reenable_flag) /\ WF_vars(RemoveFlag) /\ SF_vars(Beat)
  /\ SF_vars(step_update_market_state) /\ WF_vars(MarketFails)
  /\ WF_vars(step_observe_asset_pegs)
  /\ \A p \in Pairs : SF_vars(Submitted(p))
  /\ WF_vars(CancelThrows) /\ WF_vars(revalidate_after_peg_observation)
  /\ WF_vars(step_compute_quotes) /\ WF_vars(BeatEnds)
  /\ WF_vars(CancelAllEnds)
=============================================================================
