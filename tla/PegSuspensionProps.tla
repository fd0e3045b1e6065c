------------------------ MODULE PegSuspensionProps ------------------------
(* What the peg watch promises.                                            *)
EXTENDS PegSuspension

\* Every variable has its type; a count stops at the limit, and only an enforced peg
\* is suspended.
PegTypeOK ==
  /\ enforced \subseteq Assets /\ suspended \subseteq enforced
  /\ above_bail \in [Assets -> 0 .. Needed]
  /\ price \in [Assets -> {"par", "off"}] /\ feed \in BOOLEAN
  /\ mid \in [Assets -> {"graded", "listing", "ungraded", "none"}]
  /\ ref \subseteq Assets /\ valid \subseteq Pairs /\ quoted \subseteq Pairs
  /\ book \in [Pairs -> {"none", "resting", "pending"}] /\ to_cancel \subseteq Pairs
  /\ cancel_all \in BOOLEAN /\ flag \subseteq Assets /\ asked \subseteq suspended
  /\ pc \in {"poll", "remove", "height", "market", "observe", "cancel", "quote", "post"}
  /\ crashes \in 0 .. MaxCrashes /\ cancel_alls \in 0 .. MaxCancelAlls

\* An asset judged through another wrapper's par is misjudged by that wrapper's own
\* depeg; the header records this limit.
ThroughOff(a) == ~feed /\ \E w \in Wrappers \cap enforced :
                             w # a /\ w \notin suspended /\ price[w] = "off"

\* No all-clear is made of the engine's own declaration: while an asset is off, its
\* observation does not end the run against it.  Only a mid made of the listing alone
\* or a cross against another wrapper that is off too does, the two limits
\* peg_suspension.hpp records.
NoFalseAllClear ==
  [][\A a \in Assets :
       (pc = "observe" /\ pc' = "cancel" /\ above_bail'[a] < above_bail[a])
       => price[a] = "par" \/ mid[a] = "listing" \/ ThroughOff(a)]_vars

\* An asset that holds its par is not counted against, unless a wrapper that is off,
\* and not yet suspended, prices XCH: a suspended par is honoured nowhere.
NoFalseAlarm ==
  [][\A a \in Assets : above_bail'[a] > above_bail[a] => price[a] = "off" \/ ThroughOff(a)]_vars

\* An observation is made of the market, not of the engine's own declaration that a
\* wrapper is at par: in neither direction does it follow from that declaration alone.
ObservationIsHonest == NoFalseAllClear /\ NoFalseAlarm

\* Off means flat: nothing is posted on a pair that touches a suspended asset; a pair
\* whose guard is off is quoted on, but never on a reference older than the suspension.
NothingPostedOnSuspended ==
  [][\A p \in Pairs :
       (book[p] = "none" /\ book'[p] = "resting" /\ pair_peg_suspended(p))
       => p \in Waived /\ Legs[p] \cap suspended \subseteq ref]_vars

\* The latch is the operator's: within one process and one configuration, a suspension
\* ends only by a click made while it stood, never by a click left over from before.
OnlyAClickClears ==
  [][\A a \in suspended \ suspended' :
       \/ a \notin enforced'
       \/ crashes' > crashes
       \/ a \in asked]_vars

\* However many cancels fail, an offer on a suspended asset does not rest for good.
FlatInTheEnd ==
  \A p \in Pairs \ Waived :
    (book[p] = "resting" /\ pair_peg_suspended(p))
      ~> (book[p] # "resting" \/ ~pair_peg_suspended(p))

\* A peg that stays broken is suspended, and suspended again after every re-enable,
\* however long the gaps between two observations of it.
Broken(a) == /\ a \in enforced
             /\ pc = "observe" => price[a] = "off" /\ mid[a] # "listing"
                                  /\ \A b \in Assets \ {a} : price[b] = "par"
Observable(a) == pc = "observe" /\ mid[a] = "graded" /\ usd_per_xch_anchor \cap {a, "none"} = {}
DepegIsLatched ==
  \A a \in Assets : (<>[]Broken(a) /\ []<>Observable(a)) => []<>(a \in suspended)
=============================================================================
