------------------------ MODULE ShutdownCancel_proofs ------------------------
(***************************************************************************)
(* Proofs about the cancel retry ladder and the cancelling stop that runs  *)
(* it, for any book, budget, ceilings and delays.  The ladder keeps its    *)
(* promises; the stop implements the ladder, asks before it cancels again, *)
(* loses no order, names what still rests, and falls silent only over a    *)
(* wallet it has swept.                                                    *)
(*                                                                         *)
(* LadderInv is the ladder's inductive invariant; each conjunct is the     *)
(* fact one of its properties needs about the steps before.                *)
(*                                                                         *)
(* StopInv ties the stop to its ladder: where the ladder is in each phase  *)
(* and call, and that the buckets an attempt or a re-check fills are, when *)
(* it ends, an answer CancelLadder allows.  With it every step of the stop *)
(* maps to a step of the ladder or to a stutter, so the ladder's own       *)
(* invariant, a conjunct of StopInv, is inherited and not proved again.    *)
(* OrderInv adds the wallet and the intent file, LiveInv what the client   *)
(* believes of the wallet, SeedOwes the wait of a seed.                    *)
(***************************************************************************)
EXTENDS ShutdownCancelProps, CancelLadderProps, WellFoundedInduction, TLAPS

-----------------------------------------------------------------------------
(* The ladder.                                                             *)

\* Induction on sets: what holds of 0, and of k + 1 when it holds of k, holds of
\* every number.
LEMMA Induction ==
  ASSUME NEW T \in SUBSET Nat, 0 \in T, \A k \in T : k + 1 \in T
  PROVE  T = Nat
<1> DEFINE R == OpToRel(<, Nat)
           Bad == Nat \ T
<1>1. IsWellFoundedOn(R, Nat)
  BY NatLessThanWellFounded
<1>2. \A x, y \in Nat : y < x => <<y, x>> \in R
  BY DEF OpToRel
<1> HIDE DEF R
<1> SUFFICES ASSUME Bad # {} PROVE FALSE
  OBVIOUS
<1>3. PICK x \in Bad : \A y \in Bad : ~(<<y, x>> \in R)
  BY <1>1, WFMin
<1>4. x # 0 /\ x \in Nat /\ x - 1 \in Nat /\ x - 1 < x
  BY <1>3
<1>5. x - 1 \in T
  BY <1>2, <1>3, <1>4
<1>6. (x - 1) + 1 \in T
  BY <1>5
<1> QED BY <1>3, <1>4, <1>6

\* The delays of the first n retries, as the loop of cancel_backoff_ms makes them.
IsDelays(f, n) ==
  f = [i \in 1 .. n |-> Least(MaxDelay, IF i = 1 THEN BaseDelay ELSE 2 * f[i - 1])]

\* They exist, whatever their number.
LEMMA DelaysExist ==
  ASSUME NEW n \in Nat
  PROVE  \E f : IsDelays(f, n)
<1> DEFINE T == {k \in Nat : \E f : IsDelays(f, k)}
<1>1. 0 \in T
  <2>1. IsDelays([i \in 1 .. 0 |-> 0], 0)
    BY DEF IsDelays
  <2> QED BY <2>1
<1>2. ASSUME NEW k \in T PROVE k + 1 \in T
  <2>1. PICK f : IsDelays(f, k)
    OBVIOUS
  <2> DEFINE d == Least(MaxDelay, IF k = 0 THEN BaseDelay ELSE 2 * f[k])
             g == [i \in 1 .. (k + 1) |-> IF i = k + 1 THEN d ELSE f[i]]
  <2>2. ASSUME NEW i \in 1 .. (k + 1)
        PROVE  g[i] = Least(MaxDelay, IF i = 1 THEN BaseDelay ELSE 2 * g[i - 1])
    <3>1. CASE i = k + 1
      <4>1. CASE k = 0
        BY <3>1, <4>1
      <4>2. CASE k # 0
        <5>1. i # 1 /\ i - 1 = k /\ k \in 1 .. (k + 1) /\ k # k + 1
          BY <3>1, <4>2
        <5>2. g[i] = Least(MaxDelay, 2 * f[k]) /\ g[k] = f[k]
          BY <3>1, <4>2, <5>1
        <5> QED BY <5>1, <5>2
      <4> QED BY <4>1, <4>2
    <3>2. CASE i # k + 1
      <4>1. i \in 1 .. k /\ (i # 1 => i - 1 \in 1 .. (k + 1) /\ i - 1 # k + 1)
        BY <3>2
      <4>2. f[i] = Least(MaxDelay, IF i = 1 THEN BaseDelay ELSE 2 * f[i - 1])
        BY <2>1, <4>1 DEF IsDelays
      <4> QED BY <3>2, <4>1, <4>2
    <3> QED BY <3>1, <3>2
  <2>3. g = [i \in 1 .. (k + 1) |-> g[i]]
    OBVIOUS
  <2> HIDE DEF g
  <2>4. IsDelays(g, k + 1)
    BY <2>2, <2>3 DEF IsDelays
  <2> QED BY <2>4
<1>3. T \in SUBSET Nat
  OBVIOUS
<1> HIDE DEF T
<1>4. T = Nat
  BY <1>1, <1>2, <1>3, Induction
<1> QED BY <1>4 DEF T

\* The delay before a retry is the last of them.
LEMMA BackoffIsLast ==
  ASSUME NEW n \in Nat, n # 0
  PROVE  \E f : IsDelays(f, n) /\ cancel_backoff(n) = f[n]
<1> DEFINE f == CHOOSE f : IsDelays(f, n)
<1>1. IsDelays(f, n)
  BY DelaysExist
<1>2. cancel_backoff(n) = f[n]
  BY DEF cancel_backoff, IsDelays
<1> QED BY <1>1, <1>2

\* cancel_backoff_ms: no delay before a first attempt, BaseDelay before the first
\* retry, and twice the last one before each that follows, up to MaxDelay.
THEOREM BackoffDoubles ==
  ASSUME NEW n \in Nat \ {0}
  PROVE  /\ cancel_backoff(0) = 0 /\ cancel_backoff(1) = Least(MaxDelay, BaseDelay)
         /\ cancel_backoff(n + 1) = Least(MaxDelay, 2 * cancel_backoff(n))
<1>1. cancel_backoff(0) = 0
  BY DEF cancel_backoff
<1>2. cancel_backoff(1) = Least(MaxDelay, BaseDelay)
  BY BackoffIsLast DEF IsDelays
<1>3. PICK f : IsDelays(f, n) /\ cancel_backoff(n) = f[n]
  BY BackoffIsLast
<1>4. PICK g : IsDelays(g, n + 1) /\ cancel_backoff(n + 1) = g[n + 1]
  BY BackoffIsLast
<1> DEFINE T == {k \in Nat : k \in 1 .. n => f[k] = g[k]}
<1>5. T = Nat
  <2>1. 0 \in T
    OBVIOUS
  <2>2. ASSUME NEW k \in T PROVE k + 1 \in T
    <3> SUFFICES ASSUME k + 1 \in 1 .. n PROVE f[k + 1] = g[k + 1]
      OBVIOUS
    <3>1. /\ f[k + 1] = Least(MaxDelay, IF k + 1 = 1 THEN BaseDelay ELSE 2 * f[(k + 1) - 1])
          /\ g[k + 1] = Least(MaxDelay, IF k + 1 = 1 THEN BaseDelay ELSE 2 * g[(k + 1) - 1])
      BY <1>3, <1>4 DEF IsDelays
    <3>2. (k + 1) - 1 = k /\ (k + 1 # 1 => k \in 1 .. n)
      OBVIOUS
    <3>3. k + 1 # 1 => f[k] = g[k]
      BY <3>2
    <3> HIDE DEF T
    <3> QED BY <3>1, <3>2, <3>3
  <2>3. T \in SUBSET Nat
    OBVIOUS
  <2> HIDE DEF T
  <2> QED BY <2>1, <2>2, <2>3, Induction
<1>6. g[n + 1] = Least(MaxDelay, 2 * g[n])
  BY <1>4 DEF IsDelays
<1> QED BY <1>1, <1>2, <1>3, <1>4, <1>5, <1>6

\* A delay is a length of time, and never past MaxDelay.
LEMMA BackoffType ==
  ASSUME NEW n \in Nat
  PROVE  cancel_backoff(n) \in 0 .. MaxDelay
<1> USE ConfigAssumption DEF ConfigAssumption
<1> DEFINE T == {k \in Nat : cancel_backoff(k) \in 0 .. MaxDelay}
<1>1. 0 \in T
  BY DEF cancel_backoff
<1>2. ASSUME NEW k \in T PROVE k + 1 \in T
  <2>1. CASE k = 0
    <3>1. cancel_backoff(1) = Least(MaxDelay, BaseDelay)
      BY 1 \in Nat \ {0}, BackoffDoubles
    <3> QED BY <2>1, <3>1 DEF Least
  <2>2. CASE k # 0
    <3>1. cancel_backoff(k + 1) = Least(MaxDelay, 2 * cancel_backoff(k))
      BY <2>2, BackoffDoubles
    <3> QED BY <3>1 DEF Least
  <2> QED BY <2>1, <2>2
<1>3. T \in SUBSET Nat
  OBVIOUS
<1> HIDE DEF T
<1>4. T = Nat
  BY <1>1, <1>2, <1>3, Induction
<1> QED BY <1>4 DEF T

\* So is the delay that is planned, and after an unanswered sweep it covers the wait
\* when the budget has room for it.
LEMMA PlannedDelay ==
  ASSUME TypeOK
  PROVE  /\ plan_delay \in Nat
         /\ last_attempt_possibly_submitted /\ budget_left >= wait_needed
              => plan_delay >= wait_needed
<1>1. cancel_backoff(attempts) \in Nat
  <2>1. cancel_backoff(attempts) \in 0 .. MaxDelay
    BY BackoffType DEF TypeOK
  <2> QED BY <2>1
<1>2. wait_needed \in Nat /\ budget_left \in Nat
  BY ConfigAssumption DEF ConfigAssumption, TypeOK, wait_needed, budget_left
<1> QED BY <1>1, <1>2 DEF plan_delay, Least, Greatest

\* Before its first record() a ladder has no result and no verdict.
FreshLadder ==
  attempts = 0 =>
    /\ held_back = {} /\ submitted = {} /\ already_pending = {}
    /\ resolved_dead = {} /\ resolved_filled = {}
    /\ ~sweep_refused /\ ~possibly_submitted
    /\ ~last_attempt_possibly_submitted
    /\ outstanding = book

\* Ids are held back only between a re-check and the attempt that follows it,
\* and are never also handed to that attempt.
HeldIsPassing ==
  /\ held_back # {} => step = "send"
  /\ outstanding \cap held_back = {}

\* An attempt runs only if next() authorised it, under its ceiling.
Authorised ==
  /\ authorised_attempt <= attempts + 1
  /\ attempts <= MaxAttempts
  /\ step = "sleep" => attempts > 0
  /\ step \in {"sleep", "recheck", "send"} => authorised_attempt = attempts + 1
  /\ authorised_attempt = attempts + 1 /\ attempts > 0 =>
       attempts < ceiling(worst_class) /\ worst_class # "Funding"

\* The stop reason agrees with what has been recorded so far.
ReasonSoFar ==
  /\ step \in {"sleep", "recheck"} => stop_reason = "Unknown"
  /\ step = "decide" /\ ~nothing_left => stop_reason = "Unknown"
  /\ step = "decide" /\ nothing_left /\ sweep_refused =>
       stop_reason = "SweepRefused"
  /\ step = "decide" /\ nothing_left /\ ~sweep_refused /\ possibly_submitted =>
       stop_reason = "SweepPossiblySubmitted"
  /\ step = "send" => stop_reason = "Unknown"

\* The wait of an unanswered sweep: owed in full until the sleep that serves
\* it, and served afterwards.
WaitSoFar ==
  /\ ~last_attempt_possibly_submitted => clock >= no_sooner
  /\ last_attempt_possibly_submitted /\ step # "finish" =>
       IF authorised_attempt > attempts /\ step # "sleep"
       THEN clock >= no_sooner
       ELSE no_sooner = clock + wait_needed
  /\ step = "sleep" => plan_stop_reason = "Unknown"

\* The sweep can have been seen only after one went unanswered, and then every
\* attempt re-checks first.
SweepEvidenceNeedsSweep ==
  /\ sweep_seen_running => possibly_submitted
  /\ last_attempt_possibly_submitted => possibly_submitted
  /\ step = "recheck" => possibly_submitted

LadderInv ==
  /\ TypeOK /\ NoIdLost /\ LiveIsNotResolved /\ NoSilentStop
  /\ SeenSweepSendsNothing
  /\ FreshLadder /\ HeldIsPassing /\ SweepEvidenceNeedsSweep
  /\ Authorised /\ ReasonSoFar /\ WaitSoFar

-----------------------------------------------------------------------------
\* The constructor establishes the invariant: an empty book is Done only when
\* no sweep is due.
LEMMA InitLadder == Init => LadderInv
<1> SUFFICES ASSUME NEW ids \in SUBSET Ids, NEW sweepEmpty \in BOOLEAN,
                    Construct(ids, sweepEmpty)
             PROVE  LadderInv
  BY DEF Init
<1> USE ConfigAssumption DEF Construct
<1>1. TypeOK
  <2>1. /\ outstanding \in SUBSET Ids /\ sweep_when_empty \in BOOLEAN
        /\ stop_reason \in StopReasons
    BY DEF StopReasons
  <2>2. /\ clock \in 0 .. Budget /\ worst_class \in Classes /\ step \in Steps
    BY DEF Classes, Steps
  <2> QED
    BY <2>1, <2>2 DEF TypeOK
<1>2. NoIdLost /\ LiveIsNotResolved /\ NoSilentStop /\ SeenSweepSendsNothing
  BY DEF NoIdLost, LiveIsNotResolved, NoSilentStop, SeenSweepSendsNothing
<1>3. /\ FreshLadder /\ HeldIsPassing /\ SweepEvidenceNeedsSweep
      /\ Authorised /\ ReasonSoFar /\ WaitSoFar
  BY DEF FreshLadder, HeldIsPassing, SweepEvidenceNeedsSweep, Authorised,
         ReasonSoFar, WaitSoFar, nothing_left
<1> QED
  BY <1>1, <1>2, <1>3 DEF LadderInv

\* next() on an empty book ends the ladder, and keeps the reason record() gave
\* when a sweep was refused or unanswered.
LEMMA NextEmptyStep == LadderInv /\ NextEmpty => LadderInv'
<1> SUFFICES ASSUME LadderInv, NextEmpty PROVE LadderInv'
  OBVIOUS
<1> USE ConfigAssumption DEF NextEmpty, empty_reason, buckets
<1>1. TypeOK'
  BY DEF LadderInv, TypeOK, StopReasons, Steps
<1>2. NoIdLost' /\ LiveIsNotResolved'
  BY DEF LadderInv, NoIdLost, LiveIsNotResolved
<1>3. NoSilentStop'
  BY DEF LadderInv, NoSilentStop, ReasonSoFar, HeldIsPassing, clean, nothing_left,
    TypeOK
<1>4. /\ SeenSweepSendsNothing' /\ FreshLadder' /\ HeldIsPassing'
      /\ SweepEvidenceNeedsSweep'
  BY DEF LadderInv, SeenSweepSendsNothing, FreshLadder, HeldIsPassing,
         SweepEvidenceNeedsSweep
<1>5. Authorised'
  BY DEF LadderInv, Authorised, nothing_left, ceiling
<1>6. ReasonSoFar'
  BY DEF LadderInv, ReasonSoFar
<1>7. WaitSoFar'
  BY DEF LadderInv, WaitSoFar, wait_needed
<1> QED
  BY <1>1, <1>2, <1>3, <1>4, <1>5, <1>6, <1>7 DEF LadderInv
\* next() hands out the first attempt, or the one whose sleep was served.
LEMMA NextAttemptStep == LadderInv /\ NextAttempt => LadderInv'
<1> SUFFICES ASSUME LadderInv, NextAttempt PROVE LadderInv'
  OBVIOUS
<1> USE ConfigAssumption DEF NextAttempt, buckets
<1>1. TypeOK'
  BY DEF LadderInv, TypeOK, Steps, attempt_step
<1>2. NoIdLost' /\ LiveIsNotResolved' /\ NoSilentStop'
  BY DEF LadderInv, NoIdLost, LiveIsNotResolved, NoSilentStop, attempt_step
<1>3. SeenSweepSendsNothing'
  BY DEF LadderInv, SeenSweepSendsNothing, FreshLadder, attempt_step,
    needs_recheck, nothing_left,
         SweepEvidenceNeedsSweep
<1>4. FreshLadder' /\ HeldIsPassing' /\ SweepEvidenceNeedsSweep'
  BY DEF LadderInv, FreshLadder, HeldIsPassing, SweepEvidenceNeedsSweep,
         attempt_step, needs_recheck
<1>5. Authorised'
  BY DEF LadderInv, Authorised, TypeOK, ceiling, attempt_step
<1>6. ReasonSoFar'
  BY DEF LadderInv, ReasonSoFar, attempt_step
<1>7. WaitSoFar'
  BY DEF LadderInv, WaitSoFar, wait_needed, attempt_step, FreshLadder, TypeOK
<1> QED
  BY <1>1, <1>2, <1>3, <1>4, <1>5, <1>6, <1>7 DEF LadderInv

\* next() asks the policy: a retry after a sleep, or the end with its reason.
LEMMA NextPlanStep == LadderInv /\ NextPlan => LadderInv'
<1> SUFFICES ASSUME LadderInv, NextPlan PROVE LadderInv'
  OBVIOUS
<1> USE ConfigAssumption DEF NextPlan, buckets
<1>1. TypeOK'
  BY DEF LadderInv, TypeOK, Steps, StopReasons, plan_stop_reason
<1>2. NoIdLost' /\ LiveIsNotResolved'
  BY DEF LadderInv, NoIdLost, LiveIsNotResolved
<1>3. NoSilentStop'
  BY DEF LadderInv, NoSilentStop, HeldIsPassing, clean, nothing_left, plan_stop_reason
<1>4. /\ SeenSweepSendsNothing' /\ FreshLadder' /\ HeldIsPassing'
      /\ SweepEvidenceNeedsSweep'
  BY DEF LadderInv, SeenSweepSendsNothing, FreshLadder, HeldIsPassing,
         SweepEvidenceNeedsSweep
<1>5. Authorised'
  BY DEF LadderInv, Authorised, TypeOK, ceiling, plan_stop_reason, Classes, Least
<1>6. ReasonSoFar'
  BY DEF LadderInv, ReasonSoFar
<1>7. WaitSoFar'
  BY DEF LadderInv, WaitSoFar, TypeOK, wait_needed, plan_stop_reason,
         plan_delay, budget_left, ceiling
<1> QED
  BY <1>1, <1>2, <1>3, <1>4, <1>5, <1>6, <1>7 DEF LadderInv
\* The retry timer: the sleep is as long as the wait still owed, so the wait is
\* served when it ends.
LEMMA WakeStep == LadderInv /\ Wake => LadderInv'
<1> SUFFICES ASSUME LadderInv, Wake PROVE LadderInv'
  OBVIOUS
<1> USE ConfigAssumption DEF Wake, ladderRest, buckets, flags
<1>1. clock' \in Nat /\ clock' <= Budget /\ clock <= clock'
  <2>1. plan_delay \in Int /\ plan_delay >= 0
    BY PlannedDelay DEF LadderInv
  <2>2. After(plan_delay) \in clock .. Budget
    BY <2>1 DEF LadderInv, TypeOK, After, Least
  <2> QED
    BY <2>2 DEF LadderInv, TypeOK
<1>2. last_attempt_possibly_submitted => clock' >= no_sooner
  <2> SUFFICES ASSUME last_attempt_possibly_submitted PROVE clock' >= no_sooner
    OBVIOUS
  <2>1. no_sooner = clock + wait_needed /\ wait_needed \in Nat
    BY DEF LadderInv, TypeOK, WaitSoFar, wait_needed
  <2>2. budget_left \in Nat /\ budget_left >= wait_needed + MinUsefulDelay
    BY <2>1 DEF LadderInv, WaitSoFar, TypeOK, plan_stop_reason, budget_left
  <2>3. plan_delay \in Nat /\ plan_delay >= wait_needed
    <3>1. budget_left >= wait_needed
      BY <2>1, <2>2
    <3> QED BY <3>1, PlannedDelay DEF LadderInv
  <2>4. After(plan_delay) >= clock + wait_needed
    BY <2>1, <2>2, <2>3 DEF LadderInv, TypeOK, After, Least, budget_left
  <2> QED
    BY <2>1, <2>3, <2>4 DEF LadderInv, TypeOK, After, Least
<1>3. TypeOK'
  BY <1>1 DEF LadderInv, TypeOK, Steps
<1>4. NoIdLost' /\ LiveIsNotResolved' /\ NoSilentStop'
  BY DEF LadderInv, NoIdLost, LiveIsNotResolved, NoSilentStop
<1>5. /\ SeenSweepSendsNothing' /\ FreshLadder' /\ HeldIsPassing'
      /\ SweepEvidenceNeedsSweep'
  BY DEF LadderInv, SeenSweepSendsNothing, FreshLadder, HeldIsPassing,
         SweepEvidenceNeedsSweep
<1>6. Authorised'
  BY DEF LadderInv, Authorised, ceiling
<1>7. ReasonSoFar'
  BY DEF LadderInv, ReasonSoFar, Authorised, WaitSoFar, plan_stop_reason,
         nothing_left, TypeOK
<1>8. WaitSoFar'
  BY <1>1, <1>2 DEF LadderInv, WaitSoFar, Authorised, TypeOK
<1> QED
  BY <1>3, <1>4, <1>5, <1>6, <1>7, <1>8 DEF LadderInv

\* Time passing under an RPC disturbs nothing but the clock.
LEMMA RpcTimeStep == LadderInv /\ RpcTime => LadderInv'
<1> SUFFICES ASSUME LadderInv, RpcTime PROVE LadderInv'
  OBVIOUS
<1> USE ConfigAssumption DEF RpcTime, fresh, ladderRest, buckets, flags
<1>1. clock' \in 0 .. Budget /\ clock < clock'
  BY DEF LadderInv, TypeOK
<1>2. TypeOK'
  BY <1>1 DEF LadderInv, TypeOK
<1>3. NoIdLost' /\ LiveIsNotResolved' /\ NoSilentStop'
  BY DEF LadderInv, NoIdLost, LiveIsNotResolved, NoSilentStop, clean
<1>4. /\ SeenSweepSendsNothing' /\ FreshLadder' /\ HeldIsPassing'
      /\ SweepEvidenceNeedsSweep'
  BY DEF LadderInv, SeenSweepSendsNothing, FreshLadder, HeldIsPassing,
         SweepEvidenceNeedsSweep
<1>5. Authorised' /\ ReasonSoFar'
  BY DEF LadderInv, Authorised, ReasonSoFar, ceiling, nothing_left
<1>6. WaitSoFar'
  <2>1. fresh => ~last_attempt_possibly_submitted
    BY DEF LadderInv, FreshLadder
  <2> QED
    BY <1>1, <2>1 DEF LadderInv, WaitSoFar, Authorised, TypeOK
<1> QED
  BY <1>2, <1>3, <1>4, <1>5, <1>6 DEF LadderInv

\* record(), after an attempt or for a seed, for any outcome that names no
\* failed id in another bucket.
LEMMA RecordStep ==
  ASSUME LadderInv,
         step \in {"decide", "send"},
         step = "decide" => attempts = 0 /\ authorised_attempt = 0,
         NEW oc,
         step = "decide" => oc.failed = outstanding,
         oc.cancelled \subseteq asked, oc.failed \subseteq asked,
         oc.already_pending \subseteq asked,
         (oc.failed \cap (oc.cancelled \cup oc.already_pending)) = {},
         oc.worst_class \in Classes,
         oc.sweep_refused \in BOOLEAN, oc.bulk_possibly_submitted \in BOOLEAN,
         oc.possibly_submitted_wait \in Nat,
         Record(oc)
  PROVE  LadderInv'
<1> USE ConfigAssumption
<1>1. TypeOK'
  <2>1. asked \subseteq Ids
    BY DEF asked, LadderInv, TypeOK
  <2>2. /\ submitted' \in SUBSET Ids /\ already_pending' \in SUBSET Ids
        /\ outstanding' \in SUBSET Ids /\ held_back' \in SUBSET Ids
        /\ released' \in SUBSET Ids
    BY <2>1 DEF LadderInv, TypeOK, Record, still_live, attempts_made, buckets
  <2>3. /\ stop_reason' \in StopReasons /\ worst_class' \in Classes
        /\ step' \in Steps
    BY DEF LadderInv, TypeOK, Record, still_live, attempts_made, StopReasons, Steps
  <2>4. /\ attempts' \in Nat /\ last_attempt_wait' \in Nat
        /\ seeded_wait' \in Nat /\ no_sooner' \in Nat
    BY DEF LadderInv, TypeOK, Record, still_live, attempts_made
  <2>5. /\ sweep_refused' \in BOOLEAN /\ possibly_submitted' \in BOOLEAN
        /\ last_attempt_possibly_submitted' \in BOOLEAN
    BY DEF LadderInv, TypeOK, Record, still_live, attempts_made
  <2> QED
    BY <2>2, <2>3, <2>4, <2>5 DEF LadderInv, TypeOK, Record, still_live, attempts_made
<1>2. NoIdLost'
  BY DEF LadderInv, NoIdLost, Record, still_live, attempts_made, reported
<1>3. LiveIsNotResolved'
  BY DEF LadderInv, LiveIsNotResolved, HeldIsPassing, FreshLadder, Record,
    still_live, attempts_made, asked
<1>4. NoSilentStop' /\ SeenSweepSendsNothing' /\ FreshLadder' /\ HeldIsPassing'
  BY DEF LadderInv, TypeOK, NoSilentStop, SeenSweepSendsNothing, FreshLadder,
         HeldIsPassing, Record, still_live, attempts_made
<1>5. SweepEvidenceNeedsSweep'
  BY DEF LadderInv, SweepEvidenceNeedsSweep, Record, still_live, attempts_made
<1>6. Authorised'
  BY DEF LadderInv, TypeOK, Authorised, Record, still_live, attempts_made, ceiling,
    Classes, Least
<1>7. ReasonSoFar'
  <2>1. step' = "decide" /\ (nothing_left' <=> outstanding' = {})
    BY DEF LadderInv, TypeOK, Record, still_live, attempts_made, nothing_left
  <2>2. outstanding' # {} => stop_reason' = "Unknown"
    BY DEF LadderInv, HeldIsPassing, ReasonSoFar, Record, still_live,
      attempts_made, nothing_left
  <2> QED
    BY <2>1, <2>2 DEF ReasonSoFar, Record, still_live, attempts_made
<1>8. WaitSoFar'
  BY DEF LadderInv, TypeOK, WaitSoFar, Authorised, FreshLadder, Record, still_live,
    attempts_made, wait_needed
<1> QED
  BY <1>1, <1>2, <1>3, <1>4, <1>5, <1>6, <1>7, <1>8 DEF LadderInv
\* record_recheck(): every outstanding id lands in one bucket, and live ids are
\* held back while the sweep is seen running.
LEMMA RecheckStep == LadderInv /\ Recheck => LadderInv'
<1> SUFFICES ASSUME LadderInv, NEW part,
                    part.recancel \cup part.already_pending \cup part.dead
                      \cup part.filled \cup part.unknown = outstanding,
                    (part.recancel \cup part.unknown) \cap
                      (part.already_pending \cup part.dead \cup part.filled) = {},
                    part.recancel \cap part.unknown = {},
                    part.sweep_evidence \in BOOLEAN,
                    RecordRecheck(part)
             PROVE  LadderInv'
  <2> SUFFICES ASSUME LadderInv,
                      NEW verdict \in [outstanding -> {"recancel", "already_pending",
                                        "dead", "filled", "unknown"}],
                      NEW shown \in BOOLEAN,
                      LET told(v) == {i \in outstanding : verdict[i] = v}
                      IN  RecordRecheck([recancel |-> told("recancel"),
                            already_pending |-> told("already_pending"),
                            dead |-> told("dead"), filled |-> told("filled"),
                            unknown |-> told("unknown"),
                            sweep_evidence |-> shown])
               PROVE  LadderInv'
    BY DEF Recheck
  <2> DEFINE told(v) == {i \in outstanding : verdict[i] = v}
             part == [recancel |-> told("recancel"),
                      already_pending |-> told("already_pending"),
                      dead |-> told("dead"), filled |-> told("filled"),
                      unknown |-> told("unknown"), sweep_evidence |-> shown]
  <2>1. RecordRecheck(part)
    OBVIOUS
  <2>2. /\ part.recancel \cup part.already_pending \cup part.dead
             \cup part.filled \cup part.unknown = outstanding
        /\ (part.recancel \cup part.unknown) \cap
             (part.already_pending \cup part.dead \cup part.filled) = {}
        /\ part.recancel \cap part.unknown = {}
        /\ part.sweep_evidence \in BOOLEAN
    OBVIOUS
  <2> HIDE DEF part
  <2> QED
    BY <2>1, <2>2
<1> USE ConfigAssumption DEF RecordRecheck, may_cancel
<1>0. held_back = {} /\ step = "recheck"
  BY DEF LadderInv, HeldIsPassing
<1>1. TypeOK'
  <2>1. /\ already_pending' \in SUBSET Ids /\ resolved_dead' \in SUBSET Ids
        /\ resolved_filled' \in SUBSET Ids /\ held_back' \in SUBSET Ids
        /\ outstanding' \in SUBSET Ids /\ step' \in Steps
    BY DEF LadderInv, TypeOK, Steps
  <2>2. sweep_seen_running' \in BOOLEAN
    BY DEF LadderInv, TypeOK
  <2> QED
    BY <2>1, <2>2 DEF LadderInv, TypeOK
<1>2. NoIdLost'
  BY DEF LadderInv, NoIdLost, shows_sweep_running
<1>3. LiveIsNotResolved'
  BY <1>0 DEF LadderInv, LiveIsNotResolved
<1>4. NoSilentStop' /\ FreshLadder' /\ SweepEvidenceNeedsSweep'
  BY <1>0 DEF LadderInv, NoSilentStop, FreshLadder, SweepEvidenceNeedsSweep,
         Authorised
<1>5. SeenSweepSendsNothing' /\ HeldIsPassing'
  BY <1>0 DEF LadderInv, SeenSweepSendsNothing, HeldIsPassing, shows_sweep_running
<1>6. Authorised' /\ ReasonSoFar'
  BY <1>0 DEF LadderInv, Authorised, ReasonSoFar, ceiling
<1>7. WaitSoFar'
  BY <1>0 DEF LadderInv, WaitSoFar, Authorised, TypeOK
<1> QED
  BY <1>1, <1>2, <1>3, <1>4, <1>5, <1>6, <1>7 DEF LadderInv

\* An attempt's outcome names each id at most once.
LEMMA AttemptStep == LadderInv /\ Attempt => LadderInv'
<1> SUFFICES ASSUME LadderInv, step = "send",
                    NEW answer \in [asked -> {"cancelled", "failed",
                                              "already_pending", "none"}],
                    NEW class \in Classes, NEW bulk,
                    Record([cancelled |-> {i \in asked : answer[i] = "cancelled"},
                      failed |-> {i \in asked : answer[i] = "failed"},
                      already_pending |-> {i \in asked : answer[i] = "already_pending"},
                      worst_class |-> class,
                      sweep_refused |-> bulk = "refused",
                      bulk_possibly_submitted |-> bulk = "unanswered",
                      possibly_submitted_wait |-> 0])
             PROVE  LadderInv'
  BY DEF Attempt
<1> DEFINE oc == [cancelled |-> {i \in asked : answer[i] = "cancelled"},
                  failed |-> {i \in asked : answer[i] = "failed"},
                  already_pending |-> {i \in asked : answer[i] = "already_pending"},
                  worst_class |-> class,
                  sweep_refused |-> bulk = "refused",
                  bulk_possibly_submitted |-> bulk = "unanswered",
                  possibly_submitted_wait |-> 0]
<1>1. Record(oc)
  OBVIOUS
<1>2. /\ oc.cancelled \subseteq asked /\ oc.failed \subseteq asked
      /\ oc.already_pending \subseteq asked
      /\ oc.failed \cap (oc.cancelled \cup oc.already_pending) = {}
      /\ oc.worst_class \in Classes
      /\ oc.sweep_refused \in BOOLEAN /\ oc.bulk_possibly_submitted \in BOOLEAN
      /\ oc.possibly_submitted_wait \in Nat
  OBVIOUS
<1> HIDE DEF oc
<1> QED
  BY <1>1, <1>2, RecordStep

\* A seed keeps every id outstanding.
LEMMA SeedStep == LadderInv /\ Seed => LadderInv'
<1> SUFFICES ASSUME LadderInv, step = "decide", attempts = 0,
                    authorised_attempt = 0, NEW rest \in Nat,
                    Record(SeededOutcome(rest))
             PROVE  LadderInv'
  BY DEF Seed, fresh
<1> DEFINE oc == SeededOutcome(rest)
<1>1. Record(oc)
  OBVIOUS
<1>2. /\ oc.cancelled = {} /\ oc.failed = outstanding /\ oc.already_pending = {}
      /\ oc.worst_class \in Classes
      /\ oc.sweep_refused \in BOOLEAN /\ oc.bulk_possibly_submitted \in BOOLEAN
      /\ oc.possibly_submitted_wait \in Nat
  BY DEF SeededOutcome, Classes
<1>3. oc.failed \subseteq asked
  BY <1>2 DEF asked, LadderInv, TypeOK
<1> HIDE DEF oc
<1> QED
  BY <1>1, <1>2, <1>3, RecordStep
-----------------------------------------------------------------------------
\* The invariant survives every step of the ladder and its driver.
THEOREM LadderInductive == LadderInv /\ [Next]_ladderVars => LadderInv'
<1> SUFFICES ASSUME LadderInv, [Next]_ladderVars PROVE LadderInv'
  OBVIOUS
<1>1. CASE UNCHANGED ladderVars
  BY <1>1 DEF LadderInv, TypeOK, NoIdLost, LiveIsNotResolved, NoSilentStop, clean,
       SeenSweepSendsNothing, FreshLadder, HeldIsPassing, SweepEvidenceNeedsSweep,
       Authorised, ceiling, ReasonSoFar, nothing_left, WaitSoFar, wait_needed,
       plan_stop_reason, plan_delay, budget_left, ladderVars, buckets, flags
<1>2. CASE Next
  BY <1>2, NextEmptyStep, NextAttemptStep, NextPlanStep, WakeStep, RpcTimeStep,
     SeedStep, RecheckStep, AttemptStep DEF Next, Decide
<1> QED
  BY <1>1, <1>2

\* LadderInv holds in every reachable state.
THEOREM LadderInvariant == Spec => []LadderInv
<1> QED
  BY InitLadder, LadderInductive, PTL DEF Spec

\* Type correctness, for every set of ids and every schedule.
THEOREM TypeCorrect == Spec => []TypeOK
<1>1. LadderInv => TypeOK
  BY DEF LadderInv
<1> QED
  BY <1>1, LadderInvariant, PTL

\* No id the ladder was built with leaves it unreported (S46).
THEOREM IdsConserved == Spec => []NoIdLost
<1>1. LadderInv => NoIdLost
  BY DEF LadderInv
<1> QED
  BY <1>1, LadderInvariant, PTL

\* The still-live ids and the results never overlap: a filled or cancelling
\* offer is not cancelled again by this ladder.
THEOREM LiveResolvedDisjoint == Spec => []LiveIsNotResolved
<1>1. LadderInv => LiveIsNotResolved
  BY DEF LadderInv
<1> QED
  BY <1>1, LadderInvariant, PTL

\* The ladder stops with a reason, and with Done only when it is clean (S33).
THEOREM StopHasReason == Spec => []NoSilentStop
<1>1. LadderInv => NoSilentStop
  BY DEF LadderInv
<1> QED
  BY <1>1, LadderInvariant, PTL

\* No attempt follows an unanswered sweep before the sweep has had its wait.
THEOREM WaitServed == Spec => []WaitIsServed
<1>1. LadderInv => WaitIsServed
  BY DEF LadderInv, WaitSoFar, Authorised, TypeOK, WaitIsServed
<1> QED
  BY <1>1, LadderInvariant, PTL

\* A ladder that has seen the sweep at work sends no cancel any more.
THEOREM SeenSweepHolds == Spec => []SeenSweepSendsNothing
<1>1. LadderInv => SeenSweepSendsNothing
  BY DEF LadderInv
<1> QED
  BY <1>1, LadderInvariant, PTL

\* At most MaxAttempts attempts, and the short leash of class Other.
THEOREM AttemptsCapped == Spec => []AttemptsBounded
<1>1. LadderInv => AttemptsBounded
  BY DEF LadderInv, Authorised, AttemptsBounded, TypeOK
<1> QED
  BY <1>1, LadderInvariant, PTL

-----------------------------------------------------------------------------
(* The stop.                                                               *)

\* What a re-check may find of an offer, and the calls of a cancel by id.
Verdicts == {"recancel", "already_pending", "dead", "filled", "unknown"}
ByIdCalls == {"id", "emergency", "zero_fee", "local"}

\* Where the stop is, and where its ladder is then.
PhaseAndStep ==
  /\ phase \in {"collect", "probe", "seed", "ladder", "fallback", "settle", "stopped"}
  /\ call \in {"idle", "recheck", "sweep", "reread", "ids"} \cup ByIdCalls
  /\ phase \in {"collect", "probe", "seed"} => fresh /\ call = "idle"
  /\ phase \in {"fallback", "settle", "stopped"} => step = "finish"
  /\ call = "recheck" => phase = "ladder" /\ step = "recheck"
  /\ call \in {"reread", "ids"} \cup ByIdCalls => phase = "ladder" /\ step = "send"
  /\ call = "sweep" => phase = "fallback" \/ (phase = "ladder" /\ step = "send")

\* The buckets of the running attempt or re-check, emptied in between.
BucketsOpen ==
  /\ DOMAIN got = Ids /\ todo \subseteq Ids /\ evidence \in BOOLEAN
  /\ call # "recheck" => evidence = FALSE
  /\ call \in {"idle", "recheck"} => sweep = "none"
  /\ call = "idle" \/ phase = "fallback" =>
       sweep = "none" /\ \A i \in Ids : got[i] = "none"
  /\ call \in ByIdCalls => at \in Ids \ todo

\* A re-check finds one bucket for each outstanding offer, and its evidence is an
\* offer the sweep has reached.
RecheckPartitions ==
  call = "recheck" =>
    /\ todo \subseteq outstanding
    /\ \A i \in Ids \ outstanding : got[i] = "none"
    /\ \A i \in outstanding \ todo : got[i] \in Verdicts
    /\ evidence => \E i \in outstanding \ todo : got[i] \in {"already_pending", "dead"}

\* Only attempt 1 is a sweep; a retry touches what it was given.
RetryIsGiven ==
  phase = "ladder" /\ step = "send" /\ call # "idle" /\ attempts > 0 =>
    /\ call \in {"ids"} \cup ByIdCalls /\ sweep = "none"
    /\ todo \subseteq outstanding
    /\ call \in ByIdCalls => at \in outstanding
    /\ \A i \in Ids \ outstanding : got[i] = "none"

\* After an unanswered sweep, what may be cancelled has been asked about.
AskedFirst ==
  /\ call = "recheck" => \A i \in Ids : got[i] = "recancel" => i \notin unasked
  /\ step = "send" /\ possibly_submitted =>
       (IF call = "idle" THEN outstanding ELSE todo) \cap unasked = {}

StopInv == /\ LadderInv /\ PhaseAndStep /\ BucketsOpen /\ RecheckPartitions
           /\ RetryIsGiven /\ AskedFirst

\* What the wallet calls taken is spent, and stays so; the orders stand.
TakenIsSpent == \A o \in Offers : trade[o] = "confirmed" => coins[o] # "unspent"

FilledIsTaken ==
  /\ \A i \in resolved_filled : trade[i] = "confirmed"
  /\ call = "recheck" => \A i \in Ids : got[i] = "filled" => trade[i] = "confirmed"

OrdersOnDisk ==
  /\ DOMAIN cancel_intent = Offers
  /\ \A o \in Recovered : cancel_intent[o] # "none"
  /\ phase \notin {"collect", "stopped"} => \A o \in book : cancel_intent[o] # "none"
  /\ phase = "stopped" => \A o \in book \ resolved_filled : cancel_intent[o] # "none"

OrderInv == /\ DOMAIN trade = Offers /\ DOMAIN coins = Offers
            /\ TakenIsSpent /\ FilledIsTaken /\ OrdersOnDisk

-----------------------------------------------------------------------------
(* Every step of the stop is a step of the ladder or leaves it alone.      *)

\* Time that passes during a call is the ladder's RpcTime.
LEMMA TimePasses ==
  ASSUME LadderInv, NEW d \in Nat, clock' = After(d), UNCHANGED ladderStill,
         step \in {"recheck", "send", "finish"} \/ fresh
  PROVE  RpcTime \/ UNCHANGED ladderVars
<1>1. clock \in 0 .. Budget /\ Budget \in Nat
  BY ConfigAssumption DEF LadderInv, TypeOK
<1>2. clock' = clock \/ clock' \in (clock + 1) .. Budget
  BY <1>1 DEF After, Least
<1>3. UNCHANGED <<ladderRest, step>>
  BY DEF ladderStill
<1> QED BY <1>2, <1>3 DEF RpcTime, ladderVars, ladderRest

\* So is a call that is answered at once.
LEMMA CallTakes ==
  ASSUME LadderInv, UNCHANGED ladderStill,
         clock' = After(RequestTimeout) \/ UNCHANGED clock,
         step \in {"recheck", "send", "finish"} \/ fresh
  PROVE  RpcTime \/ UNCHANGED ladderVars
<1>1. CASE clock' = After(RequestTimeout)
  BY <1>1, TimePasses, StopAssumption DEF StopAssumption
<1>2. CASE UNCHANGED clock
  BY <1>2 DEF ladderStill, ladderVars, ladderRest
<1> QED BY <1>1, <1>2

\* The recorded buckets of an attempt are one of the ladder's answers.
LEMMA AttemptRefines ==
  ASSUME StopInv, EndAttempt
  PROVE  Attempt
<1> DEFINE answer == [i \in asked |->
             CASE got[i] = "cancelled"            -> "cancelled"
               [] got[i] \in {"failed", "unfunded"} -> "failed"
               [] got[i] = "already_pending"      -> "already_pending"
               [] OTHER                           -> "none"]
           how == IF attempts > 0 THEN "none"
                  ELSE IF sweep \in {"refused", "unanswered"} THEN sweep ELSE "accepted"
<1>1. attempts \in Nat /\ outstanding \subseteq Ids
  BY DEF StopInv, LadderInv, TypeOK
<1>2. step = "send" /\ phase = "ladder" /\ call = "ids"
  BY DEF EndAttempt, Does, inLadder
<1>3. \A i \in Ids \ asked : got[i] = "none"
  BY <1>1, <1>2 DEF StopInv, RetryIsGiven, asked
<1>4. asked \subseteq Ids
  BY <1>1 DEF asked
<1>5. PICK class \in Classes :
        Record([cancelled |-> found("cancelled"),
                failed |-> found("failed") \cup found("unfunded"),
                already_pending |-> found("already_pending"),
                worst_class |-> class,
                sweep_refused |-> sweep = "refused",
                bulk_possibly_submitted |-> sweep = "unanswered",
                possibly_submitted_wait |-> 0])
  BY DEF EndAttempt, Classes
<1>6. answer \in [asked -> {"cancelled", "failed", "already_pending", "none"}]
  OBVIOUS
<1>7. how \in IF attempts = 0 THEN {"accepted", "refused", "unanswered"} ELSE {"none"}
  BY <1>1
<1>8. /\ (sweep = "refused") = (how = "refused")
      /\ (sweep = "unanswered") = (how = "unanswered")
  BY <1>1, <1>2 DEF StopInv, RetryIsGiven
<1>9. /\ found("cancelled") = {i \in asked : answer[i] = "cancelled"}
      /\ found("failed") \cup found("unfunded") = {i \in asked : answer[i] = "failed"}
      /\ found("already_pending") = {i \in asked : answer[i] = "already_pending"}
  BY <1>3, <1>4 DEF found
<1> HIDE DEF answer, how
<1> QED BY <1>2, <1>5, <1>6, <1>7, <1>8, <1>9 DEF Attempt

\* The partition of a re-check is one of the ladder's verdicts.
LEMMA RecheckRefines ==
  ASSUME StopInv, EndRecheck
  PROVE  Recheck
<1> DEFINE verdict == [i \in outstanding |-> got[i]]
           bucket(v) == {i \in outstanding : verdict[i] = v}
<1>1. outstanding \subseteq Ids
  BY DEF StopInv, LadderInv, TypeOK
<1>2. call = "recheck" /\ todo = {}
  BY DEF EndRecheck
<1>3. \A i \in Ids \ outstanding : got[i] = "none"
  BY <1>2 DEF StopInv, RecheckPartitions
<1>4. verdict \in [outstanding -> Verdicts]
  BY <1>2 DEF StopInv, RecheckPartitions
<1>5. \A v \in Verdicts : found(v) = bucket(v)
  BY <1>1, <1>3 DEF found, Verdicts
<1>6. evidence \in BOOLEAN
  BY DEF StopInv, BucketsOpen
<1>7. evidence => bucket("already_pending") \cup bucket("dead") # {}
  BY <1>2 DEF StopInv, RecheckPartitions
<1>8. RecordRecheck([recancel |-> bucket("recancel"),
                     already_pending |-> bucket("already_pending"),
                     dead |-> bucket("dead"), filled |-> bucket("filled"),
                     unknown |-> bucket("unknown"),
                     sweep_evidence |-> evidence])
  BY <1>5 DEF EndRecheck, Verdicts
<1> QED BY <1>4, <1>6, <1>7, <1>8 DEF Recheck, Verdicts

\* A seed owes at least the least useful delay, and at most a whole wait.
LEMMA SeedRefines ==
  ASSUME StopInv, StartLadder
  PROVE  Seed \/ UNCHANGED ladderVars
<1>1. CASE operator_sweep
  <2>1. PICK age \in 0 .. SweepWait : Record(SeededOutcome(remaining_wait(age)))
    BY <1>1 DEF StartLadder
  <2>2. remaining_wait(age) \in 1 .. Greatest(SweepWait, MinUsefulDelay)
    BY <2>1, ConfigAssumption
       DEF ConfigAssumption, remaining_wait, Greatest, StopInv, LadderInv, TypeOK
  <2>3. fresh
    BY DEF StartLadder, StopInv, PhaseAndStep
  <2> QED BY <2>1, <2>2, <2>3 DEF Seed
<1>2. CASE ~operator_sweep
  BY <1>2 DEF StartLadder
<1> QED BY <1>1, <1>2

\* The timer sleeps the planned delay, and never past the budget.
LEMMA SleepRefines ==
  ASSUME StopInv, SleepOut
  PROVE  Wake
<1>1. clock \in 0 .. Budget /\ Budget \in Nat
  BY ConfigAssumption DEF ConfigAssumption, StopInv, LadderInv, TypeOK
<1>2. plan_delay \in Int
  BY PlannedDelay DEF StopInv, LadderInv
<1> QED BY <1>1, <1>2 DEF SleepOut, Wake, inLadder, After, Least

\* The steps that are none of the ladder's, and those that only take time.
StopLeavesLadder ==
  \/ UNCHANGED stopVars
  \/ WriteAhead \/ StartRecheck \/ SendSweep \/ SweepAccepted \/ SweepIsRefused
  \/ RereadDone \/ StartIds \/ IdsDeadline \/ IdAccepted
  \/ FallbackSend \/ FallbackAnswered \/ Settle
  \/ \E i \in Ids : SkipId(i) \/ SendId(i)
  \/ Beside

StopTakesTime ==
  \/ SyncProbe \/ SweepUnanswered \/ IdFailed \/ EmergencySend \/ EmergencyFailed
  \/ \E i \in Ids : RecheckOne(i) \/ RereadOne(i)

\* What leaves the ladder alone.
LEMMA Still ==
  ASSUME StopLeavesLadder
  PROVE  UNCHANGED ladderVars
  BY DEF StopLeavesLadder, stopVars, WriteAhead, StartRecheck, SendSweep,
         SweepAccepted,
         SweepIsRefused, RereadDone, StartIds, IdsDeadline, IdAccepted, FallbackSend,
         FallbackAnswered, Settle, SkipId, SendId, Beside, WalletRuns, HeartbeatDetects,
         CreateLands, CreateRecorded

\* What only takes time on the ladder's clock.
LEMMA Timed ==
  ASSUME StopInv, StopTakesTime
  PROVE  RpcTime \/ UNCHANGED ladderVars
<1>1. /\ UNCHANGED ladderStill
      /\ clock' = After(RequestTimeout) \/ UNCHANGED clock
      /\ step \in {"recheck", "send", "finish"} \/ fresh
  BY DEF StopTakesTime, SyncProbe, SweepUnanswered, IdFailed, EmergencySend,
         EmergencyFailed, RecheckOne, RereadOne, answer_time, StopInv, PhaseAndStep,
         ByIdCalls, Does, inLadder
<1> QED BY <1>1, CallTakes DEF StopInv

\* The rest of a seeded wait is time on the clock as well.
LEMMA EndRefines ==
  ASSUME StopInv, EndLadder
  PROVE  RpcTime \/ UNCHANGED ladderVars
<1>1. wait_owed_before_fallback \in Nat
  BY DEF wait_owed_before_fallback, StopInv, LadderInv, TypeOK
<1>2. /\ step = "finish" /\ UNCHANGED ladderStill
      /\ clock' = After(wait_owed_before_fallback)
  BY DEF EndLadder, inLadder
<1> QED BY <1>1, <1>2, TimePasses DEF StopInv

\* Every step of the stop is one of the ladder's or none.
LEMMA StopRefines ==
  ASSUME StopInv, [StopNext]_stopVars
  PROVE  [Next]_ladderVars
<1>1. \/ StopLeavesLadder \/ StopTakesTime \/ EndLadder
      \/ StartLadder \/ DecideNext \/ SleepOut \/ EndRecheck \/ EndAttempt
  BY DEF StopNext, EngineNext, StopLeavesLadder, StopTakesTime
<1>2. CASE StopLeavesLadder \/ StopTakesTime \/ EndLadder
  BY <1>2, Still, Timed, EndRefines DEF Next
<1>3. CASE StartLadder \/ SleepOut \/ EndRecheck \/ EndAttempt
  BY <1>3, SeedRefines, SleepRefines, RecheckRefines, AttemptRefines DEF Next
<1>4. CASE DecideNext
  BY <1>4 DEF DecideNext, Next
<1> QED BY <1>1, <1>2, <1>3, <1>4

-----------------------------------------------------------------------------
(* The invariant. *)

\* Every book a stop may find satisfies the invariant.
LEMMA StopInitInv == StopInit => StopInv /\ OrderInv
<1> SUFFICES ASSUME StopInit PROVE StopInv /\ OrderInv
  OBVIOUS
<1>1. PICK kind \in [Ids -> Kinds] :
        LET Of(k) == {i \in Ids : kind[i] = k}
        IN  /\ Construct(Ids \ Of("none"), TRUE)
            /\ trade = [o \in Offers |->
                CASE o \in Of("none") -> "absent"
                  [] o \in Of("cancelling") -> "pending_cancel"
                  [] o \in Of("taken") -> "confirmed"
                  [] o \in Of("local") -> "cancelled"
                  [] OTHER -> "open"]
            /\ coins = [o \in Offers |-> CASE o \in Of("none") -> "none"
                                          [] o \in Of("taken") -> "taken"
                                          [] OTHER -> "unspent"]
  BY DEF StopInit
<1> DEFINE Of(k) == {i \in Ids : kind[i] = k}
<1>2. Construct(Ids \ Of("none"), TRUE)
  BY <1>1
<1>3. Init
  BY <1>2 DEF Init
<1>4. LadderInv
  BY <1>3, InitLadder
<1>5. /\ phase = "collect" /\ call = "idle" /\ todo = {} /\ evidence = FALSE
      /\ got = [i \in Ids |-> "none"] /\ sweep = "none"
      /\ cancel_intent = [o \in Offers |-> IF o \in Recovered THEN "ordered" ELSE "none"]
  BY DEF StopInit
<1>6. fresh /\ resolved_filled = {} /\ possibly_submitted = FALSE
  BY <1>2 DEF Construct, fresh
<1>7. PhaseAndStep /\ BucketsOpen
  BY <1>5, <1>6 DEF PhaseAndStep, BucketsOpen, ByIdCalls
<1>8. RecheckPartitions /\ RetryIsGiven /\ AskedFirst
  BY <1>5, <1>6 DEF RecheckPartitions, RetryIsGiven, AskedFirst
<1>9. DOMAIN trade = Offers /\ DOMAIN coins = Offers /\ TakenIsSpent
  BY <1>1 DEF TakenIsSpent
<1>10. FilledIsTaken /\ OrdersOnDisk
  BY <1>5, <1>6, StopAssumption DEF FilledIsTaken, OrdersOnDisk, StopAssumption
<1> QED BY <1>4, <1>7, <1>8, <1>9, <1>10 DEF StopInv, OrderInv

\* The wallet and the heartbeat beside the stop leave its own steps alone.
LEMMA BesideStill ==
  ASSUME Beside
  PROVE  UNCHANGED <<ladderVars, attemptVars, phase, unasked>>
  BY DEF Beside, WalletRuns, HeartbeatDetects, CreateLands, CreateRecorded, stopRest

\* A retry neither sweeps nor reads again.
LEMMA FirstSweeps ==
  ASSUME StopInv, phase = "ladder", step = "send", call \in {"sweep", "reread"}
  PROVE  attempts = 0 /\ ~possibly_submitted
<1>1. attempts \in Nat /\ (attempts = 0 => ~possibly_submitted)
  BY DEF StopInv, LadderInv, TypeOK, FreshLadder
<1>2. ~(attempts > 0)
  BY DEF StopInv, RetryIsGiven, ByIdCalls
<1> QED BY <1>1, <1>2

\* Each phase leaves the ladder where the next one expects it.
LEMMA PhaseStep ==
  ASSUME StopInv, [StopNext]_stopVars
  PROVE  PhaseAndStep'
<1> USE DEF StopInv, PhaseAndStep, BucketsOpen, Does, inLadder, ByIdCalls,
             ladderVars, ladderRest, ladderStill, buckets, flags, stopRest,
             orderVars, entryVars, attemptVars, alertVars, fresh
<1>0. /\ outstanding \subseteq Ids /\ attempts \in Nat
      /\ attempts = 0 => ~possibly_submitted
  BY DEF LadderInv, TypeOK, FreshLadder
<1>1. CASE UNCHANGED stopVars
  BY <1>0, <1>1 DEF stopVars
<1>2. CASE WriteAhead
  BY <1>0, <1>2 DEF WriteAhead
<1>3. CASE SyncProbe
  BY <1>0, <1>3 DEF SyncProbe
<1>4. CASE StartLadder
  BY <1>0, <1>4 DEF StartLadder, Record, SeededOutcome, fresh
<1>5. CASE DecideNext
  BY <1>0, <1>5
     DEF DecideNext, Decide, NextEmpty, NextAttempt, NextPlan, attempt_step,
         needs_recheck
<1>6. CASE SleepOut
  BY <1>0, <1>6 DEF SleepOut
<1>7. CASE StartRecheck
  BY <1>0, <1>7 DEF StartRecheck
<1>8. CASE \E i \in Ids : RecheckOne(i)
  BY <1>0, <1>8 DEF RecheckOne, Verdict
<1>9. CASE EndRecheck
  BY <1>0, <1>9 DEF EndRecheck, RecordRecheck, may_cancel, found
<1>10. CASE SendSweep
  BY <1>0, <1>10 DEF SendSweep, tracked
<1>11. CASE SweepAccepted \/ SweepIsRefused
  BY <1>0, <1>11 DEF SweepAccepted, SweepIsRefused, found
<1>12. CASE SweepUnanswered
  BY <1>0, <1>12 DEF SweepUnanswered
<1>13. CASE \E i \in Ids : RereadOne(i)
  BY <1>0, <1>13 DEF RereadOne
<1>14. CASE RereadDone \/ StartIds \/ IdsDeadline
  BY <1>0, <1>14 DEF RereadDone, StartIds, IdsDeadline, found
<1>15. CASE \E i \in Ids : SkipId(i) \/ SendId(i)
  BY <1>0, <1>15 DEF SkipId, SendId
<1>16. CASE IdAccepted \/ IdFailed
  BY <1>0, <1>16 DEF IdAccepted, IdFailed
<1>17. CASE EmergencySend \/ EmergencyFailed
  BY <1>0, <1>17 DEF EmergencySend, EmergencyFailed
<1>18. CASE EndAttempt
  BY <1>0, <1>18 DEF EndAttempt, Record
<1>19. CASE EndLadder
  BY <1>0, <1>19 DEF EndLadder
<1>20. CASE FallbackSend \/ FallbackAnswered \/ Settle
  BY <1>0, <1>20 DEF FallbackSend, FallbackAnswered, Settle
<1>21. CASE Beside
  BY <1>21, BesideStill
<1> QED BY <1>1, <1>2, <1>3, <1>4, <1>5, <1>6, <1>7, <1>8, <1>9, <1>10, <1>11,
       <1>12, <1>13, <1>14, <1>15, <1>16, <1>17, <1>18, <1>19, <1>20, <1>21
       DEF StopNext, EngineNext

\* The buckets are emptied when an attempt or a re-check ends.
LEMMA BucketStep ==
  ASSUME StopInv, [StopNext]_stopVars
  PROVE  BucketsOpen'
<1> USE DEF StopInv, PhaseAndStep, BucketsOpen, Does, inLadder, ByIdCalls,
             ladderVars, ladderRest, ladderStill, buckets, flags, stopRest,
             orderVars, entryVars, attemptVars, alertVars
<1>0. /\ outstanding \subseteq Ids /\ attempts \in Nat
      /\ attempts = 0 => ~possibly_submitted
  BY DEF LadderInv, TypeOK, FreshLadder
<1>1. CASE UNCHANGED stopVars
  BY <1>0, <1>1 DEF stopVars
<1>2. CASE WriteAhead
  BY <1>0, <1>2 DEF WriteAhead
<1>3. CASE SyncProbe
  BY <1>0, <1>3 DEF SyncProbe
<1>4. CASE StartLadder
  BY <1>0, <1>4 DEF StartLadder, Record, SeededOutcome, fresh
<1>5. CASE DecideNext
  BY <1>0, <1>5
     DEF DecideNext, Decide, NextEmpty, NextAttempt, NextPlan, attempt_step,
         needs_recheck
<1>6. CASE SleepOut
  BY <1>0, <1>6 DEF SleepOut
<1>7. CASE StartRecheck
  BY <1>0, <1>7 DEF StartRecheck
<1>8. CASE \E i \in Ids : RecheckOne(i)
  BY <1>0, <1>8 DEF RecheckOne, Verdict
<1>9. CASE EndRecheck
  BY <1>0, <1>9 DEF EndRecheck, RecordRecheck, may_cancel, found
<1>10. CASE SendSweep
  BY <1>0, <1>10 DEF SendSweep, tracked
<1>11. CASE SweepAccepted \/ SweepIsRefused
  BY <1>0, <1>11 DEF SweepAccepted, SweepIsRefused, found
<1>12. CASE SweepUnanswered
  BY <1>0, <1>12 DEF SweepUnanswered
<1>13. CASE \E i \in Ids : RereadOne(i)
  BY <1>0, <1>13 DEF RereadOne
<1>14. CASE RereadDone \/ StartIds \/ IdsDeadline
  BY <1>0, <1>14 DEF RereadDone, StartIds, IdsDeadline, found
<1>15. CASE \E i \in Ids : SkipId(i) \/ SendId(i)
  BY <1>0, <1>15 DEF SkipId, SendId
<1>16. CASE IdAccepted \/ IdFailed
  BY <1>0, <1>16 DEF IdAccepted, IdFailed
<1>17. CASE EmergencySend \/ EmergencyFailed
  BY <1>0, <1>17 DEF EmergencySend, EmergencyFailed
<1>18. CASE EndAttempt
  BY <1>0, <1>18 DEF EndAttempt, Record
<1>19. CASE EndLadder
  BY <1>0, <1>19 DEF EndLadder
<1>20. CASE FallbackSend \/ FallbackAnswered \/ Settle
  BY <1>0, <1>20 DEF FallbackSend, FallbackAnswered, Settle
<1>21. CASE Beside
  BY <1>21, BesideStill
<1> QED BY <1>1, <1>2, <1>3, <1>4, <1>5, <1>6, <1>7, <1>8, <1>9, <1>10, <1>11,
       <1>12, <1>13, <1>14, <1>15, <1>16, <1>17, <1>18, <1>19, <1>20, <1>21
       DEF StopNext, EngineNext

\* A re-check takes every outstanding offer once, into one bucket.
LEMMA PartitionStep ==
  ASSUME StopInv, [StopNext]_stopVars
  PROVE  RecheckPartitions'
<1> USE DEF StopInv, PhaseAndStep, BucketsOpen, RecheckPartitions, Does, inLadder,
             ByIdCalls, ladderVars, ladderRest, ladderStill, buckets, flags,
             stopRest, orderVars, entryVars, attemptVars, alertVars, Verdicts
<1>0. /\ outstanding \subseteq Ids /\ attempts \in Nat
      /\ attempts = 0 => ~possibly_submitted
  BY DEF LadderInv, TypeOK, FreshLadder
<1>1. CASE UNCHANGED stopVars
  BY <1>0, <1>1 DEF stopVars
<1>2. CASE WriteAhead
  BY <1>0, <1>2 DEF WriteAhead
<1>3. CASE SyncProbe
  BY <1>0, <1>3 DEF SyncProbe
<1>4. CASE StartLadder
  BY <1>0, <1>4 DEF StartLadder, Record, SeededOutcome, fresh
<1>5. CASE DecideNext
  BY <1>0, <1>5
     DEF DecideNext, Decide, NextEmpty, NextAttempt, NextPlan, attempt_step,
         needs_recheck
<1>6. CASE SleepOut
  BY <1>0, <1>6 DEF SleepOut
<1>7. CASE StartRecheck
  BY <1>0, <1>7 DEF StartRecheck
<1>8. CASE \E i \in Ids : RecheckOne(i)
  BY <1>0, <1>8 DEF RecheckOne, Verdict
<1>9. CASE EndRecheck
  BY <1>0, <1>9 DEF EndRecheck, RecordRecheck, may_cancel, found
<1>10. CASE SendSweep
  BY <1>0, <1>10 DEF SendSweep, tracked
<1>11. CASE SweepAccepted \/ SweepIsRefused
  BY <1>0, <1>11 DEF SweepAccepted, SweepIsRefused, found
<1>12. CASE SweepUnanswered
  BY <1>0, <1>12 DEF SweepUnanswered
<1>13. CASE \E i \in Ids : RereadOne(i)
  BY <1>0, <1>13 DEF RereadOne
<1>14. CASE RereadDone \/ StartIds \/ IdsDeadline
  BY <1>0, <1>14 DEF RereadDone, StartIds, IdsDeadline, found
<1>15. CASE \E i \in Ids : SkipId(i) \/ SendId(i)
  BY <1>0, <1>15 DEF SkipId, SendId
<1>16. CASE IdAccepted \/ IdFailed
  BY <1>0, <1>16 DEF IdAccepted, IdFailed
<1>17. CASE EmergencySend \/ EmergencyFailed
  BY <1>0, <1>17 DEF EmergencySend, EmergencyFailed
<1>18. CASE EndAttempt
  BY <1>0, <1>18 DEF EndAttempt, Record
<1>19. CASE EndLadder
  BY <1>0, <1>19 DEF EndLadder
<1>20. CASE FallbackSend \/ FallbackAnswered \/ Settle
  BY <1>0, <1>20 DEF FallbackSend, FallbackAnswered, Settle
<1>21. CASE Beside
  BY <1>21, BesideStill
<1> QED BY <1>1, <1>2, <1>3, <1>4, <1>5, <1>6, <1>7, <1>8, <1>9, <1>10, <1>11,
       <1>12, <1>13, <1>14, <1>15, <1>16, <1>17, <1>18, <1>19, <1>20, <1>21
       DEF StopNext, EngineNext

\* A retry reaches only what next() left outstanding.
LEMMA GivenStep ==
  ASSUME StopInv, [StopNext]_stopVars
  PROVE  RetryIsGiven'
<1> USE DEF StopInv, PhaseAndStep, BucketsOpen, RetryIsGiven, Does, inLadder,
             ByIdCalls, ladderVars, ladderRest, ladderStill, buckets, flags,
             stopRest, orderVars, entryVars, attemptVars, alertVars
<1>0. /\ outstanding \subseteq Ids /\ attempts \in Nat
      /\ attempts = 0 => ~possibly_submitted
  BY DEF LadderInv, TypeOK, FreshLadder
<1>1. CASE UNCHANGED stopVars
  BY <1>0, <1>1 DEF stopVars
<1>2. CASE WriteAhead
  BY <1>0, <1>2 DEF WriteAhead
<1>3. CASE SyncProbe
  BY <1>0, <1>3 DEF SyncProbe
<1>4. CASE StartLadder
  BY <1>0, <1>4 DEF StartLadder, Record, SeededOutcome, fresh
<1>5. CASE DecideNext
  BY <1>0, <1>5
     DEF DecideNext, Decide, NextEmpty, NextAttempt, NextPlan, attempt_step,
         needs_recheck
<1>6. CASE SleepOut
  BY <1>0, <1>6 DEF SleepOut
<1>7. CASE StartRecheck
  BY <1>0, <1>7 DEF StartRecheck
<1>8. CASE \E i \in Ids : RecheckOne(i)
  BY <1>0, <1>8 DEF RecheckOne, Verdict
<1>9. CASE EndRecheck
  BY <1>0, <1>9 DEF EndRecheck, RecordRecheck, may_cancel, found
<1>10. CASE SendSweep
  BY <1>0, <1>10 DEF SendSweep, tracked
<1>11. CASE SweepAccepted \/ SweepIsRefused
  BY <1>0, <1>11 DEF SweepAccepted, SweepIsRefused, found
<1>12. CASE SweepUnanswered
  BY <1>0, <1>12 DEF SweepUnanswered
<1>13. CASE \E i \in Ids : RereadOne(i)
  BY <1>0, <1>13 DEF RereadOne
<1>14. CASE RereadDone \/ StartIds \/ IdsDeadline
  BY <1>0, <1>14 DEF RereadDone, StartIds, IdsDeadline, found
<1>15. CASE \E i \in Ids : SkipId(i) \/ SendId(i)
  BY <1>0, <1>15 DEF SkipId, SendId
<1>16. CASE IdAccepted \/ IdFailed
  BY <1>0, <1>16 DEF IdAccepted, IdFailed
<1>17. CASE EmergencySend \/ EmergencyFailed
  BY <1>0, <1>17 DEF EmergencySend, EmergencyFailed
<1>18. CASE EndAttempt
  BY <1>0, <1>18 DEF EndAttempt, Record
<1>19. CASE EndLadder
  BY <1>0, <1>19 DEF EndLadder
<1>20. CASE FallbackSend \/ FallbackAnswered \/ Settle
  BY <1>0, <1>20 DEF FallbackSend, FallbackAnswered, Settle
<1>21. CASE Beside
  BY <1>21, BesideStill
<1> QED BY <1>1, <1>2, <1>3, <1>4, <1>5, <1>6, <1>7, <1>8, <1>9, <1>10, <1>11,
       <1>12, <1>13, <1>14, <1>15, <1>16, <1>17, <1>18, <1>19, <1>20, <1>21
       DEF StopNext, EngineNext

\* What a re-check leaves outstanding has been answered for.
LEMMA AskedStep ==
  ASSUME StopInv, [StopNext]_stopVars
  PROVE  AskedFirst'
<1> USE DEF StopInv, PhaseAndStep, BucketsOpen, AskedFirst, Does, inLadder,
             ByIdCalls, ladderVars, ladderRest, ladderStill, buckets, flags,
             stopRest, orderVars, entryVars, attemptVars, alertVars,
             shows_sweep_running
<1>0. /\ outstanding \subseteq Ids /\ attempts \in Nat
      /\ attempts = 0 => ~possibly_submitted
  BY DEF LadderInv, TypeOK, FreshLadder
<1>1. CASE UNCHANGED stopVars
  BY <1>0, <1>1 DEF stopVars
<1>2. CASE WriteAhead
  BY <1>0, <1>2 DEF WriteAhead
<1>3. CASE SyncProbe
  BY <1>0, <1>3 DEF SyncProbe
<1>4. CASE StartLadder
  BY <1>0, <1>4 DEF StartLadder, Record, SeededOutcome, fresh
<1>5. CASE DecideNext
  BY <1>0, <1>5
     DEF DecideNext, Decide, NextEmpty, NextAttempt, NextPlan, attempt_step,
         needs_recheck
<1>6. CASE SleepOut
  BY <1>0, <1>6 DEF SleepOut
<1>7. CASE StartRecheck
  BY <1>0, <1>7 DEF StartRecheck
<1>8. CASE \E i \in Ids : RecheckOne(i)
  BY <1>0, <1>8 DEF RecheckOne, Verdict
<1>9. CASE EndRecheck
  BY <1>0, <1>9 DEF EndRecheck, RecordRecheck, may_cancel, found
<1>10. CASE SendSweep
  BY <1>0, <1>10 DEF SendSweep, tracked
<1>11. CASE SweepAccepted \/ SweepIsRefused
  <2>1. phase = "ladder" /\ step = "send" /\ call \in {"sweep", "reread"}
    BY <1>11 DEF SweepAccepted, SweepIsRefused
  <2>2. ~possibly_submitted /\ UNCHANGED possibly_submitted /\ call' # "recheck"
    BY <2>1, FirstSweeps, <1>11 DEF SweepAccepted, SweepIsRefused
  <2> QED BY <2>2
<1>12. CASE SweepUnanswered
  BY <1>0, <1>12 DEF SweepUnanswered
<1>13. CASE \E i \in Ids : RereadOne(i)
  BY <1>0, <1>13 DEF RereadOne
<1>14. CASE RereadDone \/ StartIds \/ IdsDeadline
  <2>1. CASE RereadDone
    <3>1. phase = "ladder" /\ step = "send" /\ call \in {"sweep", "reread"}
      BY <2>1 DEF RereadDone
    <3>2. ~possibly_submitted /\ UNCHANGED possibly_submitted /\ call' # "recheck"
      BY <3>1, <2>1, FirstSweeps DEF RereadDone
    <3> QED BY <3>2
  <2>2. CASE StartIds
    BY <2>2 DEF StartIds
  <2>3. CASE IdsDeadline
    BY <2>3 DEF IdsDeadline
  <2> QED BY <2>1, <2>2, <2>3, <1>14
<1>15. CASE \E i \in Ids : SkipId(i) \/ SendId(i)
  BY <1>0, <1>15 DEF SkipId, SendId
<1>16. CASE IdAccepted \/ IdFailed
  BY <1>0, <1>16 DEF IdAccepted, IdFailed
<1>17. CASE EmergencySend \/ EmergencyFailed
  BY <1>0, <1>17 DEF EmergencySend, EmergencyFailed
<1>18. CASE EndAttempt
  BY <1>0, <1>18 DEF EndAttempt, Record
<1>19. CASE EndLadder
  BY <1>0, <1>19 DEF EndLadder
<1>20. CASE FallbackSend \/ FallbackAnswered \/ Settle
  BY <1>0, <1>20 DEF FallbackSend, FallbackAnswered, Settle
<1>21. CASE Beside
  BY <1>21, BesideStill
<1> QED BY <1>1, <1>2, <1>3, <1>4, <1>5, <1>6, <1>7, <1>8, <1>9, <1>10, <1>11,
       <1>12, <1>13, <1>14, <1>15, <1>16, <1>17, <1>18, <1>19, <1>20, <1>21
       DEF StopNext, EngineNext

\* Every step keeps the invariant: the ladder's part as it is a step of the ladder.
LEMMA StopStep == StopInv /\ [StopNext]_stopVars => StopInv'
<1> SUFFICES ASSUME StopInv, [StopNext]_stopVars PROVE StopInv'
  OBVIOUS
<1>1. LadderInv'
  BY StopRefines, LadderInductive DEF StopInv
<1>2. PhaseAndStep' /\ BucketsOpen'
  BY PhaseStep, BucketStep
<1>3. RecheckPartitions' /\ RetryIsGiven' /\ AskedFirst'
  BY PartitionStep, GivenStep, AskedStep
<1> QED BY <1>1, <1>2, <1>3 DEF StopInv

\* The invariant holds throughout a stop.
THEOREM StopInvariant == StopSpec => []StopInv
<1>1. StopInit => StopInv
  BY StopInitInv
<1> QED BY <1>1, StopStep, PTL DEF StopSpec

\* The detailed stop implements the ladder: from its first state, every step of the
\* engine, the wallet and the interrupted heartbeat is one of CancelLadder or leaves
\* it alone.
THEOREM StopImplementsLadder == StopSpec => LadderRuns
<1>1. StopInit => Init
  BY DEF StopInit, Init
<1>2. StopInv /\ [StopNext]_stopVars => [Next]_ladderVars
  BY StopRefines
<1> QED BY <1>1, <1>2, StopInvariant, PTL DEF StopSpec, LadderRuns

\* So what the ladder promises, the stop keeps.
THEOREM StopKeepsLadder == StopSpec => [](NoIdLost /\ NoSilentStop /\ LiveIsNotResolved)
<1>1. LadderRuns <=> Spec
  BY DEF LadderRuns, Spec
<1> QED BY <1>1, StopImplementsLadder, IdsConserved, StopHasReason,
       LiveResolvedDisjoint, PTL

\* An offer a sweep without an answer may have cancelled is asked about before it is
\* cancelled by id.
THEOREM SweepsAreRechecked == StopSpec => SweepIsRechecked
<1>1. ASSUME StopInv, NEW i \in Ids, SendId(i), possibly_submitted
      PROVE  i \notin unasked
  BY <1>1 DEF StopInv, AskedFirst, SendId, Does, inLadder
<1>2. StopInv /\ [StopNext]_stopVars
      => [\A i \in Ids : SendId(i) /\ possibly_submitted => i \notin unasked]_stopVars
  BY <1>1
<1> QED BY <1>2, StopInvariant, PTL DEF StopSpec, SweepIsRechecked

-----------------------------------------------------------------------------
(* The orders survive.                                                     *)

\* Whatever spends an offer's coins, a trade the wallet calls confirmed stays so.
LEMMA TakenStays ==
  ASSUME OrderInv, [StopNext]_stopVars
  PROVE  /\ DOMAIN trade' = Offers /\ DOMAIN coins' = Offers /\ TakenIsSpent'
         /\ \A o \in Offers : trade[o] = "confirmed" => trade'[o] = "confirmed"
<1> USE DEF OrderInv, TakenIsSpent
<1>1. CASE UNCHANGED <<coins, trade>>
  BY <1>1
<1>2. CASE WalletNext
  <2>1. CASE \E o \in Offers : Take(o)
    BY <2>1 DEF Take
  <2>2. CASE \E o \in Offers : CancelLands(o)
    BY <2>2 DEF CancelLands
  <2>3. CASE \E o \in Offers : SweepOne(o) \/ CancelSecurely(o) \/ CancelLocally(o)
    BY <2>3 DEF SweepOne, CancelSecurely, CancelLocally, BuildSpend, Mark
  <2>4. CASE SweepDone \/ Refuse \/ NoAnswer
    BY <2>4 DEF SweepDone, Refuse, NoAnswer
  <2> QED BY <1>2, <2>1, <2>2, <2>3, <2>4 DEF WalletNext
<1>3. CASE \E i \in Ids : CreateLands(i)
  BY <1>3 DEF CreateLands
<1>4. \/ UNCHANGED <<coins, trade>> \/ WalletNext
      \/ \E i \in Ids : CreateLands(i)
  BY DEF StopNext, EngineNext, Beside, stopVars, walletVars, WalletRuns, Send,
         ReadReply,
         HeartbeatDetects, CreateRecorded, WriteAhead, SyncProbe, StartLadder, DecideNext,
         SleepOut, StartRecheck, RecheckOne, EndRecheck, SendSweep, SweepAccepted,
         SweepIsRefused, SweepUnanswered, RereadOne, RereadDone, StartIds, IdsDeadline,
         SkipId, SendId, IdAccepted, IdFailed, EmergencySend, EmergencyFailed, EndAttempt,
         EndLadder, FallbackSend, FallbackAnswered, Settle
<1> QED BY <1>1, <1>2, <1>3, <1>4

\* Only what the wallet calls confirmed is recorded as a taker's.
LEMMA FilledStep ==
  ASSUME StopInv, OrderInv, [StopNext]_stopVars
  PROVE  FilledIsTaken'
<1>1. /\ \A o \in Offers : trade[o] = "confirmed" => trade'[o] = "confirmed"
      /\ Ids \subseteq Offers /\ resolved_filled \subseteq Ids
  BY TakenStays, StopAssumption DEF StopAssumption, StopInv, LadderInv, TypeOK
<1> USE DEF OrderInv, FilledIsTaken
<1>2. CASE EndRecheck
  BY <1>1, <1>2 DEF EndRecheck, RecordRecheck, found
<1>3. CASE \E i \in Ids : RecheckOne(i)
  BY <1>1, <1>3
     DEF RecheckOne, Verdict, walletVars, ladderStill, ladderRest, buckets, StopInv,
         BucketsOpen
<1>4. CASE StartRecheck
  BY <1>1, <1>4
     DEF StartRecheck, ladderVars, ladderRest, buckets, StopInv, BucketsOpen
<1>5. ASSUME UNCHANGED resolved_filled, call' # "recheck" \/ UNCHANGED <<call, got>>
      PROVE  FilledIsTaken'
  BY <1>1, <1>5
<1>6. CASE Beside
  BY <1>5, <1>6, BesideStill DEF attemptVars, ladderVars, ladderRest, buckets
<1>7. CASE StartLadder \/ DecideNext \/ SleepOut \/ EndAttempt
  <2>1. /\ UNCHANGED resolved_filled
        /\ EndAttempt => call' = "idle"
        /\ ~EndAttempt => UNCHANGED attemptVars
    BY <1>7
       DEF StartLadder, DecideNext, Decide, NextEmpty, NextAttempt, NextPlan, SleepOut,
           EndAttempt, Record, ladderVars, ladderRest, buckets
  <2> QED BY <1>5, <2>1 DEF attemptVars
<1>8. CASE \/ UNCHANGED stopVars \/ WriteAhead \/ SyncProbe \/ EndLadder \/ Settle
           \/ FallbackSend \/ FallbackAnswered
  BY <1>5, <1>8
     DEF stopVars, WriteAhead, SyncProbe, EndLadder, Settle, FallbackSend,
         FallbackAnswered, attemptVars, ladderVars, ladderStill, ladderRest, buckets
<1>9. CASE \/ SendSweep \/ SweepAccepted \/ SweepIsRefused \/ SweepUnanswered
           \/ RereadDone \/ StartIds \/ IdsDeadline \/ IdAccepted \/ IdFailed
           \/ EmergencySend \/ EmergencyFailed
           \/ \E i \in Ids : RereadOne(i) \/ SkipId(i) \/ SendId(i)
  <2>1. UNCHANGED resolved_filled /\ call' # "recheck"
    BY <1>9
       DEF SendSweep, SweepAccepted, SweepIsRefused, SweepUnanswered, RereadOne,
           RereadDone, StartIds, IdsDeadline, SkipId, SendId, IdAccepted, IdFailed,
           EmergencySend, EmergencyFailed, Does, ladderVars, ladderStill, ladderRest,
           buckets
  <2> QED BY <1>5, <2>1
<1> QED BY <1>2, <1>3, <1>4, <1>6, <1>7, <1>8, <1>9 DEF StopNext, EngineNext

\* An order is written before the first cancel, and withdrawn for a fill alone.
LEMMA OrdersStep ==
  ASSUME StopInv, OrderInv, [StopNext]_stopVars
  PROVE  OrdersOnDisk'
<1>1. /\ Ids \subseteq Offers /\ Recovered \subseteq Offers \ Ids /\ book \subseteq Ids
      /\ submitted \subseteq Ids /\ already_pending \subseteq Ids
      /\ resolved_dead \subseteq Ids /\ resolved_filled \subseteq Ids
  BY StopAssumption DEF StopAssumption, StopInv, LadderInv, TypeOK
<1> USE DEF OrderInv, OrdersOnDisk
<1>2. CASE WriteAhead
  BY <1>1, <1>2 DEF WriteAhead, ordered_dead, ladderVars, ladderRest, buckets
<1>3. CASE Settle
  BY <1>1, <1>3 DEF Settle, ladderVars, ladderRest, buckets
<1>4. ASSUME UNCHANGED <<cancel_intent, book>>,
             \/ UNCHANGED <<phase, resolved_filled>>
             \/ {phase, phase'} \cap {"collect", "stopped"} = {}
      PROVE  OrdersOnDisk'
  BY <1>1, <1>4
<1>5. CASE Beside
  BY <1>4, <1>5, BesideStill DEF Beside, WalletRuns, HeartbeatDetects, CreateLands,
     CreateRecorded, stopRest, orderVars, ladderVars, ladderRest, buckets
<1>6. CASE StartLadder \/ DecideNext \/ SleepOut \/ EndRecheck \/ EndAttempt
  <2>1. /\ UNCHANGED <<cancel_intent, book>>
        /\ {phase, phase'} \cap {"collect", "stopped"} = {}
    BY <1>6, ZenonT(40)
       DEF StartLadder, DecideNext, Decide, NextEmpty, NextAttempt, NextPlan, SleepOut,
           EndRecheck, RecordRecheck, EndAttempt, Record, inLadder, Does, stopRest,
           orderVars, ladderVars, ladderRest, buckets, StopInv, PhaseAndStep
  <2> QED BY <1>4, <2>1
<1>7. CASE \/ UNCHANGED stopVars \/ SyncProbe \/ EndLadder \/ FallbackSend
           \/ FallbackAnswered
  BY <1>4, <1>7
     DEF stopVars, SyncProbe, EndLadder, FallbackSend, FallbackAnswered, inLadder,
         stopRest, orderVars, ladderVars, ladderStill, ladderRest, buckets
<1>8. CASE \/ StartRecheck \/ SendSweep \/ SweepAccepted \/ SweepIsRefused
           \/ SweepUnanswered \/ RereadDone \/ StartIds \/ IdsDeadline \/ IdAccepted
           \/ IdFailed \/ EmergencySend \/ EmergencyFailed
           \/ \E i \in Ids : RecheckOne(i) \/ RereadOne(i) \/ SkipId(i) \/ SendId(i)
  <2>1. UNCHANGED <<cancel_intent, phase, book, resolved_filled>>
    BY <1>8
       DEF StartRecheck, SendSweep, SweepAccepted, SweepIsRefused, SweepUnanswered,
           RecheckOne, RereadOne, RereadDone, StartIds, IdsDeadline, SkipId, SendId,
           IdAccepted, IdFailed, EmergencySend, EmergencyFailed, stopRest, orderVars,
           ladderVars, ladderStill, ladderRest, buckets
  <2> QED BY <1>4, <2>1
<1> QED BY <1>2, <1>3, <1>5, <1>6, <1>7, <1>8 DEF StopNext, EngineNext

\* The three together.
LEMMA OrderStep == StopInv /\ OrderInv /\ [StopNext]_stopVars => OrderInv'
<1> SUFFICES ASSUME StopInv, OrderInv, [StopNext]_stopVars PROVE OrderInv'
  OBVIOUS
<1> QED BY TakenStays, FilledStep, OrdersStep DEF OrderInv

\* A crash at any moment after the intent is written loses no order.
THEOREM OrdersSurvive == StopSpec => []OrderSurvives
<1>1. StopInit => OrderInv
  BY StopInitInv
<1>2. StopInv /\ OrderInv => OrderSurvives
  BY StopAssumption
     DEF OrderInv, FilledIsTaken, OrdersOnDisk, OrderSurvives, StopAssumption, StopInv,
         LadderInv, TypeOK
<1> QED BY <1>1, <1>2, OrderStep, StopInvariant, PTL DEF StopSpec

-----------------------------------------------------------------------------
(* Nothing rests unnamed.  What the client believes is followed back to    *)
(* the wallet: an accepted sweep has reached every open trade, an accepted *)
(* cancel its own, and State calls no resting offer absent or cancelling.  *)
(* An offer whose create was in flight may land after all that; nothing is *)
(* claimed of it.                                                          *)

\* Nothing but such a create makes a trade rest again.
NotResting(o) == o \in Late \/ trade[o] # "open"

\* An open trade can be cancelled, and a running sweep has yet to reach it.
SweepCovers ==
  /\ \A o \in Offers : trade[o] = "open" => coins[o] = "unspent"
  /\ Running(SweepRequest) => \A o \in Offers : trade[o] = "open" => o \in sweep_todo

\* The client waits for the last request in the queue, which is its own.
WaitsForLast ==
  /\ queue \in Seq(Requests)
  /\ reply = "waiting" =>
       /\ queue # <<>>
       /\ call = "sweep" => queue[Len(queue)] = SweepRequest
       /\ call \in {"id", "emergency", "zero_fee"} => queue[Len(queue)] = SecureRequest(at)
       /\ call = "local" => queue[Len(queue)] = LocalRequest(at)

\* Accepted means done.
AcceptedIsDone ==
  /\ reply = "accepted" /\ call = "sweep" => \A o \in Offers : NotResting(o)
  /\ reply = "accepted" /\ call \in ByIdCalls => NotResting(at)

\* State has an entry of every offer that rests, and not flagged.
EntriesTrue ==
  /\ DOMAIN state = Ids
  /\ \A i \in Ids \ Late : state[i] # "creating" /\ (state[i] # "open" => trade[i] # "open")

\* The buckets that take an offer off the ladder hold none that rests.  What a
\* sweep is about to cancel stands under "cancelled" before the answer.
BucketsTrue ==
  \A i \in Ids :
    \/ got[i] \in {"already_pending", "closed", "dead", "filled"}
    \/ got[i] = "cancelled" /\ call # "sweep"
    => NotResting(i)

\* A stop's own attempt 1 that was neither refused nor left unanswered has swept.
SweptTrue ==
  /\ sweep \in {"none", "accepted", "refused", "unanswered"}
  /\ phase = "ladder" /\ call \in {"reread", "ids"} \cup ByIdCalls /\ attempts = 0 =>
       sweep # "none"
  /\ call = "reread" => sweep = "accepted"
  /\ sweep = "accepted" => \A o \in Offers : NotResting(o)
  /\ attempts > 0 /\ ~sweep_refused /\ ~possibly_submitted =>
       \A o \in Offers : NotResting(o)

\* No outstanding offer that rests is passed over by an attempt.
Accounted ==
  phase = "ladder" /\ step = "send" /\ call # "idle" =>
    \A i \in outstanding :
      \/ i \in todo \/ (call \in ByIdCalls /\ i = at)
      \/ call # "sweep" /\ got[i] \in {"cancelled", "failed", "unfunded", "already_pending"}
      \/ NotResting(i)

\* An offer of the book that rests is on the ladder.
RestingIsHeld ==
  /\ book \cap Late = {}
  /\ \A i \in book : NotResting(i) \/ i \in outstanding \cup held_back

\* A ladder that ends with nothing outstanding, and with no reason for a fallback,
\* has swept.
EndsSwept ==
  /\ sweep_when_empty
  /\ step = "finish" =>
       /\ attempts > 0
       /\ outstanding = {} /\ (sweep_refused \/ possibly_submitted) => must_fall_back

\* The fallback runs exactly then, and its alert names what is outstanding.
AlertTells ==
  /\ alerted => phase \in {"settle", "stopped"} /\ named = outstanding
  /\ phase \in {"settle", "stopped"} /\ ~alerted => ~must_fall_back

LiveInv ==
  /\ DOMAIN trade = Offers /\ DOMAIN coins = Offers
  /\ SweepCovers /\ WaitsForLast /\ AcceptedIsDone /\ EntriesTrue /\ BucketsTrue
  /\ SweptTrue /\ Accounted /\ RestingIsHeld /\ EndsSwept /\ AlertTells

\* The budget has room for the longest wait a seed may owe.
SeedFits == Greatest(SweepWait, RequestTimeout + MinUsefulDelay) <= Budget

\* A seeded wait ends where no_sooner says, and only attempt 1 leaves one open.
SeedOwes ==
  /\ phase \in {"collect", "probe"} => clock = 0
  /\ phase = "seed" => clock <= RequestTimeout
  /\ operator_sweep /\ phase \notin {"collect", "probe", "seed"} =>
       /\ attempts > 0 /\ no_sooner <= Budget
       /\ attempts = 1 => no_sooner <= clock + seeded_wait
       /\ attempts > 1 => ~last_attempt_possibly_submitted
  /\ operator_sweep /\ phase = "fallback" /\ stop_reason = "SweepPossiblySubmitted" =>
       clock >= no_sooner

\* What may stand in the queue.
LEMMA RequestsKnown ==
  /\ SweepRequest \in Requests
  /\ \A o \in Offers : SecureRequest(o) \in Requests /\ LocalRequest(o) \in Requests
  BY DEF Requests

\* The three requests are told apart, and so are two offers'.
LEMMA RequestsDiffer ==
  \A o, p : /\ SweepRequest # SecureRequest(o) /\ SweepRequest # LocalRequest(o)
            /\ SecureRequest(o) # LocalRequest(p)
            /\ SecureRequest(o) = SecureRequest(p) => o = p
            /\ LocalRequest(o) = LocalRequest(p) => o = p
  BY DEF SweepRequest, SecureRequest, LocalRequest

\* Every book a stop may find is like that.
LEMMA LiveInit == StopInit => LiveInv
<1> SUFFICES ASSUME StopInit PROVE LiveInv
  OBVIOUS
<1> DEFINE Of(kind, k) == {i \in Ids : kind[i] = k}
<1>1. PICK kind \in [Ids -> Kinds] :
        /\ Late \subseteq Of(kind, "none")
        /\ Construct(Ids \ Of(kind, "none"), TRUE)
        /\ state = [i \in Ids |->
             CASE i \in Late -> "creating"
               [] i \in Of(kind, "none") \ Late -> "absent"
               [] i \in Of(kind, "resting") \cup Of(kind, "taken") -> "open"
               [] OTHER -> "cancel_pending"]
        /\ trade = [o \in Offers |->
             CASE o \in Of(kind, "none") -> "absent"
               [] o \in Of(kind, "cancelling") -> "pending_cancel"
               [] o \in Of(kind, "taken") -> "confirmed"
               [] o \in Of(kind, "local") -> "cancelled"
               [] OTHER -> "open"]
        /\ coins = [o \in Offers |-> CASE o \in Of(kind, "none") -> "none"
                                       [] o \in Of(kind, "taken") -> "taken"
                                       [] OTHER -> "unspent"]
  BY DEF StopInit
<1>2. /\ queue \in {<<>>, <<SweepRequest>>} /\ reply = "none"
      /\ sweep_todo = IF queue = <<>> THEN {} ELSE sweepable
      /\ phase = "collect" /\ call = "idle" /\ sweep = "none" /\ alerted = FALSE
      /\ got = [i \in Ids |-> "none"]
  BY DEF StopInit
<1>3. /\ outstanding = Ids \ Of(kind, "none") /\ book = outstanding
      /\ sweep_when_empty = TRUE /\ attempts = 0 /\ step = "decide"
  BY <1>1 DEF Construct
<1>4. DOMAIN trade = Offers /\ DOMAIN coins = Offers
  BY <1>1
<1>5. SweepCovers
  <2>1. \A o \in Offers : trade[o] = "open" => coins[o] = "unspent"
    BY <1>1
  <2>2. Running(SweepRequest) => \A o \in Offers : trade[o] = "open" => o \in sweep_todo
    BY <1>2 DEF Running, sweepable
  <2> QED BY <2>1, <2>2 DEF SweepCovers
<1>6. WaitsForLast /\ AcceptedIsDone
  <2>1. queue \in Seq(Requests)
    <3>1. <<>> \in Seq(Requests) /\ <<SweepRequest>> \in Seq(Requests)
      BY RequestsKnown
    <3> QED BY <1>2, <3>1
  <2> QED BY <1>2, <2>1 DEF WaitsForLast, AcceptedIsDone
<1>7. EntriesTrue
  <2>1. DOMAIN state = Ids /\ Ids \subseteq Offers
    BY <1>1, StopAssumption DEF StopAssumption
  <2>2. ASSUME NEW i \in Ids \ Late
        PROVE  state[i] # "creating" /\ (state[i] # "open" => trade[i] # "open")
    BY <1>1, <2>1, <2>2 DEF Kinds
  <2> QED BY <2>1, <2>2 DEF EntriesTrue
<1>8. BucketsTrue /\ SweptTrue /\ Accounted /\ AlertTells
  BY <1>2, <1>3 DEF BucketsTrue, SweptTrue, Accounted, AlertTells, ByIdCalls
<1>9. RestingIsHeld /\ EndsSwept
  BY <1>1, <1>3 DEF RestingIsHeld, EndsSwept
<1> QED BY <1>4, <1>5, <1>6, <1>7, <1>8, <1>9 DEF LiveInv

\* The steps of the stop that send a request, and those that read an answer.
Sends == \/ SendSweep \/ EmergencySend \/ FallbackSend
         \/ \E i \in Ids : SendId(i)

Reads == \/ SweepAccepted \/ SweepIsRefused \/ SweepUnanswered
         \/ IdAccepted \/ IdFailed \/ EmergencyFailed \/ FallbackAnswered

\* The others, and the heartbeat's, leave the wallet alone and no call of theirs is
\* one of its requests.
LEMMA WalletSteps ==
  ASSUME StopInv, [StopNext]_stopVars
  PROVE  \/ WalletNext /\ UNCHANGED <<ladderVars, attemptVars, entryVars, stopRest>>
         \/ \E i \in Ids : CreateLands(i)
         \/ Sends
         \/ Reads /\ ReadReply /\ call' \in {"idle", "reread", "ids"}
         \/ /\ UNCHANGED walletVars
            /\ call' \in {"idle", "recheck", "reread", "ids"} \/ UNCHANGED <<call, at>>
<1> DEFINE Quiet ==
      /\ UNCHANGED walletVars
      /\ call' \in {"idle", "recheck", "reread", "ids"} \/ UNCHANGED <<call, at>>
<1>1. CASE Sends
  BY <1>1
<1>2. CASE Reads
  BY <1>2
     DEF Reads, SweepAccepted, SweepIsRefused, SweepUnanswered, IdAccepted, IdFailed,
         EmergencyFailed, FallbackAnswered
<1>3. CASE Beside
  BY <1>3
     DEF Beside, WalletRuns, HeartbeatDetects, CreateRecorded, attemptVars, walletVars
<1>4. CASE \/ UNCHANGED stopVars
           \/ WriteAhead \/ SyncProbe \/ StartLadder \/ DecideNext \/ SleepOut
           \/ EndLadder \/ Settle
  BY <1>4
     DEF stopVars, WriteAhead, SyncProbe, StartLadder, DecideNext, SleepOut, EndLadder,
         Settle, attemptVars, walletVars
<1>5. CASE \/ StartRecheck \/ EndRecheck \/ RereadDone \/ StartIds \/ IdsDeadline
           \/ EndAttempt
           \/ \E i \in Ids : RecheckOne(i) \/ RereadOne(i) \/ SkipId(i)
  BY <1>5
     DEF StartRecheck, EndRecheck, RereadDone, StartIds, IdsDeadline, EndAttempt,
         RecheckOne, RereadOne, SkipId, walletVars
<1> QED BY <1>1, <1>2, <1>3, <1>4, <1>5 DEF StopNext, EngineNext, Sends, Reads

\* Each request is sent with the call that waits for it.
LEMMA SendsOwn ==
  ASSUME StopInv, Sends
  PROVE  \/ Send(SweepRequest) /\ call' = "sweep"
         \/ \E i \in Ids :
              /\ at' = i
              /\ \/ /\ Send(SecureRequest(i))
                    /\ call' \in {"id", "emergency", "zero_fee"}
                 \/ Send(LocalRequest(i)) /\ call' = "local"
<1>2. CASE SendSweep \/ FallbackSend
  BY <1>2 DEF SendSweep, FallbackSend
<1>3. CASE EmergencySend
  <2>1. at \in Ids /\ at' = at
    BY <1>3 DEF EmergencySend, StopInv, BucketsOpen, ByIdCalls
  <2> QED BY <1>3, <2>1 DEF EmergencySend
<1>4. CASE \E i \in Ids : SendId(i)
  BY <1>4 DEF SendId
<1> QED BY <1>2, <1>3, <1>4 DEF Sends

\* Whatever rests, rested before, but for a create that lands.
LEMMA RestingFades ==
  ASSUME StopInv, DOMAIN trade = Offers, DOMAIN coins = Offers, [StopNext]_stopVars
  PROVE  /\ DOMAIN trade' = Offers /\ DOMAIN coins' = Offers
         /\ \A o \in Offers : NotResting(o) => NotResting(o)'
<1> USE DEF NotResting
<1>1. CASE UNCHANGED <<coins, trade>>
  BY <1>1
<1>2. CASE WalletNext
  <2>1. CASE \E o \in Offers : Take(o)
    BY <2>1 DEF Take
  <2>2. CASE \E o \in Offers : CancelLands(o)
    BY <2>2 DEF CancelLands
  <2>3. CASE \E o \in Offers : SweepOne(o) \/ CancelSecurely(o) \/ CancelLocally(o)
    BY <2>3 DEF SweepOne, CancelSecurely, CancelLocally, BuildSpend, Mark
  <2>4. CASE SweepDone \/ Refuse \/ NoAnswer
    BY <2>4 DEF SweepDone, Refuse, NoAnswer
  <2> QED BY <1>2, <2>1, <2>2, <2>3, <2>4 DEF WalletNext
<1>3. CASE \E i \in Ids : CreateLands(i)
  BY <1>3 DEF CreateLands
<1>4. Sends => UNCHANGED <<coins, trade>>
  BY SendsOwn DEF Send
<1> QED BY <1>1, <1>2, <1>3, <1>4, WalletSteps DEF ReadReply, walletVars


\* A request that is sent joins the queue behind the others, or is lost.
LEMMA SendSteps ==
  ASSUME StopInv, LiveInv, NEW request \in Requests, Send(request)
  PROVE  /\ UNCHANGED <<coins, trade>> /\ SweepCovers' /\ queue' \in Seq(Requests)
         /\ reply' \in {"waiting", "lost"}
         /\ reply' = "waiting" => queue' # <<>> /\ queue'[Len(queue')] = request
<1> USE DEF LiveInv, SweepCovers, Running
<1>1. UNCHANGED <<coins, trade>> /\ queue \in Seq(Requests)
  BY DEF Send, WaitsForLast
<1>2. CASE queue' = Append(queue, request) /\ reply' = "waiting"
  <2>1. /\ queue' \in Seq(Requests) /\ queue' # <<>>
        /\ queue'[Len(queue')] = request
        /\ queue # <<>> => Head(queue') = Head(queue)
        /\ queue = <<>> => queue' = <<request>> /\ Head(queue') = request
    <3>1. queue' \in Seq(Requests) /\ Len(queue') = Len(queue) + 1
      BY <1>1, <1>2
    <3>2. queue' # <<>> /\ queue'[Len(queue')] = request
      BY <1>1, <1>2, <3>1
    <3>3. queue # <<>> => Head(queue') = Head(queue)
      BY <1>1, <1>2
    <3>4. queue = <<>> => queue' = <<request>> /\ Head(queue') = request
      BY <1>2
    <3> QED BY <3>1, <3>2, <3>3, <3>4
  <2>2. SweepCovers'
    <3>1. sweep_todo' = IF queue' = <<SweepRequest>> THEN sweepable ELSE sweep_todo
      BY DEF Send
    <3>2. CASE queue' = <<SweepRequest>>
      BY <1>1, <3>1, <3>2 DEF sweepable
    <3>3. CASE queue' # <<SweepRequest>>
      BY <1>1, <2>1, <3>1, <3>3
    <3> QED BY <3>2, <3>3
  <2> QED BY <1>1, <1>2, <2>1, <2>2
<1>3. CASE UNCHANGED queue /\ reply' = "lost"
  <2>1. sweep_todo' = IF queue = <<SweepRequest>> THEN sweepable ELSE sweep_todo
    BY <1>3 DEF Send
  <2>2. SweepCovers'
    BY <1>1, <1>3, <2>1 DEF sweepable
  <2> QED BY <1>1, <1>3, <2>2
<1> QED BY <1>2, <1>3 DEF Send

\* The wallet answers the request its client waits for, and no other.
LEMMA FinishSteps ==
  ASSUME LiveInv, NEW answer \in {"accepted", "refused", "funding"}, Finish(answer),
         queue # <<>>
  PROVE  /\ queue' \in Seq(Requests)
         /\ reply' = "waiting" => /\ reply = "waiting" /\ queue' # <<>>
                                  /\ queue'[Len(queue')] = queue[Len(queue)]
         /\ reply' = "accepted" => \/ reply = "accepted"
                                   \/ /\ answer = "accepted" /\ reply = "waiting"
                                      /\ Head(queue) = queue[Len(queue)]
<1>1. queue \in Seq(Requests) /\ queue' = Tail(queue)
  BY DEF LiveInv, WaitsForLast, Finish
<1>2. reply' = IF reply = "waiting" /\ Len(queue) = 1 THEN answer ELSE reply
  BY DEF Finish
<1>3. Len(queue) \in Nat /\ Len(queue) > 0 /\ queue' \in Seq(Requests)
  BY <1>1
<1>4. CASE Len(queue) = 1
  <2>1. Head(queue) = queue[Len(queue)]
    BY <1>1, <1>4
  <2> QED BY <1>2, <1>3, <1>4, <2>1
<1>5. CASE Len(queue) # 1
  <2>1. Len(queue') = Len(queue) - 1 /\ Len(queue') > 0
    BY <1>1, <1>3, <1>5
  <2>2. queue' # <<>> /\ queue'[Len(queue')] = queue[Len(queue') + 1]
    <3>1. Len(queue') \in 1 .. Len(queue')
      BY <1>3, <2>1
    <3>2. \A n \in 1 .. Len(queue) - 1 : Tail(queue)[n] = queue[n + 1]
      BY <1>1, <1>3
    <3>3. queue' # <<>>
      BY <2>1
    <3> QED BY <1>1, <2>1, <3>1, <3>2, <3>3
  <2> QED BY <1>2, <1>3, <1>5, <2>1, <2>2
<1> QED BY <1>4, <1>5

\* An open trade is cancelled, and nothing is opened.
LEMMA SpendSteps ==
  ASSUME LiveInv, NEW o \in Offers,
         BuildSpend(o) \/ (Mark(o, "cancelled") /\ UNCHANGED coins)
  PROVE  /\ UNCHANGED coins /\ trade'[o] # "open"
         /\ \A p \in Offers : trade'[p] = "open" => trade[p] = "open"
  BY DEF LiveInv, SweepCovers, BuildSpend, Mark

\* The steps of the wallet, by what each does to the queue.
LEMMA WalletFinishes ==
  ASSUME WalletNext
  PROVE  \/ \E o \in Offers : SweepOne(o) \/ Take(o) \/ CancelLands(o)
         \/ NoAnswer
         \/ SweepDone /\ Finish("accepted") /\ queue # <<>>
         \/ \E o \in Offers : CancelSecurely(o) /\ Finish("accepted") /\ queue # <<>>
         \/ \E o \in Offers : CancelLocally(o) /\ Finish("accepted") /\ queue # <<>>
         \/ /\ queue # <<>> /\ UNCHANGED <<coins, trade>>
            /\ Finish("refused") \/ Finish("funding")
  BY DEF WalletNext, SweepDone, CancelSecurely, CancelLocally, Refuse, Running

\* A running sweep never loses sight of an open trade.
LEMMA CoversStep ==
  ASSUME StopInv, LiveInv, [StopNext]_stopVars
  PROVE  SweepCovers'
<1> USE DEF LiveInv, SweepCovers, Running
<1>1. CASE UNCHANGED <<coins, trade, queue, sweep_todo>>
  BY <1>1
<1>2. CASE WalletNext
  <2>1. CASE NoAnswer
    BY <2>1 DEF NoAnswer
  <2>2. CASE \E o \in Offers : SweepOne(o)
    <3>1. PICK o \in Offers : SweepOne(o)
      BY <2>2
    <3>2. /\ UNCHANGED coins /\ trade'[o] # "open"
          /\ \A p \in Offers : trade'[p] = "open" => trade[p] = "open"
      BY <3>1, SpendSteps DEF SweepOne
    <3> QED BY <3>1, <3>2 DEF SweepOne
  <2>3. CASE \E o \in Offers : Take(o)
    BY <2>3 DEF Take
  <2>4. CASE \E o \in Offers : CancelLands(o)
    BY <2>4 DEF CancelLands
  <2>5. ASSUME NEW answer, Finish(answer), queue # <<>>, UNCHANGED coins,
               \A p \in Offers : trade'[p] = "open" => trade[p] = "open"
        PROVE  SweepCovers'
    BY <2>5 DEF Finish
  <2>6. CASE SweepDone /\ Finish("accepted") /\ queue # <<>>
    BY <2>5, <2>6 DEF SweepDone
  <2>7. CASE \E o \in Offers : CancelSecurely(o) /\ Finish("accepted") /\ queue # <<>>
    BY <2>5, <2>7, SpendSteps DEF CancelSecurely
  <2>8. CASE \E o \in Offers : CancelLocally(o) /\ Finish("accepted") /\ queue # <<>>
    BY <2>5, <2>8, SpendSteps DEF CancelLocally
  <2>9. CASE /\ queue # <<>> /\ UNCHANGED <<coins, trade>>
             /\ Finish("refused") \/ Finish("funding")
    BY <2>5, <2>9
  <2> QED BY <1>2, <2>1, <2>2, <2>3, <2>4, <2>6, <2>7, <2>8, <2>9, WalletFinishes
<1>3. CASE \E i \in Ids : CreateLands(i)
  BY <1>3 DEF CreateLands
<1>4. CASE Sends
  <2>1. Ids \subseteq Offers
    BY StopAssumption DEF StopAssumption
  <2>2. \E request \in Requests : Send(request)
    BY <1>4, <2>1, SendsOwn, RequestsKnown
  <2> QED BY <2>2, SendSteps
<1> QED BY <1>1, <1>2, <1>3, <1>4, WalletSteps DEF ReadReply, walletVars


\* The client keeps waiting for its own request, the last one.
LEMMA WaitsStep ==
  ASSUME StopInv, LiveInv, [StopNext]_stopVars
  PROVE  WaitsForLast'
<1>1. queue \in Seq(Requests) /\ WaitsForLast
  BY DEF LiveInv, WaitsForLast
<1>2. ASSUME UNCHANGED queue, reply' = "waiting" => reply = "waiting",
             \/ UNCHANGED <<call, at>>
             \/ call' \in {"idle", "recheck", "reread", "ids"}
      PROVE  WaitsForLast'
  BY <1>1, <1>2 DEF WaitsForLast
<1>3. CASE /\ UNCHANGED walletVars
           /\ call' \in {"idle", "recheck", "reread", "ids"} \/ UNCHANGED <<call, at>>
  BY <1>2, <1>3 DEF walletVars
<1>4. CASE Reads /\ ReadReply /\ call' \in {"idle", "reread", "ids"}
  BY <1>2, <1>4 DEF ReadReply
<1>5. CASE \E i \in Ids : CreateLands(i)
  BY <1>2, <1>5 DEF CreateLands, attemptVars
<1>6. CASE Sends
  <2>1. Ids \subseteq Offers
    BY StopAssumption DEF StopAssumption
  <2>2. CASE Send(SweepRequest) /\ call' = "sweep"
    BY <2>2, SendSteps, RequestsKnown DEF WaitsForLast
  <2>3. ASSUME NEW i \in Ids, at' = i, Send(SecureRequest(i)),
               call' \in {"id", "emergency", "zero_fee"}
        PROVE  WaitsForLast'
    BY <2>1, <2>3, SendSteps, RequestsKnown DEF WaitsForLast
  <2>4. ASSUME NEW i \in Ids, at' = i, Send(LocalRequest(i)), call' = "local"
        PROVE  WaitsForLast'
    BY <2>1, <2>4, SendSteps, RequestsKnown DEF WaitsForLast
  <2> QED BY <1>6, <2>2, <2>3, <2>4, SendsOwn
<1>7. CASE WalletNext /\ UNCHANGED <<ladderVars, attemptVars, entryVars, stopRest>>
  <2>1. UNCHANGED <<call, at>>
    BY <1>7 DEF attemptVars
  <2>2. CASE \/ \E o \in Offers : SweepOne(o) \/ Take(o) \/ CancelLands(o)
             \/ NoAnswer
    BY <1>2, <2>1, <2>2 DEF SweepOne, Take, CancelLands, NoAnswer
  <2>3. ASSUME NEW answer \in {"accepted", "refused", "funding"}, Finish(answer),
               queue # <<>>
        PROVE  WaitsForLast'
    BY <1>1, <2>1, <2>3, FinishSteps DEF WaitsForLast
  <2> QED BY <1>7, <2>2, <2>3, WalletFinishes
<1> QED BY <1>3, <1>4, <1>5, <1>6, <1>7, WalletSteps

\* What the client reads as accepted has been done.
LEMMA AcceptedStep ==
  ASSUME StopInv, LiveInv, [StopNext]_stopVars
  PROVE  AcceptedIsDone'
<1>0. /\ AcceptedIsDone /\ WaitsForLast /\ SweepCovers
      /\ Ids \subseteq Offers
      /\ call \in ByIdCalls => at \in Ids
  BY StopAssumption DEF LiveInv, StopAssumption, StopInv, BucketsOpen
<1>1. \A o \in Offers : NotResting(o) => NotResting(o)'
  BY RestingFades DEF LiveInv
<1>2. ASSUME reply' = "accepted" => reply = "accepted",
             \/ UNCHANGED <<call, at>>
             \/ call' \in {"idle", "recheck", "reread", "ids"}
      PROVE  AcceptedIsDone'
  <2>1. CASE UNCHANGED <<call, at>>
    <3>1. reply' = "accepted" /\ call' = "sweep" => \A o \in Offers : NotResting(o)'
      BY <1>0, <1>1, <1>2, <2>1 DEF AcceptedIsDone
    <3>2. ASSUME reply' = "accepted", call' \in ByIdCalls
          PROVE  NotResting(at)'
      <4>1. call \in ByIdCalls /\ at \in Offers /\ at' = at /\ NotResting(at)
        BY <1>0, <1>2, <2>1, <3>2 DEF AcceptedIsDone
      <4> QED BY <1>1, <4>1, <2>1 DEF NotResting
    <3> QED BY <3>1, <3>2 DEF AcceptedIsDone
  <2>2. CASE call' \in {"idle", "recheck", "reread", "ids"}
    BY <2>2 DEF AcceptedIsDone, ByIdCalls
  <2> QED BY <1>2, <2>1, <2>2
<1>3. CASE /\ UNCHANGED walletVars
           /\ call' \in {"idle", "recheck", "reread", "ids"} \/ UNCHANGED <<call, at>>
  BY <1>2, <1>3 DEF walletVars
<1>4. CASE Reads /\ ReadReply /\ call' \in {"idle", "reread", "ids"}
  BY <1>2, <1>4 DEF ReadReply
<1>5. CASE \E i \in Ids : CreateLands(i)
  BY <1>2, <1>5 DEF CreateLands, attemptVars
<1>6. CASE Sends
  <2>1. reply' # "accepted"
    BY <1>6, SendsOwn DEF Send
  <2> QED BY <2>1 DEF AcceptedIsDone
<1>7. CASE WalletNext /\ UNCHANGED <<ladderVars, attemptVars, entryVars, stopRest>>
  <2>1. UNCHANGED <<call, at>>
    BY <1>7 DEF attemptVars
  <2>2. CASE \/ \E o \in Offers : SweepOne(o) \/ Take(o) \/ CancelLands(o)
             \/ NoAnswer
    BY <1>2, <2>1, <2>2 DEF SweepOne, Take, CancelLands, NoAnswer
  <2>3. CASE /\ queue # <<>> /\ UNCHANGED <<coins, trade>>
             /\ Finish("refused") \/ Finish("funding")
    BY <1>2, <2>1, <2>3, FinishSteps
  <2>4. ASSUME reply = "waiting"
        PROVE  /\ call = "sweep" => queue[Len(queue)] = SweepRequest
               /\ call \in {"id", "emergency", "zero_fee"} =>
                    queue[Len(queue)] = SecureRequest(at)
               /\ call = "local" => queue[Len(queue)] = LocalRequest(at)
    BY <1>0, <2>4 DEF WaitsForLast
  <2>5. ASSUME Finish("accepted"), queue # <<>>,
               reply = "waiting", Head(queue) = queue[Len(queue)],
               Head(queue) = SweepRequest, sweep_todo = {}
        PROVE  AcceptedIsDone'
    <3>1. \A o \in Offers : trade[o] # "open"
      BY <1>0, <2>5 DEF SweepCovers, Running
    <3>2. \A o \in Offers : NotResting(o)'
      BY <1>1, <3>1 DEF NotResting
    <3>3. call \notin ByIdCalls
      BY <2>4, <2>5, RequestsDiffer DEF ByIdCalls
    <3> QED BY <2>1, <3>2, <3>3 DEF AcceptedIsDone
  <2>6. ASSUME NEW o \in Offers, Finish("accepted"), queue # <<>>,
               reply = "waiting", Head(queue) = queue[Len(queue)],
               Head(queue) \in {SecureRequest(o), LocalRequest(o)}, trade'[o] # "open"
        PROVE  AcceptedIsDone'
    <3>1. call # "sweep" /\ (call \in ByIdCalls => at = o)
      BY <2>4, <2>6, RequestsDiffer DEF ByIdCalls
    <3> QED BY <2>1, <2>6, <3>1 DEF AcceptedIsDone, NotResting
  <2>7. CASE SweepDone /\ Finish("accepted") /\ queue # <<>>
    BY <1>2, <2>1, <2>5, <2>7, FinishSteps DEF SweepDone, Running
  <2>8. ASSUME NEW o \in Offers, CancelSecurely(o), Finish("accepted"), queue # <<>>
        PROVE  AcceptedIsDone'
    <3>1. trade'[o] # "open" /\ Head(queue) = SecureRequest(o)
      BY <2>8, SpendSteps DEF CancelSecurely, Running
    <3> QED BY <1>2, <2>1, <2>6, <2>8, <3>1, FinishSteps
  <2>9. ASSUME NEW o \in Offers, CancelLocally(o), Finish("accepted"), queue # <<>>
        PROVE  AcceptedIsDone'
    <3>1. trade'[o] # "open" /\ Head(queue) = LocalRequest(o)
      BY <2>9, SpendSteps DEF CancelLocally, Running
    <3> QED BY <1>2, <2>1, <2>6, <2>9, <3>1, FinishSteps
  <2> QED BY <1>7, <2>2, <2>3, <2>7, <2>8, <2>9, WalletFinishes
<1> QED BY <1>3, <1>4, <1>5, <1>6, <1>7, WalletSteps


\* State closes or flags only what no longer rests.
LEMMA EntriesStep ==
  ASSUME StopInv, LiveInv, [StopNext]_stopVars
  PROVE  EntriesTrue'
<1>0. /\ EntriesTrue /\ DOMAIN state = Ids /\ Ids \subseteq Offers
      /\ AcceptedIsDone /\ BucketsTrue
  BY StopAssumption DEF LiveInv, EntriesTrue, StopAssumption
<1>1. \A i \in Ids \ Late : trade[i] # "open" => trade'[i] # "open"
  BY <1>0, RestingFades DEF LiveInv, NotResting
<1>2. ASSUME UNCHANGED state
      PROVE  EntriesTrue'
  BY <1>0, <1>1, <1>2 DEF EntriesTrue
<1>3. ASSUME NEW S, state' = mark_cancel_pending(S),
             \A i \in Ids \ Late : i \in S => trade[i] # "open"
      PROVE  EntriesTrue'
  BY <1>0, <1>1, <1>3 DEF EntriesTrue, mark_cancel_pending
<1>4. ASSUME NEW i \in Ids, RecheckOne(i)
      PROVE  EntriesTrue'
  <2>1. UNCHANGED state \/ Verdict(i)
    BY <1>4 DEF RecheckOne
  <2>2. CASE Verdict(i)
    <3>1. CASE trade[i] = "cancelled"
      BY <1>2, <2>2, <3>1 DEF Verdict
    <3>2. CASE trade[i] # "cancelled"
      <4> DEFINE pending == trade[i] = "pending_cancel" \/ state[i] = "cancel_pending"
                 entry == IF trade[i] # "confirmed" /\ pending THEN "cancel_pending"
                          ELSE IF i \notin tracked THEN "open" ELSE state[i]
      <4>1. state' = [state EXCEPT ![i] = entry]
        BY <2>2, <3>2 DEF Verdict
      <4>2. i \notin Late => entry # "creating" /\ (entry # "open" => trade[i] # "open")
        BY <1>0, <3>2 DEF EntriesTrue
      <4> QED BY <1>0, <1>1, <4>1, <4>2 DEF EntriesTrue
    <3> QED BY <3>1, <3>2
  <2> QED BY <1>2, <2>1, <2>2
<1>5. ASSUME NEW i \in Ids, RereadOne(i)
      PROVE  EntriesTrue'
  <2>1. CASE UNCHANGED entryVars
    BY <1>2, <2>1 DEF entryVars
  <2>2. CASE ~UNCHANGED entryVars
    <3>1. DOMAIN got = Ids
      BY DEF StopInv, BucketsOpen
    <3>2. PICK proven \in ProvenOver(i) :
             /\ got' = [got EXCEPT ![i] =
                  CASE trade[i] \in {"open", "confirmed"} -> "cancel"
                    [] trade[i] = "pending_cancel" -> "already_pending"
                    [] OTHER -> IF proven THEN "closed" ELSE "failed"]
             /\ state' = IF got'[i] = "failed" THEN mark_cancel_pending({i}) ELSE state
      BY <1>5, <2>2 DEF RereadOne
    <3>3. got'[i] = "failed" => trade[i] # "open"
      BY <3>1, <3>2
    <3> QED BY <1>2, <1>3, <3>2, <3>3
  <2> QED BY <2>1, <2>2
<1>6. CASE IdAccepted
  <2>1. NotResting(at) /\ state' = mark_cancel_pending({at})
    BY <1>0, <1>6 DEF IdAccepted, AcceptedIsDone, ByIdCalls
  <2> QED BY <1>3, <2>1 DEF NotResting
<1>7. CASE EndAttempt
  <2>1. state' = mark_cancel_pending(found("cancelled")) /\ call # "sweep"
    BY <1>7 DEF EndAttempt, Does
  <2>2. \A i \in found("cancelled") : NotResting(i)
    BY <1>0, <2>1 DEF BucketsTrue, found
  <2> QED BY <1>3, <2>1, <2>2 DEF NotResting
<1>8. ASSUME NEW i \in Ids, HeartbeatDetects(i)
      PROVE  EntriesTrue'
  <2>1. /\ trade[i] \in {"confirmed", "pending_cancel", "cancelled"}
        /\ \/ state' = [state EXCEPT ![i] = "absent"]
           \/ state' = mark_cancel_pending({i})
    BY <1>8 DEF HeartbeatDetects
  <2>2. CASE state' = [state EXCEPT ![i] = "absent"]
    BY <1>0, <1>1, <2>1, <2>2 DEF EntriesTrue
  <2>3. CASE state' = mark_cancel_pending({i})
    BY <1>3, <2>1, <2>3
  <2> QED BY <2>1, <2>2, <2>3
<1>9. ASSUME NEW i \in Ids, CreateRecorded(i)
      PROVE  EntriesTrue'
  BY <1>0, <1>1, <1>9 DEF CreateRecorded, EntriesTrue
<1>10. CASE \/ WalletRuns
            \/ \E i \in Ids : CreateLands(i)
  BY <1>2, <1>10 DEF WalletRuns, CreateLands, entryVars
<1>11. CASE \/ UNCHANGED stopVars
            \/ WriteAhead \/ SyncProbe \/ StartLadder \/ DecideNext \/ SleepOut
            \/ StartRecheck \/ EndRecheck \/ EndLadder \/ FallbackSend
            \/ FallbackAnswered \/ Settle
  BY <1>2, <1>11
     DEF stopVars, WriteAhead, SyncProbe, StartLadder, DecideNext, SleepOut,
         StartRecheck, EndRecheck, EndLadder, FallbackSend, FallbackAnswered, Settle,
         entryVars
<1>12. CASE \/ SendSweep \/ SweepAccepted \/ SweepIsRefused \/ SweepUnanswered
            \/ RereadDone \/ StartIds \/ IdsDeadline \/ IdFailed
            \/ EmergencySend \/ EmergencyFailed
            \/ \E i \in Ids : SkipId(i) \/ SendId(i)
  BY <1>2, <1>12
     DEF SendSweep, SweepAccepted, SweepIsRefused, SweepUnanswered, RereadDone,
         StartIds, IdsDeadline, IdFailed, EmergencySend, EmergencyFailed, SkipId, SendId,
         entryVars
<1> QED BY <1>4, <1>5, <1>6, <1>7, <1>8, <1>9, <1>10, <1>11, <1>12
        DEF StopNext, EngineNext, Beside

\* What is not in State any more, or is flagged there, does not rest.
LEMMA SkipsNoneResting ==
  ASSUME LiveInv, NEW i \in Ids, state[i] # "open"
  PROVE  NotResting(i)
  BY DEF LiveInv, EntriesTrue, NotResting

\* The buckets that settle an offer are filled from what the wallet says.
LEMMA BucketsTrueStep ==
  ASSUME StopInv, LiveInv, [StopNext]_stopVars
  PROVE  BucketsTrue'
<1> DEFINE Settling(b, c) == \/ b \in {"already_pending", "closed", "dead", "filled"}
                             \/ b = "cancelled" /\ c # "sweep"
<1>0. /\ DOMAIN got = Ids /\ Ids \subseteq Offers /\ AcceptedIsDone /\ SweptTrue
      /\ \A i \in Ids : Settling(got[i], call) => NotResting(i)
      /\ BucketsTrue' <=> \A i \in Ids : Settling(got'[i], call') => NotResting(i)'
  BY StopAssumption
     DEF LiveInv, StopInv, BucketsOpen, StopAssumption, BucketsTrue
<1>1. \A i \in Ids : NotResting(i) => NotResting(i)'
  BY <1>0, RestingFades DEF LiveInv
<1>2. ASSUME UNCHANGED got, call' = "sweep" \/ call # "sweep"
      PROVE  BucketsTrue'
  BY <1>0, <1>1, <1>2
<1>3. ASSUME NEW i \in Ids, NEW b, got' = [got EXCEPT ![i] = b], call # "sweep",
             Settling(b, call') => NotResting(i)
      PROVE  BucketsTrue'
  BY <1>0, <1>1, <1>3
<1>4. ASSUME \A i \in Ids : got'[i] \in {"none", "failed"}
      PROVE  BucketsTrue'
  BY <1>0, <1>4
<1>5. ASSUME NEW i \in Ids, RecheckOne(i)
      PROVE  BucketsTrue'
  <2>1. call = "recheck"
    BY <1>5 DEF RecheckOne
  <2>2. got' = [got EXCEPT ![i] = "unknown"] \/ Verdict(i)
    BY <1>5 DEF RecheckOne
  <2>3. CASE Verdict(i)
    <3> DEFINE pending == trade[i] = "pending_cancel" \/ state[i] = "cancel_pending"
               b == CASE trade[i] = "cancelled" -> "dead"
                      [] trade[i] = "confirmed" -> "filled"
                      [] OTHER -> IF pending THEN "already_pending" ELSE "recancel"
    <3>1. got' = [got EXCEPT ![i] = b]
      BY <2>3 DEF Verdict
    <3>2. b # "recancel" => NotResting(i)
      BY SkipsNoneResting DEF NotResting
    <3>3. b = "recancel" => ~Settling(b, call')
      OBVIOUS
    <3> HIDE DEF b, Settling
    <3> QED BY <1>3, <2>1, <3>1, <3>2, <3>3
  <2> QED BY <1>3, <2>1, <2>2, <2>3
<1>6. ASSUME NEW i \in Ids, RereadOne(i)
      PROVE  BucketsTrue'
  <2>1. call = "reread" /\ call' = call
    BY <1>6 DEF RereadOne, Does
  <2>2. \A o \in Offers : NotResting(o)
    BY <1>0, <2>1 DEF SweptTrue
  <2> QED BY <1>0, <1>1, <2>2
<1>7. CASE SweepAccepted
  <2>1. reply = "accepted" /\ call = "sweep"
    BY <1>7 DEF SweepAccepted, Does
  <2>2. \A o \in Offers : NotResting(o)
    BY <1>0, <2>1 DEF AcceptedIsDone
  <2> QED BY <1>0, <1>1, <2>2
<1>8. CASE SweepIsRefused \/ SweepUnanswered \/ EndRecheck \/ EndAttempt
  BY <1>4, <1>8 DEF SweepIsRefused, SweepUnanswered, EndRecheck, EndAttempt
<1>9. CASE SendSweep
  <2>1. call' = "sweep" /\ \A i \in Ids : got'[i] \in {"cancelled", "reread", "none"}
    BY <1>9 DEF SendSweep
  <2> QED BY <1>0, <2>1
<1>10. CASE IdsDeadline
  <2>1. /\ call' = call /\ call # "sweep"
        /\ \A i \in Ids : got'[i] = "failed" \/ got'[i] = got[i]
    BY <1>10 DEF IdsDeadline, Does
  <2> QED BY <1>0, <1>1, <2>1
<1>11. ASSUME NEW i \in Ids, SkipId(i)
       PROVE  BucketsTrue'
  <2>1. state[i] # "open" /\ call # "sweep"
    BY <1>11 DEF SkipId, Does
  <2>2. PICK b : got' = [got EXCEPT ![i] = b]
    BY <1>11 DEF SkipId
  <2> QED BY <1>3, <2>1, <2>2, SkipsNoneResting
<1>12. CASE IdAccepted
  <2>1. /\ call \in ByIdCalls /\ reply = "accepted"
        /\ got' = [got EXCEPT ![at] = "cancelled"]
    BY <1>12 DEF IdAccepted, ByIdCalls
  <2>2. at \in Ids /\ NotResting(at) /\ call # "sweep"
    BY <1>0, <2>1 DEF AcceptedIsDone, StopInv, BucketsOpen, ByIdCalls
  <2> QED BY <1>3, <2>1, <2>2
<1>13. CASE IdFailed \/ EmergencyFailed
  <2>1. /\ call \in ByIdCalls /\ call # "sweep"
        /\ \/ got' = [got EXCEPT ![at] = "failed"]
           \/ got' = [got EXCEPT ![at] = "unfunded"]
    BY <1>13 DEF IdFailed, EmergencyFailed, ByIdCalls
  <2>2. at \in Ids
    BY <2>1 DEF StopInv, BucketsOpen
  <2> QED BY <1>3, <2>1, <2>2
<1>14. CASE FallbackAnswered
  <2>1. UNCHANGED got /\ \A i \in Ids : got[i] = "none"
    BY <1>14 DEF FallbackAnswered, StopInv, BucketsOpen
  <2> QED BY <1>4, <2>1
<1>15. CASE Beside
  BY <1>2, <1>15, BesideStill DEF attemptVars
<1>16. CASE \/ UNCHANGED stopVars
            \/ WriteAhead \/ SyncProbe \/ StartLadder \/ DecideNext \/ SleepOut
            \/ StartRecheck \/ EndLadder \/ FallbackSend \/ Settle
            \/ RereadDone \/ StartIds \/ EmergencySend
            \/ \E i \in Ids : SendId(i)
  BY <1>2, <1>16
     DEF stopVars, WriteAhead, SyncProbe, StartLadder, DecideNext, SleepOut,
         StartRecheck, EndLadder, FallbackSend, Settle, RereadDone, StartIds,
         EmergencySend, SendId, Does, attemptVars
<1> QED BY <1>5, <1>6, <1>7, <1>8, <1>9, <1>10, <1>11, <1>12, <1>13, <1>14, <1>15,
        <1>16 DEF StopNext, EngineNext


\* What the ladder counts as a sweep that was answered has reached every open trade.
LEMMA SweptStep ==
  ASSUME StopInv, LiveInv, [StopNext]_stopVars
  PROVE  SweptTrue'
<1> DEFINE None == \A o \in Offers : NotResting(o)
           Mid(c) == c \in {"reread", "ids"} \cup ByIdCalls
<1>0. /\ SweptTrue /\ AcceptedIsDone /\ attempts \in Nat
      /\ None => None'
  BY RestingFades DEF LiveInv, StopInv, LadderInv, TypeOK
<1> HIDE DEF None
<1>1. ASSUME UNCHANGED <<sweep, attempts, sweep_refused, possibly_submitted>>,
             call' = "reread" => call = "reread",
             phase' = "ladder" /\ Mid(call') => phase = "ladder" /\ (Mid(call) \/ attempts > 0)
      PROVE  SweptTrue'
  BY <1>0, <1>1 DEF SweptTrue, None
<1>2. CASE SweepAccepted
  <2>1. None
    BY <1>0, <1>2 DEF SweepAccepted, Does, AcceptedIsDone, None
  <2>2. sweep' = "accepted" /\ UNCHANGED <<attempts, sweep_refused, possibly_submitted>>
    BY <1>2 DEF SweepAccepted, ladderVars, flags
  <2> QED BY <1>0, <2>1, <2>2 DEF SweptTrue, None
<1>3. CASE SweepIsRefused \/ SweepUnanswered
  <2>1. /\ sweep' \in {"refused", "unanswered"} /\ call' = "ids"
        /\ UNCHANGED <<attempts, sweep_refused, possibly_submitted>>
    BY <1>3 DEF SweepIsRefused, SweepUnanswered, ladderVars, ladderStill, ladderRest, flags
  <2> QED BY <1>0, <2>1 DEF SweptTrue, None
<1>4. CASE StartLadder
  <2>1. CASE operator_sweep
    <3>1. possibly_submitted' = TRUE /\ UNCHANGED attemptVars /\ call = "idle"
      BY <1>4, <2>1
         DEF StartLadder, Record, SeededOutcome, StopInv, PhaseAndStep
    <3> QED BY <1>0, <3>1 DEF SweptTrue, attemptVars, None, ByIdCalls
  <2>2. CASE ~operator_sweep
    <3>1. UNCHANGED <<ladderVars, attemptVars>> /\ call = "idle"
      BY <1>4, <2>2 DEF StartLadder, StopInv, PhaseAndStep
    <3> QED BY <1>1, <3>1 DEF attemptVars, ladderVars, flags, ByIdCalls
  <2> QED BY <2>1, <2>2
<1>5. CASE EndAttempt
  <2>1. /\ phase = "ladder" /\ step = "send" /\ call = "ids"
        /\ call' = "idle" /\ sweep' = "none"
        /\ sweep_refused' = (sweep_refused \/ sweep = "refused")
        /\ possibly_submitted' = (possibly_submitted \/ sweep = "unanswered")
    BY <1>5, ZenonT(40) DEF EndAttempt, Does, inLadder, Record
  <2>2. ASSUME ~sweep_refused', ~possibly_submitted'
        PROVE  None
    <3>1. attempts = 0 \/ attempts > 0
      BY <1>0
    <3>2. CASE attempts = 0
      BY <1>0, <2>1, <2>2, <3>2 DEF SweptTrue, None, StopInv, LadderInv, TypeOK
    <3>3. CASE attempts > 0
      BY <1>0, <2>1, <2>2, <3>3 DEF SweptTrue, None, StopInv, LadderInv, TypeOK
    <3> QED BY <3>1, <3>2, <3>3
  <2> QED BY <1>0, <2>1, <2>2 DEF SweptTrue, None, ByIdCalls
<1>6. CASE StartIds
  BY <1>1, <1>6 DEF StartIds, Does, inLadder, stopRest, ladderVars, flags
<1>7. CASE DecideNext \/ EndRecheck \/ SleepOut
  <2>1. UNCHANGED <<sweep, attempts, sweep_refused, possibly_submitted, phase>>
    BY <1>7
       DEF DecideNext, Decide, NextEmpty, NextAttempt, NextPlan, EndRecheck, SleepOut,
           RecordRecheck, attemptVars, stopRest, ladderRest, flags
  <2>2. call' = "idle" \/ call' = call
    BY <1>7 DEF DecideNext, EndRecheck, SleepOut, attemptVars
  <2> QED BY <1>1, <2>1, <2>2 DEF ByIdCalls
<1>8. CASE Beside
  BY <1>1, <1>8, BesideStill DEF attemptVars, ladderVars, flags
<1>9. CASE \/ UNCHANGED stopVars
           \/ WriteAhead \/ SyncProbe \/ EndLadder \/ Settle \/ FallbackSend
           \/ FallbackAnswered
  <2>1. UNCHANGED <<sweep, attempts, sweep_refused, possibly_submitted>>
    BY <1>9
       DEF stopVars, WriteAhead, SyncProbe, EndLadder, Settle, FallbackSend,
           FallbackAnswered, attemptVars, ladderVars, ladderStill, ladderRest, flags
  <2>2. \/ UNCHANGED <<phase, call>>
        \/ phase' # "ladder" /\ (call' = call \/ call' \in {"idle", "sweep"})
    BY <1>9
       DEF stopVars, WriteAhead, SyncProbe, EndLadder, Settle, FallbackSend,
           FallbackAnswered, attemptVars, stopRest
  <2> QED BY <1>1, <2>1, <2>2
<1>10. CASE \/ StartRecheck \/ SendSweep \/ RereadDone \/ IdsDeadline \/ IdAccepted
            \/ IdFailed \/ EmergencySend \/ EmergencyFailed
            \/ \E i \in Ids : RecheckOne(i) \/ RereadOne(i) \/ SkipId(i) \/ SendId(i)
  <2>1. UNCHANGED <<sweep, attempts, sweep_refused, possibly_submitted, phase>>
    BY <1>10
       DEF StartRecheck, SendSweep, RereadDone, IdsDeadline, IdAccepted, IdFailed,
           EmergencySend, EmergencyFailed, RecheckOne, RereadOne, SkipId, SendId,
           Verdict, stopRest, ladderVars, ladderStill, ladderRest, flags
  <2>2. \/ call' \in {"recheck", "sweep"} \/ call' = call
        \/ Mid(call) /\ call' # "reread"
    BY <1>10
       DEF StartRecheck, SendSweep, RereadDone, IdsDeadline, IdAccepted, IdFailed,
           EmergencySend, EmergencyFailed, RecheckOne, RereadOne, SkipId, SendId, Does,
           ByIdCalls
  <2>3. phase' = "ladder" /\ Mid(call') => phase = "ladder" /\ Mid(call)
    BY <2>1, <2>2 DEF ByIdCalls
  <2> QED BY <1>1, <2>1, <2>2, <2>3
<1> QED BY <1>2, <1>3, <1>4, <1>5, <1>6, <1>7, <1>8, <1>9, <1>10
        DEF StopNext, EngineNext

\* An attempt comes to every outstanding offer that rests.
LEMMA AccountedStep ==
  ASSUME StopInv, LiveInv, [StopNext]_stopVars
  PROVE  Accounted'
<1> DEFINE Settled(b) == b \in {"cancelled", "failed", "unfunded", "already_pending"}
<1>0. /\ DOMAIN got = Ids /\ Ids \subseteq Offers /\ outstanding \subseteq Ids
      /\ Accounted /\ AcceptedIsDone /\ SweptTrue /\ PhaseAndStep
      /\ call \in ByIdCalls => at \in Ids
  BY StopAssumption
     DEF LiveInv, StopInv, BucketsOpen, StopAssumption, LadderInv, TypeOK
<1>1. \A i \in Ids : NotResting(i) => NotResting(i)'
  BY <1>0, RestingFades DEF LiveInv
<1>2. ASSUME phase' # "ladder" \/ step' # "send" \/ call' = "idle"
      PROVE  Accounted'
  BY <1>2 DEF Accounted
<1>3. ASSUME UNCHANGED <<phase, step, outstanding, todo, call, at, got>>
      PROVE  Accounted'
  BY <1>0, <1>1, <1>3 DEF Accounted
<1>4. ASSUME UNCHANGED outstanding, \A i \in Ids : NotResting(i)
      PROVE  Accounted'
  BY <1>0, <1>1, <1>4 DEF Accounted
<1>5. ASSUME UNCHANGED outstanding, phase = "ladder", step = "send", call = "ids",
             call' # "sweep",
             \A i \in Ids : \/ UNCHANGED <<got[i]>> /\ (i \in todo => i \in todo')
                            \/ Settled(got'[i])
                            \/ NotResting(i)
                            \/ call' \in ByIdCalls /\ i = at' /\ UNCHANGED <<got[i]>>
      PROVE  Accounted'
  BY <1>0, <1>1, <1>5 DEF Accounted, ByIdCalls
<1>6. CASE SendSweep
  <2>1. /\ UNCHANGED outstanding /\ todo' = tracked
    BY <1>6 DEF SendSweep, ladderVars, buckets
  <2>2. \A i \in Ids : i \in tracked \/ NotResting(i)
    BY SkipsNoneResting DEF tracked
  <2> QED BY <1>0, <1>1, <2>1, <2>2 DEF Accounted
<1>7. CASE SweepAccepted
  <2>1. \A i \in Ids : NotResting(i)
    BY <1>0, <1>7 DEF SweepAccepted, Does, AcceptedIsDone
  <2> QED BY <1>4, <1>7, <2>1 DEF SweepAccepted, ladderVars, buckets
<1>8. CASE SweepIsRefused \/ SweepUnanswered
  <2>1. /\ phase = "ladder" /\ step = "send" /\ call = "sweep" /\ call' = "ids"
        /\ UNCHANGED outstanding
        /\ \/ UNCHANGED todo
           \/ \A i \in Ids : i \in todo => got'[i] = "failed"
    BY <1>8
       DEF SweepIsRefused, SweepUnanswered, Does, inLadder, ladderVars, ladderStill,
           ladderRest, buckets
  <2>2. \A i \in outstanding : i \in todo \/ NotResting(i)
    BY <1>0, <2>1 DEF Accounted, ByIdCalls
  <2> QED BY <1>0, <1>1, <2>1, <2>2 DEF Accounted
<1>9. CASE RereadDone \/ \E i \in Ids : RereadOne(i)
  <2>1. call = "reread" /\ UNCHANGED outstanding
    BY <1>9 DEF RereadDone, RereadOne, Does, ladderVars, ladderStill, ladderRest, buckets
  <2>2. \A i \in Ids : NotResting(i)
    BY <1>0, <2>1 DEF SweptTrue
  <2> QED BY <1>4, <2>1, <2>2
<1>10. CASE StartIds
  BY <1>10 DEF StartIds, Accounted, ladderVars, buckets
<1>11. CASE IdsDeadline
  <2>1. /\ phase = "ladder" /\ step = "send" /\ call = "ids" /\ call' # "sweep"
        /\ UNCHANGED outstanding
        /\ \A i \in Ids : \/ got'[i] = got[i] /\ i \notin todo
                          \/ got'[i] = "failed"
    BY <1>11 DEF IdsDeadline, Does, inLadder, ladderVars, buckets
  <2> QED BY <1>5, <2>1
<1>12. ASSUME NEW i \in Ids, SkipId(i)
       PROVE  Accounted'
  <2>1. /\ phase = "ladder" /\ step = "send" /\ call = "ids" /\ call' # "sweep"
        /\ UNCHANGED outstanding
        /\ state[i] # "open" /\ todo' = todo \ {i}
        /\ \A j \in Ids \ {i} : got'[j] = got[j]
    BY <1>0, <1>12 DEF SkipId, Does, inLadder, ladderVars, buckets
  <2>2. NotResting(i)
    BY <2>1, SkipsNoneResting
  <2> QED BY <1>5, <2>1, <2>2
<1>13. ASSUME NEW i \in Ids, SendId(i)
       PROVE  Accounted'
  <2>1. /\ phase = "ladder" /\ step = "send" /\ call = "ids" /\ call' = "id" /\ at' = i
        /\ UNCHANGED <<outstanding, got>> /\ todo' = todo \ {i}
    BY <1>13 DEF SendId, Does, inLadder, ladderVars, buckets
  <2> QED BY <1>5, <2>1 DEF ByIdCalls
<1>14. CASE IdAccepted \/ IdFailed \/ EmergencyFailed
  <2>1. /\ phase = "ladder" /\ step = "send" /\ call \in ByIdCalls /\ call' = "ids"
        /\ UNCHANGED <<outstanding, todo>>
        /\ \E b : Settled(b) /\ got' = [got EXCEPT ![at] = b]
    BY <1>0, <1>14
       DEF IdAccepted, IdFailed, EmergencyFailed, ByIdCalls, PhaseAndStep, ladderVars,
           ladderStill, ladderRest, buckets
  <2> QED BY <1>0, <1>1, <2>1 DEF Accounted, ByIdCalls
<1>15. CASE EmergencySend
  <2>1. /\ phase = "ladder" /\ step = "send" /\ call \in ByIdCalls /\ call' \in ByIdCalls
        /\ UNCHANGED <<outstanding, todo, at, got>>
    BY <1>0, <1>15
       DEF EmergencySend, ByIdCalls, PhaseAndStep, ladderStill, ladderRest, buckets
  <2> QED BY <1>0, <1>1, <2>1 DEF Accounted, ByIdCalls
<1>16. CASE EndRecheck \/ EndAttempt \/ EndLadder \/ FallbackSend \/ FallbackAnswered
            \/ Settle \/ WriteAhead \/ SyncProbe
  BY <1>2, <1>16
     DEF EndRecheck, EndAttempt, EndLadder, FallbackSend, FallbackAnswered, Settle,
         WriteAhead, SyncProbe, stopRest
<1>17. CASE StartLadder \/ DecideNext \/ SleepOut
  <2>1. call = "idle" /\ UNCHANGED call
    BY <1>0, <1>17
       DEF StartLadder, DecideNext, Decide, NextEmpty, NextAttempt, NextPlan, SleepOut,
           inLadder, PhaseAndStep, ByIdCalls, attemptVars
  <2> QED BY <1>2, <2>1
<1>18. CASE StartRecheck \/ \E i \in Ids : RecheckOne(i)
  <2>1. step = "recheck" /\ UNCHANGED step
    BY <1>0, <1>18
       DEF StartRecheck, RecheckOne, inLadder, PhaseAndStep, ladderVars, ladderStill
  <2> QED BY <1>2, <2>1
<1>19. CASE Beside \/ UNCHANGED stopVars
  BY <1>3, <1>19, BesideStill DEF attemptVars, ladderVars, buckets, stopVars
<1> QED BY <1>6, <1>7, <1>8, <1>9, <1>10, <1>11, <1>12, <1>13, <1>14, <1>15, <1>16,
        <1>17, <1>18, <1>19 DEF StopNext, EngineNext


\* The steps that move no id on the ladder.
LEMMA HeldStill ==
  ASSUME [StopNext]_stopVars, ~StartLadder, ~EndAttempt, ~EndRecheck
  PROVE  UNCHANGED <<outstanding, held_back, book>>
<1>1. CASE StopLeavesLadder
  BY <1>1, Still DEF ladderVars, buckets
<1>2. CASE StopTakesTime \/ EndLadder
  BY <1>2
     DEF StopTakesTime, SyncProbe, SweepUnanswered, IdFailed, EmergencySend,
         EmergencyFailed, RecheckOne, RereadOne, EndLadder, ladderStill, ladderRest,
         buckets
<1>3. CASE DecideNext \/ SleepOut
  BY <1>3
     DEF DecideNext, Decide, NextEmpty, NextAttempt, NextPlan, SleepOut, ladderRest,
         buckets
<1> QED BY <1>1, <1>2, <1>3 DEF StopNext, EngineNext, StopLeavesLadder, StopTakesTime

\* No offer of the book that rests leaves the ladder.
LEMMA RestingStep ==
  ASSUME StopInv, LiveInv, [StopNext]_stopVars
  PROVE  RestingIsHeld'
<1>0. /\ RestingIsHeld /\ book \subseteq Ids /\ Ids \subseteq Offers
      /\ outstanding \subseteq Ids
      /\ Accounted /\ BucketsTrue
  BY StopAssumption DEF LiveInv, StopInv, LadderInv, TypeOK, StopAssumption
<1>1. \A i \in Ids : NotResting(i) => NotResting(i)'
  BY <1>0, RestingFades DEF LiveInv
<1>2. ASSUME UNCHANGED book,
             \A i \in outstanding \cup held_back :
               i \in outstanding' \cup held_back' \/ (i \in Ids => NotResting(i))
      PROVE  RestingIsHeld'
  BY <1>0, <1>1, <1>2 DEF RestingIsHeld
<1>3. CASE StartLadder
  BY <1>2, <1>3 DEF StartLadder, Record, SeededOutcome, still_live, ladderVars, buckets
<1>4. CASE EndAttempt
  <2>1. /\ phase = "ladder" /\ step = "send" /\ call = "ids" /\ todo = {}
        /\ outstanding' = (found("failed") \cup found("unfunded")) \cup held_back
        /\ UNCHANGED book
    BY <1>4 DEF EndAttempt, Does, inLadder, Record, still_live
  <2>2. ASSUME NEW i \in outstanding, ~NotResting(i)
        PROVE  i \in outstanding'
    <3>1. got[i] \in {"cancelled", "failed", "unfunded", "already_pending"}
      BY <1>0, <2>1, <2>2 DEF Accounted, ByIdCalls
    <3>2. got[i] \notin {"cancelled", "already_pending"}
      BY <1>0, <2>1, <2>2 DEF BucketsTrue
    <3> QED BY <1>0, <2>1, <3>1, <3>2 DEF found
  <2> QED BY <1>2, <2>1, <2>2
<1>5. CASE EndRecheck
  <2> DEFINE part == [recancel |-> found("recancel"),
                      already_pending |-> found("already_pending"),
                      dead |-> found("dead"), filled |-> found("filled"),
                      unknown |-> found("unknown"),
                      sweep_evidence |-> evidence]
  <2>1. call = "recheck" /\ todo = {} /\ RecordRecheck(part)
    BY <1>5 DEF EndRecheck
  <2>2. /\ held_back' = held_back \cup found("unknown")
                          \cup (IF shows_sweep_running(part) THEN found("recancel") ELSE {})
        /\ outstanding' = IF shows_sweep_running(part) THEN {} ELSE found("recancel")
        /\ UNCHANGED book
    BY <2>1 DEF RecordRecheck, may_cancel
  <2>3. ASSUME NEW i \in outstanding, ~NotResting(i)
        PROVE  i \in outstanding' \cup held_back'
    <3>1. got[i] \in Verdicts
      BY <2>1 DEF StopInv, RecheckPartitions
    <3>2. got[i] \notin {"already_pending", "dead", "filled"}
      BY <1>0, <2>3 DEF BucketsTrue
    <3>3. i \in found("recancel") \cup found("unknown")
      BY <1>0, <3>1, <3>2 DEF found, Verdicts
    <3> QED BY <2>2, <3>3
  <2> QED BY <1>2, <2>2, <2>3
<1>6. CASE ~StartLadder /\ ~EndAttempt /\ ~EndRecheck
  BY <1>2, <1>6, HeldStill
<1> QED BY <1>3, <1>4, <1>5, <1>6

\* A ladder that has ended is left alone, but for its clock.
LEMMA EndStays ==
  ASSUME StopInv, [StopNext]_stopVars, step = "finish"
  PROVE  /\ UNCHANGED <<step, outstanding, attempts, stop_reason, sweep_refused,
                        possibly_submitted, sweep_when_empty>>
         /\ call \notin {"recheck", "reread", "ids"} \cup ByIdCalls
<1>0. PhaseAndStep
  BY DEF StopInv
<1>1. CASE StopLeavesLadder
  BY <1>0, <1>1, Still DEF ladderVars, buckets, flags, PhaseAndStep, ByIdCalls
<1>2. CASE StopTakesTime \/ EndLadder
  BY <1>0, <1>2
     DEF StopTakesTime, SyncProbe, SweepUnanswered, IdFailed, EmergencySend,
         EmergencyFailed, RecheckOne, RereadOne, EndLadder, ladderStill, ladderRest,
         buckets, flags, PhaseAndStep, ByIdCalls
<1>3. ~DecideNext /\ ~SleepOut /\ ~EndRecheck /\ ~EndAttempt /\ ~StartLadder
  BY <1>0
     DEF DecideNext, Decide, NextEmpty, NextAttempt, NextPlan, SleepOut, EndRecheck,
         RecordRecheck, EndAttempt, StartLadder, Does, inLadder, PhaseAndStep, fresh
<1> QED BY <1>1, <1>2, <1>3 DEF StopNext, EngineNext, StopLeavesLadder, StopTakesTime

\* A ladder ends after an attempt, and with the reason the fallback needs.
LEMMA EndsStep ==
  ASSUME StopInv, LiveInv, [StopNext]_stopVars
  PROVE  EndsSwept'
<1>0. /\ EndsSwept /\ sweep_when_empty /\ ReasonSoFar /\ attempts \in Nat
      /\ outstanding \subseteq Ids
  BY DEF LiveInv, EndsSwept, StopInv, LadderInv, TypeOK
<1>1. CASE step = "finish"
  <2>1. UNCHANGED <<step, outstanding, attempts, stop_reason, sweep_refused,
                    possibly_submitted, sweep_when_empty>>
    BY <1>1, EndStays
  <2>2. must_fall_back' = must_fall_back
    BY <2>1 DEF must_fall_back
  <2> QED BY <1>0, <2>1, <2>2 DEF EndsSwept
<1>2. CASE step # "finish"
  <2>1. ASSUME step' # "finish", UNCHANGED sweep_when_empty
        PROVE  EndsSwept'
    BY <1>0, <2>1 DEF EndsSwept
  <2>2. CASE DecideNext
    <3>1. CASE NextEmpty
      <4>1. /\ step = "decide" /\ outstanding = {} /\ nothing_left /\ attempts > 0
            /\ stop_reason' = empty_reason
            /\ UNCHANGED <<outstanding, attempts, sweep_refused, possibly_submitted,
                           sweep_when_empty>>
        BY <1>0, <3>1 DEF NextEmpty, nothing_left, buckets
      <4>2. sweep_refused \/ possibly_submitted =>
              stop_reason' \in {"SweepRefused", "SweepPossiblySubmitted"}
        BY <1>0, <4>1 DEF ReasonSoFar, empty_reason, StopInv, LadderInv, TypeOK
      <4> QED BY <1>0, <4>1, <4>2 DEF EndsSwept, must_fall_back
    <3>2. CASE NextPlan
      <4>1. /\ attempts > 0 /\ outstanding # {}
            /\ UNCHANGED <<outstanding, attempts, sweep_refused, possibly_submitted,
                           sweep_when_empty>>
        BY <1>0, <3>2 DEF NextPlan, nothing_left, buckets
      <4> QED BY <1>0, <4>1 DEF EndsSwept
    <3>3. CASE NextAttempt
      BY <2>1, <3>3 DEF NextAttempt, attempt_step
    <3> QED BY <2>2, <3>1, <3>2, <3>3 DEF DecideNext, Decide
  <2>3. CASE StartLadder \/ SleepOut \/ EndRecheck \/ EndAttempt
    BY <1>2, <2>1, <2>3
       DEF StartLadder, SleepOut, EndRecheck, EndAttempt, Record, RecordRecheck,
           ladderVars, ladderRest
  <2>4. CASE StopLeavesLadder
    BY <1>2, <2>1, <2>4, Still DEF ladderVars
  <2>5. CASE StopTakesTime \/ EndLadder
    BY <1>2, <2>1, <2>5
       DEF StopTakesTime, SyncProbe, SweepUnanswered, IdFailed, EmergencySend,
           EmergencyFailed, RecheckOne, RereadOne, EndLadder, ladderStill, ladderRest
  <2> QED BY <2>2, <2>3, <2>4, <2>5
          DEF StopNext, EngineNext, StopLeavesLadder, StopTakesTime
<1> QED BY <1>1, <1>2

\* The alert is the fallback's, and the fallback is not skipped.
LEMMA AlertStep ==
  ASSUME StopInv, LiveInv, [StopNext]_stopVars
  PROVE  AlertTells'
<1>0. AlertTells /\ PhaseAndStep
  BY DEF LiveInv, StopInv
<1> DEFINE Ended == phase \in {"settle", "stopped"}
<1>1. ASSUME UNCHANGED <<alerted, named>>, {phase, phase'} \cap {"settle", "stopped"} = {}
      PROVE  AlertTells'
  BY <1>0, <1>1 DEF AlertTells
<1>2. CASE EndLadder
  <2>1. /\ phase = "ladder" /\ step = "finish"
        /\ phase' = IF must_fall_back THEN "fallback" ELSE "settle"
        /\ UNCHANGED <<alerted, named, outstanding, stop_reason>>
    BY <1>2 DEF EndLadder, inLadder, alertVars, ladderStill, ladderRest, buckets, flags
  <2> QED BY <1>0, <2>1 DEF AlertTells, must_fall_back
<1>3. CASE FallbackAnswered
  BY <1>3 DEF FallbackAnswered, AlertTells, ladderVars, buckets
<1>4. CASE Ended /\ ~EndLadder
  <2>1. step = "finish" /\ UNCHANGED <<outstanding, stop_reason>>
    BY <1>0, <1>4, EndStays DEF PhaseAndStep
  <2>2. Settle \/ Beside \/ UNCHANGED stopVars
    BY <1>0, <1>4, EndStays, <2>1
       DEF StopNext, EngineNext, WriteAhead, SyncProbe, StartLadder, DecideNext, Decide,
           NextEmpty, NextAttempt, NextPlan, SleepOut, StartRecheck, RecheckOne,
           EndRecheck, SendSweep, SweepAccepted, SweepIsRefused, SweepUnanswered,
           RereadOne, RereadDone, StartIds, IdsDeadline, SkipId, SendId, IdAccepted,
           IdFailed, EmergencySend, EmergencyFailed, EndAttempt, FallbackSend,
           FallbackAnswered, Does, inLadder, ByIdCalls
  <2>3. UNCHANGED <<alerted, named>> /\ phase' \in {"settle", "stopped"}
    BY <1>4, <2>2, BesideStill
       DEF Settle, Beside, WalletRuns, HeartbeatDetects, CreateLands, CreateRecorded,
           stopRest, stopVars, alertVars
  <2> QED BY <1>0, <1>4, <2>1, <2>3 DEF AlertTells, must_fall_back
<1>5. CASE ~Ended /\ ~EndLadder /\ ~FallbackAnswered
  <2>1. CASE Beside \/ UNCHANGED stopVars
    BY <1>1, <1>5, <2>1, BesideStill
       DEF Beside, WalletRuns, HeartbeatDetects, CreateLands, CreateRecorded,
           stopRest, stopVars, alertVars
  <2>2. CASE \/ WriteAhead \/ SyncProbe \/ StartLadder \/ DecideNext \/ SleepOut
             \/ StartRecheck \/ EndRecheck \/ EndAttempt \/ FallbackSend
             \/ \E i \in Ids : RecheckOne(i)
    BY <1>1, <1>5, <2>2
       DEF WriteAhead, SyncProbe, StartLadder, DecideNext, SleepOut, StartRecheck,
           EndRecheck, EndAttempt, FallbackSend, RecheckOne, stopRest, alertVars
  <2>3. CASE \/ SendSweep \/ SweepAccepted \/ SweepIsRefused \/ SweepUnanswered
             \/ RereadDone \/ StartIds \/ IdsDeadline \/ IdAccepted \/ IdFailed
             \/ EmergencySend \/ EmergencyFailed
             \/ \E i \in Ids : RereadOne(i) \/ SkipId(i) \/ SendId(i)
    BY <1>1, <1>5, <2>3
       DEF SendSweep, SweepAccepted, SweepIsRefused, SweepUnanswered, RereadOne,
           RereadDone, StartIds, IdsDeadline, SkipId, SendId, IdAccepted, IdFailed,
           EmergencySend, EmergencyFailed, stopRest, alertVars
  <2>4. ~Settle
    BY <1>5 DEF Settle
  <2> QED BY <1>5, <2>1, <2>2, <2>3, <2>4 DEF StopNext, EngineNext
<1> QED BY <1>2, <1>3, <1>4, <1>5


\* Every step keeps all of it.
LEMMA LiveStep == StopInv /\ LiveInv /\ [StopNext]_stopVars => LiveInv'
<1> SUFFICES ASSUME StopInv, LiveInv, [StopNext]_stopVars PROVE LiveInv'
  OBVIOUS
<1>1. DOMAIN trade' = Offers /\ DOMAIN coins' = Offers
  BY RestingFades DEF LiveInv
<1>2. SweepCovers' /\ WaitsForLast' /\ AcceptedIsDone'
  BY CoversStep, WaitsStep, AcceptedStep
<1>3. EntriesTrue' /\ BucketsTrue'
  BY EntriesStep, BucketsTrueStep
<1>4. SweptTrue' /\ Accounted' /\ RestingIsHeld'
  BY SweptStep, AccountedStep, RestingStep
<1>5. EndsSwept' /\ AlertTells'
  BY EndsStep, AlertStep
<1> QED BY <1>1, <1>2, <1>3, <1>4, <1>5 DEF LiveInv

\* What the stop believes of the wallet is true throughout.
THEOREM StopBelievesRight == StopSpec => []LiveInv
<1>1. StopInit => LiveInv
  BY LiveInit
<1> QED BY <1>1, LiveStep, StopInvariant, PTL DEF StopSpec

\* An offer of the book that still rests when the stop is over is in the operator's
\* alert, whatever the wallet did, did not do, or did after the client had given up.
THEOREM StopNamesLive == StopSpec => []LiveAreNamed
<1> SUFFICES ASSUME StopInv, LiveInv PROVE LiveAreNamed
  BY StopInvariant, StopBelievesRight, PTL
<1> SUFFICES ASSUME phase = "stopped", NEW i \in book, trade[i] = "open"
             PROVE  i \in named
  BY DEF LiveAreNamed
<1>1. step = "finish" /\ held_back = {}
  BY DEF StopInv, PhaseAndStep, LadderInv, NoSilentStop
<1>2. i \in outstanding
  BY <1>1 DEF LiveInv, RestingIsHeld, NotResting
<1>3. alerted
  BY <1>2 DEF LiveInv, AlertTells, must_fall_back
<1> QED BY <1>2, <1>3 DEF LiveInv, AlertTells

\* After a stop that alerted nobody nothing rests but what a create in flight put
\* there afterwards.
LEMMA SilentMeansSwept ==
  ASSUME StopInv, LiveInv, phase = "stopped", ~alerted
  PROVE  \A o \in Offers \ Late : trade[o] # "open"
<1>1. step = "finish" /\ outstanding = {} /\ ~must_fall_back
  BY DEF StopInv, PhaseAndStep, LiveInv, AlertTells, must_fall_back
<1>2. attempts > 0 /\ ~sweep_refused /\ ~possibly_submitted
  BY <1>1 DEF LiveInv, EndsSwept
<1> QED BY <1>2 DEF LiveInv, SweptTrue, NotResting

\* A stop with no create in flight that runs no fallback has swept the wallet, of
\* untracked offers too.
THEOREM SilentStopsHaveSwept ==
  ASSUME Late = {}
  PROVE  StopSpec => []SilentStopSwept
<1>1. StopInv /\ LiveInv => SilentStopSwept
  BY SilentMeansSwept DEF SilentStopSwept
<1> QED BY <1>1, StopInvariant, StopBelievesRight, PTL

-----------------------------------------------------------------------------
(* The wait of an operator's unanswered sweep.                             *)

\* What is left of a wait does not end past the budget.
LEMMA SeedEnds ==
  ASSUME StopInv, SeedFits, clock <= RequestTimeout, NEW age \in 0 .. SweepWait
  PROVE  clock + remaining_wait(age) <= Budget /\ remaining_wait(age) \in Nat \ {0}
<1>1. clock \in Nat /\ Budget \in Nat /\ SweepWait \in Nat /\ MinUsefulDelay \in Nat \ {0}
      /\ RequestTimeout \in Nat
  BY ConfigAssumption, StopAssumption
     DEF ConfigAssumption, StopAssumption, StopInv, LadderInv, TypeOK
<1>2. SweepWait <= Budget /\ RequestTimeout + MinUsefulDelay <= Budget
  BY <1>1 DEF SeedFits, Greatest
<1> QED BY <1>1, <1>2 DEF remaining_wait, Greatest

\* Time that passes brings a moment no further away.
LEMMA StillReaches ==
  \A m, d, t, u \in Nat : m <= t + d /\ u >= t => m <= u + d
  OBVIOUS

\* The seed states the wait, and every later step keeps to it.
LEMMA SeedStepKeeps ==
  ASSUME SeedFits, StopInv, SeedOwes, [StopNext]_stopVars
  PROVE  SeedOwes'
<1>0. /\ clock \in Nat /\ clock <= Budget /\ Budget \in Nat /\ RequestTimeout \in Nat
      /\ attempts \in Nat /\ no_sooner \in Nat /\ seeded_wait \in Nat
      /\ PhaseAndStep
  BY ConfigAssumption, StopAssumption
     DEF ConfigAssumption, StopAssumption, StopInv, LadderInv, TypeOK
<1>1. ASSUME UNCHANGED <<operator_sweep, phase, attempts, no_sooner, seeded_wait,
                         last_attempt_possibly_submitted, stop_reason>>,
             clock' \in Nat, clock' >= clock,
             phase \in {"collect", "probe", "seed"} => clock' = clock
      PROVE  SeedOwes'
  <2>1. ASSUME operator_sweep, phase \notin {"collect", "probe", "seed"}
        PROVE  /\ attempts > 0 /\ no_sooner <= Budget
               /\ attempts = 1 => no_sooner <= clock' + seeded_wait
    <3>1. /\ attempts > 0 /\ no_sooner <= Budget
          /\ attempts = 1 => no_sooner <= clock + seeded_wait
      BY <2>1 DEF SeedOwes
    <3>2. clock' \in Nat /\ clock' >= clock
      BY <1>1
    <3>3. no_sooner <= clock + seeded_wait => no_sooner <= clock' + seeded_wait
      BY <1>0, <3>2, StillReaches
    <3> QED BY <3>1, <3>3
  <2>2. operator_sweep /\ phase = "fallback" /\ stop_reason = "SweepPossiblySubmitted"
          => clock' >= no_sooner
    BY <1>0, <1>1 DEF SeedOwes
  <2>3. /\ phase \in {"collect", "probe"} => clock' = 0
        /\ phase = "seed" => clock' <= RequestTimeout
    BY <1>0, <1>1 DEF SeedOwes
  <2> QED BY <1>1, <2>1, <2>2, <2>3 DEF SeedOwes
<1>2. CASE WriteAhead \/ SyncProbe
  <2>1. CASE WriteAhead
    BY <1>0, <2>1 DEF WriteAhead, SeedOwes, ladderVars
  <2>2. CASE SyncProbe
    <3>1. clock = 0 /\ clock' <= RequestTimeout /\ phase' = "seed"
      BY <1>0, <2>2 DEF SyncProbe, SeedOwes, After, Least
    <3> QED BY <3>1 DEF SeedOwes
  <2> QED BY <1>2, <2>1, <2>2
<1>3. CASE StartLadder
  <2>1. CASE operator_sweep
    <3>1. clock <= RequestTimeout /\ attempts = 0 /\ phase' = "ladder"
      BY <1>0, <1>3 DEF StartLadder, SeedOwes, PhaseAndStep, fresh
    <3>2. PICK age \in 0 .. SweepWait : Record(SeededOutcome(remaining_wait(age)))
      BY <1>3, <2>1 DEF StartLadder
    <3>3. /\ clock + remaining_wait(age) <= Budget /\ remaining_wait(age) \in Nat \ {0}
      BY <3>1, SeedEnds
    <3>4. /\ attempts' = 1 /\ clock' = clock
          /\ no_sooner' = clock + remaining_wait(age) /\ seeded_wait' = remaining_wait(age)
      BY <3>1, <3>2, <3>3 DEF Record, SeededOutcome, attempts_made
    <3> QED BY <1>0, <3>1, <3>3, <3>4 DEF SeedOwes
  <2>2. CASE ~operator_sweep
    BY <1>3, <2>2 DEF StartLadder, SeedOwes
  <2> QED BY <2>1, <2>2
<1>4. CASE EndAttempt
  <2>1. /\ phase = "ladder" /\ step = "send" /\ call = "ids"
        /\ UNCHANGED <<phase, operator_sweep, clock>>
        /\ attempts' = attempts + 1
        /\ last_attempt_possibly_submitted' = (sweep = "unanswered")
        /\ sweep # "unanswered" => UNCHANGED no_sooner
    BY <1>4, ZenonT(40) DEF EndAttempt, Does, inLadder, stopRest, orderVars, Record, attempts_made
  <2>2. operator_sweep => attempts > 0 /\ sweep = "none"
    BY <1>0, <2>1 DEF SeedOwes, StopInv, RetryIsGiven, ByIdCalls
  <2>3. operator_sweep => attempts' > 1 /\ no_sooner' <= Budget
    BY <1>0, <2>1, <2>2 DEF SeedOwes
  <2>4. operator_sweep => ~last_attempt_possibly_submitted'
    BY <2>1, <2>2
  <2> QED BY <2>1, <2>3, <2>4 DEF SeedOwes
<1>5. CASE EndLadder
  <2>1. /\ phase = "ladder" /\ step = "finish" /\ phase' \in {"fallback", "settle"}
        /\ clock' = After(wait_owed_before_fallback)
        /\ UNCHANGED <<operator_sweep, attempts, no_sooner, seeded_wait,
                       last_attempt_possibly_submitted, stop_reason>>
    BY <1>5 DEF EndLadder, inLadder, orderVars, ladderStill, ladderRest, flags
  <2>2. wait_owed_before_fallback \in Nat
    BY <1>0 DEF wait_owed_before_fallback
  <2>3. clock' >= clock /\ clock' \in Nat /\ clock' <= Budget
    BY <1>0, <2>1, <2>2 DEF After, Least
  <2>4. ASSUME operator_sweep, stop_reason = "SweepPossiblySubmitted"
        PROVE  clock' >= no_sooner
    <3>1. attempts > 0 /\ no_sooner <= Budget
      BY <2>1, <2>4 DEF SeedOwes
    <3>2. CASE attempts = 1
      <4>1. wait_owed_before_fallback = seeded_wait /\ no_sooner <= clock + seeded_wait
        BY <2>1, <2>4, <3>2 DEF wait_owed_before_fallback, SeedOwes
      <4> QED BY <1>0, <2>1, <3>1, <4>1 DEF After, Least
    <3>3. CASE attempts > 1
      <4>1. clock >= no_sooner
        BY <2>1, <2>4, <3>3 DEF SeedOwes, StopInv, LadderInv, WaitSoFar
      <4> QED BY <1>0, <2>3, <4>1
    <3> QED BY <1>0, <3>1, <3>2, <3>3
  <2> QED BY <1>0, <2>1, <2>3, <2>4 DEF SeedOwes
<1>6. CASE FallbackSend \/ FallbackAnswered \/ Settle
  <2>1. /\ UNCHANGED <<operator_sweep, attempts, no_sooner, seeded_wait,
                       last_attempt_possibly_submitted, stop_reason, clock>>
        /\ phase' = phase \/ phase' \in {"settle", "stopped"}
        /\ phase \in {"fallback", "settle"}
    BY <1>6
       DEF FallbackSend, FallbackAnswered, Settle, orderVars, stopRest, ladderVars, flags
  <2> QED BY <1>0, <2>1 DEF SeedOwes
<1>7. CASE DecideNext
  <2>1. /\ phase = "ladder"
        /\ UNCHANGED <<operator_sweep, phase, attempts, no_sooner, seeded_wait,
                       last_attempt_possibly_submitted, clock>>
    BY <1>7
       DEF DecideNext, Decide, NextEmpty, NextAttempt, NextPlan, stopRest, orderVars, flags
  <2> QED BY <1>0, <2>1 DEF SeedOwes
<1>8. CASE SleepOut
  <2>1. Wake
    BY <1>8, SleepRefines
  <2>2. clock' \in Nat /\ clock' >= clock
    <3>1. plan_delay \in Nat
      BY <1>0, PlannedDelay DEF StopInv, LadderInv
    <3> QED BY <1>0, <1>8, <3>1 DEF SleepOut, After, Least
  <2>3. /\ phase = "ladder"
        /\ UNCHANGED <<operator_sweep, phase, attempts, no_sooner, seeded_wait,
                       last_attempt_possibly_submitted, stop_reason>>
    BY <1>8 DEF SleepOut, inLadder, stopRest, orderVars, ladderRest, flags
  <2> QED BY <1>1, <2>2, <2>3
<1>9. CASE EndRecheck
  <2>1. UNCHANGED <<operator_sweep, phase, attempts, no_sooner, seeded_wait,
                    last_attempt_possibly_submitted, stop_reason, clock>>
    BY <1>9 DEF EndRecheck, RecordRecheck, stopRest, orderVars
  <2> QED BY <1>0, <1>1, <2>1
<1>10. CASE \/ SweepUnanswered \/ IdFailed \/ EmergencySend \/ EmergencyFailed
            \/ \E i \in Ids : RecheckOne(i) \/ RereadOne(i)
  <2>1. UNCHANGED <<operator_sweep, phase, attempts, no_sooner, seeded_wait,
                    last_attempt_possibly_submitted, stop_reason>>
    BY <1>10
       DEF SweepUnanswered, IdFailed, EmergencySend, EmergencyFailed, RecheckOne,
           RereadOne, ladderStill, ladderRest, flags, stopRest, orderVars
  <2>2. clock' = clock \/ clock' = After(RequestTimeout)
    BY <1>10
       DEF SweepUnanswered, IdFailed, EmergencySend, EmergencyFailed, RecheckOne,
           RereadOne, answer_time
  <2>3. phase \notin {"collect", "probe", "seed"}
    BY <1>0, <1>10
       DEF SweepUnanswered, IdFailed, EmergencySend, EmergencyFailed, RecheckOne,
           RereadOne, Does, inLadder, PhaseAndStep
  <2>4. clock' \in Nat /\ clock' >= clock
    BY <1>0, <2>2 DEF After, Least
  <2> QED BY <1>1, <2>1, <2>3, <2>4
<1>11. CASE \/ StartRecheck \/ SendSweep \/ SweepAccepted \/ SweepIsRefused
            \/ RereadDone \/ StartIds \/ IdsDeadline \/ IdAccepted
            \/ \E i \in Ids : SkipId(i) \/ SendId(i)
  <2>1. UNCHANGED <<operator_sweep, phase, attempts, no_sooner, seeded_wait,
                    last_attempt_possibly_submitted, stop_reason, clock>>
    BY <1>11
       DEF StartRecheck, SendSweep, SweepAccepted, SweepIsRefused, RereadDone, StartIds,
           IdsDeadline, IdAccepted, SkipId, SendId, ladderVars, flags, stopRest, orderVars
  <2> QED BY <1>0, <1>1, <2>1
<1>12. CASE Beside \/ UNCHANGED stopVars
  <2>1. UNCHANGED <<operator_sweep, phase, attempts, no_sooner, seeded_wait,
                    last_attempt_possibly_submitted, stop_reason, clock>>
    BY <1>12, BesideStill
       DEF Beside, WalletRuns, HeartbeatDetects, CreateLands, CreateRecorded, stopRest,
           orderVars, stopVars, ladderVars, flags
  <2> QED BY <1>0, <1>1, <2>1
<1> QED BY <1>2, <1>3, <1>4, <1>5, <1>6, <1>7, <1>8, <1>9, <1>10, <1>11, <1>12
        DEF StopNext, EngineNext

\* The fallback sends no second wallet-wide sweep before the operator's unanswered
\* one has had its wait.  The budget must hold a request's timeout and the longest
\* wait, which a static_assert beside the code's defaults demands.
THEOREM SeededSweepsGetTheirWait ==
  ASSUME SeedFits
  PROVE  StopSpec => []SeededSweepGetsItsWait
<1>1. StopInit => SeedOwes
  BY DEF StopInit, Construct, SeedOwes
<1>2. StopInv /\ SeedOwes /\ [StopNext]_stopVars => SeedOwes'
  BY SeedStepKeeps
<1>3. SeedOwes => SeededSweepGetsItsWait
  BY DEF SeedOwes, SeededSweepGetsItsWait
<1> QED BY <1>1, <1>2, <1>3, StopInvariant, PTL DEF StopSpec
=============================================================================
