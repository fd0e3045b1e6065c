---------------------------- MODULE CancelLadder ----------------------------
(***************************************************************************)
(* The retry ladder of a cancelling stop: execution::CancelLadder and the  *)
(* policy plan_cancel_retry (cancel_retry.hpp), with the loop of           *)
(* Engine::shutdown that steps it.                                         *)
(*                                                                         *)
(* The ladder owns no clock, no wallet and no RPC.  Here its surroundings  *)
(* are left open: an attempt may report any outcome and a re-check may     *)
(* report any partition, in any amount of time.  ShutdownCancel closes     *)
(* the system with the offer manager and the wallet and implements this    *)
(* module.                                                                 *)
(*                                                                         *)
(* Vectors of offer ids are sets, texts are left out, and a moment past    *)
(* Budget is Budget: the code only ever compares the clock with it.        *)
(***************************************************************************)
EXTENDS Integers, FiniteSets

CONSTANTS
  Ids,               \* every offer id the ladder can be told about
  Budget,            \* budget_ms
  MaxAttempts,       \* max_attempts
  OtherMaxAttempts,  \* other_max_attempts
  BaseDelay,         \* base_delay_ms
  MaxDelay,          \* max_delay_ms
  MinUsefulDelay,    \* min_useful_delay_ms
  SweepWait          \* possibly_submitted_wait_ms

ASSUME ConfigAssumption ==
  /\ Budget \in Nat \ {0}
  /\ MaxAttempts \in Nat \ {0}
  /\ OtherMaxAttempts \in Nat \ {0}
  /\ BaseDelay \in Nat \ {0}
  /\ MaxDelay \in Nat \ {0}
  /\ MinUsefulDelay \in Nat \ {0}
  /\ SweepWait \in Nat \ {0}

VARIABLES
  \* ----- the members of CancelLadder -----
  outstanding, held_back, submitted, already_pending,
  resolved_dead, resolved_filled,
  attempts, authorised_attempt, stop_reason, worst_class,
  sweep_refused, possibly_submitted,
  last_attempt_possibly_submitted, last_attempt_wait, seeded_wait,
  sweep_seen_running, sweep_when_empty,
  \* ----- the driver -----
  step,    \* what the loop in Engine::shutdown does next
  clock,   \* elapsed_ms(), up to Budget
  \* ----- observers, read by no action -----
  book,      \* the ids the ladder was built with
  released,  \* ids an attempt reported in no bucket: untracked, or closed
  no_sooner  \* the earliest moment the retry of an unanswered sweep may run

buckets == <<outstanding, held_back, submitted, already_pending,
             resolved_dead, resolved_filled, released>>

flags == <<attempts, authorised_attempt, stop_reason, worst_class,
           sweep_refused, possibly_submitted,
           last_attempt_possibly_submitted, last_attempt_wait, seeded_wait,
           sweep_seen_running>>

ladderVars == <<buckets, flags, sweep_when_empty, step, clock, book, no_sooner>>

Classes == {"Unsynced", "Other", "Funding"}

StopReasons == {"Unknown", "Done", "AttemptsExhausted", "BudgetExhausted",
                "NeedsEmergencyLadder", "SweepRefused",
                "SweepPossiblySubmitted"}

Steps == {"decide", "sleep", "recheck", "send", "finish"}

Least(a, b)    == IF a <= b THEN a ELSE b
Greatest(a, b) == IF a >= b THEN a ELSE b

\* The clock after d more milliseconds; everything past Budget is alike.
After(d) == Least(clock + d, Budget)

-----------------------------------------------------------------------------
(* plan_cancel_retry: one total function of the ladder's state.            *)

\* The delay before retry n, doubling from BaseDelay up to MaxDelay.
cancel_backoff(n) ==
  LET delay[i \in 1 .. n] == Least(MaxDelay, IF i = 1 THEN BaseDelay ELSE 2 * delay[i - 1])
  IN  IF n = 0 THEN 0 ELSE delay[n]

\* The attempt ceiling of a failure class: Other gets the short leash.
ceiling(class) ==
  IF class = "Other" THEN Least(OtherMaxAttempts, MaxAttempts)
                     ELSE MaxAttempts

budget_left == Budget - clock

\* What an unanswered sweep still has to be given: the rest of a seeded wait,
\* or the whole configured one.
wait_needed == IF last_attempt_wait # 0 THEN last_attempt_wait ELSE SweepWait

\* Mutant: the backoff alone, whatever an unanswered sweep still needs.
BackoffOnlyDelay == Least(cancel_backoff(attempts), budget_left)

plan_delay ==
  LET backoff == cancel_backoff(attempts)
      wanted  == IF last_attempt_possibly_submitted
                 THEN Greatest(backoff, wait_needed)
                 ELSE backoff
  IN  Least(wanted, budget_left)

\* Why the policy stops, or "Unknown" when it retries.  The order of the
\* tests is the code's.
plan_stop_reason ==
  IF outstanding = {} THEN "Done"
  ELSE IF worst_class = "Funding" THEN "NeedsEmergencyLadder"
  ELSE IF attempts >= ceiling(worst_class) THEN "AttemptsExhausted"
  ELSE IF \/ clock >= Budget
          \/ /\ last_attempt_possibly_submitted
             /\ budget_left < wait_needed + MinUsefulDelay
          \/ plan_delay < MinUsefulDelay
       THEN "BudgetExhausted"
  ELSE "Unknown"

-----------------------------------------------------------------------------
(* CancelLadder: the constructor, next(), record(), record_recheck().      *)

\* The constructor.  An empty book is Done only if no sweep is to be sent.
Construct(ids, sweepEmpty) ==
  /\ outstanding = ids
  /\ sweep_when_empty = sweepEmpty
  /\ stop_reason = IF ids = {} /\ ~sweepEmpty THEN "Done" ELSE "Unknown"
  /\ held_back = {} /\ submitted = {} /\ already_pending = {}
  /\ resolved_dead = {} /\ resolved_filled = {}
  /\ attempts = 0 /\ authorised_attempt = 0
  /\ worst_class = "Other"
  /\ sweep_refused = FALSE /\ possibly_submitted = FALSE
  /\ last_attempt_possibly_submitted = FALSE
  /\ last_attempt_wait = 0 /\ seeded_wait = 0
  /\ sweep_seen_running = FALSE
  /\ step = "decide" /\ clock = 0
  /\ book = ids /\ released = {} /\ no_sooner = 0

\* needs_recheck(): sticky from the first sweep that got no answer.  record()
\* sets it and possibly_submitted_ together, so one variable carries both.
needs_recheck == possibly_submitted

\* Mutant: a retry is sent without asking the wallet first.
NeverRecheck == "send"

\* The step that runs an authorised attempt.
attempt_step == IF needs_recheck THEN "recheck" ELSE "send"

nothing_left == outstanding = {} /\ ~(sweep_when_empty /\ attempts = 0)

\* An empty ladder is done, unless record() found a sweep that was refused or
\* left unanswered.
empty_reason == IF sweep_refused \/ possibly_submitted THEN stop_reason ELSE "Done"

\* next(): nothing is outstanding, so the ladder ends.
NextEmpty ==
  /\ step = "decide" /\ nothing_left
  /\ step' = "finish"
  /\ stop_reason' = empty_reason
  /\ UNCHANGED <<buckets, attempts, authorised_attempt, worst_class,
                 sweep_refused, possibly_submitted,
                 last_attempt_possibly_submitted, last_attempt_wait,
                 seeded_wait, sweep_seen_running, sweep_when_empty, clock,
                 book, no_sooner>>

\* next(): the first attempt, which is never planned, or one whose sleep has
\* been served.
NextAttempt ==
  /\ step = "decide" /\ ~nothing_left
  /\ attempts = 0 \/ authorised_attempt > attempts
  /\ authorised_attempt' = IF attempts = 0 THEN 1 ELSE authorised_attempt
  /\ step' = attempt_step
  /\ UNCHANGED <<buckets, attempts, stop_reason, worst_class, sweep_refused,
                 possibly_submitted, last_attempt_possibly_submitted,
                 last_attempt_wait, seeded_wait, sweep_seen_running,
                 sweep_when_empty, clock, book, no_sooner>>

\* next(): the policy is asked, and either authorises a retry after a sleep or
\* ends the ladder with its reason.
NextPlan ==
  /\ step = "decide" /\ ~nothing_left
  /\ attempts > 0 /\ authorised_attempt <= attempts
  /\ IF plan_stop_reason = "Unknown"
     THEN /\ authorised_attempt' = attempts + 1
          /\ step' = "sleep"
          /\ UNCHANGED stop_reason
     ELSE /\ stop_reason' = plan_stop_reason
          /\ step' = "finish"
          /\ UNCHANGED authorised_attempt
  /\ UNCHANGED <<buckets, attempts, worst_class, sweep_refused,
                 possibly_submitted, last_attempt_possibly_submitted,
                 last_attempt_wait, seeded_wait, sweep_seen_running,
                 sweep_when_empty, clock, book, no_sooner>>

\* The ids an attempt's outcome names (CancelAttemptOutcome).
reported(oc) == oc.cancelled \cup oc.failed \cup oc.already_pending

\* Mutant: the ids held back from the attempt are forgotten.
FailedOnly(oc) == oc.failed

\* What is still live after an attempt: what the wallet did not take, and the
\* ids held back from it.
still_live(oc) == oc.failed \cup held_back

\* Mutant: the attempt is not counted.
NotCounted == attempts

attempts_made == attempts + 1

\* record(): fold one attempt in.
Record(oc) ==
  LET left == still_live(oc)
  IN
  /\ attempts' = attempts_made
  /\ submitted' = submitted \cup oc.cancelled
  /\ already_pending' = already_pending \cup oc.already_pending
  /\ outstanding' = left
  /\ held_back' = {}
  /\ released' = released \cup (outstanding \ reported(oc))
  /\ sweep_refused' = (sweep_refused \/ oc.sweep_refused)
  /\ possibly_submitted' = (possibly_submitted \/ oc.bulk_possibly_submitted)
  /\ last_attempt_possibly_submitted' = oc.bulk_possibly_submitted
  /\ last_attempt_wait' = IF oc.bulk_possibly_submitted
                          THEN oc.possibly_submitted_wait ELSE 0
  /\ seeded_wait' = IF attempts = 0 /\ oc.bulk_possibly_submitted
                    THEN oc.possibly_submitted_wait ELSE seeded_wait
  /\ worst_class' = IF oc.failed # {} THEN oc.worst_class ELSE worst_class
  /\ stop_reason' = IF left # {} THEN stop_reason
                    ELSE IF sweep_refused' THEN "SweepRefused"
                    ELSE IF possibly_submitted' THEN "SweepPossiblySubmitted"
                    ELSE "Done"
  /\ no_sooner' = IF oc.bulk_possibly_submitted
                  THEN clock + IF oc.possibly_submitted_wait # 0
                               THEN oc.possibly_submitted_wait ELSE SweepWait
                  ELSE no_sooner
  /\ step' = "decide"
  /\ UNCHANGED <<authorised_attempt, resolved_dead, resolved_filled,
                 sweep_seen_running, sweep_when_empty, clock, book>>

\* recheck_shows_sweep_running(): live offers are left while this re-check, or
\* an earlier one of this ladder, found offers the sweep had reached.
shows_sweep_running(part) ==
  part.recancel # {} /\ (sweep_seen_running \/ part.sweep_evidence)

\* The ids a re-checked attempt may cancel: none while the sweep is running.
may_cancel(part, running) == IF running THEN {} ELSE part.recancel

\* record_recheck(), over a RecheckPartition: afterwards outstanding holds only
\* ids this attempt may cancel; none while the sweep is seen to be running.
RecordRecheck(part) ==
  LET running == shows_sweep_running(part)
  IN
  /\ step = "recheck"
  /\ sweep_seen_running' = (sweep_seen_running \/ part.sweep_evidence)
  /\ already_pending' = already_pending \cup part.already_pending
  /\ resolved_dead' = resolved_dead \cup part.dead
  /\ resolved_filled' = resolved_filled \cup part.filled
  /\ held_back' = held_back \cup part.unknown
                            \cup (IF running THEN part.recancel ELSE {})
  /\ outstanding' = may_cancel(part, running)
  /\ step' = "send"
  /\ UNCHANGED <<submitted, released, attempts, authorised_attempt,
                 stop_reason, worst_class, sweep_refused, possibly_submitted,
                 last_attempt_possibly_submitted, last_attempt_wait,
                 seeded_wait, sweep_when_empty, clock, book, no_sooner>>

\* clean(): the only clean ending.
clean == /\ outstanding = {}
         /\ ~sweep_refused /\ ~possibly_submitted
         /\ stop_reason = "Done"

\* Mutant: the fallback owes no wait.
NothingOwed == 0

\* The rest of a seeded wait the ladder never slept, owed before the fallback.
wait_owed_before_fallback ==
  IF attempts = 1 /\ stop_reason = "SweepPossiblySubmitted"
  THEN seeded_wait ELSE 0

-----------------------------------------------------------------------------
(* The driver, and the open surroundings.                                  *)

\* Built and not yet stepped.
fresh == step = "decide" /\ attempts = 0 /\ authorised_attempt = 0

ladderRest == <<buckets, flags, sweep_when_empty, book, no_sooner>>

\* The retry timer fires, when it is due or late.
Wake ==
  /\ step = "sleep"
  /\ clock' \in After(plan_delay) .. Budget
  /\ step' = "decide"
  /\ UNCHANGED ladderRest

\* Time passes while the driver awaits something that is not the ladder's: the
\* sync probe before the first step, an RPC of an attempt, the fallback.
RpcTime ==
  /\ step \in {"recheck", "send", "finish"} \/ fresh
  /\ clock' \in (clock + 1) .. Budget
  /\ UNCHANGED <<ladderRest, step>>

\* An operator's unanswered sweep is recorded in place of attempt 1
\* (seeded_unanswered_sweep_outcome); `rest` is the wait it is still owed.
SeededOutcome(rest) ==
  [cancelled |-> {}, failed |-> outstanding, already_pending |-> {},
   worst_class |-> "Other", sweep_refused |-> FALSE,
   bulk_possibly_submitted |-> TRUE, possibly_submitted_wait |-> rest]

Seed ==
  /\ fresh
  /\ \E rest \in 1 .. Greatest(SweepWait, MinUsefulDelay) :
        Record(SeededOutcome(rest))

\* The ids an attempt can name.  Attempt 1 is the wallet-wide sweep and covers
\* every tracked offer; a retry names only what it was given.
asked == IF attempts = 0 THEN Ids ELSE outstanding

\* cancel_all and cancel_ids: each id in one bucket or in none, and for the
\* sweep alone a refusal or no answer.
Attempt ==
  /\ step = "send"
  /\ \E answer \in [asked -> {"cancelled", "failed", "already_pending", "none"}],
        class \in Classes,
        sweep \in IF attempts = 0 THEN {"accepted", "refused", "unanswered"}
                                 ELSE {"none"} :
       Record([cancelled |-> {i \in asked : answer[i] = "cancelled"},
               failed |-> {i \in asked : answer[i] = "failed"},
               already_pending |-> {i \in asked : answer[i] = "already_pending"},
               worst_class |-> class,
               sweep_refused |-> sweep = "refused",
               bulk_possibly_submitted |-> sweep = "unanswered",
               possibly_submitted_wait |-> 0])

\* partition_rechecked_offer over every outstanding offer: one bucket each,
\* and evidence of the sweep only from one it is cancelling or has cancelled.
Recheck ==
  \E verdict \in [outstanding -> {"recancel", "already_pending", "dead",
                                  "filled", "unknown"}],
     evidence \in BOOLEAN :
    LET found(v) == {i \in outstanding : verdict[i] = v}
    IN  /\ evidence => found("already_pending") \cup found("dead") # {}
        /\ RecordRecheck([recancel |-> found("recancel"),
                          already_pending |-> found("already_pending"),
                          dead |-> found("dead"), filled |-> found("filled"),
                          unknown |-> found("unknown"),
                          sweep_evidence |-> evidence])

\* Engine::shutdown builds the ladder over State's offers, with the sweep due
\* even when there are none; other callers may build one without it.
Init ==
  \E ids \in SUBSET Ids, sweepEmpty \in BOOLEAN : Construct(ids, sweepEmpty)

Decide == NextEmpty \/ NextAttempt \/ NextPlan

Next == Decide \/ Wake \/ RpcTime \/ Seed \/ Recheck \/ Attempt

Spec == Init /\ [][Next]_ladderVars

=============================================================================
