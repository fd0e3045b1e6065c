--------------------------- MODULE ShutdownCancel ---------------------------
(***************************************************************************)
(* A stop that cancels the book: Engine::shutdown driving CancelLadder     *)
(* over OfferManager::cancel_all, cancel_ids and recheck_terminal against  *)
(* the Chia wallet, with the cancel-intent file written around it and      *)
(* watchdog_cancel_book as the fallback.                                   *)
(*                                                                         *)
(* Every RPC is two steps, the call and its answer, and between them the   *)
(* wallet works, takers take and a heartbeat the signal interrupted runs   *)
(* on.  A call that is answered takes no time on the ladder's scale, one   *)
(* that is not takes RequestTimeout.  No offer is held by the fill proof.  *)
(***************************************************************************)
EXTENDS CancelLadder, ChiaWallet

CONSTANTS
  RequestTimeout,  \* of a wallet call, retries included
  Recovered,       \* untracked offers an earlier process ordered dead
  Late,            \* ids whose create is in flight when the stop arrives
  MidCycle         \* the stop arrives by signal, inside a heartbeat

ASSUME StopAssumption ==
  /\ Ids \subseteq Offers /\ Recovered \subseteq Offers \ Ids
  /\ Late \subseteq Ids /\ MidCycle \in BOOLEAN
  /\ RequestTimeout \in Nat \ {0}

VARIABLES
  state,           \* State's entry of an offer
  local_cancel_live, \* cancelled in the wallet, not proven so on chain
  cancel_intent,   \* what was ordered dead, with its tag, and its file on disk
  pending_before,  \* cancels in flight before the sweep
  operator_sweep,  \* an operator's Cancel All has just waited for its sweep in vain
  phase,           \* where Engine::shutdown is
  call,            \* what the attempt or re-check is doing
  todo,            \* the offers it has not come to
  at,              \* the offer of the call that is out, or NoOffer
  got,             \* the bucket found for an offer
  sweep,           \* how the attempt's sweep ended
  evidence,        \* sweep_evidence of the running re-check
  alerted, named,  \* the fallback ran; the ids its alert names
  unasked          \* observer: a cancel of it got no answer, and the wallet has
                   \* not been asked about it since

NoOffer == "no offer"

entryVars   == <<state, local_cancel_live>>
orderVars   == <<cancel_intent, pending_before, operator_sweep>>
alertVars   == <<alerted, named>>
attemptVars == <<call, todo, at, got, sweep, evidence>>
stopVars    == <<ladderVars, walletVars, entryVars, orderVars, attemptVars, phase,
                 alertVars, unasked>>

\* What an attempt leaves alone; and the ladder but for its clock.
stopRest    == <<orderVars, phase, alertVars>>
ladderStill == <<ladderRest, step>>

\* The ids State has an entry for; a create in flight has none yet.
tracked == {i \in Ids : state[i] \in {"open", "cancel_pending"}}

\* State::mark_cancel_pending: only on an entry that is there.
mark_cancel_pending(S) ==
  [i \in Ids |-> IF i \in S /\ state[i] = "open" THEN "cancel_pending" ELSE state[i]]

-----------------------------------------------------------------------------
(* Before the ladder: the intent is on disk before any cancel is sent.     *)

\* Mutant: State's ids replace what an earlier process ordered dead.
ReplaceIntent ==
  [o \in Offers |-> IF o \in book THEN "ordered" ELSE "none"]

\* Every id in State is ordered dead; what a sweep has already upgraded, and
\* what an earlier process ordered, is kept.
ordered_dead ==
  [o \in Offers |-> IF o \in book /\ cancel_intent[o] = "none"
                    THEN "ordered" ELSE cancel_intent[o]]

WriteAhead ==
  /\ phase = "collect" /\ phase' = "probe"
  /\ cancel_intent' = ordered_dead
  /\ UNCHANGED <<ladderVars, walletVars, entryVars, pending_before, operator_sweep,
                 attemptVars, alertVars, unasked>>

\* The pre-cancel sync check, charged against the budget and otherwise ignored.
SyncProbe ==
  /\ phase = "probe" /\ phase' = "seed"
  /\ clock' \in IF outstanding = {} THEN {clock} ELSE {clock, After(RequestTimeout)}
  /\ UNCHANGED <<ladderStill, walletVars, entryVars, orderVars, attemptVars,
                 alertVars, unasked>>

\* Mutant: the rest of the wait has no floor, and 0 means the whole wait.
UnflooredWait(age) == Greatest(SweepWait - (age + clock), 0)

\* What the operator's sweep is still owed, `age` after it went unanswered when
\* the stop arrives.
remaining_wait(age) == Greatest(SweepWait - (age + clock), MinUsefulDelay)

\* The operator's sweep is recorded as attempt 1, with the cancels that were in
\* flight before it; or this stop sweeps itself, and notes the ones there are.
StartLadder ==
  /\ phase = "seed" /\ phase' = "ladder"
  /\ IF operator_sweep
     THEN /\ \E age \in 0 .. SweepWait : Record(SeededOutcome(remaining_wait(age)))
          /\ UNCHANGED pending_before
     ELSE /\ pending_before' = {i \in Ids : state[i] = "cancel_pending"}
          /\ UNCHANGED ladderVars
  /\ unasked' = IF operator_sweep THEN outstanding ELSE {}
  /\ UNCHANGED <<walletVars, entryVars, cancel_intent, operator_sweep, attemptVars,
                 alertVars>>

inLadder(s) == phase = "ladder" /\ step = s

DecideNext ==
  /\ phase = "ladder" /\ Decide
  /\ UNCHANGED <<walletVars, entryVars, stopRest, attemptVars, unasked>>

\* The retry timer.
SleepOut ==
  /\ inLadder("sleep") /\ clock' = After(plan_delay) /\ step' = "decide"
  /\ UNCHANGED <<ladderRest, walletVars, entryVars, stopRest, attemptVars, unasked>>

-----------------------------------------------------------------------------
(* The re-check after a sweep that got no answer.                          *)

StartRecheck ==
  /\ inLadder("recheck") /\ call = "idle"
  /\ call' = "recheck" /\ todo' = outstanding
  /\ UNCHANGED <<at, got, sweep, evidence, ladderVars, walletVars, entryVars,
                 stopRest, unasked>>

\* recheck_terminal re-adopts an offer that is not over after all, and flags
\* one the wallet is cancelling; then partition_rechecked_offer.
Verdict(i) ==
  LET status == trade[i]
      pending == status = "pending_cancel" \/ state[i] = "cancel_pending"
  IN  /\ got' = [got EXCEPT ![i] =
           CASE status = "cancelled" -> "dead"
             [] status = "confirmed" -> "filled"
             [] OTHER -> IF pending THEN "already_pending" ELSE "recancel"]
      /\ state' = IF status = "cancelled" THEN state
                  ELSE [state EXCEPT ![i] =
                          IF status # "confirmed" /\ pending THEN "cancel_pending"
                          ELSE IF i \notin tracked THEN "open" ELSE @]
      /\ evidence' = (evidence \/ (got'[i] \in {"dead", "already_pending"}
                                     /\ i \notin pending_before))

\* One offer is asked about; past the deadline none is, and there may be no
\* answer.
RecheckOne(i) ==
  /\ call = "recheck" /\ i \in todo
  /\ todo' = todo \ {i}
  /\ \/ /\ clock < Budget
        /\ Verdict(i)
        /\ unasked' = unasked \ {i}
        /\ UNCHANGED clock
     \/ /\ clock' = After(RequestTimeout)
        /\ got' = [got EXCEPT ![i] = "unknown"]
        /\ UNCHANGED <<state, evidence, unasked>>
  /\ UNCHANGED <<call, at, sweep, ladderStill, walletVars, local_cancel_live,
                 stopRest>>

found(bucket) == {i \in Ids : got[i] = bucket}

EndRecheck ==
  /\ call = "recheck" /\ todo = {}
  /\ RecordRecheck([recancel |-> found("recancel"),
                    already_pending |-> found("already_pending"),
                    dead |-> found("dead"), filled |-> found("filled"),
                    unknown |-> found("unknown"),
                    sweep_evidence |-> evidence])
  /\ call' = "idle" /\ got' = [i \in Ids |-> "none"] /\ evidence' = FALSE
  /\ UNCHANGED <<todo, at, sweep, walletVars, entryVars, stopRest, unasked>>

-----------------------------------------------------------------------------
(* Attempt 1: cancel_all, the wallet-wide sweep.                           *)

Does(c) == inLadder("send") /\ call = c

\* State is copied before the call, and the copies decide afterwards.
SendSweep ==
  /\ Does("idle") /\ attempts = 0
  /\ Send(SweepRequest)
  /\ call' = "sweep" /\ todo' = tracked
  /\ got' = [i \in Ids |-> IF state[i] = "open" THEN "cancelled"
                           ELSE IF state[i] = "cancel_pending" THEN "reread"
                           ELSE "none"]
  /\ UNCHANGED <<at, sweep, evidence, ladderVars, entryVars, stopRest, unasked>>

\* The sweep is accepted: an offer State had no cancel in flight for counts as
\* cancelled, the others are read again.
SweepAccepted ==
  /\ Does("sweep") /\ reply = "accepted" /\ ReadReply
  /\ call' = "reread" /\ todo' = found("reread") /\ sweep' = "accepted"
  /\ UNCHANGED <<at, got, evidence, ladderVars, entryVars, stopRest, unasked>>

\* Refused: every tracked offer, if there is any, is cancelled by itself.
SweepIsRefused ==
  /\ Does("sweep") /\ reply = "refused" /\ ReadReply
  /\ call' = "ids" /\ sweep' = "refused" /\ got' = [i \in Ids |-> "none"]
  /\ UNCHANGED <<todo, at, evidence, ladderVars, entryVars, stopRest, unasked>>

\* No answer: nothing more is sent, every tracked offer is still outstanding.
SweepUnanswered ==
  /\ Does("sweep") /\ reply = "unanswered" /\ ReadReply
  /\ clock' = After(RequestTimeout)
  /\ call' = "ids" /\ todo' = {} /\ sweep' = "unanswered"
  /\ got' = [i \in Ids |-> IF i \in todo THEN "failed" ELSE "none"]
  /\ unasked' = unasked \cup todo
  /\ UNCHANGED <<at, evidence, ladderStill, entryVars, stopRest>>

\* What the engine learns of a trade the wallet says is being or has been
\* cancelled: that its coins are spent for good, or not yet.  Unspent coins prove
\* nothing; of spent ones the lookup may fail, or show a spend still too shallow.
ProvenOver(i) == IF coins[i] = "unspent" THEN {FALSE} ELSE BOOLEAN

\* One offer is read after an accepted sweep.  Only an unswept one is cancelled
\* by id; one the wallet calls cancelled is closed if the chain proves it, and
\* else flagged and still outstanding.  An unread one is outstanding.
RereadOne(i) ==
  /\ Does("reread") /\ i \in todo
  /\ todo' = todo \ {i}
  /\ \/ /\ clock < Budget
        /\ \E proven \in ProvenOver(i) :
             got' = [got EXCEPT ![i] =
               CASE trade[i] \in {"open", "confirmed"} -> "cancel"
                 [] trade[i] = "pending_cancel" -> "already_pending"
                 [] OTHER -> IF proven THEN "closed" ELSE "failed"]
        /\ local_cancel_live' = CASE got'[i] = "failed" -> local_cancel_live \cup {i}
                                  [] got'[i] = "closed" -> local_cancel_live \ {i}
                                  [] OTHER -> local_cancel_live
        /\ state' = IF got'[i] = "failed" THEN mark_cancel_pending({i}) ELSE state
        /\ unasked' = unasked \ {i}
        /\ UNCHANGED clock
     \/ /\ clock' = After(RequestTimeout)
        /\ got' = [got EXCEPT ![i] = "failed"]
        /\ UNCHANGED <<entryVars, unasked>>
  /\ UNCHANGED <<call, at, sweep, evidence, walletVars, ladderStill, stopRest>>

RereadDone ==
  /\ Does("reread") /\ todo = {}
  /\ call' = "ids" /\ todo' = found("cancel")
  /\ UNCHANGED <<at, got, sweep, evidence, walletVars, ladderVars, entryVars,
                 stopRest, unasked>>

-----------------------------------------------------------------------------
(* cancel_ids: one secure cancel after the other.                          *)

StartIds ==
  /\ Does("idle") /\ attempts > 0
  /\ call' = "ids" /\ todo' = outstanding
  /\ UNCHANGED <<at, got, sweep, evidence, walletVars, ladderVars, entryVars,
                 stopRest, unasked>>

\* The deadline has passed: the rest was never attempted and is still live.
IdsDeadline ==
  /\ Does("ids") /\ todo # {} /\ clock >= Budget
  /\ got' = [i \in Ids |-> IF i \in todo THEN "failed" ELSE got[i]]
  /\ todo' = {}
  /\ UNCHANGED <<call, at, sweep, evidence, walletVars, ladderVars, entryVars,
                 stopRest, unasked>>

\* No call for an offer no longer tracked, or with a cancel in flight; the
\* latter is outstanding if the chain has not shown it closed.
SkipId(i) ==
  /\ Does("ids") /\ i \in todo /\ clock < Budget
  /\ state[i] # "open"
  /\ got' = [got EXCEPT ![i] = IF i \notin tracked THEN "closed"
                               ELSE IF i \in local_cancel_live THEN "failed"
                               ELSE "already_pending"]
  /\ todo' = todo \ {i}
  /\ UNCHANGED <<call, at, sweep, evidence, walletVars, ladderVars, entryVars,
                 stopRest, unasked>>

SendId(i) ==
  /\ Does("ids") /\ i \in todo /\ clock < Budget
  /\ state[i] = "open"
  /\ Send(SecureRequest(i))
  /\ at' = i /\ call' = "id" /\ todo' = todo \ {i}
  /\ UNCHANGED <<got, sweep, evidence, ladderVars, entryVars, stopRest, unasked>>

\* Accepted, whichever of the calls it was: submitted, and flagged in State.
IdAccepted ==
  /\ call \in {"id", "emergency", "zero_fee", "local"} /\ reply = "accepted" /\ ReadReply
  /\ got' = [got EXCEPT ![at] = "cancelled"]
  /\ state' = mark_cancel_pending({at})
  /\ call' = "ids" /\ at' = NoOffer
  /\ UNCHANGED <<todo, sweep, evidence, local_cancel_live, ladderVars, stopRest,
                 unasked>>

answer_time == IF reply = "unanswered" THEN After(RequestTimeout) ELSE clock

\* The cancel failed, but not for want of funds: still live.
IdFailed ==
  /\ call = "id" /\ reply \in {"refused", "unanswered"} /\ ReadReply
  /\ clock' = answer_time
  /\ got' = [got EXCEPT ![at] = "failed"]
  /\ unasked' = IF reply = "unanswered" THEN unasked \cup {at} ELSE unasked
  /\ call' = "ids" /\ at' = NoOffer
  /\ UNCHANGED <<todo, sweep, evidence, entryVars, ladderStill, stopRest>>

failing == {"funding", "refused", "unanswered"}

\* emergency_cancel: a secure cancel at a fee that can be paid, if there is one,
\* the halved fees of which are one call here, as a refusal for want of funds
\* leaves no trace; then at no fee; then one that closes only the wallet's own
\* record.  A failure of any kind leads to the next.
EmergencySend ==
  /\ \/ /\ call = "id" /\ reply = "funding"
        /\ call' \in {"emergency", "zero_fee"} /\ Send(SecureRequest(at))
     \/ /\ call = "emergency" /\ reply \in failing
        /\ call' = "zero_fee" /\ Send(SecureRequest(at))
     \/ /\ call = "zero_fee" /\ reply \in failing
        /\ call' = "local" /\ Send(LocalRequest(at))
  /\ clock' = answer_time
  /\ UNCHANGED <<todo, at, got, sweep, evidence, entryVars, ladderStill, stopRest,
                 unasked>>

\* It has failed, and so it has when the balance cannot be read at the start.
EmergencyFailed ==
  /\ \/ call = "local" /\ reply \in failing
     \/ call = "id" /\ reply = "funding"
  /\ ReadReply
  /\ clock' = answer_time
  /\ got' = [got EXCEPT ![at] = "unfunded"]
  /\ call' = "ids" /\ at' = NoOffer
  /\ UNCHANGED <<todo, sweep, evidence, entryVars, ladderStill, stopRest, unasked>>

\* The attempt is over: its outcome is recorded, and what it submitted is
\* flagged in State.
EndAttempt ==
  /\ Does("ids") /\ todo = {}
  /\ \E class \in IF found("unfunded") # {} THEN Classes ELSE {"Unsynced", "Other"} :
       Record([cancelled |-> found("cancelled"),
               failed |-> found("failed") \cup found("unfunded"),
               already_pending |-> found("already_pending"),
               worst_class |-> class,
               sweep_refused |-> sweep = "refused",
               bulk_possibly_submitted |-> sweep = "unanswered",
               possibly_submitted_wait |-> 0])
  /\ state' = mark_cancel_pending(found("cancelled"))
  /\ call' = "idle" /\ got' = [i \in Ids |-> "none"] /\ sweep' = "none"
  /\ UNCHANGED <<todo, at, evidence, walletVars, local_cancel_live, stopRest,
                 unasked>>

-----------------------------------------------------------------------------
(* After the ladder.                                                       *)

\* Mutant: an empty State needs no fallback.
OnlyOutstanding == outstanding # {}

must_fall_back ==
  outstanding # {} \/ stop_reason \in {"SweepRefused", "SweepPossiblySubmitted"}

\* The rest of a seeded wait that was never slept is waited out first.
EndLadder ==
  /\ inLadder("finish")
  /\ clock' = After(wait_owed_before_fallback)
  /\ phase' = IF must_fall_back THEN "fallback" ELSE "settle"
  /\ UNCHANGED <<ladderStill, walletVars, entryVars, orderVars, attemptVars,
                 alertVars, unasked>>

\* watchdog_cancel_book, with its own wallet client: a sweep of the whole wallet
\* at no fee, blocking, and an alert that names the ids still live.
FallbackSend ==
  /\ phase = "fallback" /\ call = "idle"
  /\ Send(SweepRequest)
  /\ call' = "sweep"
  /\ UNCHANGED <<todo, at, got, sweep, evidence, ladderVars, entryVars, stopRest,
                 unasked>>

FallbackAnswered ==
  /\ phase = "fallback" /\ call = "sweep"
  /\ ReadReply
  /\ alerted' = TRUE /\ named' = outstanding
  /\ call' = "idle" /\ phase' = "settle"
  /\ UNCHANGED <<todo, at, got, sweep, evidence, ladderVars, entryVars, orderVars,
                 unasked>>

\* The intent after the stop: what a taker won is dropped; what was submitted,
\* is being cancelled or is over, the next process verifies.
Settle ==
  /\ phase = "settle" /\ phase' = "stopped"
  /\ cancel_intent' = [o \in Offers |->
       IF o \in submitted \cup already_pending THEN "submitted"
       ELSE IF o \in resolved_filled THEN "none"
       ELSE IF o \in resolved_dead THEN "submitted"
       ELSE cancel_intent[o]]
  /\ UNCHANGED <<ladderVars, walletVars, entryVars, pending_before, operator_sweep,
                 attemptVars, alertVars, unasked>>

-----------------------------------------------------------------------------
(* What runs beside the stop.                                              *)

\* The fallback blocks the one thread; nothing awaits after it.
heartbeat_runs == MidCycle /\ phase \notin {"fallback", "settle", "stopped"}

\* detect_fills of the interrupted heartbeat: a fill is booked and its offer
\* leaves State, and so does a dead one; one the wallet is cancelling, or has
\* closed unproven, is flagged.  A fill that is not proven yet stays as it is.
HeartbeatDetects(i) ==
  /\ heartbeat_runs /\ i \in tracked
  /\ trade[i] \in {"confirmed", "pending_cancel", "cancelled"}
  /\ \E over \in IF trade[i] = "confirmed" THEN {TRUE} ELSE ProvenOver(i) :
       /\ state' = IF over THEN [state EXCEPT ![i] = "absent"]
                           ELSE mark_cancel_pending({i})
       /\ local_cancel_live' = IF over THEN local_cancel_live \ {i}
                               ELSE IF trade[i] = "cancelled"
                                    THEN local_cancel_live \cup {i}
                                    ELSE local_cancel_live
  /\ UNCHANGED <<walletVars, ladderVars, attemptVars, stopRest, unasked>>

\* The wallet, once it is free, builds the offer of a create that was in flight,
\* or of the no-floor retry of one it refused.
CreateLands(i) ==
  /\ phase # "stopped"
  /\ i \in Late /\ trade[i] = "absent" /\ queue = <<>>
  /\ trade' = [trade EXCEPT ![i] = "open"]
  /\ coins' = [coins EXCEPT ![i] = "unspent"]
  /\ UNCHANGED <<spends, queue, sweep_todo, reply, ladderVars, attemptVars,
                 entryVars, stopRest, unasked>>

\* post_quotes resumes and tracks it.
CreateRecorded(i) ==
  /\ heartbeat_runs
  /\ state[i] = "creating" /\ trade[i] # "absent"
  /\ state' = [state EXCEPT ![i] = "open"]
  /\ UNCHANGED <<walletVars, local_cancel_live, ladderVars, attemptVars, stopRest,
                 unasked>>

\* After the stop nobody is left to answer to.
WalletRuns ==
  /\ phase # "stopped" /\ WalletNext
  /\ UNCHANGED <<ladderVars, attemptVars, entryVars, stopRest, unasked>>

-----------------------------------------------------------------------------
\* A book as a heartbeat leaves it: an offer resting, being cancelled, just
\* taken, or closed by the wallet alone.
Kinds == {"none", "resting", "cancelling", "taken", "local"}

StopInit ==
  /\ \E kind \in [Ids -> Kinds] :
       LET Of(k) == {i \in Ids : kind[i] = k}
       IN  /\ Late \subseteq Of("none")
           /\ Construct(Ids \ Of("none"), TRUE)
           /\ state = [i \in Ids |->
                CASE i \in Late -> "creating"
                  [] i \in Of("none") \ Late -> "absent"
                  [] i \in Of("resting") \cup Of("taken") -> "open"
                  [] OTHER -> "cancel_pending"]
           /\ local_cancel_live = Of("local")
           /\ trade = [o \in Offers |->
                CASE o \in Of("none") -> "absent"
                  [] o \in Of("cancelling") -> "pending_cancel"
                  [] o \in Of("taken") -> "confirmed"
                  [] o \in Of("local") -> "cancelled"
                  [] OTHER -> "open"]
           /\ coins = [o \in Offers |-> CASE o \in Of("none") -> "none"
                                          [] o \in Of("taken") -> "taken"
                                          [] OTHER -> "unspent"]
           /\ spends = Of("cancelling")
           /\ operator_sweep \in BOOLEAN
           /\ pending_before = IF operator_sweep
                               THEN Of("cancelling") \cup Of("local") ELSE {}
  /\ queue \in IF operator_sweep THEN {<<>>, <<SweepRequest>>} ELSE {<<>>}
  /\ sweep_todo = IF queue = <<>> THEN {} ELSE sweepable
  /\ reply = "none"
  /\ cancel_intent = [o \in Offers |-> IF o \in Recovered THEN "ordered" ELSE "none"]
  /\ phase = "collect" /\ call = "idle" /\ todo = {} /\ at = NoOffer
  /\ got = [i \in Ids |-> "none"] /\ sweep = "none" /\ evidence = FALSE
  /\ alerted = FALSE /\ named = {} /\ unasked = {}

EngineNext ==
  \/ WriteAhead \/ SyncProbe \/ StartLadder \/ DecideNext \/ SleepOut
  \/ StartRecheck \/ EndRecheck
  \/ SendSweep \/ SweepAccepted \/ SweepIsRefused \/ SweepUnanswered \/ RereadDone
  \/ StartIds \/ IdsDeadline \/ IdAccepted \/ IdFailed
  \/ EmergencySend \/ EmergencyFailed \/ EndAttempt
  \/ EndLadder \/ FallbackSend \/ FallbackAnswered \/ Settle
  \/ \E i \in Ids : RecheckOne(i) \/ RereadOne(i) \/ SkipId(i) \/ SendId(i)

Beside ==
  \/ WalletRuns
  \/ \E i \in Ids : HeartbeatDetects(i) \/ CreateLands(i) \/ CreateRecorded(i)

StopNext == EngineNext \/ Beside

StopSpec == StopInit /\ [][StopNext]_stopVars

\* Every call ends, at the latest with the client's timeout, and the coroutine
\* is resumed.  Nothing is asked of the wallet, of takers or of the chain.
FairStop == /\ StopSpec
            /\ WF_stopVars(EngineNext)
            /\ WF_stopVars(NoAnswer /\ WalletRuns)

=============================================================================
