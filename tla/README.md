# XOPTrader: how an offer ends, in TLA+

XOPTrader is a market maker on the Chia offer market.  An offer it has posted is a
half-signed transaction that anybody may complete until its coins are spent, so the
dangerous half of its life is the end: a cancel is a submission to a wallet that may lose
it, delay it past the client's timeout, refuse it or do half of it, and an offer the engine
forgets rests on chain with nobody managing it.  A take is no safer: the wallet calls
CONFIRMED what another spend killed, and a cancel of a sibling writes its status over a
real take.

This directory models that half, and what decides over it: the stop that cancels or keeps
the book, the retry ladder it steps, the operator's Cancel All, the watchdog that cancels
for an engine that hangs, the file that carries an order across a crash, the escalation
that pays for a cancel nobody includes, the proof by which an offer's end is found out and
recorded, the suspension of a pair whose peg broke, and the recovery of the wallet all of
this is asked of; and, of the bridge service beside the engine, the sends of a job, which
meet the same wallet with the same doubts.

Paths are below `src/`; `engine.cpp` is `cpp/src/engine.cpp`, `offer_manager.cpp` is
`cpp/src/execution/offer_manager.cpp`, `cancel_retry.hpp` is
`cpp/include/xop/execution/cancel_retry.hpp`.

## Inventory

| Part | State it keeps | Operations | What is hard |
|---|---|---|---|
| `Engine` (`engine.cpp`): one asio thread, a poll loop, a heartbeat per block, a watchdog thread | gates (`stop_requested_`, `graceful_cancel_active_`, `cancel_all_inflight_`, `watchdog_fired_`), `cancel_intent_`, `last_beat_ms_` | `run`, `shutdown`, `check_cancel_all_flag`, `check_shutdown_flag`, `on_new_block_coro`, `watchdog_loop`, `sweep_cancel_intent`, `escalate_stuck_cancels`, `step_peg_watch` | every `co_await` lets the other coroutines run; a signal stops it inside a heartbeat; two cancels over one book |
| `CancelLadder` (`cancel_retry.hpp`) | outstanding ids and four result lists, attempts, flags of the last sweep | `next`, `record`, `record_recheck` | partial failure, budget and ceilings, an unanswered sweep |
| `OfferManager` (`offer_manager.cpp`) | `local_cancel_live_`, `proven_dead_`, fill deferrals | `post_quotes`, `cancel_all`, `cancel_ids`, `emergency_cancel`, `recheck_terminal`, `detect_fills`, `startup_reconcile` | copies taken before a call and used after it; wallet statuses that lie |
| `State` (`state.cpp`) | tracked offers with `cancel_pending` | upsert, remove, `mark_cancel_pending` | each call is atomic, no two are |
| Intent file `data/uncancelled.txt` | ids ordered dead, with a tag | `write_cancel_intent`, `load_cancel_intent`, the sweep | crash between any two steps, full disk, several writers |
| RPC client (`chia_rpc.cpp`, `rpc_retry_policy.hpp`) | transport counters | calls with a timeout | "no answer" is not "refused" |
| Chia wallet (external) | trade records, a lock with a queue | `cancel_offers`, `cancel_offer`, `get_offer` | goes on after the client gave up; never checks a trade's status before it builds a spend |
| Fill proof (`fill_proof.hpp`, `detect_fills`) | deferrals, windows | `prove_fill_on_chain` | CONFIRMED and CANCELLED are both written over each other; reorganisations |
| Watchdog (`watchdog.hpp`, `watchdog_loop`) | `fired_`, the last beat | `tick` on its own thread, `watchdog_cancel_book` | races the stop's claim, the create it interrupts and the exit of `run` |
| Cancel escalation (`cancel_escalation.hpp`) | tracks per offer, recorded attempts, the alert queue | one sweep per heartbeat | fee paid once, cap across restarts, an alert the rate limit holds back |
| Stop policy, shutdown flag (`stop_offers_policy.hpp`, `shutdown_flag.hpp`) | flag file, keep latch, drain | decide at boot and at checkpoints | flag replaced while it is read; create in flight |
| Wallet circuit, sync watch, height source | failure counts, budgets, the owed start | trip, probe, restart, fall back | recovery that needs what the outage stops |
| Peg suspension (`peg_suspension.hpp`) | runs and latches per wrapper | `observe_peg`, cancel, withdraw, re-enable | judged by its own declaration; a click kept for later |
| Coins (`coin_lock_ledger.hpp`, `coin_manager.cpp`) | free coins, locked sum | `try_lock`, consolidation | cap and floor at coin granularity |
| Risk, strategy, market data, accounting, monitoring, database, configuration | numbers, rows | pricing, limits, PnL | mostly arithmetic; latches and exactly-once ingestion are candidates |
| Warp bridge job (`gui/services/warp`) | a row per job: state, the recorded send, the books of replaced ones | ticks, Retry, Sweep, Abandon | a send without an answer or a name, wallet records that vanish, reorganisations, closing for good |
| GUI, Permuto, scripts | Python processes | flag files, their own job stores | separate programs |

How they meet.  A stop (`shutdown`: a signal, or the GUI's flag file) claims the book,
waits for an operator's Cancel All to end, orders every offer of `State` dead in the intent
file, builds a `CancelLadder` over them and steps it.  Attempt 1 is `cancel_all`, the
wallet-wide sweep; a retry is `cancel_ids`, offer by offer, preceded by a
`recheck_terminal` of each id when a sweep got no answer.  What is left over goes to
`watchdog_cancel_book`, which sweeps once more with a client of its own and alerts.  At the
end the intent's tags say how far each id got, and the next process's heartbeat sweep asks
the wallet about every one of them until it is over.

While the engine runs, each heartbeat goes through its steps in order: the peg watch may
suspend pairs and cancel their offers, Step 2 finds out what was filled, the escalation
looks at cancels that are stuck, Step 8 checks the wallet and every gate, cancels what is
stale and posts tier by tier.  The watchdog thread measures the time since the last beat
and cancels the book over the wallet's own endpoint, sharing with the rest two atomics and
a mutex.  The poll loop drives the heartbeats from a height it gets of the node or of the
wallet, and brings back a wallet a restart left down.

What makes it correct: no id is lost between the buckets; a stop that says nothing has
cleared the wallet; the operator is told the ids that are not; an order outlives the
process that gave it; nothing is posted over a cancel that is meant to leave nothing; a
dead engine's book is cancelled or its operator told; no fee is paid twice for one thing;
an offer is booked once, and only when it was taken; an unwrap burns once, and a bridge job
closes over no money; a broken peg stays latched until a
person has looked; every outage ends in an engine that manages its offers; all of it ends.

`PROJECT.json` lists the hazards of this code at their lines, and what covers each.

## Modules

| Module | Models | Reads as |
|---|---|---|
| `CancelLadder` | `cancel_retry.hpp`, the loop of `shutdown` that steps it | the ladder with its surroundings left open: any outcome of an attempt, any re-check, any passing of time |
| `ChiaWallet` | the wallet (external), as the calls and comments in `src/` rely on it | a queue of requests behind one lock, trade records, coins on chain, one reply |
| `ShutdownCancel` | the cancel branch of `shutdown`, `cancel_all`, `cancel_ids`, `emergency_cancel`, `recheck_terminal`, `watchdog_cancel_book` | extends the two above and closes the system; every RPC is a send and an answer |
| `CancelOrders` | nothing: the abstract specification of the intent file | an order stands until the offer is over |
| `CancelIntent` | `write_`, `load_`, `sweep_cancel_intent`; the orders and answers of a stop and of Cancel All | the disk, the process and the wallet, with crashes |
| `OfferFill` | `detect_fills`, `prove_fill_on_chain`, `handle_unproven_fill`, `recheck_terminal`, `reconcile_offers`, Step 2 of the heartbeat, the restore at boot | one offer, the chain, a node that lags, the wallet's records, the rows |
| `DeadMansSwitch` | `watchdog_loop`, `Watchdog::tick`, `watchdog_cancel_book`, `run`; Step 8 and `post_quotes` tier by tier; Cancel All; the latches of a stop, its keep branch and its drain | three threads of control (heartbeat, watchdog, stop) and the operator, over one book |
| `CancelEscalation` | `escalate_stuck_cancels`, `cancel_escalation.hpp`, the alert queue and `AlertManager`'s cooldown, `recancel_secure` | one sweep per heartbeat over stranded cancels, with restarts |
| `WalletRecovery` | `wallet_circuit.hpp`, `wallet_sync_watch.hpp`, `height_source.hpp`, the poll loop, the sync gate of Step 8 | an outage of wallet or node, and what brings the engine back |
| `PegSuspension` | `peg_suspension.hpp`, the peg watch, the steps it gates, the re-enable file and the GUI's append, the reload | wrappers, pairs and a feed that comes and goes |
| `WarpSend` | the Chia sends of `warp/service.py` (`_h_funding_claim`, `_h_claim_funded`, `_h_claiming`, `_h_burn_sent` and what they call), `chia_send.py`, `job_action` | one job, its books, the wallet's coins, up to two sends and their outputs, a chain that reorganises |
| `…Props` | | the properties of a module, each with what it means for the code |
| `…_proofs` | | the theorems of a module; those of `CancelLadder` are in `ShutdownCancel_proofs` |
| `MC…` | | instances for TLC |

Variables carry the code's names where there is one (`outstanding`, `held_back`,
`authorised_attempt`, `cancel_all_inflight`, `graceful_cancel_active`, …).  Correspondence
that is not one to one:

- Vectors of ids are sets; the order in which ids are gone through is left open, which
  allows every order the code can produce.
- In `ShutdownCancel` an attempt is a little machine: `call` says which wait the coroutine
  is in (`sweep`, `reread`, `ids`, `id`, `emergency`, …), `todo` the offers it has not come
  to, `got` the bucket of each, and `EndAttempt` folds `got` into the ladder's `Record`.
  What the code copies before a call (`all_offers`, the snapshot of pending cancels) is
  copied there too.
- Time is the ladder's `clock`, up to `Budget`: the code only compares elapsed time with
  deadlines.  In `CancelLadder` any time may pass at every wait; in `ShutdownCancel` an
  answered call takes none and one that is not takes `RequestTimeout`.
- `trade_status` values are the five that decide anything; FAILED behaves as CANCELLED,
  PENDING_ACCEPT and PENDING_CONFIRM as open.
- `IdAccepted`, `EmergencySend` and `EmergencyFailed` are `cancel_offer_charged` and the
  ladder of `emergency_cancel`: payable fee, no fee, local record only.  The halving of the
  fee is one call: a refusal for want of funds has no effect.
- `ProvenOver` stands for the proofs a stop and the interrupted heartbeat ask of the chain:
  spent coins may be shown spent for good, or the spend is too shallow or the lookup fails
  and the offer stays flagged and outstanding.
- `CancelIntent` keeps of a stop and of Cancel All what meets the file and the sweep.
  `StopRecords` and `CancelAllEnds` may report as cancelling any offer State flags;
  `CancelAllThrows` is the exception exit, which clears the in-flight flag and tags nothing.  The
  database and the wallet's answer that rebuild State at boot are left open in `Boot`.
- In `OfferFill` the call of `detect_fills` and the step around it are one little machine,
  `call`, whose `pc` is `poll`, `prove` or `write`; between asking (`Ask`) and using the
  answer (`Book`, `CloseDead`, `Defer`, `Wait`, …) anything may happen.  `Writes` is the
  order in which `step_process_fills` makes a fill durable.  A maker coin set is `take`n,
  spent `together` by something else, or `apart`; which coins those are is left out.  The
  two lookups of one proof are one question, and `chain` is what the wallet can see, `node`
  what the full node has seen.  The counter that gives up a failing write is a choice.
- `DeadMansSwitch` keeps ages (since the beat, since the claim) up to `Stall`, since the
  code only asks whether they reached it.  A call is a request that the wallet may take or
  not before its caller hears; the ladder of a stop is one such call, whose detail is
  `ShutdownCancel`.
- `CancelEscalation` counts heartbeats for blocks, and keeps ages for heights and times;
  an age stops at the threshold it is compared with.
- `WalletRecovery` counts failures and waits up to the thresholds that end them.  What a
  heartbeat does beyond asking the wallet and the node is left out.
- In `PegSuspension` a price is at par or off it, whichever side, and a source has one or
  has none; the thresholds of the code decide which, per observation.
- In `WarpSend` a tick and an operator's action are one step each, since one thread runs
  both; only the send RPC is several (`Reserves`, `WalletSends`, then an answer, a refusal,
  none, or a crash).  What a pass may meet of wallet records and mempools is chosen per pass
  (`Passes`), with at most one probe that does not answer.  A record that is found always
  shows its coins.  The clock of an absence is the choice `grace`.
- `released` ids, `no_sooner`, `book`, `unasked`, and the observers the headers of the
  modules name, are read by no action.

Mutants (operators that begin with the comment `Mutant:`) stand beside the definition they
would replace.  They are plausible bugs of that code, and each makes the property it is
named for fail.

## Runs

| Run | Configuration | Checks | States | Shows |
|---|---|---|---|---|
| `cancel_ladder` | `MCCancelLadder.cfg` | `NoIdLost`, `WaitIsServed` | 0.23 M | the ladder against everything |
| `shutdown_cancel` | `MCShutdownCancel.cfg` | `SilentStopSwept`, `OrderSurvives`, `SeededSweepGetsItsWait`, `SweepIsRechecked`, `LadderRuns`, `StopEnds` | 0.50 M | one tracked offer, one recovered untracked one, a wallet short of XCH |
| `shutdown_two` | `MCShutdownTwo.cfg` | `LiveAreNamed` | 3.3 M | a stop by signal inside a heartbeat, an offer and a create in flight |
| `cancel_intent` | `MCCancelIntent.cfg` | `OrdersStand`, `NeverDowngraded`, `OrderedDies`, `QuietOnlyIfAccepted` | 18 k | the file implements `CancelOrders` over four restarts, what it orders dies, and a full disk makes no tag quieter |
| `offer_fill` | `MCOfferFill.cfg` | `NeverBookedTwice`, `ClosedOnlyIfDead`, `BookedOnlyTakes`, `NothingForgotten`, `HoldKeepsConfirmed` | 1.6 M | one offer's end, whatever the wallet says of it |
| `dead_mans_switch` | `MCDeadMansSwitch.cfg` | `SwitchCoversBook`, `FireReachesBook`, `KeepForgetsNothing`, `DeadEngineIsSwept` | 2.7 M | the switch against the heartbeat, a stop and the exit of `run` |
| `cancel_all` | `MCCancelAll.cfg` | `NothingPostedOverCancelAll`, `StopEnds` | 0.27 M | Cancel All beside a heartbeat and a stop that waits for it |
| `died_stop` | `MCDiedStop.cfg` | `StopCancelsBook`, violated | | see Findings |
| `escalation` | `MCCancelEscalation.cfg` | `CapSurvivesRestart`, `FeeRises`, `NoFeeUnderAnotherCancel`, `StuckIsTold` | 0.10 M | a stranded cancel over a restart |
| `wallet_recovery` | `MCWalletRecovery.cfg` | `RestartsBackOff`, `StoppedComesBack`, `EngineManages` | 0.39 M | outages of wallet and node |
| `warp_send` | `MCWarpSend.cfg` | `OneBurn`, `DeadIsDead`, `EverySendOnTheBooks`, `ClosedWithNothingLeft` | 0.58 M | the sends of a bridge job against wallet, chain and crash |
| `peg_suspension` | `MCPegSuspension.cfg` | `ObservationIsHonest`, `NothingPostedOnSuspended`, `OnlyAClickClears`, `FlatInTheEnd`, `DepegIsLatched` | 0.17 M | depegs, gaps, outages, failed cancels and clicks |

The type invariants (`TypeOK`, `IntentTypeOK`, `PegTypeOK`, `SwitchTypeOK`, `FillTypeOK`),
`NoSilentStop`, `SeenSweepSendsNothing`, `LiveIsNotResolved`, `AttemptsBounded`,
`GraceIsGiven` and `ClosesOnlyDead` have no run: they are proved.

Bounds.  The ladder's schedule keeps the proportions of the defaults (delays that double up
to a maximum below the unanswered wait, two ceilings, a budget that runs out before, at and
after the attempts do): `Budget` 8 or 9, `SweepWait` 3 or 4, three attempts.  Two ids are
enough to tell apart "this one succeeded and that one failed", which is what every bucket
and every evidence rule is about; one id with an untracked second offer is enough where the
whole wallet is compared with the book.  A stop is one-shot, so `ShutdownCancel` needs no
other bound; the wallet's queue is at most the operator's sweep and the calls of one
stop.  `CancelIntent` is bounded by `MaxCrashes` alone, the crashes and stops together: two
let one process order, a second recover, order again and die, and a third sweep.
`OfferFill` is about one offer at a time: siblings reach it through the statuses their
cancels write (`CancelledElsewhere`) and through a lookup that failed earlier in the call
(`SkipPoll`, an answer `failed`).  Depth 1 and four blocks let a spend be seen at depth 0,
mature, be asked about by a height that lags, and an inconclusive window open and close;
one reorganisation and one crash may fall between any two steps.
`DeadMansSwitch`: the gates do not look at which tier a create is, so one tier and one
offer that rested before tell every case apart (the theorems are for any number); `Stall` 1
separates a fresh beat from a stall, `Stall` 0 lets the switch fire at any moment.
`CancelEscalation`: a window of two heartbeats, a cap of two bids and three fee levels let
a bid be repeated, capped, and refused for want of a higher fee; one crash separates what
is on record from what is in memory.  `WalletRecovery`: budgets 1, 2 and 4 double twice and
meet their maximum, and every kind of bad luck (a wallet that slips out of sync again, a
start that times out, restarts refused) may come once or twice.  `PegSuspension`: a pair
with XCH and a pair of two wrappers whose guard is off are the two ways a pair can depend
on a peg; `Sustained` 2 is the least a run can be cut short at.
`WarpSend`: two sends are what a replacement needs, two coins let the second spend the
first one's coin or another, and a cat_spend may take both; a deadline of one poll brings
the job to FAILED, where Retry and Sweep are, after any tick.
`CHECK_DEADLOCK FALSE` stands where the system stops: a ladder that ended, a stop that is
over, a chain at its last modelled block, a process with no clicks left to come, a job that
is closed.

Two constants of `OfferFill` say what a reorganisation shallower than the confirmation
depth may do.  `UndoneTakes` lets it undo a spend the proof has already shown.
`ShallowFailed` lets a FAILED be observed in a block the heartbeat's number does not reach
yet, or at boot before it is deep, and lets a cancel's status meet an offer that was found
FAILED and revived; `recheck_terminal` then believes it.  Both are FALSE in `offer_fill`,
which still revives FAILED offers, undoes spends nobody has asked about and replaces one
spend by another.  `NothingForgotten`, `NeverBookedTwice` and `HoldKeepsConfirmed` need
neither, nor the one reorganisation, as their proofs show; `BookedOnlyTakes` needs the
first, and `ClosedOnlyIfDead` both and the one reorganisation.
`Late` and `MidCycle` say whether a create is in flight when a stop arrives and whether it
arrives inside a heartbeat; `shutdown_two` has both.  From `FullFrom` restarts on, a write
of the intent file may be cut short: the file's promises about lines end there, the one
about tags does not.

Fairness.  `FairStop`: the engine's coroutine is resumed, its timers fire, and a call that
got no answer ends with the client's timeout (`NoAnswer`); nothing is asked of the wallet, of
takers or of the chain.
`FairIntent` needs more, because an order can only be carried out by a wallet that answers
some day: weak fairness of the loop, of returning calls and of a supervisor that starts the
program again, strong fairness of "a probe gets a verdict", "a re-cancel arrives" and "the
wallet accepts one" - each is tried in every heartbeat and may fail any finite number of
times in between - and of the two other cancels ending, a Cancel All in order or by an
exception, which `StopEnds` justifies for the stop.  `DeadMansSwitch`: clocks run, calls return, the watchdog's thread, the stop's
coroutine and `run` go on; nothing is asked of the heartbeat, which may hang at any of its
steps, since that is what the switch is for.  `CancelEscalation`: the poll loop ticks, a
Cancel All ends, a sweep that has begun goes on; strongly, a heartbeat comes to its sweep,
and a question and an answer get through now and then.  `WalletRecovery`: time passes, a
wallet that was started comes up, the loop polls or beats; strongly, Step 8 gets to ask and
the chain gets a block.  `PegSuspension`: the steps of a loop go on; strongly, heartbeats
come round, Step 1 gets through, and for each pair a cancel is submitted now and then.
Where fairness is strong, the step is tried again in every round and may fail any finite
number of times between two successes.

## What is proved

For every value of the constants, under the assumptions named in the modules
(`ConfigAssumption` and `RecoveryAssumption` say that budgets and delays are positive, the
others that counts and ages are numbers and sets are what they are of).

`ShutdownCancel_proofs`, first part, the ladder: both properties of the `cancel_ladder` run,
with `TypeOK`, `NoSilentStop`, `SeenSweepSendsNothing`, `LiveIsNotResolved` and
`AttemptsBounded`. The inductive invariant `LadderInv` adds to them what they rest on: where
in the loop the ladder is and what the flags say there (a sleep is authorised for exactly
the next attempt, the flags of the last attempt imply the sticky ones, `held_back` is
non-empty only between a re-check and its attempt, a planned delay reaches the moment the
unanswered sweep's wait is over). The proof has one step per action and cites one lemma per
arithmetic fact. The doubling delay is proved from its loop (`BackoffDoubles`,
`BackoffType`), for any two delays, by induction on its passes.

`ShutdownCancel_proofs`, second part: the detailed stop implements the ladder
(`StopImplementsLadder`, the run's `LadderRuns`): every initial state is one of the ladder's
and every step is a step of the ladder or leaves it alone. `LadderInv` is thereby inherited,
and the ladder's promises hold of the stop (`StopKeepsLadder`). What the refinement rests on
is `StopInv`: which calls belong to which phase (`PhaseAndStep`), that an offer in hand is
in no bucket yet (`BucketsOpen`), that a re-check divides what it was given
(`RecheckPartitions`), that only a retry goes by id (`RetryIsGiven`) and that after an
unanswered sweep it goes to offers that were asked about (`AskedFirst`, which is
`SweepIsRechecked`). `OrdersSurvive` is proved from an invariant of its own about the file.

The rest of the stop's properties need to know that what the engine believes is true of the
wallet, which `LiveInv` says: while a sweep may still run the stop waits for it or asks
about it (`SweepCovers`, `WaitsForLast`), what was accepted has been done
(`AcceptedIsDone`), the buckets and the file's entries are what the wallet did
(`BucketsTrue`, `EntriesTrue`, `SweptTrue`), every offer of the book is in some bucket
(`Accounted`), one that rests is still in hand (`RestingIsHeld`), and an end without an
alert has swept (`EndsSwept`, `AlertTells`).  It holds without a hypothesis
(`StopBelievesRight`), and so does `LiveAreNamed` (`StopNamesLive`).  `SilentStopSwept`
needs that no create is in flight when the stop comes (`Late = {}`), which is the limit
named under Findings.  `SeededSweepGetsItsWait` needs that the longest wait a seed may owe
fits the budget, which the `static_assert` at `cancel_retry.hpp:330` guarantees; without it
the clock of the model would stand still before the wait is over.

`OfferFill_proofs`: the safety properties of `offer_fill`, for any number of blocks,
restarts, depth and lag, and for any number of reorganisations unless said otherwise.
`IInv` says where the call in progress is (`CallShape`), what a stopped process has
forgotten (`DownIsEmpty`), that the chain is one (`ChainOK`), how the row, the buffer, the
call and the books exclude each other (`Books`: the row's status follows what was booked, an
offer that ended is not managed again, a fill is found and counted once), that an open row
is in somebody's hands (`Kept`), that a hold is of a CONFIRMED the wallet gave (`HoldsOK`)
and that a FAILED found stands in a window of the height (`DeadOK`).  From it follow
`NothingForgotten`, `NeverBookedTwice` and `HoldKeepsConfirmed` with no hypothesis.
`BookedOnlyTakes` assumes that no reorganisation undoes a spend that was shown
(`~UndoneTakes`).  `FillsCloseOnlyDead` adds `~ShallowFailed` and says of the step that
closes a row that the chain has the offer's coins spent otherwise; that the offer also stays
dead (`ClosedOnlyIfDead`) needs `MaxReorgs <= 1`, for a reason under Findings.

`CancelIntent_proofs`: `IntentInv` ties the three copies of a tag (memory, last written,
file) and the sets an answer or a sweep holds to what the wallet has done: whoever is called
submitted, accepted or flagged has had a cancel arrive or is over, and `resolved` is over.
It gives `IntentTypeOK` and `QuietOnlyIfAccepted` with no assumption on the disk.  Until
the disk may fill up (`full`), a memory and a file that agree after every write give that
the file implements `CancelOrders` (`OrdersAreKept`: initial states map to initial states,
every step to `Order`, `Close` or a stutter) and that an accepted cancel keeps its tag
(`TagsAreKept`).  From then on the refinement maps every offer to one that is over, so that
nothing is promised of its lines: a shortened file has lost them.

`DeadMansSwitch_proofs`: all properties of `dead_mans_switch`, `GraceIsGiven` and
`NothingPostedOverCancelAll`, for any stall, book, number of tiers and of clicks.
`SwitchInv` says whom a call in flight is for (`CallsMatch`), that a tier is posted once
(`TiersAreFresh`), what a claim and a latched stop imply for the heartbeat (`StopIsLatched`,
`ClaimCoversBeat`), that a fire is spent only on a call (`FireIsSpent`), what a sweep the
wallet took leaves resting (`SweepCovers`, `RestingAreKnown`), that a Cancel All's gates are
up while anything it flagged is left (`CancelAllGates`), and that an engine which left
`run` has swept or told (`ExitIsTold`).

`CancelEscalation_proofs`: the three safety properties of `escalation`.  The durable record
is never behind what was paid, a track is what that record said when it was read or was
written since, and a bid is out only under the cap and with no other cancel under way.

`PegSuspension_proofs`: the three safety properties of `peg_suspension` that need no
fairness.  A run that did not reach the sustained count latched nothing (`CountedShort`), a
line in the file was written about a suspension that stands (`FlagIsAsked`), a reference
that survives Step 1 was built from no suspended wrapper (`FreshReferences`), and a quote
exists only for a pair Step 4 let through (`QuotedAreAllowed`).

`WarpSend_proofs`: all properties of `warp_send`. For `OneBurn`, `WarpInv` says of the chain
that a send's coins are spent and buried together (`ChainOK`), and of a burn that all of its
sends but one at most (`Stray`) are ruled out twice: by the chain, which has a coin of
theirs spent elsewhere for good, and by the books, which list their id or their coins. The
chain's half is what makes the one that is left the only one that can land; the books' half
is needed because the history scan takes whatever is not on the books for the send on
record, and retiring the wrong one would free the job to burn again. When a call is made, or
one given up on may still run, none is left (`CallsOK`). Numbers given to unnamed sends are
fresh (`FreshNumbers`), so that no entry overwrites another.

The books of either kind of job are `LedgerInv`.  Counting them is not inductive: when an
entry takes the id of a send, the send that was counted on that entry has to be found
another.  So the invariant is a matching (`Behind`): an injection from the sends the books
do not name, and the calls given up on that may still run, into the entries without an id,
where an entry that knows its coins is matched with a send of those coins.  An entry that
takes an id hands its send over to the entry the named send leaves (`BehindNamed`), a
retirement carries it to the new name (`RetiredInOrder`), a reservation adds an entry nobody
is matched with (`RpcOK`), which an answer, a refusal, a late call or a crash leaves or
uses.  With it go the shape of a row (`RowOK`), what the dead list means (`DeadOK`), a
number for every send (`Room`) and the order in which outputs are buried (`OutsOK`).  A
pass over the attempts is followed one by one: `PassOK` is what holds with some of them
still ahead, `JudgesKeeps` is one step, and `PassKeeps` the whole, by the least index at
which it would fail.  `DeadStaysDead`, `SendsAreOnTheBooks` and `ClosesWithNothingLeft`
follow for every number of sends, coins and polls, on the condition `Separate`: two fundings
that share a coin spend the same coins.  Without it the first is false, for the reason under
Findings (Bridge).  It says nothing of a burn, and holds by itself where the wallet funds a
claim with one coin, so that there all three hold unconditionally (`OneCoinPromises`).

`WalletRecovery_proofs`: `RestartsBackOff`, for any budgets, thresholds and outages
(`BacksOff`). `RecoveryInv` says that the watch, with the start still owed settled, has
counted exactly the restarts that began (`EachIsCounted`), which is what taking a failed
restart's doubling back and giving it back once must keep between them, and that no streak
is older than the latest restart that stopped the wallet (`StreakIsFresh`). The rest is
about the budget: its loop doubles (`BudgetDoubles`), and a larger base never gets a smaller
budget (`BudgetGrowsWithBase`). `CountsSuffice` shows that the model's counters of restarts
and of failed starts may stop where they do, at `Doublings` and `Retries`, for no budget
changes from there on.

Only model-checked. Liveness (`StopEnds`, `OrderedDies`, `StuckIsTold`, `StoppedComesBack`,
`EngineManages`, `FlatInTheEnd`, `DepegIsLatched`), since fairness and ENABLED are out of
the proof system's reach. Every other property of every passing run is a theorem, under the
hypotheses given here. RECURSIVE operators are out of reach as well, and the proved modules
use none: the loops that double a delay are recursive functions, and what they compute is
proved by induction on a set of numbers (`Induction`, `Least`), which needs no operator as a
parameter.

## Findings

`died_stop` (`engine.cpp:1671`): a stop that another thread asks for while `run` joins the
watchdog of an engine that died latches `stop_requested_`, so `run` sends nothing, and the
stop's own continuation is spawned on an event loop nobody runs any more.  The book rests
and nobody is told.  `PROJECT.json` quotes it against the code's own comments.

Limits of the code the models reach or their headers name.  No run is about them, and the
passing runs hold beside them or exclude what they need by a constant, as said above.

- Cancels: a single cancel without an answer is filed as failed and sent again without a
  re-check (`offer_manager.cpp:3157`); a create in flight when a cancelling stop arrives by
  signal is swept by nobody (`engine.cpp:2413`); the intent file can be replaced by a
  shortened one on a full disk (`engine.cpp:25894`); the intent sweep looks at the gates
  once and cancels beside a stop that came later (`engine.cpp:26074`).
- Fills: a buffered fill is not looked at again before it is recorded, though the buffer's
  comment says a rolled-back one is evicted (`engine.cpp:6331`).  A trade that FAILED,
  was buffered and revived, and FAILED again by a newer spend before it is adopted, is closed
  by the window of the first observation; a second reorganisation then revives it.
- Switch: a fire latched just before a stop stamps its claim sends a second bulk cancel
  into the stop's grace; the retirement of an offer whose expiry the wallet did not echo
  can cancel during a keep's drain; the draining gate of Cancel All falls at once when all
  of its cancels failed.
- Escalation: a bid whose answer is lost is repeated at the same fee (`engine.cpp:27054`,
  against `cancel_escalation.hpp:171`), and, accepted after all, is not counted in the same
  process; the retry at no fee does not read the gates again; a probe or a record that
  fails for ever never alerts; restarts more frequent than the window put it off for ever.
- Recovery: a restart of the wallet ignores `stop_requested_` (`engine.cpp:13705`); the
  breaker's probe keeps it open on any exception; a wallet that dies by itself is not
  started; a height pinned to a dead node is never managed; an idle wallet is heard of too
  rarely for the breaker to notice.
- Peg: the latch is in memory, so a restart loses it, though `engine.hpp:1063` calls it
  sticky; a line appended to the re-enable file between its read and its removal is lost,
  though `engine_bridge.py` says two clicks both land; a removal that fails is ignored; an
  exception in Step 1 skips the observation, the withdrawal and the cancels; with only one
  leg priced outside, the mid of a wrapper's cross reads at par, and a healthy asset can be
  judged through a depegged anchor; an offer on a pair the configuration no longer has is
  not cancelled by the scan.
- Bridge: a funding without an id whose coins are known takes for its own any earlier
  nameless send that shares one of them, though `service.py:3507` wants "THIS attempt's
  record", and keeps the coins it knew; a spend of the other coin then lists the send as
  proven dead though it can still land (the run's fundings spend one coin, where sharing
  one is being the same).  A first burn whose call got no answer takes any coin of its amount at the burn key
  for its own (`service.py:4429`); a sweep of a job that never replaced its send closes it
  on a spend of any depth; a job that failed in CLAIM_FUNDED and whose funding was undone
  and lost is told that Retry sends it again, which Retry does from FUNDING_CLAIM only.

## Not modelled

The database stamps of a stop, the flag file of Cancel All and its removal, the boot's
adoption of offers found PENDING_CANCEL, the choice of what is stale, sizing and coin
selection, the poll throttle, and everything numeric.  The cancel modules keep no database
rows and no reorganisations: a dead or taken coin stays so there.  `OfferFill` has both,
and leaves out `local_cancel_live_` and `expiry_retired_`, poll cadence, orphans, records
that give the proof nothing to ask, positions and prices.  `WarpSend` leaves out the Base
side of a job, the signatures it collects, a third party's claim, BURNING's toll, top-up
trims, a stray coin at the job's own key, the sweep of a closed job and what an older
version merged into one record.  The strategies, market data and most of risk and
accounting are floating-point code over RPC results, with no protocol of their own that TLC
could explore.  `PROJECT.json` gives the reason for each part.

## Plan

What is left, most important first; each becomes a module with its properties and, where it
pays, its proof.

1. Compositions: the restarts of `WalletRecovery` with a stop's sweep; the stamps of the
   intent sweep with the rows of `OfferFill`.
2. `StopFlag`: the verdict on `shutdown.flag` at boot and at a checkpoint, and a flag
   replaced between read and removal (`engine.cpp:27220`).
3. `CoinLockLedger`: cap and floor for every coin set, with a proof.
4. The take path: the class of a failed take, its retry, its reconciliation.
5. The latches of the drawdown breaker; exactly-once ingestion in accounting; live reload.
