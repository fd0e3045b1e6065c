------------------------------ MODULE OfferFill ------------------------------
(***************************************************************************)
(* How an offer ends.  The wallet's status for a trade is bookkeeping: it  *)
(* calls CONFIRMED what another spend killed, and a cancel of a sibling    *)
(* writes its own status over a take.  OfferManager::detect_fills asks the *)
(* chain, through the full node when it is trusted and the wallet when it  *)
(* is not; Engine::step_process_fills lets what it found age to the        *)
(* confirmation depth before it writes it down.                            *)
(*                                                                         *)
(* A coroutine may run between a question and its answer's use, so asking  *)
(* (Ask) and using (Book .. Stand) are steps of their own.                 *)
(*                                                                         *)
(* Left out: local_cancel_live_ and expiry_retired_, which say who is      *)
(* cancelled again and how it is reported; positions and prices; coins of  *)
(* an offer nobody has a row for; records that give the proof nothing to   *)
(* ask (NothingToAsk); and the hold that cancel_all releases on a status   *)
(* the wallet never goes back to from CONFIRMED.  The two lookups of one   *)
(* proof are one question.                                                 *)
(***************************************************************************)
EXTENDS Integers, Sequences, FiniteSets

CONSTANTS
  Offers,
  ConfirmationDepth,   \* confirmation_depth_blocks
  MaxTerminalRechecks, \* kMaxTerminalRechecks
  UndoneTakes,    \* a reorganisation may undo a take the proof has shown
  ShallowFailed,  \* what a FAILED that a reorganisation can still undo may meet:
                  \* see revived_is_cancellable, in_number and Boot
  MaxTip, MaxReorgs, MaxCrashes \* bounds

ASSUME FillAssumption ==
  /\ ConfirmationDepth \in Nat \ {0} /\ MaxTerminalRechecks \in Nat \ {0}
  /\ UndoneTakes \in BOOLEAN /\ ShallowFailed \in BOOLEAN
  /\ MaxTip \in Nat /\ MaxReorgs \in Nat /\ MaxCrashes \in Nat

VARIABLES
  \* ----- the world -----
  chain, node,        \* the chain, and the part of it the full node has seen
  status, confirmed_at_index, \* the wallet's trade records
  reorgs, crashes,
  \* ----- State -----
  offers, cancel_pending,
  \* ----- OfferManager -----
  fill_proof_deferrals, cancel_status_proven, cancel_status_inconclusive,
  proven_dead,
  call,               \* the detect_fills call and the Step 2 around it
  \* ----- Engine -----
  up, pending_unconfirmed_fills, pending_unconfirmed_terminals,
  pending_dead_writes, abandoned, \* rows to write again, and given up
  \* ----- the database -----
  row, trade_log, inventory

world   == <<chain, node, status, confirmed_at_index, reorgs, crashes>>
state   == <<offers, cancel_pending>>
manager == <<fill_proof_deferrals, cancel_status_proven, cancel_status_inconclusive,
             proven_dead>>
engine  == <<up, pending_unconfirmed_fills, pending_unconfirmed_terminals,
             pending_dead_writes, abandoned>>
db      == <<row, trade_log, inventory>>
vars    == <<world, state, manager, call, engine, db>>

Statuses == {"accept", "pending_cancel", "confirmed", "cancelled", "failed"}
written_by_a_cancel(st) == st \in {"pending_cancel", "cancelled"}

Heights  == 0 .. MaxTip
Unspent  == [by |-> "none", at |-> 0]
\* What became of an offer's maker coins: taken; all spent in one block by
\* something else; or not spent together.
Spends   == [by : {"take", "together", "apart"}, at : 1 .. MaxTip] \cup {Unspent}
is_dead(spend) == spend.by \in {"together", "apart"}
at_depth(height, block) == height > 0 /\ block - height >= ConfirmationDepth

NoAnswer == [verdict |-> "unknown", height |-> 0, lookup |-> "failed"]
Refused  == [NoAnswer EXCEPT !.lookup = "refused"]
Silence  == [NoAnswer EXCEPT !.lookup = "answered"]
NotAsked == [held |-> FALSE, answer |-> NoAnswer]
NotRead  == [status |-> "unread", claimed |-> 0]
Idle == [pc |-> "idle", block |-> 0, from_node |-> FALSE, todo |-> {},
         recs |-> [o \in Offers |-> NotRead], failed |-> FALSE, asking |-> {},
         asked |-> NotAsked, fills |-> <<>>, written |-> 0,
         terminals |-> {}, dead |-> {}]

NoWindow == [status |-> "none", block |-> 0]
NotBuffered == [block |-> 0, failures |-> 0]
Nobody(x) == [o \in Offers |-> x]
keep(map, S, x) == [o \in Offers |-> IF o \in S THEN map[o] ELSE x]
open_rows == {o \in Offers : row[o] \in {"pending", "cancel_pending"}}

Init ==
  /\ chain = [tip |-> 1, spend |-> Nobody(Unspent)] /\ node = chain
  /\ status = Nobody("accept") /\ confirmed_at_index = Nobody(0)
  /\ reorgs = 0 /\ crashes = 0
  /\ offers = Offers /\ cancel_pending = {}
  /\ fill_proof_deferrals = Nobody("none")
  /\ cancel_status_proven = Nobody("none")
  /\ cancel_status_inconclusive = Nobody(NoWindow)
  /\ proven_dead = {} /\ call = Idle
  /\ up = TRUE /\ pending_unconfirmed_fills = <<>>
  /\ pending_unconfirmed_terminals = Nobody(NotBuffered)
  /\ pending_dead_writes = {} /\ abandoned = {}
  /\ row = Nobody("pending") /\ trade_log = {} /\ inventory = Nobody(0)

-----------------------------------------------------------------------------
\* The chain and the wallet.

Block ==
  /\ chain.tip < MaxTip /\ chain.tip = node.tip
  /\ \E spend \in [Offers -> Spends] :
       /\ \A o \in Offers : \/ spend[o] = chain.spend[o]
                            \/ chain.spend[o] = Unspent /\ spend[o].at = chain.tip + 1
       /\ chain' = [tip |-> chain.tip + 1, spend |-> spend]
  /\ UNCHANGED <<node, status, confirmed_at_index, reorgs, crashes,
                 state, manager, call, engine, db>>

NodeSyncs ==
  /\ node # chain /\ node' = chain
  /\ UNCHANGED <<chain, status, confirmed_at_index, reorgs, crashes,
                 state, manager, call, engine, db>>

silent(o) ==
  \/ o \in call.asking \cup call.terminals \/ cancel_status_inconclusive[o] # NoWindow
  \/ pending_unconfirmed_terminals[o] # NotBuffered \/ row[o] = "cancelled"

taken(o) ==
  \/ node.spend[o].by = "take"
  \/ o \in call.asking /\ call.asked.answer.verdict = "settled"
  \/ \E i \in 1 .. Len(call.fills) : call.fills[i].offer = o
  \/ \E i \in 1 .. Len(pending_unconfirmed_fills) :
       pending_unconfirmed_fills[i].offer = o
  \/ o \in trade_log

\* The chain's spend was the answer to somebody who does not look at how deep it
\* is: a take the node has, that is on its way, or whose Fill was emitted; coins
\* spent together to which the wallet has been silent.
shown(o) == IF chain.spend[o].by = "together" THEN silent(o) ELSE taken(o)

\* Blocks that are not yet at depth are replaced: what they spent may be
\* unspent, or spent otherwise.  The wallet rolls a FAILED trade back to the
\* book and leaves every other status alone.
Reorg ==
  /\ reorgs < MaxReorgs /\ reorgs' = reorgs + 1
  /\ \E spend \in [Offers -> Spends] :
       /\ spend # chain.spend
       /\ \A o \in Offers : spend[o] # chain.spend[o] =>
            /\ ~at_depth(chain.spend[o].at, chain.tip)
            /\ \/ spend[o] = Unspent
               \/ spend[o].at <= chain.tip /\ ~at_depth(spend[o].at, chain.tip)
            /\ UndoneTakes \/ ~shown(o)
       /\ chain' = [chain EXCEPT !.spend = spend]
       /\ status' = [o \in Offers |-> IF status[o] = "failed" /\ spend[o] # chain.spend[o]
                                      THEN "accept" ELSE status[o]]
  /\ UNCHANGED <<node, confirmed_at_index, crashes,
                 state, manager, call, engine, db>>

\* The wallet notices a spend.  It calls CONFIRMED what was taken, and in the
\* middle of a resync what was not; a trade under a cancel it calls CANCELLED,
\* and one that died otherwise FAILED.
WalletSees(o) ==
  LET spend == chain.spend[o] IN
  /\ spend # Unspent
  /\ \/ /\ status[o] = "accept" /\ status' = [status EXCEPT ![o] = "confirmed"]
        /\ confirmed_at_index' = [confirmed_at_index EXCEPT ![o] = spend.at]
     \/ /\ status[o] = "pending_cancel" /\ status' = [status EXCEPT ![o] = "cancelled"]
        /\ UNCHANGED confirmed_at_index
     \/ /\ status[o] = "accept" /\ spend.by = "apart"
        /\ status' = [status EXCEPT ![o] = "failed"] /\ UNCHANGED confirmed_at_index
  /\ UNCHANGED <<chain, node, reorgs, crashes, state, manager, call, engine, db>>

\* The offer was found FAILED and has been revived since: what a cancel writes now
\* is believed when the buffered FAILED matures.
revived_is_cancellable(o) ==
  \/ ShallowFailed
  \/ call.recs[o].status # "failed" /\ (up => o \in offers)

\* A cancel of an offer that shares a coin with this one, of the watchdog, or of
\* the wallet's own user: the status is written over, whatever it was.
CancelledElsewhere(o, st) ==
  /\ status[o] \in {"accept", "confirmed", "pending_cancel"} /\ written_by_a_cancel(st)
  /\ revived_is_cancellable(o)
  /\ status[o] # st /\ status' = [status EXCEPT ![o] = st]
  /\ UNCHANGED <<chain, node, confirmed_at_index, reorgs, crashes,
                 state, manager, call, engine, db>>

-----------------------------------------------------------------------------
\* The proof.

\* What the chain shows, through the one who is asked: the node sees whether a
\* settlement coin was created; the wallet sees only the payment of a take, so
\* to coins spent together without one it is silent.
shows(verdict, height) == [verdict |-> verdict, height |-> height, lookup |-> "answered"]

\* Mutant: coins that were all spent in one block were taken.
TakenTogether(height, from_node) == shows("settled", height)

spent_together(height, from_node) == IF from_node THEN shows("dead", height) ELSE Silence

says(spend, from_node) ==
  CASE spend.by = "none"     -> shows("live", 0)
    [] spend.by = "take"     -> shows("settled", spend.at)
    [] spend.by = "apart"    -> shows("dead", spend.at)
    [] spend.by = "together" -> spent_together(spend.at, from_node)

\* An answer may also settle nothing because the one who is asked is catching
\* up.  Under a cancel's status that lasts less than ConfirmationDepth blocks.
may_be_vague(o) ==
  LET w == cancel_status_inconclusive[o] IN
  w.status = call.recs[o].status => call.block - w.block < ConfirmationDepth

said(o) == says((IF call.from_node THEN node ELSE chain).spend[o], call.from_node)

\* After one lookup that failed, the rest of the call asks nothing.
prove_fill_on_chain(o) ==
  IF call.failed THEN {NoAnswer}
  ELSE {said(o), Refused, NoAnswer} \cup (IF may_be_vague(o) THEN {Silence} ELSE {})

\* Mutant: a dead offer is closed as soon as its spend is in a block.
ClosableAtOnce(answer) == answer.verdict = "dead" /\ answer.height > 0

dead_offer_closable(answer) ==
  answer.verdict = "dead" /\ at_depth(answer.height, call.block)

\* Mutant: one block less will do.
CancellableEarly(answer, claimed) ==
  /\ answer.verdict = "live" /\ call.from_node
  /\ claimed > 0 /\ call.block - claimed >= ConfirmationDepth - 1

live_offer_cancellable(answer, claimed) ==
  /\ answer.verdict = "live" /\ call.from_node
  /\ at_depth(claimed, call.block)

-----------------------------------------------------------------------------
\* OfferManager::detect_fills.

\* The call is numbered before its first await: a proof an earlier call made no
\* longer lets a cancel through.  What is kept of untracked offers is dropped.
Begin ==
  /\ up /\ call.pc = "idle"
  /\ \E from_node \in BOOLEAN :
       LET block == IF from_node THEN node.tip ELSE chain.tip IN
       /\ block >= call.block
       /\ call' = [Idle EXCEPT !.pc = IF offers = {} THEN "prove" ELSE "poll", !.block = block,
                               !.from_node = from_node, !.todo = offers]
  /\ fill_proof_deferrals' =
       [o \in Offers |-> IF o \in offers /\ fill_proof_deferrals[o] # "none"
                         THEN "withheld" ELSE "none"]
  /\ cancel_status_proven' = keep(cancel_status_proven, offers, "none")
  /\ cancel_status_inconclusive' = keep(cancel_status_inconclusive, offers, NoWindow)
  /\ UNCHANGED <<world, state, proven_dead, engine, db>>

\* The status is read and the hold entered in one step: held from the poll that
\* reads CONFIRMED, released by one that reads a status no cancel writes.
hold_after(hold, st) ==
  CASE st = "confirmed" -> IF hold = "none" THEN "withheld" ELSE hold
    [] st # "confirmed" /\ written_by_a_cancel(st) -> hold
    [] OTHER -> "none"

\* What was read of an offer; after the last poll the proofs begin.
polled(o, rec) ==
  LET recs == [call.recs EXCEPT ![o] = rec] IN
  IF call.todo # {o} THEN [call EXCEPT !.todo = @ \ {o}, !.recs = recs]
  ELSE [call EXCEPT !.pc = "prove", !.recs = recs,
                    !.todo = {p \in Offers : recs[p] # NotRead}]

\* The heartbeat's number is older than what it reads: a block came meanwhile,
\* or the node that gave the number lags behind the wallet.
in_number(o) ==
  status[o] = "failed" /\ chain.spend[o].at > call.block => ShallowFailed

Poll(o) ==
  /\ call.pc = "poll" /\ o \in call.todo /\ in_number(o)
  /\ call' = polled(o, [status |-> status[o], claimed |-> confirmed_at_index[o]])
  /\ fill_proof_deferrals' = [fill_proof_deferrals EXCEPT ![o] = hold_after(@, status[o])]
  /\ UNCHANGED <<world, state, cancel_status_proven, cancel_status_inconclusive,
                 proven_dead, engine, db>>

\* Not due this heartbeat, or the wallet did not answer.
SkipPoll(o) ==
  /\ call.pc = "poll" /\ o \in call.todo /\ call' = polled(o, NotRead)
  /\ UNCHANGED <<world, state, manager, engine, db>>

read(o) == call.recs[o].status
held(o) == fill_proof_deferrals[o] # "none"
turn(o) == call.pc = "prove" /\ call.asking = {} /\ o \in call.todo

\* An offer is proven the first time it shows each cancel status, and while held.
reprove(o) ==
  written_by_a_cancel(read(o)) /\ (held(o) \/ cancel_status_proven[o] # read(o))

flagged(o) == IF written_by_a_cancel(read(o)) THEN cancel_pending \cup ({o} \cap offers)
              ELSE cancel_pending

Ask(o) ==
  /\ turn(o) /\ (read(o) = "confirmed" \/ reprove(o))
  /\ \E reply \in prove_fill_on_chain(o) :
       call' = [call EXCEPT !.asking = {o}, !.asked = [held |-> held(o), answer |-> reply],
                            !.failed = @ \/ reply.lookup = "failed"]
  /\ cancel_pending' = flagged(o)
  /\ UNCHANGED <<chain, node, status, confirmed_at_index, reorgs, crashes, offers,
                 manager, engine, db>>

through(o)     == [call EXCEPT !.todo = @ \ {o}, !.asking = {}, !.asked = NotAsked,
                               !.recs[o] = NotRead]
remove_offer(o) == offers' = offers \ {o} /\ cancel_pending' = cancel_pending \ {o}

\* Nothing to prove: FAILED, and a CANCELLED proven before, end the offer.
PassBy(o) ==
  /\ turn(o) /\ read(o) # "confirmed" /\ ~reprove(o)
  /\ fill_proof_deferrals' = [fill_proof_deferrals EXCEPT ![o] = hold_after(@, read(o))]
  /\ IF read(o) \in {"cancelled", "failed"}
     THEN /\ remove_offer(o)
          /\ call' = [through(o) EXCEPT !.terminals = @ \cup {o}]
     ELSE /\ cancel_pending' = flagged(o) /\ call' = through(o)
          /\ UNCHANGED offers
  /\ UNCHANGED <<world, cancel_status_proven, cancel_status_inconclusive,
                 proven_dead, engine, db>>

\* ----- what the answer is used for -----

answered(o) == call.asking = {o}
answer      == call.asked.answer
under_cancel(o) == written_by_a_cancel(read(o))

\* A conclusive answer ends a run of inconclusive ones.
window_ended(o) ==
  IF under_cancel(o) /\ answer.verdict # "unknown"
  THEN [cancel_status_inconclusive EXCEPT ![o] = NoWindow] ELSE cancel_status_inconclusive

\* A take: a Fill at the height the chain proved.
fill_height(o) == answer.height

Book(o) ==
  /\ answered(o) /\ answer.verdict = "settled"
  /\ call' = [through(o) EXCEPT !.fills = Append(@, [offer |-> o, height |-> fill_height(o)])]
  /\ fill_proof_deferrals' = [fill_proof_deferrals EXCEPT ![o] = "none"]
  /\ cancel_status_inconclusive' = window_ended(o)
  /\ remove_offer(o)
  /\ UNCHANGED <<world, cancel_status_proven, proven_dead, engine, db>>

\* Dead at depth under CONFIRMED, or under a cancel that may never land.
CloseDead(o) ==
  /\ answered(o) /\ dead_offer_closable(answer)
  /\ read(o) \in {"confirmed", "pending_cancel"}
  /\ call' = [through(o) EXCEPT !.dead = @ \cup {o}]
  /\ fill_proof_deferrals' = [fill_proof_deferrals EXCEPT ![o] = "none"]
  /\ cancel_status_inconclusive' = window_ended(o)
  /\ proven_dead' = proven_dead \cup {o} /\ remove_offer(o)
  /\ UNCHANGED <<world, cancel_status_proven, engine, db>>

\* No take, and it can still be taken: the cancel's status stands for now, a
\* hold is released, and it is asked again at the next heartbeat.
StillTakeable(o) ==
  /\ answered(o) /\ under_cancel(o) /\ answer.verdict = "live"
  /\ call' = through(o) /\ cancel_pending' = flagged(o)
  /\ fill_proof_deferrals' = [fill_proof_deferrals EXCEPT ![o] = "none"]
  /\ cancel_status_inconclusive' = window_ended(o)
  /\ UNCHANGED <<world, offers, cancel_status_proven, proven_dead, engine, db>>

\* Not booked and still tracked: an unproven CONFIRMED, or a held offer under a
\* cancel's status to which the answer was nothing, or a death not yet at depth.
Defer(o) ==
  /\ answered(o) /\ ~dead_offer_closable(answer)
  /\ \/ read(o) = "confirmed" /\ answer.verdict # "settled"
     \/ under_cancel(o) /\ call.asked.held /\ answer.verdict \in {"unknown", "dead"}
  /\ call' = through(o)
  /\ fill_proof_deferrals' = [fill_proof_deferrals EXCEPT ![o] =
       IF live_offer_cancellable(answer, call.recs[o].claimed)
       THEN "cancellable" ELSE "withheld"]
  /\ cancel_status_inconclusive' = window_ended(o)
  /\ UNCHANGED <<world, state, cancel_status_proven, proven_dead, engine, db>>

not_held(o) == answered(o) /\ under_cancel(o) /\ ~call.asked.held

window(o) ==
  IF cancel_status_inconclusive[o].status = read(o) THEN cancel_status_inconclusive[o]
  ELSE [status |-> read(o), block |-> call.block]

window_over(o) == call.block - window(o).block >= ConfirmationDepth

\* Asked again at the next heartbeat: the lookup failed or was refused, the
\* death is not yet at depth, or the answer settled nothing and may still be
\* completed.
Wait(o) ==
  /\ not_held(o)
  /\ \/ answer.lookup # "answered" /\ UNCHANGED cancel_status_inconclusive
     \/ /\ answer.verdict = "dead" /\ ~dead_offer_closable(answer)
        /\ cancel_status_inconclusive' = window_ended(o)
     \/ /\ answer = Silence /\ ~window_over(o)
        /\ cancel_status_inconclusive' = [cancel_status_inconclusive EXCEPT ![o] = window(o)]
  /\ call' = through(o) /\ cancel_pending' = flagged(o)
  /\ UNCHANGED <<world, offers, fill_proof_deferrals, cancel_status_proven,
                 proven_dead, engine, db>>

\* The cancel's status stands: CANCELLED and dead at depth, or silence for the
\* whole window.
Stand(o) ==
  /\ answered(o) /\ under_cancel(o)
  /\ \/ /\ dead_offer_closable(answer) /\ read(o) = "cancelled"
        /\ fill_proof_deferrals' = [fill_proof_deferrals EXCEPT ![o] = "none"]
     \/ /\ not_held(o) /\ answer = Silence /\ window_over(o)
        /\ UNCHANGED fill_proof_deferrals
  /\ cancel_status_proven' = [cancel_status_proven EXCEPT ![o] = read(o)]
  /\ cancel_status_inconclusive' = [cancel_status_inconclusive EXCEPT ![o] = NoWindow]
  /\ IF read(o) = "cancelled"
     THEN remove_offer(o) /\ call' = [through(o) EXCEPT !.terminals = @ \cup {o}]
     ELSE UNCHANGED state /\ call' = through(o)
  /\ UNCHANGED <<world, proven_dead, engine, db>>

-----------------------------------------------------------------------------
\* Engine::step_process_fills: what the call found.

seen == pending_unconfirmed_fills \o call.fills
offers_of(fills) == {fills[i].offer : i \in 1 .. Len(fills)}

\* The fills at the places in I, in their order.
at_places(fills, I) ==
  [k \in 1 .. Cardinality(I) |->
     fills[CHOOSE i \in I : Cardinality({j \in I : j <= i}) = k]]

\* The places of the fills that have aged to the confirmation depth.
deep_places == {i \in 1 .. Len(seen) : at_depth(seen[i].height, call.block)}

\* buffer_terminal_offer: a later observation restarts the window.
buffered(buffer, S) ==
  [o \in Offers |-> IF o \in S /\ call.block > buffer[o].block
                    THEN [block |-> call.block, failures |-> 0] ELSE buffer[o]]

\* What became a fill is not a cancellation.
unless_filled(buffer) ==
  [o \in Offers |-> IF o \in offers_of(seen) THEN NotBuffered ELSE buffer[o]]

closed(S) == [o \in Offers |-> IF o \in S /\ row[o] # "filled" THEN "cancelled" ELSE row[o]]

\* The call's dead offers are written at once, with the earlier ones whose write
\* failed; what is mature of the rest is worked through next.
EndDetect ==
  /\ call.pc = "prove" /\ call.todo = {} /\ call.asking = {}
  /\ LET buffer == unless_filled(buffered(pending_unconfirmed_terminals, call.terminals)) IN
     /\ pending_unconfirmed_terminals' = buffer
     /\ pending_unconfirmed_fills' = at_places(seen, (1 .. Len(seen)) \ deep_places)
     /\ call' = [call EXCEPT !.pc = "write", !.fills = at_places(seen, deep_places),
                     !.terminals = {}, !.dead = {},
                     !.todo = {o \in Offers : at_depth(buffer[o].block, call.block)}]
  /\ LET queued == pending_dead_writes \cup call.dead IN
     \E failing \in SUBSET queued : \E given_up \in SUBSET failing :
       /\ row' = closed(queued \ failing)
       /\ pending_dead_writes' = failing \ given_up
       /\ abandoned' = abandoned \cup given_up
  /\ UNCHANGED <<world, state, manager, up, trade_log, inventory>>

\* Mutant: the cancellation is not written, and the offer forgotten.
OnlyNotWritten(o) == UNCHANGED state

\* recheck_terminal puts what is not over back under management, flagged when
\* the wallet is at a cancel of it.
readopt(o) ==
  /\ offers' = offers \cup {o}
  /\ cancel_pending' = IF status[o] = "pending_cancel" THEN cancel_pending \cup {o}
                       ELSE cancel_pending

drop(o) == [pending_unconfirmed_terminals EXCEPT ![o] = NotBuffered]
over(o) ==
  \/ status[o] \in {"cancelled", "failed"}
  \/ status[o] = "confirmed" /\ o \in proven_dead
maturing(o) == call.pc = "write" /\ o \in call.todo

\* A buffered terminal at depth, asked about once more before the write that
\* cannot be undone.
Recheck(o) ==
  /\ maturing(o) /\ call' = [call EXCEPT !.todo = @ \ {o}]
  /\ \/ /\ o \in offers
        /\ pending_unconfirmed_terminals' = drop(o) /\ UNCHANGED <<state, row>>
     \/ /\ o \notin offers /\ over(o)
        /\ pending_unconfirmed_terminals' = drop(o) /\ row' = closed({o})
        /\ UNCHANGED state
     \/ /\ o \notin offers /\ ~over(o)
        /\ pending_unconfirmed_terminals' = drop(o) /\ readopt(o) /\ UNCHANGED row
  /\ UNCHANGED <<world, manager, up, pending_unconfirmed_fills, pending_dead_writes,
                 abandoned, trade_log, inventory>>

\* It is over, and the row could not be written: again, or given up.
CloseFails(o) ==
  /\ maturing(o) /\ o \notin offers /\ over(o) /\ call' = [call EXCEPT !.todo = @ \ {o}]
  /\ \/ /\ pending_unconfirmed_terminals' =
               [pending_unconfirmed_terminals EXCEPT ![o].failures = 0]
        /\ UNCHANGED abandoned
     \/ /\ pending_unconfirmed_terminals' = drop(o)
        /\ abandoned' = abandoned \cup {o}
  /\ UNCHANGED <<world, state, manager, up, pending_unconfirmed_fills,
                 pending_dead_writes, db>>

gives_up(failures) == failures >= MaxTerminalRechecks

\* The wallet gave no verdict: again at the next heartbeat, MaxTerminalRechecks
\* times; the row is then left for a later process.
NoVerdict(o) ==
  /\ maturing(o) /\ o \notin offers /\ call' = [call EXCEPT !.todo = @ \ {o}]
  /\ LET failures == pending_unconfirmed_terminals[o].failures + 1 IN
     IF gives_up(failures)
     THEN pending_unconfirmed_terminals' = drop(o) /\ abandoned' = abandoned \cup {o}
     ELSE /\ pending_unconfirmed_terminals' =
               [pending_unconfirmed_terminals EXCEPT ![o].failures = failures]
          /\ UNCHANGED abandoned
  /\ UNCHANGED <<world, state, manager, up, pending_unconfirmed_fills,
                 pending_dead_writes, db>>

\* Not asked, after a transport failure of this heartbeat, and not counted.
NotAskedAgain(o) ==
  /\ maturing(o) /\ o \notin offers /\ call' = [call EXCEPT !.todo = @ \ {o}]
  /\ UNCHANGED <<world, state, manager, engine, db>>

\* Mutant: the offer is marked last.
MarkLast == <<"journal", "inventory", "mark">>

\* The writes of a fill, in this order: what is journalled and not marked is
\* found again by the next process, and only then moves the inventory.
Writes == <<"journal", "mark", "inventory">>
fill == Head(call.fills)
recording == call.pc = "write" /\ call.todo = {} /\ call.fills # <<>>
next_fill == [call EXCEPT !.fills = Tail(@), !.written = 0]

Write ==
  /\ recording
  /\ LET n == call.written + 1
         w == Writes[n] IN
     /\ call' = IF n = Len(Writes) THEN next_fill ELSE [call EXCEPT !.written = n]
     /\ trade_log' = IF w = "journal" THEN trade_log \cup {fill.offer} ELSE trade_log
     /\ row' = IF w = "mark" THEN [row EXCEPT ![fill.offer] = "filled"] ELSE row
     /\ inventory' = IF w = "inventory" THEN [inventory EXCEPT ![fill.offer] = @ + 1]
                     ELSE inventory
  /\ UNCHANGED <<world, state, manager, engine>>

\* The journal or the row could not be written: this process does not try again.
WriteFails ==
  /\ recording /\ call.written < 2 /\ row[fill.offer] # "filled"
  /\ abandoned' = abandoned \cup {fill.offer} /\ call' = next_fill
  /\ UNCHANGED <<world, state, manager, up, pending_unconfirmed_fills,
                 pending_unconfirmed_terminals, pending_dead_writes, db>>

EndStep ==
  /\ call.pc = "write" /\ call.todo = {} /\ call.fills = <<>>
  /\ call' = [Idle EXCEPT !.block = call.block, !.from_node = call.from_node]
  /\ UNCHANGED <<world, state, manager, engine, db>>

-----------------------------------------------------------------------------
\* The rest of a heartbeat, and other heartbeats' cancels.

\* reconcile_offers goes through the wallet's records: an open offer it does not
\* track is adopted, a FAILED one it tracks buffered, a CANCELLED one flagged.
Reconcile(o) ==
  /\ up /\ call.pc = "idle" /\ call.block > 0
  /\ \/ /\ o \notin offers /\ status[o] = "accept"
        /\ offers' = offers \cup {o}
        /\ UNCHANGED <<cancel_pending, pending_unconfirmed_terminals>>
     \/ /\ o \in offers /\ status[o] = "failed" /\ in_number(o) /\ remove_offer(o)
        /\ pending_unconfirmed_terminals' = buffered(pending_unconfirmed_terminals, {o})
     \/ /\ o \in offers \ cancel_pending /\ status[o] = "cancelled"
        /\ cancel_pending' = cancel_pending \cup {o}
        /\ UNCHANGED <<offers, pending_unconfirmed_terminals>>
  /\ UNCHANGED <<world, manager, call, up, pending_unconfirmed_fills,
                 pending_dead_writes, abandoned, db>>

\* A cancel of this offer by its id: the wallet writes its status over whatever
\* the trade had, and the answer, if there is one, flags the offer and its row.
SendCancel(o, st) ==
  /\ up /\ o \in offers \ cancel_pending /\ fill_proof_deferrals[o] # "withheld"
  /\ status[o] \in {"accept", "confirmed", "pending_cancel"} /\ written_by_a_cancel(st)
  /\ revived_is_cancellable(o)
  /\ status' = [status EXCEPT ![o] = st]
  /\ \/ UNCHANGED <<cancel_pending, row>>
     \/ /\ cancel_pending' = cancel_pending \cup {o}
        /\ row' = [row EXCEPT ![o] = IF @ = "pending" THEN "cancel_pending" ELSE @]
  /\ UNCHANGED <<chain, node, confirmed_at_index, reorgs, crashes, offers,
                 manager, call, engine, trade_log, inventory>>

Crash ==
  /\ up /\ crashes < MaxCrashes /\ crashes' = crashes + 1
  /\ up' = FALSE /\ call' = Idle
  /\ offers' = {} /\ cancel_pending' = {}
  /\ fill_proof_deferrals' = Nobody("none") /\ cancel_status_proven' = Nobody("none")
  /\ cancel_status_inconclusive' = Nobody(NoWindow) /\ proven_dead' = {}
  /\ pending_unconfirmed_fills' = <<>>
  /\ pending_unconfirmed_terminals' = Nobody(NotBuffered)
  /\ pending_dead_writes' = {} /\ abandoned' = {}
  /\ UNCHANGED <<chain, node, status, confirmed_at_index, reorgs, db>>

\* startup_reconcile, and what run() makes of it.  Without a scan of the wallet
\* every open row is restored as it stands.
Boot ==
  /\ ~up /\ up' = TRUE
  /\ \/ /\ offers' = open_rows
        /\ cancel_pending' = {o \in open_rows : row[o] = "cancel_pending"}
        /\ UNCHANGED row
     \/ LET failed == {o \in open_rows : status[o] = "failed"}
            reopened == {o \in Offers : row[o] = "cancelled" /\ status[o] = "pending_cancel"}
            cancelling == {o \in open_rows : status[o] = "pending_cancel"} \cup reopened
            cancelled == {o \in open_rows : status[o] = "cancelled"} IN
        /\ ShallowFailed \/ \A o \in failed : at_depth(chain.spend[o].at, chain.tip)
        /\ offers' = (open_rows \ failed) \cup reopened
        /\ cancel_pending' = cancelling \cup cancelled
                \cup {o \in offers' : row[o] = "cancel_pending"}
        /\ row' = [o \in Offers |-> IF o \in failed THEN "cancelled"
                                    ELSE IF o \in cancelling THEN "cancel_pending"
                                    ELSE row[o]]
  /\ UNCHANGED <<world, manager, call, pending_unconfirmed_fills,
                 pending_unconfirmed_terminals, pending_dead_writes, abandoned,
                 trade_log, inventory>>

-----------------------------------------------------------------------------
WorldNext ==
  \/ Block \/ NodeSyncs \/ Reorg
  \/ \E o \in Offers :
       \/ WalletSees(o)
       \/ \E st \in Statuses : CancelledElsewhere(o, st)

DetectNext ==
  \/ Begin
  \/ \E o \in Offers :
       \/ Poll(o) \/ SkipPoll(o) \/ Ask(o) \/ PassBy(o) \/ Book(o) \/ CloseDead(o)
       \/ StillTakeable(o) \/ Defer(o) \/ Wait(o) \/ Stand(o)

StepNext ==
  \/ EndDetect \/ Write \/ WriteFails \/ EndStep
  \/ \E o \in Offers : Recheck(o) \/ CloseFails(o) \/ NoVerdict(o) \/ NotAskedAgain(o)

OtherNext ==
  \/ Crash \/ Boot
  \/ \E o \in Offers :
       \/ Reconcile(o)
       \/ \E st \in Statuses : SendCancel(o, st)

Next == WorldNext \/ DetectNext \/ StepNext \/ OtherNext
Spec == Init /\ [][Next]_vars
=============================================================================
