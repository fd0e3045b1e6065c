-------------------------- MODULE CancelEscalation --------------------------
(***************************************************************************)
(* The escalation of stranded cancels (S14): once per heartbeat the engine *)
(* asks the wallet and the chain about offers whose cancel was submitted   *)
(* and never landed, pays for another cancel of those proven stranded, and *)
(* tells the operator about those it cannot resolve.                       *)
(*                                                                         *)
(* One heartbeat is one block.  A track keeps the blocks since its anchor  *)
(* and the blocks until its next probe instead of two heights; streaks and *)
(* row counts are kept up to the value beyond which the code no longer     *)
(* tells them apart.                                                       *)
(***************************************************************************)
EXTENDS Naturals, Sequences, FiniteSets

CONSTANTS
  Offers,                             \* our offers whose cancel was submitted
  Window, Retry, Cap, Step, MaxFee, MaxProbes,  \* CancelEscalationParams
  Floors,                             \* the dynamic fee of a sweep, or twice it
  ErrorAlert,                         \* kEscalationErrorAlertThreshold
  Gap, Cooldown, MaxIds,              \* the alert queue and AlertManager
  Gates,                              \* the asynchronous gates that may close
  MaxCrashes                          \* bound: how often the process dies

AsyncGates == {"graceful_cancel_active", "cancel_all_inflight", "watchdog_fired"}

ASSUME EscalationAssumption ==
  /\ Retry \in Nat \ {0} /\ Window \in Nat /\ Retry <= Window
  /\ Cap \in Nat /\ MaxFee \in Nat /\ Step \in 1 .. MaxFee /\ Floors \subseteq Nat
  /\ MaxProbes \in Nat \ {0} /\ MaxIds \in Nat \ {0} /\ ErrorAlert \in Nat \ {0}
  /\ Cooldown \in Nat /\ Gap \in Nat /\ Cooldown <= Gap
  /\ Gates \subseteq AsyncGates /\ MaxCrashes \in Nat

NoOffer == "no offer"

VARIABLES
  trade, spent,        \* the wallet's record; the offers with a spent maker coin
  flagged,             \* offers State holds cancel_pending
  rows,                \* the cancel_escalation_N events: how many, highest fee
  track,               \* cancel_escalation_tracks_
  queued, since_send,  \* cancel_unresolved_alerts_
  since_told,          \* AlertManager's last CancelUnresolved alert
  gates,               \* the asynchronous gates that are closed
  at, due, cur, said, fee,  \* the sweep of this heartbeat
  crashes,
  told, paid           \* observers: offers the operator has been told of by this
                       \* process; the re-cancels seen accepted

worldVars == <<trade, spent>>
alertVars == <<queued, since_send, since_told, told>>
sweepVars == <<at, due, cur, said, fee>>
vars == <<worldVars, flagged, rows, track, alertVars, gates, sweepVars, crashes, paid>>

Trades == {"pending_accept", "pending_cancel", "pending_confirm", "over"}
NotSeen == [anchored |-> FALSE, age |-> 0, wait |-> 0, esc |-> 0, fee |-> 0,
            idle |-> 0, errs |-> 0, alerted |-> FALSE]

Lesser(x, y)  == IF x < y THEN x ELSE y
Greater(x, y) == IF x > y THEN x ELSE y
minus(x, y)   == IF x > y THEN x - y ELSE 0

-----------------------------------------------------------------------------
(* The decisions of cancel_escalation.hpp. *)

Horizon == Window * (Cap + 1)

escalation_must_yield == gates # {}

escalation_probe_due(t) == t.anchored /\ t.age >= Retry /\ t.wait = 0

escalation_backoff_blocks(streak) == Lesser(Retry * 2^streak, Window)

\* From this streak on the back-off is the whole window.
LongStreak == CHOOSE k \in 0 .. Window :
                /\ Retry * 2^k >= Window
                /\ \A j \in 0 .. Window : j < k => Retry * 2^j < Window

escalation_fee_mojos(last_fee, floor) ==
  Lesser(Greater(last_fee, floor) + Step, MaxFee)

unresolved_alert_due(t) == ~t.alerted /\ t.anchored /\ t.age >= Horizon

decide_cancel_escalation(t, wallet, coins) ==
  CASE wallet = "over"                                  -> "ResolvedByWallet"
    [] wallet = "pending_confirm"                       -> "Resolving"
    [] wallet = "unknown"                               -> "NoProof"
    [] wallet = "pending_cancel" /\ t.age < Window      -> "Wait"
    [] coins = "SomeSpent"                              -> "Resolving"
    [] coins = "Unknown"                                -> "NoProof"
    [] t.esc >= Cap                                     -> "Exhausted"
    [] OTHER                                            -> "Escalate"

\* A record the node did not return proves nothing, a spent coin it did does.
classify_coin_records(o) ==
  IF o \in spent THEN {"SomeSpent", "Unknown"} ELSE {"AllUnspent", "Unknown"}

\* No verdict, nothing paid.
BackedOff(t) == [t EXCEPT !.wait = escalation_backoff_blocks(t.idle),
                          !.idle = Lesser(t.idle + 1, LongStreak)]

-----------------------------------------------------------------------------
(* Telling the operator. *)

queued_ids(q) == {q[i] : i \in DOMAIN q}
enqueue(q, o) == IF o \in queued_ids(q) THEN q ELSE Append(q, o)
forget(q, kept) == SelectSeq(q, LAMBDA o : o \in kept)

\* What take_due hands out now.
take_due(q) == IF since_send < Gap THEN <<>> ELSE SubSeq(q, 1, Lesser(MaxIds, Len(q)))

check_rate_limit == since_told >= Cooldown

\* flush_cancel_unresolved_alerts on the queue q, and what it leaves of the
\* tracks t: an offer is marked alerted once it has been handed out.
Marked(t, q) == [o \in Offers |->
  IF o \in queued_ids(take_due(q)) /\ t[o].anchored
  THEN [t[o] EXCEPT !.alerted = TRUE] ELSE t[o]]
Left(q) == SubSeq(q, Len(take_due(q)) + 1, Len(q))
Announce(q) ==
  IF take_due(q) = <<>> THEN UNCHANGED <<since_send, since_told, told>>
  ELSE /\ since_send' = 0
       /\ IF check_rate_limit
          THEN since_told' = 0 /\ told' = told \cup queued_ids(take_due(q))
          ELSE UNCHANGED <<since_told, told>>

-----------------------------------------------------------------------------
Init ==
  /\ trade \in [Offers -> {"pending_accept", "pending_cancel"}] /\ spent = {}
  /\ flagged = Offers
  /\ rows = [o \in Offers |-> [n |-> 0, fee |-> 0]]
  /\ track = [o \in Offers |-> NotSeen]
  /\ queued = <<>> /\ since_send = Gap /\ since_told = Cooldown
  /\ gates = {}
  /\ at = "idle" /\ due = {} /\ cur = NoOffer /\ said = "nothing" /\ fee = 0
  /\ crashes = 0
  /\ told = {}
  /\ paid = [o \in Offers |-> [n |-> 0, fee |-> 0]]

-----------------------------------------------------------------------------
(* The wallet, the chain, the rest of the engine, the clock. *)

\* The maker coins of an offer are spent, by its cancel or by a taker; the
\* wallet notices later.
CoinSpent(o) ==
  /\ o \notin spent /\ trade[o] # "over"
  /\ spent' = spent \cup {o}
  /\ UNCHANGED <<trade, flagged, rows, track, alertVars, gates, sweepVars, crashes, paid>>

WalletReconciles(o) ==
  /\ o \in spent /\ trade[o] # "over"
  /\ \E t \in {"pending_confirm", "over"} : trade' = [trade EXCEPT ![o] = t]
  /\ trade' # trade
  /\ UNCHANGED <<spent, flagged, rows, track, alertVars, gates, sweepVars, crashes, paid>>

\* The fill path, before the sweep of the same heartbeat, or a Cancel All that
\* walks the book lets go of an offer the wallet calls over.
Settled(o) ==
  /\ o \in flagged /\ trade[o] = "over"
  /\ at = "idle" \/ "cancel_all_inflight" \in gates
  /\ flagged' = flagged \ {o}
  /\ UNCHANGED <<worldVars, rows, track, alertVars, gates, sweepVars, crashes, paid>>

GateCloses(g) ==
  /\ g \notin gates /\ gates' = gates \cup {g}
  /\ UNCHANGED <<worldVars, flagged, rows, track, alertVars, sweepVars, crashes, paid>>

\* A Cancel All ends; a stop and a fired switch stay until the process does.
CancelAllEnds ==
  /\ "cancel_all_inflight" \in gates /\ gates' = gates \ {"cancel_all_inflight"}
  /\ UNCHANGED <<worldVars, flagged, rows, track, alertVars, sweepVars, crashes, paid>>

Tick ==
  /\ since_send < Gap \/ since_told < Cooldown
  /\ since_send' = Lesser(since_send + 1, Gap)
  /\ since_told' = Lesser(since_told + 1, Cooldown)
  /\ UNCHANGED <<worldVars, flagged, rows, track, queued, told, gates, sweepVars,
                 crashes, paid>>

\* The next process has the wallet, the offer log and nothing else.
Crash ==
  /\ crashes < MaxCrashes /\ crashes' = crashes + 1
  /\ track' = [o \in Offers |-> NotSeen]
  /\ queued' = <<>> /\ since_send' = Gap /\ since_told' = Cooldown /\ told' = {}
  /\ gates' = {}
  /\ at' = "idle" /\ due' = {} /\ cur' = NoOffer /\ said' = "nothing" /\ fee' = 0
  /\ UNCHANGED <<worldVars, flagged, rows, paid>>

-----------------------------------------------------------------------------
(* The heartbeat: escalate_stuck_cancels up to its first probe. *)

Aged == [o \in Offers |->
  [track[o] EXCEPT !.age  = IF track[o].anchored THEN Lesser(@ + 1, Horizon) ELSE 0,
                   !.wait = minus(@, 1)]]

\* Mutants: a restart forgets the attempts, or only what they bid.
FreshLadder(o) == [NotSeen EXCEPT !.anchored = TRUE, !.fee = rows[o].fee]
FeeForgotten(o) == [NotSeen EXCEPT !.anchored = TRUE, !.esc = rows[o].n]

\* First sighting: count and fee come from the offer log, so that a restart
\* grants neither a fresh ladder nor a bid that repeats the last one.
Anchored(o) == [NotSeen EXCEPT !.anchored = TRUE, !.esc = rows[o].n, !.fee = rows[o].fee]

\* Tracks follow State; an offer whose history cannot be read stays unanchored.
Followed(t, unread) == [o \in Offers |->
  IF o \notin flagged THEN NotSeen
  ELSE IF t[o].anchored THEN t[o]
  ELSE IF o \in unread THEN NotSeen ELSE Anchored(o)]

\* The oldest anchors first, at most MaxProbes of them.
Chosen(t) ==
  LET ready == {o \in flagged : escalation_probe_due(t[o])}
  IN  {T \in SUBSET ready :
        /\ Cardinality(T) = Lesser(MaxProbes, Cardinality(ready))
        /\ \A o \in T, p \in ready \ T : t[o].age >= t[p].age}

\* Another cancel is in flight, the wallet is failing this cycle or XCH is
\* being recovered: only the alerts go out.
HeartbeatDefers ==
  /\ at = "idle"
  /\ track' = Marked(Aged, queued) /\ queued' = Left(queued) /\ Announce(queued)
  /\ UNCHANGED <<worldVars, flagged, rows, gates, sweepVars, crashes, paid>>

HeartbeatSweeps ==
  /\ at = "idle" /\ ~escalation_must_yield
  /\ \E unread \in SUBSET {o \in flagged : ~track[o].anchored} :
       LET t == Followed(Marked(Aged, queued), unread)
       IN  \E T \in Chosen(t) :
             /\ track' = t /\ due' = T
             /\ at' = IF T = {} THEN "idle" ELSE "first"
  /\ Announce(queued)
  /\ queued' = forget(Left(queued), flagged)
  /\ UNCHANGED <<worldVars, flagged, rows, gates, cur, said, fee, crashes, paid>>

-----------------------------------------------------------------------------
(* The sweep over the due offers.  It ends with a flush, on the first failed   *)
(* call, or on a gate that closed while a call was out.                        *)

Ends(t, q) ==
  /\ track' = Marked(t, q) /\ queued' = Left(q) /\ Announce(q)
  /\ at' = "idle" /\ due' = {} /\ cur' = NoOffer /\ said' = "nothing" /\ fee' = 0

GoesOn(t, q) ==
  /\ track' = t /\ queued' = q /\ UNCHANGED <<since_send, since_told, told>>
  /\ at' = "next" /\ due' = due \ {cur} /\ cur' = NoOffer /\ said' = "nothing" /\ fee' = 0

Become(o, t) == [track EXCEPT ![o] = t]

\* Nothing is due, a gate has closed, or the sweep's budget is spent.
SweepEnds ==
  /\ at \in {"first", "next"}
  /\ due = {} \/ escalation_must_yield \/ at = "next"
  /\ Ends(track, queued)
  /\ UNCHANGED <<worldVars, flagged, rows, gates, crashes, paid>>

NextDue(o) == /\ at \in {"first", "next"} /\ o \in due /\ ~escalation_must_yield
              /\ \A p \in due : track[o].age >= track[p].age

\* Resolved while earlier candidates were probed.
Skipped(o) ==
  /\ NextDue(o) /\ o \notin flagged
  /\ due' = due \ {o} /\ at' = "next"
  /\ UNCHANGED <<worldVars, flagged, rows, track, alertVars, gates, cur, said, fee,
                 crashes, paid>>

Asks(o) ==
  /\ NextDue(o) /\ o \in flagged
  /\ cur' = o /\ at' = "wallet"
  /\ UNCHANGED <<worldVars, flagged, rows, track, alertVars, gates, due, said, fee,
                 crashes, paid>>

\* get_offer or the coin lookup failed.
ProbeFails ==
  /\ at = "wallet" \/ (at = "node" /\ said # "unknown")
  /\ Ends(Become(cur, BackedOff(track[cur])), queued)
  /\ UNCHANGED <<worldVars, flagged, rows, gates, crashes, paid>>

\* What the wallet's record says is judged at once, unless the chain has a say.
WalletSays(o) ==
  /\ at = "wallet" /\ cur = o
  /\ said' \in {trade[o], "unknown"}
  /\ at' = "node"
  /\ UNCHANGED <<worldVars, flagged, rows, track, alertVars, gates, due, cur, fee,
                 crashes, paid>>

\* The node is asked only if the wallet gave a word and the node is trusted.
proofs(o) == IF said = "unknown" THEN {"Unknown"} ELSE classify_coin_records(o)
Verdict(o, coins) == decide_cancel_escalation(track[o], said, coins)

\* Mutant: an offer nothing can be proved of is never announced.
SilentWithoutProof(o, coins) ==
  LET t == track[o]
      verdict == Verdict(o, coins)
  IN  CASE verdict = "Wait" ->
             GoesOn(Become(o, [t EXCEPT !.wait = minus(Window, t.age)]), queued)
        [] verdict \in {"ResolvedByWallet", "Resolving", "NoProof"} ->
             GoesOn(Become(o, BackedOff(t)), queued)
        [] verdict = "Exhausted" ->
             GoesOn(Become(o, [t EXCEPT !.wait = Window]),
                    IF t.alerted THEN queued ELSE enqueue(queued, o))

Judged(o, coins) ==
  LET t == track[o]
      verdict == Verdict(o, coins)
  IN  CASE verdict = "Wait" ->
             GoesOn(Become(o, [t EXCEPT !.wait = minus(Window, t.age)]), queued)
        [] verdict \in {"ResolvedByWallet", "Resolving", "NoProof"} ->
             GoesOn(Become(o, BackedOff(t)),
                    IF verdict # "ResolvedByWallet" /\ unresolved_alert_due(t)
                    THEN enqueue(queued, o) ELSE queued)
        [] verdict = "Exhausted" ->
             GoesOn(Become(o, [t EXCEPT !.wait = Window]),
                    IF t.alerted THEN queued ELSE enqueue(queued, o))

NodeSays(o) ==
  /\ at = "node" /\ cur = o
  /\ \E coins \in proofs(o) : Verdict(o, coins) # "Escalate" /\ Judged(o, coins)
  /\ UNCHANGED <<worldVars, flagged, rows, gates, crashes, paid>>

stranded(o) == at = "node" /\ cur = o /\ \E coins \in proofs(o) : Verdict(o, coins) = "Escalate"

\* Another cancel closed a gate, or the offer left State, while the probe was out.
Yields(o) ==
  /\ stranded(o) /\ (escalation_must_yield \/ o \notin flagged)
  /\ Ends(track, queued)
  /\ UNCHANGED <<worldVars, flagged, rows, gates, crashes, paid>>

\* Mutant: the gates are not read again before the fee.
NotReread(o) == stranded(o)
may_pay(o) == stranded(o) /\ ~escalation_must_yield /\ o \in flagged

\* The record of the attempt could not be written, so nothing is paid.
RecordFails(o) ==
  /\ may_pay(o)
  /\ Ends(Become(o, BackedOff(track[o])), queued)
  /\ UNCHANGED <<worldVars, flagged, rows, gates, crashes, paid>>

mark_offer_cancel_submitted(o, f) ==
  rows' = [rows EXCEPT ![o] = [n   |-> Lesser(rows[o].n + 1, Cap),
                               fee |-> Greater(rows[o].fee, f)]]

\* Write ahead, then recancel_secure at the fee.
Escalates(o) ==
  /\ may_pay(o)
  /\ \E floor \in Floors :
       LET f == escalation_fee_mojos(track[o].fee, floor)
       IN  mark_offer_cancel_submitted(o, f) /\ fee' = f
  /\ at' = "paying"
  /\ UNCHANGED <<worldVars, flagged, track, alertVars, gates, due, cur, said, crashes,
                 paid>>

-----------------------------------------------------------------------------
(* recancel_secure: at the fee, and at none if the wallet is short of XCH.     *)

open_trade(o) == trade[o] \in {"pending_accept", "pending_cancel"}

\* The wallet takes the cancel, whether or not it gets to say so.
CancelTaken(o) ==
  /\ trade' = [trade EXCEPT ![o] = "pending_cancel"]
  /\ UNCHANGED spent

Submitted(o) ==
  /\ at \in {"paying", "zero"} /\ cur = o /\ open_trade(o)
  /\ LET f == IF at = "zero" THEN 0 ELSE fee
         t == track[o]
     IN  /\ CancelTaken(o)
         /\ GoesOn(Become(o, [t EXCEPT !.esc = @ + 1, !.age = 0, !.wait = 0,
                                       !.fee = Greater(@, f), !.idle = 0, !.errs = 0]),
                   queued)
         /\ paid' = [paid EXCEPT ![o] = [n   |-> Lesser(paid[o].n + 1, Cap + 1),
                                         fee |-> Greater(paid[o].fee, f)]]
  /\ UNCHANGED <<flagged, rows, gates, crashes>>

ShortOfXch(o) ==
  /\ at = "paying" /\ cur = o /\ fee > 0 /\ at' = "zero"
  /\ UNCHANGED <<worldVars, flagged, rows, track, alertVars, gates, due, cur, said,
                 fee, crashes, paid>>

\* Refused, or taken and the answer lost: an error either way, and it does not
\* count toward the cap of this process.
RecancelFails(o) ==
  /\ at \in {"paying", "zero"} /\ cur = o
  /\ \/ UNCHANGED worldVars
     \/ open_trade(o) /\ CancelTaken(o)
  /\ LET errs == track[o].errs + 1
         t    == [track[o] EXCEPT !.errs = Lesser(errs, Greater(ErrorAlert, LongStreak)),
                                  !.wait = escalation_backoff_blocks(Lesser(errs, LongStreak))]
     IN  Ends(Become(o, t), IF ~t.alerted /\ errs >= ErrorAlert
                            THEN enqueue(queued, o) ELSE queued)
  /\ UNCHANGED <<flagged, rows, gates, crashes, paid>>

-----------------------------------------------------------------------------
Probing(o) ==
  \/ Skipped(o) \/ Asks(o) \/ WalletSays(o) \/ NodeSays(o) \/ Yields(o)
  \/ RecordFails(o) \/ Escalates(o) \/ Submitted(o) \/ ShortOfXch(o) \/ RecancelFails(o)

Sweeping == HeartbeatDefers \/ HeartbeatSweeps \/ SweepEnds \/ ProbeFails
            \/ (\E o \in Offers : Probing(o))

Next ==
  \/ Sweeping
  \/ \E o \in Offers : CoinSpent(o) \/ WalletReconciles(o) \/ Settled(o)
  \/ \E g \in Gates : GateCloses(g)
  \/ CancelAllEnds \/ Tick \/ Crash

Spec == Init /\ [][Next]_vars

\* The heartbeat comes, is not always deferred and can read the log; calls
\* return; no offer is left without an answer, without its record or off the
\* schedule for ever.
FairSpec ==
  /\ Spec /\ WF_vars(Tick) /\ WF_vars(CancelAllEnds) /\ WF_vars(Sweeping)
  /\ \A o \in Offers :
       /\ SF_vars(HeartbeatSweeps /\ track'[o].anchored)
       /\ SF_vars(Asks(o)) /\ SF_vars(WalletSays(o))
       /\ SF_vars(NodeSays(o)) /\ SF_vars(Escalates(o))
=============================================================================
