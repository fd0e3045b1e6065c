--------------------------- MODULE DeadMansSwitch ---------------------------
(***************************************************************************)
(* The dead man's switch over a live book: the watchdog thread, the        *)
(* heartbeat it watches and the offers that heartbeat posts, an operator's *)
(* Cancel All, a stop that cancels the book or keeps it, and what run()    *)
(* does when the event loop is over.                                       *)
(*                                                                         *)
(* The watchdog, the stop's caller and run() are threads; the cycle, the   *)
(* Cancel All and the stop's continuation are coroutines of one event      *)
(* loop, which stands still while the stop's fallback holds its thread.    *)
(* Times are ages, counted up to the limit they are compared with.  The    *)
(* stop's ladder is one call here; ShutdownCancel has it whole.            *)
(***************************************************************************)
EXTENDS Naturals

CONSTANTS
  Resting,      \* offers an earlier run left resting
  Tiers,        \* offers this run may create
  Stall,        \* watchdog_stall_seconds_; 0 starts no watchdog
  Policies,     \* what a stop may do with the book
  MaxClicks     \* bound: how often Cancel All is clicked

ASSUME SwitchAssumption ==
  /\ Resting \cap Tiers = {} /\ Stall \in Nat
  /\ Policies \subseteq {"keep", "cancel"} /\ MaxClicks \in Nat

Offers  == Resting \cup Tiers
NoOffer == "no offer"

VARIABLES
  trade, call,                \* the wallet, and the calls out to it
  entry,                      \* State
  beat, newer, claim,         \* ages; a beat newer than the one fired on
  stop_requested, offers_kept, watchdog_stop, graceful_cancel_active,
  sw, fired, watchdog_fired,  \* the watchdog thread
  mtx, cancel_failed,         \* watchdog_cancel_book
  cycle, cur, untried,        \* the heartbeat and its posting
  clicks, ca, ca_todo, inflight, draining,  \* the operator's Cancel All
  stop, ioc, run,             \* the stop, the event loop, run()
  covered, unmanaged, called  \* observers: the switch's cancel was accepted; offers
                              \* logged as possibly live and unmanaged; offers a
                              \* Cancel All has flagged

walletVars == <<trade, call>>
timeVars   == <<beat, newer, claim>>
latchVars  == <<stop_requested, offers_kept, watchdog_stop, graceful_cancel_active>>
switchVars == <<sw, fired, watchdog_fired>>
bookVars   == <<mtx, cancel_failed>>
cycleVars  == <<cycle, cur, untried>>
allVars    == <<clicks, ca, ca_todo, inflight, draining>>
stopVars   == <<stop, ioc, run>>
seenVars   == <<covered, unmanaged, called>>
vars == <<walletVars, entry, timeVars, latchVars, switchVars, bookVars, cycleVars,
          allVars, stopVars, seenVars>>

Clients  == {"switch", "cycle", "all", "stop", "exit"}
Sweep    == <<"sweep", NoOffer>>
Idle     == [req |-> Sweep, is |-> "idle"]

open    == {o \in Offers : trade[o] = "open"}
tracked == {o \in Offers : entry[o] # "absent"}

-----------------------------------------------------------------------------
(* The wallet and the calls to it.  An unanswered call has run, or never   *)
(* will.                                                                   *)

Is(c, end) == call[c].is = end
Over(c)    == call[c].is \in {"accepted", "refused", "unanswered"}

Send(c, r) == call' = [call EXCEPT ![c] = [req |-> r, is |-> "sent"]] /\ trade' = trade
Take(c)    == call' = [call EXCEPT ![c] = Idle] /\ trade' = trade
Ends(c, e) == call' = [call EXCEPT ![c].is = e]

Cancelling(S) == [o \in Offers |-> IF o \in S /\ trade[o] = "open"
                                   THEN "pending_cancel" ELSE trade[o]]

WalletRuns(c) ==
  /\ Is(c, "sent") /\ Ends(c, "accepted")
  /\ LET kind == call[c].req[1]
         o    == call[c].req[2]
     IN  trade' = CASE kind = "sweep"  -> Cancelling(Offers)
                    [] kind = "cancel" -> Cancelling({o})
                    [] kind = "create" -> [trade EXCEPT ![o] = "open"]

\* A sweep that is refused may have cancelled part of the book.
WalletRefuses(c) ==
  /\ Is(c, "sent") /\ Ends(c, "refused")
  /\ \E S \in IF call[c].req = Sweep THEN SUBSET open ELSE {{}} : trade' = Cancelling(S)

GivesUp(c) ==
  /\ call[c].is \in {"sent", "accepted"} /\ Ends(c, "unanswered") /\ trade' = trade

CancelLands ==
  /\ \E o \in Offers : /\ trade[o] = "pending_cancel"
                       /\ trade' = [trade EXCEPT ![o] = "cancelled"]
  /\ call' = call

walletAlone == UNCHANGED <<entry, timeVars, latchVars, switchVars, bookVars, cycleVars,
                           allVars, stopVars, seenVars>>

Answer(c) == (WalletRuns(c) \/ WalletRefuses(c) \/ GivesUp(c)) /\ walletAlone

Wallet == (\E c \in Clients : Answer(c)) \/ (CancelLands /\ walletAlone)

-----------------------------------------------------------------------------
Later(age) == IF age < Stall THEN age + 1 ELSE age

\* Ages nobody reads stand still.
Clock ==
  /\ sw # "exited" /\ beat' = Later(beat)
  /\ claim' = IF graceful_cancel_active THEN Later(claim) ELSE claim
  /\ UNCHANGED <<newer, walletVars, entry, latchVars, switchVars, bookVars, cycleVars,
                 allVars, stopVars, seenVars>>

beatNow == beat' = 0 /\ newer' = fired

Adopted(o) == [entry EXCEPT ![o] = "open"]
Flagged(S) == [o \in Offers |-> IF o \in S /\ entry[o] = "open"
                                THEN "cancel_pending" ELSE entry[o]]

-----------------------------------------------------------------------------
(* watchdog_cancel_book: one caller at a time, and none over a kept book.  *)

CancelBook(c) ==
  /\ mtx = "free" /\ cancel_failed' = cancel_failed
  /\ IF offers_kept THEN UNCHANGED <<mtx, walletVars>> ELSE mtx' = c /\ Send(c, Sweep)

\* Mutant: a cancel that failed is logged only.
FailureSwallowed(c) == mtx = c /\ Over(c) /\ mtx' = "free" /\ Take(c) /\ UNCHANGED cancel_failed

BookCancelled(c) ==
  /\ mtx = c /\ Over(c) /\ mtx' = "free" /\ Take(c)
  /\ cancel_failed' = (cancel_failed \/ ~Is(c, "accepted"))

-----------------------------------------------------------------------------
(* watchdog_loop.                                                          *)

loopStill == <<entry, beat, claim, latchVars, cycleVars, allVars, stopVars, unmanaged, called>>

in_grace == graceful_cancel_active /\ claim < Stall

\* A second is over: the loop ends, or stays quiet while a graceful cancel is in
\* its grace, or goes on to the tick.
SwitchWakes ==
  /\ sw = "sleep"
  /\ IF watchdog_stop THEN sw' = "exited" ELSE ~in_grace /\ sw' = "tick"
  /\ UNCHANGED <<loopStill, walletVars, newer, fired, watchdog_fired, bookVars, covered>>

armed == ~fired \/ newer
fires == beat = Stall /\ armed

\* Watchdog::tick: a newer heartbeat re-arms it, and one stall fires once.
SwitchTicks ==
  /\ sw = "tick" /\ fired' = (fires \/ ~armed) /\ newer' = FALSE
  /\ sw' = IF fires THEN "latch" ELSE "sleep"
  /\ UNCHANGED <<loopStill, walletVars, watchdog_fired, bookVars, covered>>

\* Restart-only, and before the cancel.
SwitchLatches ==
  /\ sw = "latch" /\ sw' = "book" /\ watchdog_fired' = TRUE
  /\ UNCHANGED <<loopStill, walletVars, newer, fired, bookVars, covered>>

SwitchCancels ==
  /\ sw = "book" /\ CancelBook("switch")
  /\ sw' = IF offers_kept THEN "sleep" ELSE "sent"
  /\ UNCHANGED <<loopStill, newer, fired, watchdog_fired, covered>>

SwitchIsAnswered ==
  /\ sw = "sent" /\ sw' = "sleep" /\ BookCancelled("switch")
  /\ covered' = (covered \/ Is("switch", "accepted"))
  /\ UNCHANGED <<loopStill, newer, fired, watchdog_fired>>

Switch == \/ SwitchWakes \/ SwitchTicks \/ SwitchLatches \/ SwitchCancels
          \/ SwitchIsAnswered

-----------------------------------------------------------------------------
(* The heartbeat on the event loop's thread.                               *)

\* The loop turns unless the stop's fallback is running on its thread.
turning == ioc = "running" /\ stop \notin {"fallback", "falling"}

engineStill == <<claim, latchVars, switchVars, bookVars, stopVars, covered>>
stepStill   == <<engineStill, beat, newer, allVars, called>>

\* open_connections() throws and ends the poll loop's coroutine, or startup
\* reconciliation takes the resting offers over.
Boot ==
  /\ turning /\ cycle = "boot"
  /\ \/ cycle' = "dead" /\ entry' = entry
     \/ /\ cycle' = "poll"
        /\ entry' = [o \in Offers |->
             CASE trade[o] = "open"           -> "open"
               [] trade[o] = "pending_cancel" -> "cancel_pending"
               [] OTHER                       -> "absent"]
  /\ UNCHANGED <<stepStill, walletVars, cur, untried, unmanaged>>

\* The poll loop ends on a stop; a heartbeat drops the offers whose cancels have
\* landed.
Poll ==
  /\ turning /\ cycle = "poll"
  /\ IF stop_requested THEN cycle' = "dead" /\ entry' = entry
     ELSE /\ cycle' = "gate"
          /\ entry' = [o \in Offers |-> IF trade[o] = "cancelled" THEN "absent"
                                        ELSE entry[o]]
  /\ UNCHANGED <<stepStill, walletVars, cur, untried, unmanaged>>

\* Mutant: the gate is retired once the Cancel All has submitted.
RetireOnSubmit == draining /\ inflight

\* Retired only once no tracked offer is waiting for its cancel.
still_draining ==
  draining /\ (inflight \/ \E o \in Offers : entry[o] = "cancel_pending")

\* What may run of Step 8: nothing, the stale sweep alone, or all of it.
gate ==
  CASE watchdog_fired /\ cancel_failed                -> "stale"
    [] watchdog_fired /\ ~cancel_failed               -> "tail"
    [] ~watchdog_fired /\ inflight                    -> "tail"
    [] ~watchdog_fired /\ ~inflight /\ still_draining -> "stale"
    [] OTHER                                          -> "manage"

Step8Gate ==
  /\ turning /\ cycle = "gate" /\ cycle' = gate /\ draining' = still_draining
  /\ UNCHANGED <<engineStill, beat, newer, clicks, ca, ca_todo, inflight, walletVars,
                 entry, cur, untried, unmanaged, called>>

\* cancel_stale: a secure cancel, marked once the wallet has taken it.
StaleCancel ==
  /\ turning /\ cycle \in {"stale", "manage"}
  /\ \E o \in Offers : entry[o] = "open" /\ cur' = o /\ Send("cycle", <<"cancel", o>>)
  /\ cycle' = IF cycle = "stale" THEN "stale_sent" ELSE "manage_sent"
  /\ UNCHANGED <<stepStill, entry, untried, unmanaged>>

StaleAnswered ==
  /\ turning /\ cycle \in {"stale_sent", "manage_sent"} /\ Over("cycle") /\ Take("cycle")
  /\ entry' = IF Is("cycle", "accepted") THEN Flagged({cur}) ELSE entry
  /\ cycle' = (IF cycle = "stale_sent" THEN "tail" ELSE "post") /\ cur' = NoOffer
  /\ UNCHANGED <<stepStill, untried, unmanaged>>

NothingStale ==
  /\ turning /\ cycle \in {"stale", "manage"}
  /\ cycle' = IF cycle = "stale" THEN "tail" ELSE "post"
  /\ UNCHANGED <<stepStill, walletVars, entry, cur, untried, unmanaged>>

\* Step 8 has been suspended since the gate.
overtaken == watchdog_fired \/ stop_requested \/ inflight \/ draining

PostRecheck ==
  /\ turning /\ cycle = "post" /\ cycle' = IF overtaken THEN "tail" ELSE "tiers"
  /\ UNCHANGED <<stepStill, walletVars, entry, cur, untried, unmanaged>>

\* Mutant: the mark ends with the wallet's answer.
MarkedToAnswer == cycle = "create"

\* From a create's request until its offer is in State.
posting == cycle \in {"create", "dexie", "late", "expiry"}

Posted == cycle' = "posted" /\ cur' = NoOffer

\* The next tier is created, unless the switch has fired or a stop is latched.
PostTier ==
  /\ turning /\ cycle = "tiers"
  /\ IF watchdog_fired \/ stop_requested \/ untried = {}
     THEN Posted /\ UNCHANGED <<walletVars, untried>>
     ELSE \E o \in untried : /\ cur' = o /\ untried' = untried \ {o}
                             /\ cycle' = "create" /\ Send("cycle", <<"create", o>>)
  /\ UNCHANGED <<stepStill, entry, unmanaged>>

Retracts == Send("cycle", <<"cancel", cur>>) /\ entry' = Adopted(cur)

\* Mutant: the abort predicate is read before the create only.
NeverLate == FALSE

too_late == watchdog_fired

\* A create that landed after the switch fired, or whose expiry the wallet did
\* not echo, is adopted and then cancelled; an unanswered one may have landed.
CreateAnswered ==
  /\ turning /\ cycle = "create" /\ Over("cycle") /\ untried' = untried
  /\ unmanaged' = IF Is("cycle", "unanswered") THEN unmanaged \cup {cur} ELSE unmanaged
  /\ IF Is("cycle", "accepted")
     THEN /\ \/ too_late /\ cycle' = "late" /\ Retracts
             \/ ~too_late /\ cycle' = "expiry" /\ Retracts
             \/ ~too_late /\ cycle' = "dexie" /\ Take("cycle") /\ entry' = entry
          /\ cur' = cur
     ELSE cycle' = "tiers" /\ cur' = NoOffer /\ Take("cycle") /\ entry' = entry
  /\ UNCHANGED stepStill

\* A late offer ends the posting and is not flagged; one that failed its expiry
\* is flagged, and the next tier follows.  A failed cancel is told to the operator.
RetractAnswered ==
  /\ turning /\ cycle \in {"late", "expiry"} /\ Over("cycle") /\ Take("cycle")
  /\ unmanaged' = IF Is("cycle", "accepted") THEN unmanaged ELSE unmanaged \cup {cur}
  /\ cycle' = (IF cycle = "late" THEN "posted" ELSE "tiers") /\ cur' = NoOffer
  /\ entry' = IF cycle = "expiry" /\ Is("cycle", "accepted") THEN Flagged({cur}) ELSE entry
  /\ UNCHANGED <<stepStill, untried>>

\* Published, whatever dexie says, and in State.
Published ==
  /\ turning /\ cycle = "dexie" /\ cycle' = "tiers"
  /\ entry' = Adopted(cur) /\ cur' = NoOffer
  /\ UNCHANGED <<stepStill, walletVars, untried, unmanaged>>

\* The next pair opens with its cancels; a stop that keeps the book ends Step 8.
PairPosted ==
  /\ turning /\ cycle = "posted"
  /\ cycle' \in IF offers_kept THEN {"tail"} ELSE {"manage", "tail"}
  /\ UNCHANGED <<stepStill, walletVars, entry, cur, untried, unmanaged>>

\* Only a cycle that was not cut short by a stop beats.
CycleEnds ==
  /\ turning /\ cycle = "tail" /\ cycle' = "poll"
  /\ IF stop_requested THEN UNCHANGED <<beat, newer>> ELSE beatNow
  /\ UNCHANGED <<engineStill, allVars, walletVars, entry, cur, untried, unmanaged, called>>

Cycle == \/ Boot \/ Poll \/ Step8Gate \/ StaleCancel \/ StaleAnswered \/ NothingStale
         \/ PostRecheck \/ PostTier \/ CreateAnswered \/ RetractAnswered \/ Published
         \/ PairPosted \/ CycleEnds

-----------------------------------------------------------------------------
(* The operator's Cancel All: read by the poll loop, run beside it.        *)

\* The offers of S are flagged by it.
Flag(S) == /\ entry' = Flagged(S)
           /\ called' = called \cup {o \in S : entry[o] = "open"}
Untold  == UNCHANGED <<entry, called>>

allStill == <<engineStill, beat, newer, cycleVars, unmanaged>>

taken_over == graceful_cancel_active \/ watchdog_fired

\* Mutant: the flag is cleared after the catch only.
LeaveInflight == ca' = "idle" /\ ca_todo' = {} /\ inflight' = inflight

\* The guard clears the flag on every way out, an exception included.
AllThrows == ca' = "idle" /\ ca_todo' = {} /\ inflight' = FALSE

AllEnds == ca' = "idle" /\ ca_todo' = {} /\ inflight' = FALSE

AllStarts ==
  /\ turning /\ cycle = "poll" /\ ~inflight /\ clicks < MaxClicks /\ clicks' = clicks + 1
  /\ ca' = "sweep" /\ inflight' = TRUE /\ draining' = TRUE /\ Send("all", Sweep)
  /\ UNCHANGED <<allStill, ca_todo, entry, called>>

\* A sweep that was taken flags the tracked book; a refused one is followed by a
\* cancel per offer; one that got no answer by a pause.
AllSwept ==
  /\ turning /\ ca = "sweep" /\ Over("all") /\ Take("all")
  /\ \/ Is("all", "accepted") /\ Flag(tracked) /\ AllEnds
     \/ /\ Is("all", "refused") /\ ca' = "each"
        /\ ca_todo' = {o \in Offers : entry[o] = "open"} /\ Untold /\ inflight' = inflight
     \/ /\ Is("all", "unanswered") /\ ca' = "pause" /\ Untold
        /\ UNCHANGED <<ca_todo, inflight>>
  /\ UNCHANGED <<allStill, clicks, draining>>

\* After the pause the tracked offers are asked about, and the ones known to be
\* live are cancelled again, unless another cancel has taken the book over.
AllRechecks ==
  /\ turning /\ ca = "pause"
  /\ \/ taken_over /\ Untold /\ AllEnds
     \/ ~taken_over /\ Untold /\ AllThrows
     \/ /\ ~taken_over /\ ca' = "again" /\ inflight' = inflight
        /\ \E asked \in SUBSET tracked :
             /\ Flag({o \in asked : trade[o] = "pending_cancel"})
             /\ ca_todo' = {o \in asked \cap open : entry[o] = "open"}
  /\ UNCHANGED <<allStill, walletVars, clicks, draining>>

AllCancels ==
  /\ turning /\ ca \in {"each", "again"}
  /\ IF ca_todo = {} \/ (ca = "again" /\ taken_over) THEN AllEnds /\ UNCHANGED walletVars
     ELSE \E o \in ca_todo :
            /\ ca_todo' = ca_todo \ {o} /\ Send("all", <<"cancel", o>>)
            /\ ca' = (IF ca = "each" THEN "each_sent" ELSE "again_sent")
            /\ inflight' = inflight
  /\ UNCHANGED <<allStill, clicks, draining, entry, called>>

AllAnswered ==
  /\ turning /\ ca \in {"each_sent", "again_sent"} /\ Over("all") /\ Take("all")
  /\ Flag(IF Is("all", "accepted") THEN {call["all"].req[2]} ELSE {})
  /\ ca' = IF ca = "each_sent" THEN "each" ELSE "again"
  /\ UNCHANGED <<allStill, clicks, ca_todo, inflight, draining>>

\* What it does of its own, once it has been asked for.
AllGoesOn == AllSwept \/ AllRechecks \/ AllCancels \/ AllAnswered

-----------------------------------------------------------------------------
(* A stop, from any thread; its continuation on the loop; and run().       *)

restStill == <<cycleVars, allVars, switchVars, unmanaged, called>>

\* The stop is latched, and a keep with it, before anything else.
StopLatches ==
  /\ stop = "none" /\ run # "exited" /\ stop' = "latched" /\ stop_requested' = TRUE
  /\ \/ "keep" \in Policies /\ offers_kept' = TRUE /\ watchdog_stop' = TRUE
     \/ "cancel" \in Policies /\ UNCHANGED <<offers_kept, watchdog_stop>>
  /\ UNCHANGED <<restStill, entry, timeVars, walletVars, graceful_cancel_active, bookVars,
                 ioc, run, covered>>

stamped == beatNow

\* A stop is no stall; and a cancel claims the book before it is spawned.
StopSpawns ==
  /\ stop = "latched" /\ stop' = "spawned" /\ stamped
  /\ IF offers_kept THEN UNCHANGED <<claim, graceful_cancel_active>>
     ELSE claim' = 0 /\ graceful_cancel_active' = TRUE
  /\ UNCHANGED <<restStill, entry, walletVars, stop_requested, offers_kept, watchdog_stop,
                 bookVars, ioc, run, covered>>

\* A cancel waits for a Cancel All in flight, a keep for a create in flight.
StopBegins ==
  /\ turning /\ stop = "spawned"
  /\ IF offers_kept THEN stop' = "drain" /\ UNCHANGED walletVars
     ELSE ~inflight /\ stop' = "ladder" /\ Send("stop", Sweep)
  /\ UNCHANGED <<restStill, entry, timeVars, latchVars, bookVars, ioc, run, covered>>

unclaimed == claim' = 0 /\ graceful_cancel_active' = FALSE

\* Taken: the book is flagged.  Not: the fallback, or an exception that skips it.
StopLadder ==
  /\ turning /\ stop = "ladder" /\ Over("stop") /\ Take("stop")
  /\ \/ /\ Is("stop", "accepted") /\ stop' = "teardown"
        /\ entry' = Flagged(tracked) /\ unclaimed
     \/ ~Is("stop", "accepted") /\ stop' = "teardown" /\ entry' = entry /\ unclaimed
     \/ /\ ~Is("stop", "accepted") /\ stop' = "fallback"
        /\ UNCHANGED <<entry, claim, graceful_cancel_active>>
  /\ UNCHANGED <<restStill, beat, newer, stop_requested, offers_kept, watchdog_stop,
                 bookVars, ioc, run, covered>>

StopFallsBack ==
  /\ stop = "fallback" /\ stop' = "falling" /\ CancelBook("stop")
  /\ UNCHANGED <<restStill, entry, timeVars, latchVars, ioc, run, covered>>

StopFellBack ==
  /\ stop = "falling" /\ stop' = "teardown" /\ BookCancelled("stop") /\ unclaimed
  /\ UNCHANGED <<restStill, entry, beat, newer, stop_requested, offers_kept,
                 watchdog_stop, ioc, run, covered>>

\* One create's worst case is waited for, and no more.
StopDrains ==
  /\ turning /\ stop = "drain" /\ stop' = IF posting THEN "abandon" ELSE "teardown"
  /\ UNCHANGED <<restStill, entry, timeVars, walletVars, latchVars, bookVars, ioc, run,
                 covered>>

StopTearsDown ==
  /\ stop \in {"teardown", "abandon"} /\ ioc' = "over"
  /\ stop' = IF stop = "teardown" THEN "down" ELSE "abandoned"
  /\ UNCHANGED <<restStill, entry, timeVars, walletVars, latchVars, bookVars, run, covered>>

\* Nothing but these coroutines is work for the loop.
OutOfWork ==
  /\ ioc = "running" /\ cycle = "dead" /\ ca = "idle" /\ stop \in {"none", "latched"}
  /\ ioc' = "over"
  /\ UNCHANGED <<restStill, entry, timeVars, walletVars, latchVars, bookVars, stop, run,
                 covered>>

RunReturns ==
  /\ run = "loop" /\ ioc = "over" /\ run' = "join" /\ watchdog_stop' = TRUE
  /\ UNCHANGED <<restStill, entry, timeVars, walletVars, stop_requested, offers_kept,
                 graceful_cancel_active, bookVars, stop, ioc, covered>>

\* Mutant: decided while the watchdog thread may still be in its cancel.
NoJoin == TRUE

joined == sw = "exited"

\* An engine that died has its book cancelled, unless the switch has seen to it.
RunDecides ==
  /\ run = "join" /\ joined
  /\ IF stop_requested \/ watchdog_fired
     THEN run' = "exited" /\ UNCHANGED <<bookVars, walletVars>>
     ELSE CancelBook("exit") /\ run' = IF offers_kept THEN "exited" ELSE "cancel"
  /\ UNCHANGED <<restStill, entry, timeVars, latchVars, stop, ioc, covered>>

RunCancelled ==
  /\ run = "cancel" /\ run' = "exited" /\ BookCancelled("exit")
  /\ covered' = (covered \/ Is("exit", "accepted"))
  /\ UNCHANGED <<restStill, entry, timeVars, latchVars, stop, ioc>>

Stop == \/ StopBegins \/ StopLadder \/ StopFallsBack \/ StopFellBack \/ StopDrains
        \/ StopTearsDown
Run  == OutOfWork \/ RunReturns \/ RunDecides \/ RunCancelled

-----------------------------------------------------------------------------
Init ==
  /\ trade = [o \in Offers |-> IF o \in Resting THEN "open" ELSE "absent"]
  /\ call = [c \in Clients |-> Idle] /\ entry = [o \in Offers |-> "absent"]
  /\ beat = 0 /\ newer = FALSE /\ claim = 0
  /\ stop_requested = FALSE /\ offers_kept = FALSE /\ watchdog_stop = FALSE
  /\ graceful_cancel_active = FALSE
  /\ sw = (IF Stall = 0 THEN "exited" ELSE "sleep") /\ fired = FALSE /\ watchdog_fired = FALSE
  /\ mtx = "free" /\ cancel_failed = FALSE
  /\ cycle = "boot" /\ cur = NoOffer /\ untried = Tiers
  /\ clicks = 0 /\ ca = "idle" /\ ca_todo = {} /\ inflight = FALSE /\ draining = FALSE
  /\ stop = "none" /\ ioc = "running" /\ run = "loop"
  /\ covered = FALSE /\ unmanaged = {} /\ called = {}

Next == \/ Wallet \/ Clock \/ Switch \/ Cycle \/ AllStarts \/ AllGoesOn
        \/ StopLatches \/ StopSpawns \/ Stop \/ Run

Spec == Init /\ [][Next]_vars

\* Time passes, a call has a timeout, threads run, and so do the coroutines but
\* the heartbeat's, which may hang anywhere.
FairSpec ==
  /\ Spec /\ WF_vars(Clock) /\ \A c \in Clients : WF_vars(Answer(c))
  /\ WF_vars(Switch) /\ WF_vars(AllGoesOn) /\ WF_vars(StopSpawns) /\ WF_vars(Stop)
  /\ WF_vars(Run)
=============================================================================
