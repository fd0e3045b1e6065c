--------------------------- MODULE WalletRecovery ---------------------------
(***************************************************************************)
(* How the engine lives through an outage of its wallet or its full node:  *)
(* the poll loop that retries an owed wallet start, probes through an open *)
(* circuit and finds a block height; the heartbeat whose wallet steps stop *)
(* at the first unanswered call; and Step 8's sync gate, which restarts a  *)
(* wallet that does not get synced.                                        *)
(*                                                                         *)
(* Instants are kept as ages up to the value they are compared with, the   *)
(* client's counters as what the comparisons with them ask for.            *)
(***************************************************************************)
EXTENDS Integers, FiniteSetsExt

CONSTANTS
  IdleBudget, SyncBudget, MaxBudget, MaxGap, RetryBase, RetryCap,  \* WalletRestartPolicy
  TripFailures,                   \* kWalletCircuitTripFailures
  ProbeInterval,                  \* kWalletProbeInterval
  NodeFailures, NodeSuccesses,    \* kNodeFailuresBeforeWalletFallback, ...BeforeReturn
  NodePolls,                      \* kNodePollsWithoutProgress
  ProbeEvery,                     \* kNodeProbeEveryNPolls
  Modes,                          \* values chia.mode may have
  Work,                           \* how long the wallet's sync takes
  MaxSlips, MaxTimeouts, MaxRefusals  \* bounds: the wallet changes its state by
                                  \* itself, does not answer, a command fails

ASSUME RecoveryAssumption ==
  /\ {IdleBudget, SyncBudget, MaxBudget, RetryBase, RetryCap} \subseteq Nat \ {0}
  /\ {MaxGap, ProbeInterval, MaxSlips, MaxTimeouts, MaxRefusals} \subseteq Nat
  /\ {TripFailures, NodeFailures, NodeSuccesses, NodePolls, ProbeEvery, Work}
       \subseteq Nat \ {0}
  /\ Modes \subseteq {"auto", "full_node", "wallet_only"}

Lesser(x, y) == IF x < y THEN x ELSE y
minus(x, y)  == IF x > y THEN x - y ELSE 0

None == -1      \* no such instant

VARIABLES
  wallet, left, node,       \* the wallet, what is left of its sync; the full node
  mode,                     \* chia.mode
  streak, failed, answered, \* TransportCounters: the streak; a failure since the
                            \* mark, with no answer after it; an answer since the
                            \* start was owed
  circuit, probe_wait,      \* wallet_circuit_open_, wallet_last_probe_
  debt, watch,              \* WalletStartDebt, WalletSyncWatch
  height,                   \* HeightSourceState with what the poll loop adds to it
  at,                       \* where the poll loop is
  slips, timeouts, refusals,
  began, since, managed     \* observers: restarts that began since the wallet was
                            \* last read synced; time since the latest; whether
                            \* Step 8 got through its gate on the latest poll

worldVars  == <<wallet, left, node>>
clientVars == <<streak, failed, answered>>
gateVars   == <<circuit, probe_wait>>
boundVars  == <<slips, timeouts, refusals>>
seenVars   == <<began, since, managed>>
vars == <<worldVars, mode, clientVars, gateVars, debt, watch, height, at, boundVars, seenVars>>

-----------------------------------------------------------------------------
(* wallet_sync_watch.hpp *)

\* `base` doubled n times, never past the cap.
wallet_restart_budget(base, n, cap) ==
  LET budget[i \in 0 .. n] == Lesser(IF i = 0 THEN base ELSE 2 * budget[i - 1], cap)
  IN  budget[n]

\* From this many restarts on, neither budget grows.
capped(n) == \A base \in {IdleBudget, SyncBudget} :
               wallet_restart_budget(base, n, MaxBudget) = MaxBudget
Doublings == Min({n \in 0 .. MaxBudget : capped(n)})
Retries   == Min({n \in 0 .. RetryCap : wallet_restart_budget(RetryBase, n, RetryCap) = RetryCap})

NoWatch == [unsynced |-> None, idle |-> None, observed |-> None, restarts |-> 0]
NoDebt  == [wait |-> None, attempts |-> 0, credit |-> FALSE]

Run(age) == IF age = None THEN 0 ELSE age

\* A reading after a longer silence starts a new streak.
Heard(w) == IF w.observed # None /\ w.observed > MaxGap
            THEN [w EXCEPT !.unsynced = None, !.idle = None] ELSE w

\* The watch after an unsynced reading, and whether it spends a budget.
Unsynced(w, syncing) ==
  [Heard(w) EXCEPT !.observed = 0, !.unsynced = Run(@),
                   !.idle = IF syncing THEN None ELSE Run(@)]
spent(w) ==
  \/ w.idle # None /\ w.idle >= wallet_restart_budget(IdleBudget, w.restarts, MaxBudget)
  \/ w.unsynced >= wallet_restart_budget(SyncBudget, w.restarts, MaxBudget)

Restarted(w) == [w EXCEPT !.restarts = Lesser(@ + 1, Doublings),
                          !.unsynced = None, !.idle = None]

\* Mutant: a start that worked after all does not count as a restart.
Uncredited(w) == w

\* settle_wallet_start: the restart whose stop had worked counts again.
settle(w) == IF debt.credit THEN [w EXCEPT !.restarts = Lesser(@ + 1, Doublings)] ELSE w

-----------------------------------------------------------------------------
(* Calls to the wallet: rpc/transport_evidence.hpp, wallet_circuit.hpp.    *)

up   == wallet \notin {"down", "starting"}
owed == debt.wait # None

\* A call that gets an answer, whose evidence for an owed start is `proves`.
Answered(proves) == /\ up /\ streak' = 0 /\ failed' = FALSE /\ answered' = proves
                    /\ UNCHANGED timeouts
Answers == Answered(owed)
Fails == /\ \/ ~up /\ UNCHANGED timeouts
            \/ up /\ timeouts < MaxTimeouts /\ timeouts' = timeouts + 1
         /\ streak' = Lesser(streak + 1, TripFailures) /\ failed' = TRUE
         /\ UNCHANGED answered

wallet_gate ==
  CASE streak = TripFailures                  -> "OpenCircuit"
    [] streak \in 1 .. TripFailures - 1 /\ failed -> "SkipHeartbeat"
    [] OTHER                                  -> "Run"

may_run == ~circuit /\ wallet_gate = "Run"

\* wallet_step_may_run when it says no.
GateRefuses ==
  /\ ~may_run
  /\ IF ~circuit /\ wallet_gate = "OpenCircuit"
     THEN circuit' = TRUE /\ probe_wait' = ProbeInterval
     ELSE UNCHANGED gateVars

-----------------------------------------------------------------------------
(* The poll loop.                                                          *)

\* Mutant: the start is retried on a heartbeat only.
WhenHeightKnown == owed /\ debt.wait = 0 /\ (up \/ height.source = "node")

start_due == owed /\ debt.wait = 0

GoOn == at' = IF circuit /\ probe_wait = 0 THEN "probe" ELSE "height"

\* What a start command does: nothing to a wallet that runs.
StartCommand == wallet' = IF wallet = "down" THEN "starting" ELSE wallet

Clears == watch' = settle(watch) /\ debt' = NoDebt     \* clear_wallet_start

\* A wallet that has answered since needs no start.
DebtIsSettled ==
  /\ at = "poll" /\ owed /\ answered
  /\ Clears /\ answered' = FALSE /\ GoOn
  /\ UNCHANGED <<worldVars, mode, streak, failed, gateVars, height, boundVars, seenVars>>

OwedStartWorks ==
  /\ at = "poll" /\ ~answered /\ start_due
  /\ StartCommand /\ Clears /\ GoOn
  /\ UNCHANGED <<left, node, mode, clientVars, gateVars, height, boundVars, seenVars>>

OwedStartFails ==
  /\ at = "poll" /\ ~answered /\ start_due
  /\ refusals < MaxRefusals /\ refusals' = refusals + 1
  /\ LET n == Lesser(debt.attempts + 1, Retries)
     IN  debt' = [debt EXCEPT !.attempts = n,
                              !.wait = wallet_restart_budget(RetryBase, n, RetryCap)]
  /\ GoOn
  /\ UNCHANGED <<worldVars, mode, clientVars, gateVars, watch, height, slips, timeouts,
                 seenVars>>

NothingOwed ==
  /\ at = "poll" /\ ~(owed /\ answered) /\ ~(~answered /\ start_due)
  /\ GoOn
  /\ UNCHANGED <<worldVars, mode, clientVars, gateVars, debt, watch, height, boundVars, seenVars>>

Probes == at = "probe" /\ at' = "height" /\ probe_wait' = ProbeInterval

\* The probe through the open circuit: the wallet is back, has an error of its own
\* to report, or is not there.
ProbeAnswered ==
  /\ Probes /\ Answered(FALSE)
  /\ circuit' = FALSE /\ Clears
  /\ UNCHANGED <<worldVars, mode, height, slips, refusals, seenVars>>

ProbeIsRefused ==
  /\ Probes /\ Answers /\ refusals < MaxRefusals /\ refusals' = refusals + 1
  /\ UNCHANGED <<worldVars, mode, circuit, debt, watch, height, slips, seenVars>>

ProbeFails ==
  /\ Probes /\ Fails
  /\ UNCHANGED <<worldVars, mode, circuit, debt, watch, height, slips, refusals, seenVars>>

-----------------------------------------------------------------------------
(* The block height: risk/height_source.hpp and the poll loop around it.   *)

\* A height is beyond the last block, equal to it, or not usable.
node_height == CASE node = "ok"     -> {"new", "same"}
                 [] node = "frozen" -> {"same"}
                 [] node = "dead"   -> {"unusable"}
wallet_height == IF wallet = "synced" THEN {"new", "same"} ELSE {"new", "same", "unusable"}

counted(n, limit) == Lesser(n + 1, limit)

\* Mutant: the engine never leaves the full node.
NeverFallsBack(h, ok) == h

next_height_source(h, ok) ==
  LET fails == IF ok THEN 0 ELSE counted(h.fails, NodeFailures)
      succs == IF ok THEN counted(h.succs, NodeSuccesses) ELSE 0
  IN  CASE mode = "auto" /\ h.source = "node" /\ fails = NodeFailures ->
             [h EXCEPT !.source = "wallet", !.fails = fails, !.succs = 0]
        [] mode = "auto" /\ h.source = "wallet" /\ succs = NodeSuccesses ->
             [h EXCEPT !.source = "node", !.fails = 0, !.succs = succs, !.stuck = 0]
        [] OTHER -> [h EXCEPT !.fails = fails, !.succs = succs]

\* A height beyond the last block starts a heartbeat.
Heartbeat(new) == at' = (IF new THEN "beat" ELSE "poll") /\ managed' = FALSE

\* A node that does not get past the last block for NodePolls polls is dead.
HeightFromNode ==
  /\ at = "height" /\ height.source = "node"
  /\ \E h \in node_height :
       LET stuck == CASE h = "new"  -> 0
                      [] h = "same" -> Lesser(height.stuck + 1, NodePolls)
                      [] OTHER      -> height.stuck
           ok    == h # "unusable" /\ stuck < NodePolls
       IN  /\ height' = next_height_source([height EXCEPT !.stuck = stuck], ok)
           /\ Heartbeat(h = "new")
  /\ UNCHANGED <<worldVars, mode, clientVars, gateVars, debt, watch, boundVars, began,
                 since>>

\* The node is probed from time to time, and returned to.
probe_due == mode = "auto" /\ height.skips + 1 >= ProbeEvery
Skips     == [height EXCEPT !.skips = IF probe_due THEN 0
                                      ELSE Lesser(@ + 1, ProbeEvery)]
node_probe == {"failed"} \cup (node_height \ {"unusable"})

HeightFromWallet ==
  /\ at = "height" /\ height.source = "wallet"
  /\ \E p \in IF probe_due THEN node_probe ELSE {"not asked"},
        h \in (IF up THEN wallet_height ELSE {}) \cup {"no answer"} :
       /\ IF h = "no answer" THEN Fails ELSE Answers
       /\ height' = IF probe_due THEN next_height_source(Skips, p # "failed") ELSE Skips
       /\ p = "same" => h # "new"      \* a node behind the wallet is not accepted
       /\ Heartbeat("new" \in {p, h})
  /\ UNCHANGED <<worldVars, mode, gateVars, debt, watch, slips, refusals, began, since>>

-----------------------------------------------------------------------------
(* The heartbeat.                                                          *)

\* The mark.
BeatStarts ==
  /\ at = "beat" /\ at' = "early" /\ failed' = FALSE
  /\ UNCHANGED <<worldVars, mode, streak, answered, gateVars, debt, watch, height, boundVars,
                 seenVars>>

\* The wallet steps before Step 8, each behind the gate: what the last call got.
EarlierStep ==
  /\ at = "early" /\ may_run /\ (Answers \/ Fails) /\ at' = "step8"
  /\ UNCHANGED <<worldVars, mode, gateVars, debt, watch, height, slips, refusals, seenVars>>

EarlierStepSkipped ==
  /\ at = "early" /\ GateRefuses /\ at' = "step8"
  /\ UNCHANGED <<worldVars, mode, clientVars, debt, watch, height, boundVars, seenVars>>

\* Paused, in a crash, or refused by the gate.
Step8Skipped ==
  /\ at = "step8" /\ at' = "poll"
  /\ GateRefuses \/ UNCHANGED gateVars
  /\ UNCHANGED <<worldVars, mode, clientVars, debt, watch, height, boundVars, seenVars>>

Step8Asks ==
  /\ at = "step8" /\ may_run /\ at' = "sync"
  /\ UNCHANGED <<worldVars, mode, clientVars, gateVars, debt, watch, height, boundVars, seenVars>>

SyncCheckFails ==
  /\ at = "sync" /\ Fails /\ at' = "poll"
  /\ UNCHANGED <<worldVars, mode, gateVars, debt, watch, height, slips, refusals, seenVars>>

\* The gate's reading.  It settles a start still owed before it counts.
ReadsSynced ==
  /\ at = "sync" /\ wallet = "synced" /\ Answered(FALSE) /\ at' = "poll"
  /\ watch' = [NoWatch EXCEPT !.observed = 0] /\ debt' = NoDebt
  /\ managed' = TRUE /\ began' = 0 /\ since' = MaxBudget
  /\ UNCHANGED <<worldVars, mode, gateVars, height, slips, refusals>>

\* A reply without `syncing` reads as syncing, whatever the wallet is doing.
reads_syncing == IF wallet = "idle" THEN BOOLEAN ELSE {TRUE}

ReadsUnsynced ==
  /\ at = "sync" /\ wallet # "synced" /\ Answered(FALSE) /\ at' = "poll"
  /\ \E syncing \in reads_syncing :
       /\ watch' = Unsynced(settle(watch), syncing)
       /\ ~spent(watch')
  /\ debt' = NoDebt
  /\ UNCHANGED <<worldVars, mode, gateVars, height, slips, refusals, seenVars>>

\* Past a budget: stop, then start, each of which may fail.  A restart that failed
\* takes its doubling back, and a start that failed is owed.
Restarts(stops, starts) ==
  /\ at = "sync" /\ wallet # "synced" /\ Answered(FALSE) /\ at' = "poll"
  /\ \E syncing \in reads_syncing :
       LET w == Unsynced(settle(watch), syncing)
       IN  /\ spent(w)
           /\ watch' = IF stops /\ starts THEN Restarted(w)
                       ELSE [w EXCEPT !.unsynced = None, !.idle = None]
  /\ wallet' = CASE stops /\ starts  -> "starting"
                 [] stops /\ ~starts -> "down"
                 [] OTHER            -> wallet
  /\ left' = (IF stops THEN Work ELSE left)
  /\ debt' = IF starts THEN NoDebt ELSE [wait |-> RetryBase, attempts |-> 0, credit |-> stops]
  /\ began' = (IF stops THEN Lesser(began + 1, Doublings) ELSE began)
  /\ since' = (IF stops THEN 0 ELSE since)
  /\ UNCHANGED <<node, mode, gateVars, height, slips, managed>>

RestartWorks == Restarts(TRUE, TRUE) /\ UNCHANGED refusals

RestartFails ==
  /\ \E stops, starts \in BOOLEAN : ~(stops /\ starts) /\ Restarts(stops, starts)
  /\ refusals < MaxRefusals /\ refusals' = refusals + 1

-----------------------------------------------------------------------------
(* The wallet, the node and time.                                          *)

engineStill == <<mode, clientVars, gateVars, debt, watch, height, at, seenVars>>

WalletComesUp ==
  /\ wallet = "starting" /\ wallet' = "syncing"
  /\ UNCHANGED <<left, node, engineStill, boundVars>>

\* It falls behind, loses its peers or finds them again.
WalletSlips ==
  /\ up /\ slips < MaxSlips /\ slips' = slips + 1
  /\ wallet' \in {"idle", "syncing"} \ {wallet} /\ left' = Work
  /\ UNCHANGED <<node, engineStill, timeouts, refusals>>

NodeChanges ==
  /\ slips < MaxSlips /\ slips' = slips + 1
  /\ node' \in {"ok", "frozen", "dead"} \ {node}
  /\ UNCHANGED <<wallet, left, engineStill, timeouts, refusals>>

Older(age, limit) == IF age = None THEN None ELSE Lesser(age + 1, limit)

Tick ==
  /\ left' = (IF wallet = "syncing" THEN minus(left, 1) ELSE left)
  /\ wallet' = (IF wallet = "syncing" /\ left <= 1 THEN "synced" ELSE wallet)
  /\ probe_wait' = minus(probe_wait, 1)
  /\ debt' = [debt EXCEPT !.wait = IF @ = None THEN None ELSE minus(@, 1)]
  /\ watch' = [watch EXCEPT !.unsynced = Older(@, MaxBudget), !.idle = Older(@, MaxBudget),
                            !.observed = Older(@, MaxGap + 1)]
  /\ since' = Lesser(since + 1, MaxBudget)
  /\ UNCHANGED <<node, mode, clientVars, circuit, height, at, boundVars, began, managed>>

-----------------------------------------------------------------------------
Init ==
  /\ wallet \in {"idle", "syncing", "synced"} /\ left = Work /\ node = "ok"
  /\ mode \in Modes
  /\ streak = 0 /\ failed = FALSE /\ answered = FALSE
  /\ circuit = FALSE /\ probe_wait = 0
  /\ debt = NoDebt /\ watch = NoWatch
  /\ \E source \in CASE mode = "wallet_only" -> {"wallet"}
                     [] mode = "full_node"   -> {"node"}
                     [] mode = "auto"        -> {"node", "wallet"} :
       height = [source |-> source, fails |-> 0, succs |-> 0, stuck |-> 0, skips |-> 0]
  /\ at = "poll" /\ slips = 0 /\ timeouts = 0 /\ refusals = 0
  /\ began = 0 /\ since = MaxBudget /\ managed = FALSE

Poll == \/ DebtIsSettled \/ OwedStartWorks \/ OwedStartFails \/ NothingOwed
        \/ ProbeAnswered \/ ProbeIsRefused \/ ProbeFails
        \/ HeightFromNode \/ HeightFromWallet
NewBlock == (HeightFromNode \/ HeightFromWallet) /\ at' = "beat"
Beat == \/ BeatStarts \/ EarlierStep \/ EarlierStepSkipped \/ Step8Skipped \/ Step8Asks
        \/ SyncCheckFails \/ ReadsSynced \/ ReadsUnsynced \/ RestartWorks \/ RestartFails
World == WalletComesUp \/ WalletSlips \/ NodeChanges

Next == Poll \/ Beat \/ World \/ Tick

Spec == Init /\ [][Next]_vars

\* The loop goes on, trading is not paused for good, and the chain grows.
FairSpec ==
  /\ Spec /\ WF_vars(Tick) /\ WF_vars(WalletComesUp) /\ WF_vars(Poll \/ Beat)
  /\ SF_vars(Step8Asks) /\ SF_vars(NewBlock)
=============================================================================
