------------------------------ MODULE WarpSend ------------------------------
(***************************************************************************)
(* The Chia sends of one warp bridge job: the funding of a claim's         *)
(* security coin, or the cat_spend that burns for an unwrap.  A send may   *)
(* be made without an answer, go unnamed, lose its wallet record to the    *)
(* engine's cleanup, lose a coin to another spend, be undone by a          *)
(* reorganisation and surface again; the job judges it on every tick,      *)
(* sends again when it may, and closes when nothing is left to land.       *)
(*                                                                         *)
(* One thread runs ticks and the operator's actions one after the other;   *)
(* the chain, the wallet and its RPC move between them, and the process    *)
(* may die while an RPC is out.  The chain is final at the confirmation    *)
(* depth.  At most one probe of a pass fails.                              *)
(***************************************************************************)
EXTENDS Naturals, FiniteSets, SequencesExt

CONSTANTS
  Coins,        \* the wallet's coins
  Inputs,       \* how many coins a send of each kind spends
  MaxSends,     \* bound: sends the wallet makes for the job
  MaxPolls      \* _PENDING_MAX_POLLS, the deadline of a pending state

ASSUME WarpAssumption ==
  /\ IsFiniteSet(Coins)
  /\ Inputs \in [{"fund", "burn"} -> SUBSET (Nat \ {0})]
  /\ MaxSends \in Nat \ {0} /\ MaxPolls \in Nat \ {0}

Sends      == 1..MaxSends
Tx(a)      == <<"tx", a>>             \* a send by its transaction id
Unnamed(n) == <<"unnamed", n>>        \* a retired send the daemon never named
Unknown    == Unnamed(0)              \* _FUNDING_TX_UNKNOWN
NoTx       == <<"none", 0>>
Keys       == {Tx(a) : a \in Sends} \cup {Unnamed(n) : n \in 0..MaxSends}

VARIABLES
  made,         \* the coins each send spends; {} while it is not made
  by, deep,     \* who spent a coin, and whether that is final
  out, outdeep, \* each send's output, and whether its spend is final
  claim_pushed, sweep_pushed,   \* bundles out for the outputs
  kind,         \* "fund" or "burn"
  job,          \* the job's row in warp_jobs.db
  rpc, before,  \* the send RPC, and what a refusal puts back
  late          \* exclusions of calls given up on that may still run

chainVars  == <<by, deep, out, outdeep>>
pushVars   == <<claim_pushed, sweep_pushed>>
rpcVars    == <<rpc, before, late>>
vars == <<chainVars, made, pushVars, kind, job, rpcVars>>

sent      == {a \in Sends : made[a] # {}}
Nobody    == <<"nobody", 0>>
Other     == <<"other", 0>>           \* an offer, another client of the wallet
Spent(c)  == by[c] # Nobody
Landed(a) == out[a] # "none"
Final(a)  == Landed(a) /\ \A c \in made[a] : deep[c]
CanLand(a) == a \in sent /\ \A c \in made[a] : ~Spent(c)
Parent(a) == CHOOSE c \in made[a] : TRUE  \* the input its output descends from
Unspent   == {a \in sent : out[a] = "unspent"}

-----------------------------------------------------------------------------
(* The books of attempts.                                                  *)

Settled(j) == j.dead \cup j.presumed
Exclusions(coins, done) == UNION {coins[k] : k \in Keys \ done}
Starting   == IF kind = "fund" THEN "FUNDING_CLAIM" ELSE "BURN_SENT"
Polled(j)  == [j EXCEPT !.polls = @ + 1]
AttemptCoins(j) == j.removals \cup UNION {j.coins[k] : k \in Keys}
InPriors(j, k)  == \E i \in DOMAIN j.priors : j.priors[i] = k

NewJob == [status |-> Starting, from |-> Starting, marker |-> NoTx, removals |-> {},
           priors |-> <<>>, coins |-> [k \in Keys |-> {}], dead |-> {}, presumed |-> {},
           exclude |-> {}, seq |-> 0, polls |-> 0, pin |-> 0,
           abandoned |-> FALSE]

\* Retires the send recorded as k and prepares its replacement.
Replacement(j, k, coins, proven) ==
  LET book == IF coins = {} THEN j.coins ELSE [j.coins EXCEPT ![k] = coins]
      dead == IF proven THEN j.dead \cup {k} ELSE j.dead
  IN [j EXCEPT !.marker = NoTx, !.removals = {}, !.coins = book, !.dead = dead,
               !.priors = IF InPriors(j, k) THEN @ ELSE Append(@, k),
               !.seq = IF k[1] = "unnamed" THEN k[2] ELSE @,
               !.exclude = Exclusions(book, dead \cup j.presumed),
               !.pin = IF kind = "burn" THEN 0 ELSE @]

\* The name a retired send that never had one goes by.
UnnamedKey(j) == Unnamed(j.seq + 1)

\* A retired send found in the history takes its real id in every book.
Rekeyed(j, k, a, coins) ==
  LET swap(S) == IF k \in S THEN (S \ {k}) \cup {Tx(a)} ELSE S
      twice   == k # Tx(a) /\ InPriors(j, Tx(a))
      rest    == IF twice THEN SelectSeq(j.priors, LAMBDA p : p # Tx(a)) ELSE j.priors
  IN [j EXCEPT !.priors = [i \in DOMAIN rest |-> IF rest[i] = k THEN Tx(a) ELSE rest[i]],
               !.coins = [[@ EXCEPT ![k] = {}] EXCEPT ![Tx(a)] = coins],
               !.dead = swap(@)]

-----------------------------------------------------------------------------
(* What a pass sees.  The wallet may have deleted any record and shows it  *)
(* again later, and a mempool may hold or have dropped any send that can   *)
(* land: which of them a pass meets is the pass's own.  `fail' is the      *)
(* probe that does not answer; a wallet or a mempool that does not say     *)
(* whether it holds a send is waited for like one that does.               *)

Passes ==
  {see \in [fail : {"none", "coins", "outputs", "history"}, held : SUBSET sent,
            pool : BOOLEAN, newest : BOOLEAN, grace : BOOLEAN] :
     /\ see.pool => \E a \in sent : CanLand(a)
     /\ IF see.fail # "none" THEN see.newest /\ ~see.grace
        ELSE /\ see.newest => Cardinality(see.held) > 1
             /\ see.grace => job.priors # <<>> /\ job.status # Starting}

\* A pass that asks about no send meets the chain alone.
PassesIf(asks) ==
  IF asks THEN Passes
  ELSE [fail : {"none", "coins"}, held : {{}}, pool : {FALSE}, newest : {TRUE}, grace : {FALSE}]

Has(see, a)  == a \in see.held
Pools(see, a) == see.pool /\ CanLand(a)

\* The wallet's records of a send that made this output, but for the attempts
\* on the books.
Hits(see, ids, sets, excluded, required) ==
  {a \in see.held : /\ Tx(a) \notin ids /\ made[a] \notin sets
                    /\ made[a] \cap excluded = {}
                    /\ required = {} \/ made[a] \cap required # {}}

Pick(S, see) == IF S = {} THEN 0 ELSE IF see.newest THEN Max(S) ELSE Min(S)

\* The history scan before a send: what is on the books is not a hit.
Existing(j, required, see) ==
  LET live == UNION {j.coins[k] : k \in Keys \ Settled(j)}
      sets == {j.coins[k] : k \in Keys} \ {{}}
  IN Pick(Hits(see, {j.priors[i] : i \in DOMAIN j.priors}, sets, live, required), see)

\* gather(): the coins a send spent, as recorded or as a record of it says.
Removals(known, a, see) ==
  IF known # {} THEN known
  ELSE IF a # 0 /\ (Has(see, a) \/ Pools(see, a)) THEN made[a] ELSE {}

OutputSeen(coins, unique) ==
  \E b \in sent : Landed(b) /\ (unique \/ Parent(b) \in coins)

\* Mutant: a spend is proof as soon as it is seen.
AtAnyDepth(c) == Spent(c)

AtDepth(c) == Spent(c) /\ deep[c]

\* judge().  a is 0 for a send without a transaction id.
Judged(coins, a, unique, see) ==
  LET spent == see.fail # "coins" /\ \E c \in coins : Spent(c)
      final == see.fail # "coins" /\ \E c \in coins : AtDepth(c)
      wallet == a # 0 /\ Has(see, a)
      memory == a # 0 /\ Pools(see, a)
  IN IF see.fail # "outputs" /\ OutputSeen(coins, unique) THEN "landed"
     ELSE IF wallet /\ Landed(a) THEN "confirmed"
     ELSE IF final THEN IF see.fail = "outputs" THEN "unknown" ELSE "dead"
     ELSE IF spent THEN "shallow"
     ELSE IF wallet \/ memory THEN "alive"
     ELSE IF coins = {} \/ see.fail # "coins" THEN "orphan"
     ELSE "unknown"

Unique(j) == kind = "fund" /\ j.priors = <<>>
Id(k)     == IF k[1] = "tx" THEN k[2] ELSE 0

-----------------------------------------------------------------------------
(* _prior_sends_settled: whether every attempt of a funding job that       *)
(* replaced one is ruled out.  One pass judges them all, in the            *)
(* order of the books, and keeps what it learns: p.job is the row as it    *)
(* goes along, p.named the ids given out, p.live and p.sets the books as   *)
(* the pass found them, p.open whether any attempt keeps the job open.     *)

Attempts(j) == IF j.marker = NoTx THEN j.priors ELSE Append(j.priors, j.marker)
Own(j, k)   == IF k = j.marker THEN j.removals ELSE j.coins[k]

Keeps(p)      == [p EXCEPT !.open = TRUE]
Learns(p, k, coins) ==
  IF k = p.now THEN IF Id(k) = 0 THEN p ELSE [p EXCEPT !.job.removals = coins]
  ELSE [p EXCEPT !.job = Rekeyed(@, k, Id(k), coins)]

\* Mutant: absent on one pass is gone.
GoneAtOnce(p, k, see) == p

\* Absent on this pass, which may be the one that ends the grace of an absence
\* no pass has broken: presumed gone.
Absent(p, k, see) ==
  IF k \in Settled(p.was) THEN p
  ELSE IF see.grace THEN [p EXCEPT !.job.presumed = @ \cup {k}]
  ELSE Keeps(p)

\* The history names a send the daemon did not.
Named(p, coins, see) ==
  LET mine == IF coins = {} THEN {} ELSE {coins}
  IN Pick(Hits(see, {Tx(b) : b \in p.named}, p.sets \ mine, p.live \ coins, coins), see)

\* The verdict on attempt k, asked for by the id a with the coins given.
Weighs(p, k, a, coins, see) ==
  LET known == Removals(coins, a, see)
      v     == Judged(known, a, FALSE, see)
      q     == IF coins = {} /\ known # {} THEN Learns(p, k, known) ELSE p
      mine  == {b \in sent : Landed(b) /\ Parent(b) \in known}
  IN CASE v = "orphan" /\ k # p.now -> Absent(q, k, see)
       [] v = "dead" -> IF k = p.now \/ k \in Settled(p.was) THEN q
                        ELSE [q EXCEPT !.job.dead = @ \cup {k}]
       [] v = "landed" /\ \A b \in mine : out[b] # "unspent" /\ outdeep[b] -> q
       [] OTHER -> Keeps(q)

Judges(p, k, see) ==
  LET coins == Own(p.was, k)
      a     == Named(p, coins, see)
      found == [p EXCEPT !.named = @ \cup {a}]
      adopt == IF k = p.now
               THEN [found EXCEPT !.job.marker = Tx(a), !.job.removals = made[a]]
               ELSE [found EXCEPT !.job = Rekeyed(@, k, a, made[a])]
      books == [adopt EXCEPT !.live = @ \cup made[a], !.sets = @ \cup {made[a]}]
      askedBy(q, b) == Weighs(q, k, b, made[b], see)
      reads == Id(k) = 0 /\ (coins = {} \/ k # p.now)
  IN IF p.cut \/ (k # p.now /\ k \in p.was.dead) THEN p
     ELSE IF reads /\ see.fail = "history" THEN [p EXCEPT !.cut = TRUE]
     ELSE IF ~reads THEN Weighs(p, k, Id(k), coins, see)
     ELSE IF a # 0 THEN askedBy(IF coins = {} THEN books ELSE adopt, a)
     ELSE IF coins # {} THEN Weighs(p, k, 0, coins, see)
     ELSE IF k = p.now THEN Keeps(p) ELSE Absent(p, k, see)

\* A pass before its first attempt.
Opens(j) ==
  LET all   == Attempts(j)
      books == [k \in Keys |-> Own(j, k)]
  IN [job |-> j, was |-> j, now |-> j.marker, open |-> FALSE, cut |-> FALSE,
      named |-> {a \in Sends : \E i \in DOMAIN all : all[i] = Tx(a)},
      live  |-> UNION {books[k] : k \in Keys \ Settled(j)},
      sets  |-> {books[k] : k \in Keys} \ {{}}]

\* The pass after each of its attempts.
Pass(j, see) ==
  LET all == Attempts(j)
      after[i \in 0 .. Len(all)] ==
        IF i = 0 THEN Opens(j) ELSE Judges(after[i - 1], all[i], see)
  IN after

\* A shared probe that fails cuts the pass short.
Settles(j, see) ==
  LET done == Pass(j, see)[Len(Attempts(j))]
  IN IF j.priors = <<>> THEN [job |-> j, settled |-> TRUE]
     ELSE IF see.fail = "outputs" \/ Unspent # {} THEN [job |-> j, settled |-> FALSE]
     ELSE [job |-> done.job, settled |-> ~done.open /\ ~done.cut]

-----------------------------------------------------------------------------
(* Ticks: the deadline, then the handler of the state the job is in.       *)

Pending == {"FUNDING_CLAIM", "BURN_SENT", "CLAIM_FUNDED", "CLAIMING"}
Closed  == {"COMPLETED", "CANCELLED"}
Sending == job.status = Starting
Ticking == rpc = "idle" /\ job.status \in Pending /\ job.polls < MaxPolls

Stays(j) == job' = Polled(j) /\ UNCHANGED <<chainVars, made, pushVars, kind, rpcVars>>
Moves(j, status) == /\ job' = [j EXCEPT !.status = status, !.polls = 0]
                    /\ UNCHANGED <<chainVars, made, pushVars, kind, rpcVars>>

Expire ==
  /\ rpc = "idle" /\ job.status \in Pending /\ job.polls = MaxPolls
  /\ Moves([job EXCEPT !.from = job.status], "FAILED")

\* The coins the completion scan takes for this job's.
Arrived(see) ==
  LET mine      == AttemptCoins(job)
      attempted == mine # {} \/ job.priors # <<>>
      named     == IF job.removals = {} /\ see.fail # "history"
                   THEN {Existing(job, {}, see)} ELSE {}
      ours      == {a \in Unspent : Parent(a) \in mine}
  IN IF kind = "fund" THEN Unspent
     ELSE IF job.pin \in Unspent THEN {job.pin}
     ELSE IF job.pin # 0 THEN ours
     ELSE IF attempted THEN ours \cup (Unspent \cap named) ELSE Unspent

\* _refresh_exclusions, then _send_reserved up to the RPC.
Reserves(j, see) ==
  LET lost == {k \in Keys \ Settled(j) :
                 /\ InPriors(j, k) /\ j.coins[k] # {}
                 /\ Judged(j.coins[k], Id(k), FALSE, see) = "dead"}
      dead == j.dead \cup lost
  IN /\ Cardinality(sent) + Cardinality(late) < MaxSends /\ Len(j.priors) < MaxSends
     /\ job' = [j EXCEPT !.marker = Unknown, !.dead = dead,
                         !.exclude = IF lost = {} THEN @
                                     ELSE Exclusions(j.coins, dead \cup j.presumed)]
     /\ rpc' = "reserved" /\ before' = job
     /\ UNCHANGED <<chainVars, made, pushVars, kind, late>>

Adopts(j, a) == [j EXCEPT !.marker = Tx(a), !.pin = IF kind = "burn" THEN a ELSE @]

\* The rest of a tick that may send: the history first, then what can put the
\* send off (an unsynced wallet, a hold, too little XCH), then the reservation.
SendsAgain(j, see) ==
  LET a == Existing(j, {}, see)
  IN \/ see.fail = "history" /\ Stays(job)
     \/ see.fail # "history" /\ a # 0 /\ Stays(Adopts(j, a))
     \/ see.fail # "history" /\ a = 0 /\ Stays(job)
     \/ see.fail # "history" /\ a = 0 /\ Reserves(j, see)

TickArrived(see) ==
  /\ Sending
  /\ \E a \in Arrived(see) :
       Moves([job EXCEPT !.pin = a], IF kind = "fund" THEN "CLAIM_FUNDED" ELSE "BURNING")

TickUnsent(see) ==
  /\ Sending /\ Arrived(see) = {} /\ job.marker = NoTx
  /\ SendsAgain(job, see)

\* _judge_recorded_send of a send the daemon never named.
TickUnnamed(see) ==
  LET a == Existing(job, job.removals, see)
      v == Judged(job.removals, 0, Unique(job), see)
  IN /\ Sending /\ Arrived(see) = {} /\ job.marker = Unknown
     /\ IF see.fail = "history" THEN Stays(job)
        ELSE IF a # 0 THEN Stays(Adopts(job, a))
        ELSE IF job.removals # {} /\ v = "dead"
        THEN SendsAgain(Replacement(job, UnnamedKey(job), job.removals, TRUE), see)
        ELSE Stays(job)

\* ... and of one it did.
TickRecorded(see) ==
  LET a     == Id(job.marker)
      coins == Removals(job.removals, a, see)
      v     == Judged(coins, a, Unique(job), see)
  IN /\ Sending /\ Arrived(see) = {} /\ a # 0
     /\ IF v = "dead" THEN SendsAgain(Replacement(job, job.marker, coins, TRUE), see)
        ELSE Stays([job EXCEPT !.removals = coins])

TickFunded(see) ==
  /\ job.status = "CLAIM_FUNDED"
  /\ IF see.fail # "coins" /\ job.pin \in Unspent /\ Final(job.pin)
     THEN Moves(job, "CLAIMING") ELSE Stays(job)

Pushes(a) == /\ sweep_pushed' = sweep_pushed \cup {a} /\ job' = Polled(job)
             /\ UNCHANGED <<chainVars, made, claim_pushed, kind, rpcVars>>

Claimed == job.pin # 0 /\ out[job.pin] = "claimed"

TickClaiming(see) ==
  LET over == Claimed /\ outdeep[job.pin] /\ see.fail # "coins"
      s    == Settles(job, see)
  IN /\ job.status = "CLAIMING"
     /\ \/ over /\ s.settled /\ Moves(s.job, "COMPLETED")
        \/ over /\ ~s.settled /\ Unspent = {} /\ Stays(s.job)
        \/ over /\ ~s.settled /\ \E a \in Unspent : Pushes(a)
        \/ ~over /\ out[job.pin] # "unspent" /\ Stays(job)
        \/ /\ ~over /\ out[job.pin] = "unspent" /\ job' = Polled(job)
           /\ claim_pushed' \in {claim_pushed, TRUE}
           /\ UNCHANGED <<chainVars, made, sweep_pushed, kind, rpcVars>>

Tick ==
  \/ Expire
  \/ /\ Ticking
     /\ \E see \in PassesIf(Sending \/ job.priors # <<>>) :
          \/ TickArrived(see) \/ TickUnsent(see) \/ TickUnnamed(see)
          \/ TickRecorded(see) \/ TickFunded(see) \/ TickClaiming(see)

-----------------------------------------------------------------------------
(* The send RPC.  The reservation is on disk; the answer, the refusal that *)
(* puts the row back, or neither follows.                                  *)

Calls(n, excluded) ==
  \E S \in SUBSET Coins :
    /\ Cardinality(S) \in Inputs[kind]
    /\ \A c \in S : c \notin excluded /\ ~Spent(c)
    /\ made' = [made EXCEPT ![n] = S]

NextSend == Cardinality(sent) + 1

WalletSends ==
  /\ rpc = "reserved" /\ Calls(NextSend, job.exclude)
  /\ rpc' = "made" /\ before' = NewJob
  /\ UNCHANGED <<chainVars, pushVars, kind, job, late>>

\* The answer may name the transaction or not, and list its coins or not.
Answered ==
  /\ rpc = "made" /\ rpc' = "idle"
  /\ LET n == Cardinality(sent)
     IN \E id \in {Tx(n), Unknown} : \E coins \in {made[n], {}} :
          job' = [Polled(job) EXCEPT !.marker = id, !.removals = coins, !.exclude = {},
                                     !.pin = IF kind = "burn" /\ coins # {} THEN n ELSE @]
  /\ UNCHANGED <<chainVars, made, pushVars, kind, before, late>>

\* The daemon's own rejection, or a connection that was never made.
Refused ==
  /\ rpc = "reserved" /\ rpc' = "idle" /\ job' = Polled(before) /\ before' = NewJob
  /\ UNCHANGED <<chainVars, made, pushVars, kind, late>>

GivesUp == /\ rpc' = "idle" /\ before' = NewJob
           /\ late' \in {late, IF rpc = "reserved" THEN late \cup {job.exclude} ELSE late}

\* Mutant: a call that got no answer is one that was refused.
LikeARefusal == before

LeftRecorded == job

\* A timeout, or a reset: the call has run, will run, or never will.
NoAnswer == /\ rpc # "idle" /\ GivesUp /\ job' = Polled(LeftRecorded)
            /\ UNCHANGED <<chainVars, made, pushVars, kind>>

Crash    == /\ rpc # "idle" /\ GivesUp
            /\ UNCHANGED <<chainVars, made, pushVars, kind, job>>

\* The wallet runs one call at a time and answers it with its own send.
RunsLate ==
  \E excluded \in late :
    /\ rpc # "made" /\ Calls(NextSend, excluded) /\ late' = late \ {excluded}
    /\ UNCHANGED <<chainVars, pushVars, kind, job, rpc, before>>

RpcEnds == Answered \/ Refused \/ NoAnswer

-----------------------------------------------------------------------------
(* The operator.                                                           *)

Rewrites(j) == job' = j /\ UNCHANGED <<chainVars, made, pushVars, kind, rpcVars>>

\* Mutant: a cat_spend nobody sees is released like a funding.
AnyOrphan(known, v) == v \in {"dead", "orphan"} \/ ~known

\* A cat_spend is released only when it is proven dead.
MayRelease(known, v) ==
  \/ known /\ v = "dead"
  \/ kind = "fund" /\ (v = "orphan" \/ ~known)

\* _release_recorded_send.
Released(see) ==
  LET a       == Id(job.marker)
      coins   == Removals(job.removals, a, see)
      v       == Judged(coins, a, Unique(job), see)
      key     == IF job.marker = Unknown THEN UnnamedKey(job) ELSE job.marker
      known   == job.marker # Unknown \/ coins # {}
      found   == job.marker = Unknown /\ Existing(job, job.removals, see) # 0
  IN IF job.marker = NoTx \/ found \/ ~MayRelease(known, v) THEN job
     ELSE Replacement(job, key, coins, known /\ v = "dead")

Retry ==
  /\ rpc = "idle" /\ job.status = "FAILED"
  /\ \E see \in PassesIf(job.from = Starting /\ job.marker # NoTx) :
       /\ ~(job.from = Starting /\ job.marker = Unknown /\ see.fail = "history")
       /\ Rewrites([IF job.from = Starting THEN Released(see) ELSE job
                    EXCEPT !.status = job.from])
       /\ Len(job'.priors) < MaxSends

\* A sweep pushes for a coin at the key, and closes the job once none is left.
SweepPushes ==
  /\ rpc = "idle" /\ kind = "fund"
  /\ job.status = "FAILED"
  /\ \E a \in Unspent :
       /\ sweep_pushed' = sweep_pushed \cup {a}
       /\ job' = [job EXCEPT !.pin = IF @ = 0 THEN a ELSE @]
  /\ UNCHANGED <<chainVars, made, claim_pushed, kind, rpcVars>>

SweepEnds ==
  /\ rpc = "idle" /\ kind = "fund" /\ job.status = "FAILED" /\ Unspent = {}
  /\ \E see \in PassesIf(job.priors # <<>>) :
       LET unfunded == job.marker = NoTx /\ job.pin = 0
           gone     == job.pin # 0 /\ Landed(job.pin) /\ see.fail # "coins"
           s        == Settles(job, see)
           closes   == (unfunded \/ gone \/ job.priors # <<>>) /\ s.settled
       IN Rewrites(IF closes THEN [s.job EXCEPT !.status =
                                     IF Claimed THEN "COMPLETED" ELSE "CANCELLED"]
                   ELSE s.job)

Abandon ==
  /\ rpc = "idle" /\ job.status = "FAILED"
  /\ Rewrites([job EXCEPT !.abandoned = TRUE,
                          !.status = IF Claimed THEN "COMPLETED" ELSE "CANCELLED"])

Operator == Retry \/ SweepPushes \/ SweepEnds \/ Abandon

-----------------------------------------------------------------------------
(* The chain, and other spends of the wallet's coins.                      *)

Chain(b, d, o, od) ==
  /\ by' = b /\ deep' = d /\ out' = o /\ outdeep' = od
  /\ UNCHANGED <<made, pushVars, kind, job, rpcVars>>

With(f, S, v) == [x \in DOMAIN f |-> IF x \in S THEN v ELSE f[x]]

Lands(a) ==
  /\ CanLand(a)
  /\ Chain(With(by, made[a], Tx(a)), deep, With(out, {a}, "unspent"), outdeep)

\* An offer, another client: any spend of a coin that a send spends.
TakesCoin(c) ==
  /\ ~Spent(c) /\ \E a \in sent : c \in made[a]
  /\ Chain(With(by, {c}, Other), deep, out, outdeep)

BurySend(a) == /\ Landed(a) /\ ~Final(a)
               /\ Chain(by, With(deep, made[a], TRUE), out, outdeep)
BuryTake(c) == /\ by[c] = Other /\ ~deep[c]
               /\ Chain(by, With(deep, {c}, TRUE), out, outdeep)
UndoSend(a) == /\ Landed(a) /\ ~Final(a)
               /\ Chain(With(by, made[a], Nobody), deep, With(out, {a}, "none"), outdeep)
UndoTake(c) == /\ by[c] = Other /\ ~deep[c]
               /\ Chain(With(by, {c}, Nobody), deep, out, outdeep)

SpendsOut(a) ==
  /\ out[a] = "unspent"
  /\ \/ claim_pushed /\ a = job.pin /\ Chain(by, deep, With(out, {a}, "claimed"), outdeep)
     \/ a \in sweep_pushed /\ Chain(by, deep, With(out, {a}, "swept"), outdeep)
BuryOut(a) == /\ out[a] \in {"claimed", "swept"} /\ Final(a) /\ ~outdeep[a]
              /\ Chain(by, deep, out, With(outdeep, {a}, TRUE))
UndoOut(a) == /\ out[a] \in {"claimed", "swept"} /\ ~outdeep[a]
              /\ Chain(by, deep, With(out, {a}, "unspent"), outdeep)

World == \/ \E a \in Sends : \/ Lands(a) \/ BurySend(a) \/ UndoSend(a) \/ SpendsOut(a)
                            \/ BuryOut(a) \/ UndoOut(a)
         \/ \E c \in Coins : TakesCoin(c) \/ BuryTake(c) \/ UndoTake(c)

-----------------------------------------------------------------------------
Init ==
  /\ made = [a \in Sends |-> {}]
  /\ by = [c \in Coins |-> Nobody] /\ deep = [c \in Coins |-> FALSE]
  /\ out = [a \in Sends |-> "none"] /\ outdeep = [a \in Sends |-> FALSE]
  /\ claim_pushed = FALSE /\ sweep_pushed = {}
  /\ kind \in {"fund", "burn"} /\ job = NewJob
  /\ rpc = "idle" /\ before = NewJob /\ late = {}

\* A closed job is left alone; a burn is watched beyond it.
Over == job.status \in Closed /\ kind = "fund"

Next == Tick \/ WalletSends \/ RpcEnds \/ Crash \/ Operator
        \/ (~Over /\ RunsLate) \/ (~Over /\ World)
Spec == Init /\ [][Next]_vars
=============================================================================
