----------------------- MODULE WalletRecovery_proofs -----------------------
(***************************************************************************)
(* Restarts back off, for any budgets, delays, thresholds and outages.     *)
(*                                                                         *)
(* RecoveryInv ties the watch to the restarts that were seen to begin: a   *)
(* streak is no older than the latest restart that stopped the wallet, and *)
(* the watch, once the owed start is settled, has counted each of them.    *)
(* The first part of the module is about the budget's loop: what it        *)
(* returns, that a larger base never gets a smaller budget, and that no    *)
(* budget grows past the count the model stops at.                         *)
(***************************************************************************)
EXTENDS WalletRecoveryProps, WellFoundedInduction, TLAPS

-----------------------------------------------------------------------------
(* wallet_restart_budget.                                                  *)

\* The loop's passes: f[i] is the budget after i of them.
IsLoop(f, base, n, cap) ==
  f = [i \in 0 .. n |-> Lesser(IF i = 0 THEN base ELSE 2 * f[i - 1], cap)]

\* Induction on sets: what holds of 0, and of k + 1 when it holds of k, holds of
\* every number.
LEMMA Induction ==
  ASSUME NEW T \in SUBSET Nat, 0 \in T, \A k \in T : k + 1 \in T
  PROVE  T = Nat
<1> DEFINE R == OpToRel(<, Nat)
           Bad == Nat \ T
<1>1. IsWellFoundedOn(R, Nat)
  BY NatLessThanWellFounded
<1>2. \A x, y \in Nat : y < x => <<y, x>> \in R
  BY DEF OpToRel
<1> HIDE DEF R
<1> SUFFICES ASSUME Bad # {} PROVE FALSE
  OBVIOUS
<1>3. PICK x \in Bad : \A y \in Bad : ~(<<y, x>> \in R)
  BY <1>1, WFMin
<1>4. x # 0 /\ x \in Nat /\ x - 1 \in Nat /\ x - 1 < x
  BY <1>3
<1>5. x - 1 \in T
  BY <1>2, <1>3, <1>4
<1>6. (x - 1) + 1 \in T
  BY <1>5
<1> QED BY <1>3, <1>4, <1>6

\* The loop can be run, whatever the number of its passes.
LEMMA LoopRuns ==
  ASSUME NEW base \in Nat, NEW n \in Nat, NEW cap \in Nat
  PROVE  \E f : IsLoop(f, base, n, cap)
<1> DEFINE T == {k \in Nat : \E f : IsLoop(f, base, k, cap)}
<1>1. 0 \in T
  <2>1. IsLoop([i \in 0 .. 0 |-> Lesser(base, cap)], base, 0, cap)
    BY DEF IsLoop
  <2> QED BY <2>1
<1>2. ASSUME NEW k \in T PROVE k + 1 \in T
  <2>1. PICK f : IsLoop(f, base, k, cap)
    OBVIOUS
  <2> DEFINE g == [i \in 0 .. (k + 1) |-> IF i = k + 1 THEN Lesser(2 * f[k], cap) ELSE f[i]]
  <2>2. ASSUME NEW i \in 0 .. (k + 1)
        PROVE  g[i] = Lesser(IF i = 0 THEN base ELSE 2 * g[i - 1], cap)
    <3>1. CASE i = k + 1
      BY <3>1
    <3>2. CASE i # k + 1
      <4>1. i \in 0 .. k /\ (i # 0 => i - 1 \in 0 .. (k + 1) /\ i - 1 # k + 1)
        BY <3>2
      <4>2. f[i] = Lesser(IF i = 0 THEN base ELSE 2 * f[i - 1], cap)
        BY <2>1, <4>1 DEF IsLoop
      <4> QED BY <3>2, <4>1, <4>2
    <3> QED BY <3>1, <3>2
  <2>3. g = [i \in 0 .. (k + 1) |-> g[i]]
    OBVIOUS
  <2> HIDE DEF g
  <2>4. IsLoop(g, base, k + 1, cap)
    BY <2>2, <2>3 DEF IsLoop
  <2> QED BY <2>4
<1> HIDE DEF T
<1>3. T = Nat
  <2>1. T \in SUBSET Nat
    BY DEF T
  <2> QED BY <1>1, <1>2, <2>1, Induction
<1> QED BY <1>3 DEF T

\* The budget is the last pass of such a run.
LEMMA BudgetIsLoop ==
  ASSUME NEW base \in Nat, NEW n \in Nat, NEW cap \in Nat
  PROVE  \E f : IsLoop(f, base, n, cap) /\ wallet_restart_budget(base, n, cap) = f[n]
<1> DEFINE f == CHOOSE f : IsLoop(f, base, n, cap)
<1>1. IsLoop(f, base, n, cap)
  BY LoopRuns
<1>2. wallet_restart_budget(base, n, cap) = f[n]
  BY DEF wallet_restart_budget, IsLoop
<1> QED BY <1>1, <1>2

\* wallet_restart_budget doubles `base` once for every restart, up to the cap.
THEOREM BudgetDoubles ==
  ASSUME NEW base \in Nat, NEW n \in Nat, NEW cap \in Nat
  PROVE  /\ wallet_restart_budget(base, 0, cap) = Lesser(base, cap)
         /\ wallet_restart_budget(base, n + 1, cap)
              = Lesser(2 * wallet_restart_budget(base, n, cap), cap)
<1>1. wallet_restart_budget(base, 0, cap) = Lesser(base, cap)
  BY BudgetIsLoop DEF IsLoop
<1>2. PICK f : IsLoop(f, base, n, cap) /\ wallet_restart_budget(base, n, cap) = f[n]
  BY BudgetIsLoop
<1>3. PICK g : IsLoop(g, base, n + 1, cap) /\ wallet_restart_budget(base, n + 1, cap) = g[n + 1]
  BY BudgetIsLoop
<1> DEFINE T == {k \in Nat : k <= n => f[k] = g[k]}
<1>4. T = Nat
  <2>1. 0 \in T
    BY <1>2, <1>3 DEF IsLoop
  <2>2. ASSUME NEW k \in T PROVE k + 1 \in T
    <3> SUFFICES ASSUME k + 1 <= n PROVE f[k + 1] = g[k + 1]
      OBVIOUS
    <3>1. f[k] = g[k] /\ k + 1 \in 0 .. n /\ k + 1 \in 0 .. (n + 1) /\ k + 1 # 0
      OBVIOUS
    <3>2. f[k + 1] = Lesser(2 * f[k], cap)
      BY <1>2, <3>1 DEF IsLoop
    <3>3. g[k + 1] = Lesser(2 * g[k], cap)
      BY <1>3, <3>1 DEF IsLoop
    <3> QED BY <3>1, <3>2, <3>3
  <2>3. T \in SUBSET Nat
    OBVIOUS
  <2> HIDE DEF T
  <2> QED BY <2>1, <2>2, <2>3, Induction
<1>5. g[n + 1] = Lesser(2 * g[n], cap)
  BY <1>3 DEF IsLoop
<1> QED BY <1>1, <1>2, <1>3, <1>4, <1>5

\* A budget is a length of time, and never past the cap.
LEMMA BudgetType ==
  ASSUME NEW base \in Nat, NEW n \in Nat, NEW cap \in Nat
  PROVE  wallet_restart_budget(base, n, cap) \in 0 .. cap
<1> DEFINE T == {k \in Nat : wallet_restart_budget(base, k, cap) \in 0 .. cap}
<1>1. 0 \in T
  BY BudgetDoubles DEF Lesser
<1>2. ASSUME NEW k \in T PROVE k + 1 \in T
  <2>1. wallet_restart_budget(base, k + 1, cap)
          = Lesser(2 * wallet_restart_budget(base, k, cap), cap)
    BY BudgetDoubles
  <2> QED BY <2>1 DEF Lesser
<1>3. T \in SUBSET Nat
  OBVIOUS
<1> HIDE DEF T
<1>4. T = Nat
  BY <1>1, <1>2, <1>3, Induction
<1> QED BY <1>4 DEF T

\* A larger base never gets a smaller budget.
LEMMA BudgetGrowsWithBase ==
  ASSUME NEW b \in Nat, NEW c \in Nat, b <= c, NEW n \in Nat, NEW cap \in Nat
  PROVE  wallet_restart_budget(b, n, cap) <= wallet_restart_budget(c, n, cap)
<1> DEFINE T == {k \in Nat : wallet_restart_budget(b, k, cap) <= wallet_restart_budget(c, k, cap)}
<1>1. 0 \in T
  BY BudgetDoubles DEF Lesser
<1>2. ASSUME NEW k \in T PROVE k + 1 \in T
  <2>1. /\ wallet_restart_budget(b, k + 1, cap) = Lesser(2 * wallet_restart_budget(b, k, cap), cap)
        /\ wallet_restart_budget(c, k + 1, cap) = Lesser(2 * wallet_restart_budget(c, k, cap), cap)
    BY BudgetDoubles
  <2>2. /\ wallet_restart_budget(b, k, cap) \in 0 .. cap
        /\ wallet_restart_budget(c, k, cap) \in 0 .. cap
    BY BudgetType
  <2> QED BY <2>1, <2>2 DEF Lesser
<1>3. T \in SUBSET Nat
  OBVIOUS
<1> HIDE DEF T
<1>4. T = Nat
  BY <1>1, <1>2, <1>3, Induction
<1> QED BY <1>4 DEF T

\* As many restarts as the cap has seconds are enough to reach it.
LEMMA BudgetReachesCap ==
  ASSUME NEW base \in Nat \ {0}, NEW cap \in Nat
  PROVE  wallet_restart_budget(base, cap, cap) = cap
<1> DEFINE T == {k \in Nat : wallet_restart_budget(base, k, cap) >= Lesser(k + 1, cap)}
<1>1. 0 \in T
  BY BudgetDoubles DEF Lesser
<1>2. ASSUME NEW k \in T PROVE k + 1 \in T
  <2>1. wallet_restart_budget(base, k + 1, cap)
          = Lesser(2 * wallet_restart_budget(base, k, cap), cap)
    BY BudgetDoubles
  <2>2. wallet_restart_budget(base, k, cap) \in 0 .. cap
    BY BudgetType
  <2> QED BY <2>1, <2>2 DEF Lesser
<1>3. T \in SUBSET Nat
  OBVIOUS
<1> HIDE DEF T
<1>4. T = Nat
  BY <1>1, <1>2, <1>3, Induction
<1>5. wallet_restart_budget(base, cap, cap) >= Lesser(cap + 1, cap)
  BY <1>4 DEF T
<1>6. wallet_restart_budget(base, cap, cap) \in 0 .. cap
  BY BudgetType
<1> QED BY <1>5, <1>6 DEF Lesser

\* A budget at the cap stays there.
LEMMA BudgetStaysCapped ==
  ASSUME NEW base \in Nat, NEW cap \in Nat, NEW n \in Nat, NEW m \in Nat, n <= m,
         wallet_restart_budget(base, n, cap) = cap
  PROVE  wallet_restart_budget(base, m, cap) = cap
<1> DEFINE T == {k \in Nat : wallet_restart_budget(base, n + k, cap) = cap}
<1>1. 0 \in T
  OBVIOUS
<1>2. ASSUME NEW k \in T PROVE k + 1 \in T
  <2>1. wallet_restart_budget(base, (n + k) + 1, cap)
          = Lesser(2 * wallet_restart_budget(base, n + k, cap), cap)
    BY BudgetDoubles
  <2>2. n + (k + 1) = (n + k) + 1
    OBVIOUS
  <2> QED BY <2>1, <2>2 DEF Lesser
<1>3. T \in SUBSET Nat
  OBVIOUS
<1> HIDE DEF T
<1>4. m - n \in T
  BY <1>1, <1>2, <1>3, Induction
<1>5. n + (m - n) = m
  OBVIOUS
<1> QED BY <1>4, <1>5 DEF T

\* A set of numbers has a least one.
LEMMA Least ==
  ASSUME NEW S \in SUBSET Nat, S # {}
  PROVE  Min(S) \in S /\ \A y \in S : Min(S) <= y
<1> DEFINE T == {k \in Nat : \A y \in S : k <= y}
<1>1. \E x \in S : \A y \in S : x <= y
  <2> SUFFICES ASSUME \A x \in S : x \notin T PROVE FALSE
    OBVIOUS
  <2>1. 0 \in T
    OBVIOUS
  <2>2. ASSUME NEW k \in T PROVE k + 1 \in T
    <3>1. k \in Nat /\ k \notin S
      OBVIOUS
    <3>2. ASSUME NEW y \in S PROVE k + 1 <= y
      <4>1. k <= y /\ y # k /\ y \in Nat
        BY <3>1
      <4> QED BY <3>1, <4>1
    <3> QED BY <3>1, <3>2
  <2>3. T \in SUBSET Nat
    OBVIOUS
  <2>4. T = Nat
    <3> HIDE DEF T
    <3> QED BY <2>1, <2>2, <2>3, Induction
  <2>5. PICK y \in S : TRUE
    OBVIOUS
  <2>6. y \in T
    BY <2>4
  <2> QED BY <2>5, <2>6
<1> QED BY <1>1 DEF Min

\* The counts of the model stop where they stop to matter: from Doublings restarts
\* on both budgets are at the cap, and from Retries failed starts on the delay is,
\* and not before.
THEOREM CountsSuffice ==
  /\ Doublings \in Nat /\ \A n \in Nat : capped(n) <=> Doublings <= n
  /\ Retries \in Nat
  /\ \A n \in Nat : wallet_restart_budget(RetryBase, n, RetryCap) = RetryCap <=> Retries <= n
<1>0. /\ IdleBudget \in Nat \ {0} /\ SyncBudget \in Nat \ {0} /\ MaxBudget \in Nat
      /\ RetryBase \in Nat \ {0} /\ RetryCap \in Nat
  BY RecoveryAssumption DEF RecoveryAssumption
<1>1. Doublings \in Nat /\ \A n \in Nat : capped(n) <=> Doublings <= n
  <2> DEFINE S == {n \in 0 .. MaxBudget : capped(n)}
  <2>1. MaxBudget \in S
    BY <1>0, BudgetReachesCap DEF capped
  <2>2. S \in SUBSET Nat /\ S # {}
    BY <1>0, <2>1
  <2>3. Doublings \in S /\ \A y \in S : Doublings <= y
    <3> HIDE DEF S
    <3>1. Min(S) \in S /\ \A y \in S : Min(S) <= y
      BY <2>2, Least
    <3> QED BY <3>1 DEF Doublings, S
  <2>4. ASSUME NEW n \in Nat, Doublings <= n PROVE capped(n)
    <3>1. Doublings \in Nat /\ capped(Doublings)
      BY <1>0, <2>3
    <3> QED BY <1>0, <2>4, <3>1, BudgetStaysCapped DEF capped
  <2>5. ASSUME NEW n \in Nat, capped(n) PROVE Doublings <= n
    <3>1. CASE n <= MaxBudget
      BY <1>0, <2>3, <2>5, <3>1
    <3>2. CASE ~(n <= MaxBudget)
      BY <1>0, <2>3, <3>2
    <3> QED BY <3>1, <3>2
  <2> QED BY <1>0, <2>3, <2>4, <2>5
<1>2. /\ Retries \in Nat
      /\ \A n \in Nat : wallet_restart_budget(RetryBase, n, RetryCap) = RetryCap <=> Retries <= n
  <2> DEFINE S == {n \in 0 .. RetryCap : wallet_restart_budget(RetryBase, n, RetryCap) = RetryCap}
  <2>1. RetryCap \in S
    BY <1>0, BudgetReachesCap
  <2>2. S \in SUBSET Nat /\ S # {}
    BY <1>0, <2>1
  <2>3. Retries \in S /\ \A y \in S : Retries <= y
    <3> HIDE DEF S
    <3>1. Min(S) \in S /\ \A y \in S : Min(S) <= y
      BY <2>2, Least
    <3> QED BY <3>1 DEF Retries, S
  <2>4. ASSUME NEW n \in Nat, Retries <= n
        PROVE  wallet_restart_budget(RetryBase, n, RetryCap) = RetryCap
    <3>1. Retries \in Nat /\ wallet_restart_budget(RetryBase, Retries, RetryCap) = RetryCap
      BY <1>0, <2>3
    <3> QED BY <1>0, <2>4, <3>1, BudgetStaysCapped
  <2>5. ASSUME NEW n \in Nat, wallet_restart_budget(RetryBase, n, RetryCap) = RetryCap
        PROVE  Retries <= n
    <3>1. CASE n <= RetryCap
      BY <1>0, <2>3, <2>5, <3>1
    <3>2. CASE ~(n <= RetryCap)
      BY <1>0, <2>3, <3>2
    <3> QED BY <3>1, <3>2
  <2> QED BY <1>0, <2>3, <2>4, <2>5
<1> QED BY <1>1, <1>2

-----------------------------------------------------------------------------
(* The watch and the restarts that began.                                  *)

\* A streak's age, or none.
Streaks(limit) == {None} \cup 0 .. limit

\* A streak is no older than the latest restart that stopped the wallet.
StreakIsFresh ==
  /\ since \in 0 .. MaxBudget
  /\ watch.unsynced \in Streaks(since) /\ watch.idle \in Streaks(since)

\* With the owed start settled, the watch has counted every restart that began.
EachIsCounted == began \in Nat /\ settle(watch).restarts = began

\* What the watch and the debt are made of.
Watches == [unsynced : Int, idle : Int, observed : Int, restarts : Nat]

Shapes ==
  /\ watch \in Watches
  /\ DOMAIN debt = {"wait", "attempts", "credit"}

RecoveryInv == Shapes /\ StreakIsFresh /\ EachIsCounted

\* What the proofs use of the constants.
RecoveryTypes == /\ IdleBudget \in Nat \ {0} /\ SyncBudget \in Nat \ {0}
                 /\ MaxBudget \in Nat \ {0} /\ MaxGap \in Nat /\ Doublings \in Nat

\* The assumption and the counts say so.
LEMMA Constants == RecoveryTypes
BY RecoveryAssumption, CountsSuffice DEF RecoveryAssumption, RecoveryTypes

\* The engine starts with no streak, no debt and nothing begun.
LEMMA InitRecovers == Init => RecoveryInv
<1> SUFFICES ASSUME Init PROVE RecoveryInv
  OBVIOUS
<1> USE Constants
<1>1. watch = NoWatch /\ debt = NoDebt /\ began = 0 /\ since = MaxBudget
  BY DEF Init
<1>2. Shapes
  BY <1>1 DEF Shapes, Watches, NoWatch, NoDebt, None
<1>3. StreakIsFresh
  BY <1>1 DEF StreakIsFresh, Streaks, NoWatch, RecoveryTypes
<1>4. EachIsCounted
  BY <1>1 DEF EachIsCounted, settle, NoWatch, NoDebt
<1> QED BY <1>2, <1>3, <1>4 DEF RecoveryInv

\* A settled watch keeps its streaks, and its count is a number.
LEMMA Settled ==
  ASSUME RecoveryInv
  PROVE  /\ settle(watch) \in Watches
         /\ settle(watch).unsynced = watch.unsynced /\ settle(watch).idle = watch.idle
         /\ settle(watch).restarts = began
BY DEF RecoveryInv, Shapes, Watches, EachIsCounted, settle

\* An owed start that is settled: its restart is counted now.
LEMMA ClearKeeps ==
  ASSUME RecoveryInv, Clears, UNCHANGED <<began, since>>
  PROVE  RecoveryInv'
<1>1. Shapes'
  BY Settled DEF Clears, Shapes, NoDebt
<1>2. StreakIsFresh'
  BY Settled DEF Clears, StreakIsFresh, RecoveryInv
<1>3. EachIsCounted'
  <2>1. watch'.restarts = began /\ ~debt'.credit
    BY Settled DEF Clears, NoDebt
  <2> QED BY <2>1 DEF EachIsCounted, RecoveryInv, settle
<1> QED BY <1>1, <1>2, <1>3 DEF RecoveryInv

\* A start that fails again leaves its credit.
LEMMA FailedStartKeeps ==
  ASSUME RecoveryInv, OwedStartFails
  PROVE  RecoveryInv'
<1>1. /\ watch' = watch /\ began' = began /\ since' = since
      /\ DOMAIN debt' = DOMAIN debt /\ debt'.credit = debt.credit
  BY DEF OwedStartFails, seenVars, RecoveryInv, Shapes
<1> QED BY <1>1 DEF RecoveryInv, Shapes, StreakIsFresh, EachIsCounted, settle

\* Time goes on for the streaks and for the latest restart alike.
LEMMA TickKeeps ==
  ASSUME RecoveryInv, Tick
  PROVE  RecoveryInv'
<1> USE Constants
<1>1. /\ watch' = [watch EXCEPT !.unsynced = Older(@, MaxBudget), !.idle = Older(@, MaxBudget),
                                !.observed = Older(@, MaxGap + 1)]
      /\ debt' = [debt EXCEPT !.wait = IF @ = None THEN None ELSE minus(@, 1)]
      /\ since' = Lesser(since + 1, MaxBudget) /\ began' = began
  BY DEF Tick
<1>2. /\ watch' \in Watches
      /\ watch'.unsynced = Older(watch.unsynced, MaxBudget)
      /\ watch'.idle = Older(watch.idle, MaxBudget) /\ watch'.restarts = watch.restarts
  <2>1. watch \in Watches
    BY DEF RecoveryInv, Shapes, Watches
  <2>2. \A age \in Int : Older(age, MaxBudget) \in Int /\ Older(age, MaxGap + 1) \in Int
    BY DEF Older, Lesser, None, RecoveryTypes
  <2>3. PICK u, i, o \in Int : /\ u = Older(watch.unsynced, MaxBudget)
                               /\ i = Older(watch.idle, MaxBudget)
                               /\ o = Older(watch.observed, MaxGap + 1)
    BY <2>1, <2>2 DEF Watches
  <2>4. watch' = [watch EXCEPT !.unsynced = u, !.idle = i, !.observed = o]
    BY <1>1, <2>3
  <2> QED BY <2>1, <2>3, <2>4 DEF Watches
<1>3. DOMAIN debt' = DOMAIN debt /\ debt'.credit = debt.credit
  BY <1>1 DEF RecoveryInv, Shapes
<1>4. StreakIsFresh'
  BY <1>1, <1>2 DEF RecoveryInv, StreakIsFresh, Streaks, Older, Lesser, None, RecoveryTypes
<1>5. EachIsCounted'
  BY <1>1, <1>2, <1>3 DEF RecoveryInv, EachIsCounted, settle
<1> QED BY <1>2, <1>3, <1>4, <1>5 DEF RecoveryInv, Shapes

\* An unsynced reading: a streak begins or goes on.
LEMMA ReadingKeeps ==
  ASSUME RecoveryInv, NEW syncing, NEW w, w = Unsynced(settle(watch), syncing)
  PROVE  /\ w \in Watches
         /\ w.unsynced \in 0 .. since /\ w.idle \in Streaks(since)
         /\ w.restarts = began
<1>1. PICK v : v = Heard(settle(watch))
  OBVIOUS
<1>2. /\ v \in Watches
      /\ v.unsynced \in Streaks(since) /\ v.idle \in Streaks(since) /\ v.restarts = began
  <2>1. PICK x : x = settle(watch)
    OBVIOUS
  <2>2. /\ x \in Watches /\ x.restarts = began
        /\ x.unsynced \in Streaks(since) /\ x.idle \in Streaks(since)
    BY <2>1, Settled DEF RecoveryInv, StreakIsFresh, Watches
  <2>3. v = x \/ v = [x EXCEPT !.unsynced = None, !.idle = None]
    BY <1>1, <2>1 DEF Heard
  <2>4. CASE v = x
    BY <2>2, <2>4 DEF Watches
  <2>5. CASE v = [x EXCEPT !.unsynced = None, !.idle = None]
    <3>1. None \in Int /\ None \in Streaks(since)
      BY DEF None, Streaks
    <3>2. v \in Watches
      BY <2>2, <2>5, <3>1 DEF Watches
    <3>3. v.unsynced = None /\ v.idle = None /\ v.restarts = x.restarts
      BY <2>2, <2>5 DEF Watches
    <3> QED BY <2>2, <3>1, <3>2, <3>3 DEF Watches
  <2> QED BY <2>3, <2>4, <2>5
<1>3. w = [v EXCEPT !.observed = 0, !.unsynced = Run(@),
                    !.idle = IF syncing THEN None ELSE Run(@)]
  BY <1>1 DEF Unsynced
<1>4. \A age \in Streaks(since) : Run(age) \in 0 .. since
  BY DEF Streaks, Run, None, RecoveryInv, StreakIsFresh
<1>5. PICK u, i : /\ u = Run(v.unsynced) /\ i = IF syncing THEN None ELSE Run(v.idle)
                  /\ u \in 0 .. since /\ i \in Streaks(since)
  BY <1>2, <1>4 DEF Streaks
<1>6. u \in Int /\ i \in Int
  BY <1>5 DEF Streaks, None, RecoveryInv, StreakIsFresh
<1>7. w = [v EXCEPT !.observed = 0, !.unsynced = u, !.idle = i]
  BY <1>3, <1>5
<1>8. v \in Watches
  BY <1>2 DEF Watches
<1>9. w \in Watches
  <2>1. 0 \in Int /\ u \in Int /\ i \in Int
    BY <1>6
  <2> QED BY ONLY <1>7, <1>8, <2>1 DEF Watches
<1>10. w.unsynced = u /\ w.idle = i /\ w.restarts = v.restarts
  BY <1>7, <1>8 DEF Watches
<1> QED BY <1>2, <1>5, <1>9, <1>10 DEF Watches

\* A reading within the budgets.
LEMMA UnsyncedKeeps ==
  ASSUME RecoveryInv, ReadsUnsynced
  PROVE  RecoveryInv'
<1>1. PICK syncing \in reads_syncing : watch' = Unsynced(settle(watch), syncing)
  BY DEF ReadsUnsynced
<1>2. debt' = NoDebt /\ began' = began /\ since' = since
  BY DEF ReadsUnsynced, seenVars
<1>3. /\ watch' \in Watches
      /\ watch'.unsynced \in 0 .. since /\ watch'.idle \in Streaks(since)
      /\ watch'.restarts = began
  BY <1>1, ReadingKeeps
<1> QED BY <1>2, <1>3
        DEF RecoveryInv, Shapes, StreakIsFresh, Streaks, EachIsCounted, settle, NoDebt

\* A restart: one that began is counted at once, or owed with its start.
LEMMA RestartKeeps ==
  ASSUME RecoveryInv, NEW stops \in BOOLEAN, NEW starts \in BOOLEAN, Restarts(stops, starts)
  PROVE  RecoveryInv'
<1> USE Constants
<1>1. PICK syncing \in reads_syncing :
        watch' = IF stops /\ starts THEN Restarted(Unsynced(settle(watch), syncing))
                 ELSE [Unsynced(settle(watch), syncing) EXCEPT !.unsynced = None, !.idle = None]
  BY DEF Restarts
<1>2. PICK w : w = Unsynced(settle(watch), syncing)
  OBVIOUS
<1>3. w \in Watches /\ w.restarts = began
  BY <1>2, ReadingKeeps
<1>4. /\ watch' \in Watches
      /\ watch'.unsynced = None /\ watch'.idle = None
      /\ watch'.restarts = IF stops /\ starts THEN Lesser(began + 1, Doublings) ELSE began
  <2>1. PICK n \in Nat : n = Lesser(began + 1, Doublings)
    BY DEF RecoveryInv, EachIsCounted, Lesser, RecoveryTypes
  <2>2. watch' = IF stops /\ starts THEN [w EXCEPT !.restarts = n, !.unsynced = None, !.idle = None]
                 ELSE [w EXCEPT !.unsynced = None, !.idle = None]
    BY <1>1, <1>2, <1>3, <2>1 DEF Restarted
  <2>3. w \in Watches /\ None \in Int
    BY <1>3 DEF Watches, None
  <2>4. CASE stops /\ starts
    <3>1. watch' = [w EXCEPT !.restarts = n, !.unsynced = None, !.idle = None]
      BY <2>2, <2>4
    <3>2. watch' \in Watches
      BY <2>3, <3>1 DEF Watches
    <3>3. watch'.unsynced = None /\ watch'.idle = None /\ watch'.restarts = n
      BY <2>3, <3>1 DEF Watches
    <3> QED BY <2>1, <2>4, <3>2, <3>3 DEF Watches
  <2>5. CASE ~(stops /\ starts)
    <3>1. watch' = [w EXCEPT !.unsynced = None, !.idle = None]
      BY <2>2, <2>5
    <3>2. watch' \in Watches
      BY <2>3, <3>1 DEF Watches
    <3>3. watch'.unsynced = None /\ watch'.idle = None /\ watch'.restarts = w.restarts
      BY <2>3, <3>1 DEF Watches
    <3> QED BY <1>3, <2>5, <3>2, <3>3 DEF Watches
  <2> QED BY <2>4, <2>5
<1>5. /\ debt' = IF starts THEN NoDebt ELSE [wait |-> RetryBase, attempts |-> 0, credit |-> stops]
      /\ began' = (IF stops THEN Lesser(began + 1, Doublings) ELSE began)
      /\ since' = (IF stops THEN 0 ELSE since)
  BY DEF Restarts
<1>6. DOMAIN debt' = {"wait", "attempts", "credit"} /\ debt'.credit = (~starts /\ stops)
  BY <1>5 DEF NoDebt
<1>7. StreakIsFresh'
  BY <1>4, <1>5 DEF RecoveryInv, StreakIsFresh, Streaks, RecoveryTypes
<1>8. EachIsCounted'
  <2>1. began' \in Nat
    BY <1>5 DEF RecoveryInv, EachIsCounted, Lesser, RecoveryTypes
  <2>2. settle(watch)'.restarts = IF ~starts /\ stops THEN Lesser(watch'.restarts + 1, Doublings)
                                  ELSE watch'.restarts
    BY <1>4, <1>6 DEF settle, Watches
  <2> QED BY <1>4, <1>5, <2>1, <2>2 DEF EachIsCounted
<1> QED BY <1>4, <1>6, <1>7, <1>8 DEF RecoveryInv, Shapes

\* What the other steps leave alone.
LEMMA StillKeeps ==
  ASSUME RecoveryInv, UNCHANGED <<debt, watch, began, since>>
  PROVE  RecoveryInv'
BY DEF RecoveryInv, Shapes, StreakIsFresh, EachIsCounted, settle

\* Every step of the poll loop, the heartbeat, the world and time keeps it.
LEMMA NextRecovers == RecoveryInv /\ [Next]_vars => RecoveryInv'
<1> SUFFICES ASSUME RecoveryInv, [Next]_vars PROVE RecoveryInv'
  OBVIOUS
<1>1. CASE DebtIsSettled \/ OwedStartWorks \/ ProbeAnswered
  <2>1. Clears /\ UNCHANGED <<began, since>>
    BY <1>1 DEF DebtIsSettled, OwedStartWorks, ProbeAnswered, seenVars
  <2> QED BY <2>1, ClearKeeps
<1>2. CASE OwedStartFails
  BY <1>2, FailedStartKeeps
<1>3. CASE NothingOwed \/ ProbeIsRefused \/ ProbeFails \/ HeightFromNode \/ HeightFromWallet
  <2>1. UNCHANGED <<debt, watch, began, since>>
    BY <1>3 DEF NothingOwed, ProbeIsRefused, ProbeFails, HeightFromNode, HeightFromWallet, seenVars
  <2> QED BY <2>1, StillKeeps
<1>4. CASE \/ BeatStarts \/ EarlierStep \/ EarlierStepSkipped \/ Step8Skipped \/ Step8Asks
           \/ SyncCheckFails
  <2>1. UNCHANGED <<debt, watch, began, since>>
    BY <1>4 DEF BeatStarts, EarlierStep, EarlierStepSkipped, Step8Skipped, Step8Asks,
                SyncCheckFails, seenVars
  <2> QED BY <2>1, StillKeeps
<1>5. CASE ReadsSynced
  <2>1. watch' = [NoWatch EXCEPT !.observed = 0] /\ debt' = NoDebt /\ began' = 0
        /\ since' = MaxBudget
    BY <1>5 DEF ReadsSynced
  <2> QED BY <2>1, Constants DEF RecoveryInv, Shapes, Watches, StreakIsFresh, Streaks,
                                 EachIsCounted, settle, NoWatch, NoDebt, None, RecoveryTypes
<1>6. CASE ReadsUnsynced
  BY <1>6, UnsyncedKeeps
<1>7. CASE RestartWorks \/ RestartFails
  <2>1. PICK stops, starts \in BOOLEAN : Restarts(stops, starts)
    BY <1>7 DEF RestartWorks, RestartFails
  <2> QED BY <2>1, RestartKeeps
<1>8. CASE World
  <2>1. UNCHANGED <<debt, watch, began, since>>
    BY <1>8 DEF World, WalletComesUp, WalletSlips, NodeChanges, engineStill, seenVars
  <2> QED BY <2>1, StillKeeps
<1>9. CASE Tick
  BY <1>9, TickKeeps
<1>10. CASE UNCHANGED vars
  <2>1. UNCHANGED <<debt, watch, began, since>>
    BY <1>10 DEF vars, seenVars
  <2> QED BY <2>1, StillKeeps
<1> QED BY <1>1, <1>2, <1>3, <1>4, <1>5, <1>6, <1>7, <1>8, <1>9, <1>10 DEF Next, Poll, Beat

\* The watch counts the restarts that began, no more and no less, and measures no
\* streak from before the latest of them: Step 8's gate and settle_wallet_start.
THEOREM RecoveryInvariant == Spec => []RecoveryInv
BY InitRecovers, NextRecovers, PTL DEF Spec

\* Only a restart of Step 8's gate takes the wallet down or starts it there.
LEMMA OnlyRestarts ==
  ASSUME [Next]_vars, wallet' # wallet, wallet' \in {"down", "starting"}, at = "sync"
  PROVE  \E stops, starts \in BOOLEAN : Restarts(stops, starts)
<1>1. ~Poll
  BY DEF Poll, DebtIsSettled, OwedStartWorks, OwedStartFails, NothingOwed, ProbeAnswered,
         ProbeIsRefused, ProbeFails, Probes, HeightFromNode, HeightFromWallet
<1>2. ~World
  BY DEF World, WalletComesUp, WalletSlips, NodeChanges
<1>3. ~Tick
  BY DEF Tick
<1>4. ~UNCHANGED vars
  BY DEF vars, worldVars
<1>5. Beat => RestartWorks \/ RestartFails
  BY DEF Beat, BeatStarts, EarlierStep, EarlierStepSkipped, Step8Skipped, Step8Asks,
         SyncCheckFails, ReadsSynced, ReadsUnsynced, worldVars
<1> QED BY <1>1, <1>2, <1>3, <1>4, <1>5 DEF Next, RestartWorks, RestartFails

\* A restart waits out the budget of one more doubling for every restart that began.
LEMMA RestartWaits ==
  ASSUME RecoveryInv, NEW stops \in BOOLEAN, NEW starts \in BOOLEAN, Restarts(stops, starts)
  PROVE  since >= wallet_restart_budget(Lesser(IdleBudget, SyncBudget), began, MaxBudget)
<1> USE Constants
<1> DEFINE budget(base) == wallet_restart_budget(base, began, MaxBudget)
           least == Lesser(IdleBudget, SyncBudget)
<1>1. began \in Nat /\ since \in Nat
  BY DEF RecoveryInv, EachIsCounted, StreakIsFresh
<1>2. /\ least \in Nat /\ least <= IdleBudget /\ least <= SyncBudget
  BY DEF Lesser, RecoveryTypes
<1>3. /\ budget(least) \in Nat /\ budget(IdleBudget) \in Nat /\ budget(SyncBudget) \in Nat
      /\ budget(least) <= budget(IdleBudget) /\ budget(least) <= budget(SyncBudget)
  <2>1. MaxBudget \in Nat /\ IdleBudget \in Nat /\ SyncBudget \in Nat
    BY DEF RecoveryTypes
  <2> HIDE DEF least
  <2>2. budget(least) \in 0 .. MaxBudget /\ budget(IdleBudget) \in 0 .. MaxBudget
        /\ budget(SyncBudget) \in 0 .. MaxBudget
    BY <1>1, <1>2, <2>1, BudgetType
  <2> QED BY <1>1, <1>2, <2>1, <2>2, BudgetGrowsWithBase
<1>4. PICK syncing \in reads_syncing : spent(Unsynced(settle(watch), syncing))
  BY DEF Restarts
<1>5. PICK w : w = Unsynced(settle(watch), syncing)
  OBVIOUS
<1>6. w.unsynced \in 0 .. since /\ w.idle \in Streaks(since) /\ w.restarts = began
  BY <1>5, ReadingKeeps
<1>7. \/ w.idle # None /\ w.idle >= budget(IdleBudget)
      \/ w.unsynced >= budget(SyncBudget)
  BY <1>4, <1>5, <1>6 DEF spent
<1> HIDE DEF budget, least
<1>8. since >= budget(least)
  BY <1>1, <1>3, <1>6, <1>7 DEF Streaks
<1> QED BY <1>8 DEF budget, least

\* RestartsBackOff, for every budget and every outage: each restart that stops the
\* wallet comes a full budget after the one before it, doubled once for each since the
\* wallet was last synced (Step 8's gate, settle_wallet_start).
THEOREM BacksOff == Spec => RestartsBackOff
<1>1. RecoveryInv /\ [Next]_vars
        => [(wallet' # wallet /\ wallet' \in {"down", "starting"} /\ at = "sync")
             => since >= wallet_restart_budget(Lesser(IdleBudget, SyncBudget), began,
                                               MaxBudget)]_vars
  <2> SUFFICES ASSUME RecoveryInv, [Next]_vars, wallet' # wallet,
                      wallet' \in {"down", "starting"}, at = "sync"
               PROVE  since >= wallet_restart_budget(Lesser(IdleBudget, SyncBudget), began,
                                                     MaxBudget)
    OBVIOUS
  <2>1. PICK stops, starts \in BOOLEAN : Restarts(stops, starts)
    BY OnlyRestarts
  <2> QED BY <2>1, RestartWaits
<1> QED BY <1>1, RecoveryInvariant, PTL DEF Spec, RestartsBackOff
=============================================================================
