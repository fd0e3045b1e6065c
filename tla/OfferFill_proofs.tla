-------------------------- MODULE OfferFill_proofs --------------------------
(***************************************************************************)
(* How an offer ends, for any number of offers, blocks, restarts and       *)
(* reorganisations.                                                        *)
(*                                                                         *)
(* IInv holds whatever the chain undoes: where the call is, that an offer  *)
(* once found to be taken is not managed again (Books), that an open row   *)
(* is in somebody's hands (Kept), what released a hold (HoldsOK) and what  *)
(* was proven dead (DeadOK).                                               *)
(*                                                                         *)
(* The rest needs what the confirmation depth cannot give.  TakesStand,    *)
(* from the answer to the row a take is the chain's, needs that a          *)
(* reorganisation undoes no spend somebody was shown (~UndoneTakes).       *)
(* CancelsOK, what ages as cancelled cannot be taken, needs besides that   *)
(* nothing is made of a FAILED that can still be undone (~ShallowFailed).  *)
(* ClosedOK, what is closed stays dead, holds up to the first              *)
(* reorganisation and what it leaves.                                      *)
(***************************************************************************)
EXTENDS OfferFillProps, FiniteSetTheorems, TLAPS

-----------------------------------------------------------------------------
(* The types.                                                              *)

Past == {"confirmed", "pending_cancel", "cancelled"}
Cancelling == {"pending_cancel", "cancelled"}
Rows == {"pending", "cancel_pending", "cancelled", "filled"}
Holds == {"none", "withheld", "cancellable"}
Spendings == [by : {"none", "take", "together", "apart"}, at : Nat]
Chains  == [tip : Nat \ {0}, spend : [Offers -> Spendings]]
Answers == [verdict : {"unknown", "live", "settled", "dead"}, height : Nat,
            lookup : {"failed", "refused", "answered"}]
Fills   == [offer : Offers, height : Nat]
Records == [status : Statuses \cup {"unread"}, claimed : Nat]
Calls   == [pc : {"idle", "poll", "prove", "write"}, block : Nat, from_node : BOOLEAN,
            todo : SUBSET Offers, recs : [Offers -> Records], failed : BOOLEAN,
            asking : SUBSET Offers, asked : [held : BOOLEAN, answer : Answers],
            fills : Seq(Fills), written : Nat,
            terminals : SUBSET Offers, dead : SUBSET Offers]

WorldOK ==
  /\ chain \in Chains /\ node \in Chains
  /\ status \in [Offers -> Statuses] /\ confirmed_at_index \in [Offers -> Nat]
  /\ reorgs \in Nat
ManagerOK ==
  /\ offers \subseteq Offers
  /\ fill_proof_deferrals \in [Offers -> Holds]
  /\ cancel_status_proven \in [Offers -> Statuses \cup {"none"}]
  /\ cancel_status_inconclusive \in [Offers -> [status : Statuses \cup {"none"}, block : Nat]]
  /\ proven_dead \subseteq Offers
EngineOK ==
  /\ up \in BOOLEAN
  /\ pending_unconfirmed_fills \in Seq(Fills)
  /\ pending_unconfirmed_terminals \in [Offers -> [block : Nat, failures : Nat]]
  /\ pending_dead_writes \subseteq Offers /\ abandoned \subseteq Offers
  /\ row \in [Offers -> Rows] /\ inventory \in [Offers -> Nat]
FillTypeOK == WorldOK /\ ManagerOK /\ call \in Calls /\ EngineOK

-----------------------------------------------------------------------------
(* The parts of the invariant.                                             *)

\* What each phase of the call leaves empty, and what a write has done so far.
CallShape ==
  /\ call.pc # "prove" => call.asking = {} /\ call.terminals = {} /\ call.dead = {}
  /\ call.pc \in {"idle", "poll"} => call.fills = <<>>
  /\ call.pc = "idle" => call.todo = {}
  /\ call.pc # "idle" => call.block > 0
  /\ call.asking = {} \/ \E o \in call.todo : call.asking = {o}
  /\ call.written <= 2
  /\ call.written # 0 => call.pc = "write" /\ call.todo = {} /\ call.fills # <<>>
  /\ call.written = 2 => row[fill.offer] = "filled"
  /\ call.pc = "write" => \A o \in call.todo :
       at_depth(pending_unconfirmed_terminals[o].block, call.block)

\* Nothing that was in memory outlives a crash.
DownIsEmpty ==
  ~up => /\ call = Idle /\ pending_unconfirmed_fills = <<>>
         /\ pending_unconfirmed_terminals = Nobody(NotBuffered)
         /\ cancel_status_proven = Nobody("none")

\* Found to be taken, and not yet recorded; Ended: or recorded.
Fresh == offers_of(pending_unconfirmed_fills) \cup offers_of(call.fills)
Ended(o) == o \in Fresh \/ row[o] = "filled"
Distinct(fills) == \A i, j \in 1 .. Len(fills) : fills[i].offer = fills[j].offer => i = j

\* A status read CONFIRMED or under a cancel is that, or a later one, still.
StatusFollows ==
  \A o \in Offers :
    /\ call.recs[o].status \in Past => status[o] \in Past
    /\ call.recs[o].status \in Cancelling => status[o] \in Cancelling
    /\ call.recs[o].status = "confirmed" /\ status[o] = "confirmed" =>
         call.recs[o].claimed = confirmed_at_index[o]
    /\ o \in call.asking => call.recs[o].status \in Past

\* What is over is not managed any more, does not age as a cancellation, is named
\* by one list once, and is counted when it is recorded.
EndedStaysEnded ==
  \A o \in Offers : Ended(o) =>
    /\ status[o] \in Past /\ o \notin offers \cup call.todo
    /\ call.pc = "poll" => call.recs[o] = NotRead
EndedNotBuffered ==
  \A o \in Offers :
    row[o] = "filled" \/ (call.pc = "write" /\ o \in Fresh) =>
      pending_unconfirmed_terminals[o] = NotBuffered /\ o \notin call.terminals
FoundOnce ==
  /\ Distinct(pending_unconfirmed_fills) /\ Distinct(call.fills)
  /\ offers_of(pending_unconfirmed_fills) \cap offers_of(call.fills) = {}
CountedOnce ==
  \A o \in Offers :
    inventory[o] = 0 \/ (inventory[o] = 1 /\ row[o] = "filled" /\ o \notin Fresh)

\* The node's part of the chain: the two agree on what is deep in either.
SpendsOK(c) == \A o \in Offers : /\ c.spend[o].at <= c.tip
                                 /\ (c.spend[o].at = 0) <=> (c.spend[o].by = "none")
DeepAgrees ==
  \A o \in Offers :
    at_depth(node.spend[o].at, node.tip) \/ at_depth(chain.spend[o].at, node.tip) =>
      node.spend[o] = chain.spend[o]
ChainOK == /\ SpendsOK(chain) /\ SpendsOK(node) /\ node.tip <= chain.tip /\ DeepAgrees
           /\ call.block <= chain.tip
           /\ call.from_node => call.block <= node.tip

\* A take the node has, that is on its way, or that is recorded, is the chain's.
TakeAt(o, h) == chain.spend[o].by = "take" /\ chain.spend[o].at = h
AllTaken(fills) == \A i \in 1 .. Len(fills) : TakeAt(fills[i].offer, fills[i].height)
TakesStand ==
  /\ \A o \in Offers : node.spend[o].by = "take" => chain.spend[o] = node.spend[o]
  /\ \A o \in call.asking :
       call.asked.answer.verdict = "settled" => TakeAt(o, call.asked.answer.height)
  /\ AllTaken(pending_unconfirmed_fills) /\ AllTaken(call.fills)
  /\ call.pc = "write" =>
       \A i \in 1 .. Len(call.fills) : at_depth(call.fills[i].height, call.block)
  /\ BookedOnlyTakes

\* The claim is so old that a spend at its height would be at depth, and is not
\* the chain's; what is released while CONFIRMED, or about to be, was refuted.
Refuted(c, o, h) == at_depth(h, c.tip) /\ c.spend[o].at # h
HoldsOK ==
  /\ \A o \in call.asking :
       live_offer_cancellable(call.asked.answer, call.recs[o].claimed) =>
         Refuted(chain, o, call.recs[o].claimed)
  /\ \A o \in Offers : fill_proof_deferrals[o] = "cancellable" =>
       status[o] \in Past /\ (status[o] = "confirmed" => Refuted(chain, o, confirmed_at_index[o]))

\* Dead at depth; or spent together, which the wallet is silent about for good.
DeepDead(o) == is_dead(chain.spend[o]) /\ at_depth(chain.spend[o].at, chain.tip)
Buried(o) == DeepDead(o) \/ chain.spend[o].by = "together"

\* What is closed on a proof is dead at depth.
DeadOK ==
  /\ \A o \in call.dead \cup pending_dead_writes \cup proven_dead : DeepDead(o)
  /\ \A o \in call.asking : dead_offer_closable(call.asked.answer) => DeepDead(o)
  /\ \A o \in Offers : status[o] = "failed" => chain.spend[o].by = "apart"

\* It ages as a cancellation.  A status that stands, a proof that let one through and
\* a window of silence belong to coins that cannot be taken.
Waiting(o) == o \in call.terminals \/ pending_unconfirmed_terminals[o] # NotBuffered
CancelsOK ==
  /\ \A o \in Offers : call.recs[o].status = "failed" => status[o] \notin Cancelling
  /\ \A o \in call.asking :
       call.asked.answer = Silence /\ call.recs[o].status \in Cancelling /\ window_over(o) =>
         chain.spend[o].by = "together"
  /\ \A o \in Offers : cancel_status_proven[o] = "cancelled" =>
       /\ status[o] \in Past /\ o \notin offers \cup call.todo /\ call.pc # "poll"
       /\ call.pc = "prove" => o \in call.terminals
  /\ \A o \in Offers \ (offers \cup Fresh) : Waiting(o) /\ status[o] \in Cancelling => Buried(o)

\* Before the first reorganisation a FAILED that ages was in the heartbeat's
\* number, so that it is at depth when it has aged.
FoundInNumber(o) ==
  /\ call.recs[o].status = "failed" => status[o] = "failed" /\ chain.spend[o].at <= call.block
  /\ o \in call.terminals =>
       status[o] # "accept" /\ (status[o] = "failed" => chain.spend[o].at <= call.block)
  /\ pending_unconfirmed_terminals[o] # NotBuffered =>
       /\ status[o] # "accept"
       /\ status[o] = "failed" => chain.spend[o].at <= pending_unconfirmed_terminals[o].block
\* What is closed cannot be revived until then, and later it is dead.
ClosedOK ==
  /\ reorgs = 0 => \A o \in Offers : FoundInNumber(o)
  /\ \A o \in Offers : row[o] = "cancelled" =>
       is_dead(chain.spend[o]) /\ (reorgs = 0 => Buried(o))

\* What the books owe each other.
Books == StatusFollows /\ EndedStaysEnded /\ EndedNotBuffered /\ FoundOnce /\ CountedOnce

-----------------------------------------------------------------------------
(* The fills a call has found, as sequences.                               *)

\* One more fill is one more offer.
LEMMA FillsAppend ==
  ASSUME NEW s \in Seq(Fills), NEW f \in Fills
  PROVE  /\ Append(s, f) \in Seq(Fills)
         /\ offers_of(Append(s, f)) = offers_of(s) \cup {f.offer}
         /\ Distinct(s) /\ f.offer \notin offers_of(s) => Distinct(Append(s, f))
<1>1. /\ Append(s, f) \in Seq(Fills) /\ Len(Append(s, f)) = Len(s) + 1
      /\ \A i \in 1 .. Len(s) : Append(s, f)[i] = s[i]
      /\ Append(s, f)[Len(s) + 1] = f /\ Len(s) \in Nat
  OBVIOUS
<1> DEFINE t == Append(s, f)
<1> HIDE DEF t
<1>2. offers_of(t) = offers_of(s) \cup {f.offer}
  BY <1>1 DEF offers_of, t
<1>3. ASSUME Distinct(s), f.offer \notin offers_of(s),
             NEW i \in 1 .. Len(t), NEW j \in 1 .. Len(t), t[i].offer = t[j].offer
      PROVE  i = j
  <2>1. \A k \in 1 .. Len(s) : t[k] = s[k] /\ s[k].offer # f.offer
    BY <1>1, <1>3 DEF offers_of, t
  <2>2. i \in 1 .. Len(s) \/ i = Len(s) + 1
    BY <1>1 DEF t
  <2>3. j \in 1 .. Len(s) \/ j = Len(s) + 1
    BY <1>1 DEF t
  <2> QED BY <1>1, <1>3, <2>1, <2>2, <2>3 DEF Distinct, t
<1> QED BY <1>1, <1>2, <1>3 DEF Distinct, t

\* The first fill done, the rest is left.
LEMMA FillsTail ==
  ASSUME NEW s \in Seq(Fills), s # <<>>
  PROVE  /\ Tail(s) \in Seq(Fills) /\ Head(s) \in Fills
         /\ offers_of(s) = {Head(s).offer} \cup offers_of(Tail(s))
         /\ Distinct(s) => Distinct(Tail(s)) /\ Head(s).offer \notin offers_of(Tail(s))
<1>1. /\ Tail(s) \in Seq(Fills) /\ Len(s) \in Nat \ {0} /\ Len(Tail(s)) = Len(s) - 1
      /\ \A i \in 1 .. Len(s) - 1 : Tail(s)[i] = s[i + 1]
      /\ Head(s) = s[1] /\ s[1] \in Fills
  OBVIOUS
<1> DEFINE t == Tail(s)
<1> HIDE DEF t
<1>2. \A i \in 1 .. Len(s) : i = 1 \/ (i - 1 \in 1 .. Len(t) /\ s[i] = t[i - 1])
  BY <1>1 DEF t
<1>3. \A i \in 1 .. Len(t) : i + 1 \in 1 .. Len(s) /\ t[i] = s[i + 1] /\ 1 # i + 1
  BY <1>1 DEF t
<1>4. 1 \in 1 .. Len(s)
  BY <1>1
<1>5. offers_of(s) = {Head(s).offer} \cup offers_of(t)
  BY <1>1, <1>2, <1>3, <1>4 DEF offers_of
<1>6. Distinct(s) => Distinct(t)
  BY <1>3 DEF Distinct
<1>7. Distinct(s) => Head(s).offer \notin offers_of(t)
  BY <1>1, <1>3, <1>4 DEF Distinct, offers_of
<1> QED BY <1>1, <1>5, <1>6, <1>7 DEF t

\* Both lists together.
LEMMA FillsConcat ==
  ASSUME NEW s \in Seq(Fills), NEW t \in Seq(Fills)
  PROVE  /\ s \o t \in Seq(Fills)
         /\ offers_of(s \o t) = offers_of(s) \cup offers_of(t)
         /\ Distinct(s) /\ Distinct(t) /\ offers_of(s) \cap offers_of(t) = {} =>
              Distinct(s \o t)
<1> DEFINE n == Len(s)
           u == s \o t
<1>1. /\ u \in Seq(Fills) /\ n \in Nat /\ Len(t) \in Nat
      /\ Len(u) = n + Len(t)
  OBVIOUS
<1>2. /\ \A i \in 1 .. n : u[i] = s[i]
      /\ \A i \in 1 .. Len(t) : u[n + i] = t[i]
  OBVIOUS
<1> HIDE DEF n, u
<1>3. /\ \A i \in 1 .. Len(u) : \/ i \in 1 .. n
                                \/ i - n \in 1 .. Len(t) /\ n + (i - n) = i
      /\ \A i \in 1 .. n : i \in 1 .. Len(u)
      /\ \A i \in 1 .. Len(t) : n + i \in 1 .. Len(u)
  BY <1>1
<1>4. offers_of(u) = offers_of(s) \cup offers_of(t)
  <2>1. ASSUME NEW i \in 1 .. Len(u) PROVE u[i].offer \in offers_of(s) \cup offers_of(t)
    <3>1. CASE i \in 1 .. n
      BY <1>2, <3>1 DEF offers_of, n
    <3>2. CASE i - n \in 1 .. Len(t) /\ n + (i - n) = i
      <4>1. u[i] = t[i - n]
        BY <1>2, <3>2
      <4> QED BY <3>2, <4>1 DEF offers_of
    <3> QED BY <1>3, <3>1, <3>2
  <2>2. ASSUME NEW i \in 1 .. n PROVE s[i].offer \in offers_of(u)
    BY <1>2, <1>3 DEF offers_of
  <2>3. ASSUME NEW i \in 1 .. Len(t) PROVE t[i].offer \in offers_of(u)
    BY <1>2, <1>3 DEF offers_of
  <2>4. offers_of(s) \cup offers_of(t) \subseteq offers_of(u)
    BY <2>2, <2>3 DEF offers_of, n
  <2>5. offers_of(u) \subseteq offers_of(s) \cup offers_of(t)
    BY <2>1 DEF offers_of
  <2> QED BY <2>4, <2>5
<1>5. ASSUME Distinct(s), Distinct(t), offers_of(s) \cap offers_of(t) = {},
             NEW i \in 1 .. Len(u), NEW j \in 1 .. Len(u), u[i].offer = u[j].offer
      PROVE  i = j
  <2>1. ASSUME NEW k \in 1 .. n, NEW l \in 1 .. Len(t) PROVE u[k].offer # u[n + l].offer
    <3>1. s[k].offer \in offers_of(s) /\ t[l].offer \in offers_of(t)
      BY <2>1 DEF offers_of, n
    <3>2. u[k] = s[k] /\ u[n + l] = t[l]
      BY <1>2, <2>1
    <3> QED BY <1>5, <3>1, <3>2
  <2>2. CASE i \in 1 .. n /\ j \in 1 .. n
    BY <1>2, <1>5, <2>2 DEF Distinct, n
  <2>3. CASE i - n \in 1 .. Len(t) /\ j - n \in 1 .. Len(t)
    <3>1. n + (i - n) = i /\ n + (j - n) = j
      BY <1>1
    <3>2. u[n + (i - n)] = t[i - n] /\ u[n + (j - n)] = t[j - n]
      BY <1>2, <2>3
    <3>3. t[i - n].offer = t[j - n].offer
      BY <1>5, <3>1, <3>2
    <3>4. i - n = j - n
      BY <1>5, <2>3, <3>3 DEF Distinct
    <3> QED BY <3>1, <3>4
  <2>4. ~(i \in 1 .. n /\ j - n \in 1 .. Len(t)) /\ ~(j \in 1 .. n /\ i - n \in 1 .. Len(t))
    <3>1. n + (i - n) = i /\ n + (j - n) = j
      BY <1>1
    <3>2. ASSUME i \in 1 .. n, j - n \in 1 .. Len(t) PROVE FALSE
      <4>1. u[i].offer # u[n + (j - n)].offer
        BY <2>1, <3>2
      <4> QED BY <1>5, <3>1, <4>1
    <3>3. ASSUME j \in 1 .. n, i - n \in 1 .. Len(t) PROVE FALSE
      <4>1. u[j].offer # u[n + (i - n)].offer
        BY <2>1, <3>3
      <4> QED BY <1>5, <3>1, <4>1
    <3> QED BY <3>2, <3>3
  <2> QED BY <1>3, <2>2, <2>3, <2>4
<1> QED BY <1>1, <1>4, <1>5 DEF Distinct, u

\* u lists the fills of s at the places of I, each once: place says which.
Lists(u, s, I, place) ==
  /\ place \in [1 .. Len(u) -> I]
  /\ \A k \in 1 .. Len(u) : u[k] = s[place[k]]
  /\ \A k, l \in 1 .. Len(u) : place[k] = place[l] => k = l
  /\ \A i \in I : \E k \in 1 .. Len(u) : place[k] = i

\* Every place of I is taken once, and nothing else is.
LEMMA AtPlaces ==
  ASSUME NEW s \in Seq(Fills), NEW I \in SUBSET (1 .. Len(s))
  PROVE  /\ at_places(s, I) \in Seq(Fills)
         /\ \E place : Lists(at_places(s, I), s, I, place)
<1> DEFINE upto(i) == {j \in I : j <= i}
           rank == [i \in I |-> Cardinality(upto(i))]
           m == Cardinality(I)
           kth(k) == CHOOSE i \in I : Cardinality(upto(i)) = k
<1>1. Len(s) \in Nat /\ \A i \in I : i \in Nat /\ i \in 1 .. Len(s)
  OBVIOUS
<1>2. IsFiniteSet(I) /\ m \in Nat
  <2>1. IsFiniteSet(1 .. Len(s))
    BY <1>1, FS_Interval
  <2>2. IsFiniteSet(I)
    BY <2>1, FS_Subset
  <2> QED BY <2>2, FS_CardinalityType
<1>3. ASSUME NEW i \in I
      PROVE  IsFiniteSet(upto(i)) /\ rank[i] \in 1 .. m
  <2>1. IsFiniteSet(upto(i)) /\ Cardinality(upto(i)) <= m
    BY <1>2, FS_Subset
  <2>2. Cardinality(upto(i)) \in Nat /\ Cardinality(upto(i)) # 0
    BY <1>1, <2>1, FS_CardinalityType, FS_EmptySet
  <2> QED BY <1>2, <2>1, <2>2
<1>4. ASSUME NEW i \in I, NEW j \in I, i < j
      PROVE  rank[i] # rank[j]
  <2>1. upto(i) \subseteq upto(j) /\ j \in upto(j) /\ j \notin upto(i)
    <3>1. \A k \in I : k <= i => k <= j
      BY <1>1, <1>4
    <3>2. j <= j /\ ~(j <= i)
      BY <1>1, <1>4
    <3> QED BY <3>1, <3>2
  <2>2. IsFiniteSet(upto(j)) /\ upto(i) # upto(j)
    BY <1>3, <2>1
  <2> HIDE DEF upto
  <2> QED BY <2>1, <2>2, FS_Subset
<1>5. \A i, j \in I : rank[i] = rank[j] => i = j
  BY <1>1, <1>4
<1>6. \A k \in 1 .. m : \E i \in I : rank[i] = k
  <2>1. rank \in Injection(I, 1 .. m)
    BY <1>3, <1>5 DEF Injection, IsInjective
  <2>2. IsFiniteSet(1 .. m) /\ Cardinality(1 .. m) = m
    BY <1>2, FS_Interval
  <2>3. rank \in Surjection(I, 1 .. m)
    <3> HIDE DEF rank
    <3> QED BY <2>1, <2>2, FS_Injection
  <2> QED BY <2>3 DEF Surjection
<1>7. \A k \in 1 .. m : kth(k) \in I /\ rank[kth(k)] = k
  BY <1>6
<1>8. at_places(s, I) = [k \in 1 .. m |-> s[kth(k)]]
  BY DEF at_places
<1>9. /\ at_places(s, I) \in Seq(Fills) /\ Len(at_places(s, I)) = m
      /\ \A k \in 1 .. m : at_places(s, I)[k] = s[kth(k)]
  <2> HIDE DEF kth, m, rank, upto
  <2>1. \A k \in 1 .. m : s[kth(k)] \in Fills
    <3>1. \A i \in 1 .. Len(s) : s[i] \in Fills
      OBVIOUS
    <3> QED BY <1>1, <1>7, <3>1
  <2> QED BY <1>2, <1>8, <2>1
<1>10. \A i \in I : rank[i] \in 1 .. m /\ kth(rank[i]) = i
  BY <1>3, <1>5, <1>7
<1>11. \A k, l \in 1 .. m : kth(k) = kth(l) => k = l
  BY <1>7
<1> DEFINE place == [k \in 1 .. m |-> kth(k)]
<1>12. /\ place \in [1 .. m -> I] /\ \A k \in 1 .. m : place[k] = kth(k)
  BY <1>7
<1> HIDE DEF kth, m, rank, place
<1>13. \A i \in I : \E k \in 1 .. m : place[k] = i
  BY <1>10, <1>12
<1>14. \A k, l \in 1 .. m : place[k] = place[l] => k = l
  BY <1>11, <1>12
<1> DEFINE u == at_places(s, I)
<1> HIDE DEF u
<1>15. /\ u \in Seq(Fills) /\ Len(u) = m
       /\ \A k \in 1 .. m : u[k] = s[place[k]]
  BY <1>9, <1>12 DEF u
<1> QED BY <1>12, <1>13, <1>14, <1>15 DEF Lists, u

\* A list split by place: every fill is in one half, and in one only.
LEMMA FillsSplit ==
  ASSUME NEW s \in Seq(Fills), NEW I \in SUBSET (1 .. Len(s))
  PROVE  /\ \A k \in 1 .. Len(at_places(s, I)) : \E i \in I : at_places(s, I)[k] = s[i]
         /\ offers_of(at_places(s, I)) \cup offers_of(at_places(s, (1 .. Len(s)) \ I))
              = offers_of(s)
         /\ Distinct(s) =>
              /\ Distinct(at_places(s, I)) /\ Distinct(at_places(s, (1 .. Len(s)) \ I))
              /\ offers_of(at_places(s, I)) \cap
                   offers_of(at_places(s, (1 .. Len(s)) \ I)) = {}
<1> DEFINE J == (1 .. Len(s)) \ I
           u == at_places(s, I)
           v == at_places(s, J)
<1> HIDE DEF u, v, J
<1>1. PICK p : Lists(u, s, I, p)
  BY AtPlaces DEF u
<1>2. J \in SUBSET (1 .. Len(s))
  BY DEF J
<1>3. PICK q : Lists(v, s, J, q)
  BY <1>2, AtPlaces DEF v
<1>4. offers_of(u) = {s[i].offer : i \in I}
  <2>1. \A k \in 1 .. Len(u) : p[k] \in I
    BY <1>1 DEF Lists
  <2>2. \A i \in I : \E k \in 1 .. Len(u) : s[i] = u[k]
    BY <1>1 DEF Lists
  <2>3. \A k \in 1 .. Len(u) : \E i \in I : u[k] = s[i]
    BY <1>1, <2>1 DEF Lists
  <2>4. {s[i].offer : i \in I} \subseteq offers_of(u)
    BY <2>2 DEF offers_of
  <2>5. offers_of(u) \subseteq {s[i].offer : i \in I}
    BY <2>3 DEF offers_of
  <2> QED BY <2>4, <2>5
<1>5. offers_of(v) = {s[i].offer : i \in J}
  <2>1. \A k \in 1 .. Len(v) : q[k] \in J
    BY <1>3 DEF Lists
  <2>2. \A i \in J : \E k \in 1 .. Len(v) : s[i] = v[k]
    BY <1>3 DEF Lists
  <2>3. \A k \in 1 .. Len(v) : \E i \in J : v[k] = s[i]
    BY <1>3, <2>1 DEF Lists
  <2> QED BY <2>2, <2>3 DEF offers_of
<1>6. offers_of(u) \cup offers_of(v) = offers_of(s)
  BY <1>4, <1>5 DEF offers_of, J
<1>7. ASSUME Distinct(s)
      PROVE  Distinct(u) /\ Distinct(v)
  <2>1. Distinct(u)
    <3>1. \A k \in 1 .. Len(u) : p[k] \in 1 .. Len(s) /\ u[k] = s[p[k]]
      BY <1>1 DEF Lists
    <3> QED BY <1>1, <1>7, <3>1 DEF Distinct, Lists
  <2>2. Distinct(v)
    <3>1. \A k \in 1 .. Len(v) : q[k] \in 1 .. Len(s) /\ v[k] = s[q[k]]
      BY <1>2, <1>3 DEF Lists
    <3> QED BY <1>3, <1>7, <3>1 DEF Distinct, Lists
  <2> QED BY <2>1, <2>2
<1>8. ASSUME Distinct(s)
      PROVE  offers_of(u) \cap offers_of(v) = {}
  BY <1>2, <1>4, <1>5, <1>8 DEF Distinct, J
<1>9. \A k \in 1 .. Len(u) : \E i \in I : u[k] = s[i]
  BY <1>1 DEF Lists
<1> QED BY <1>6, <1>7, <1>8, <1>9 DEF u, v, J

\* What the call and the earlier ones found.
LEMMA SeenIs ==
  ASSUME pending_unconfirmed_fills \in Seq(Fills), call.fills \in Seq(Fills)
  PROVE  \A i \in 1 .. Len(seen) :
           \/ \E j \in 1 .. Len(pending_unconfirmed_fills) : seen[i] = pending_unconfirmed_fills[j]
           \/ \E j \in 1 .. Len(call.fills) : seen[i] = call.fills[j]
<1> DEFINE s == pending_unconfirmed_fills
           t == call.fills
           u == s \o t
           n == Len(s)
<1>1. s \in Seq(Fills) /\ t \in Seq(Fills)
  OBVIOUS
<1> HIDE DEF s, t
<1>2. /\ n \in Nat /\ Len(t) \in Nat /\ Len(u) = n + Len(t)
      /\ \A i \in 1 .. n : u[i] = s[i]
      /\ \A i \in 1 .. Len(t) : u[n + i] = t[i]
  BY <1>1
<1>3. seen = u
  BY DEF seen, s, t
<1> HIDE DEF u, n
<1>4. ASSUME NEW i \in 1 .. Len(u)
      PROVE  (\E j \in 1 .. n : u[i] = s[j]) \/ (\E j \in 1 .. Len(t) : u[i] = t[j])
  <2>1. CASE i \in 1 .. n
    BY <1>2, <2>1
  <2>2. CASE i \notin 1 .. n
    <3>1. i - n \in 1 .. Len(t) /\ n + (i - n) = i
      BY <1>2, <2>2
    <3>2. u[i] = t[i - n]
      BY <1>2, <3>1
    <3> QED BY <3>1, <3>2
  <2> QED BY <2>1, <2>2
<1> QED BY <1>3, <1>4 DEF s, t, n

-----------------------------------------------------------------------------
(* Type correctness.                                                       *)

\* A call that has not begun is one of the calls there are.
LEMMA TypeIdle == Idle \in Calls
<1>1. <<>> \in Seq(Fills)
  OBVIOUS
<1> QED BY <1>1 DEF Calls, Answers, Records, Statuses, Idle, NotAsked, NoAnswer, NotRead

\* The initial state has its types.
LEMMA TypeInit == Init => FillTypeOK
<1> SUFFICES ASSUME Init PROVE FillTypeOK
  OBVIOUS
<1> USE DEF Init, Nobody, Unspent, NoWindow, NotBuffered, Idle, NotAsked, NoAnswer, NotRead
<1>1. WorldOK
  BY DEF WorldOK, Chains, Spendings, Statuses
<1>2. ManagerOK
  BY DEF ManagerOK, Holds, Statuses
<1>3. Idle \in Calls
  BY TypeIdle
<1>4. EngineOK
  BY DEF EngineOK, Rows, Fills
<1> QED BY <1>1, <1>2, <1>3, <1>4 DEF FillTypeOK

\* So has a call that is through with an offer.
LEMMA TypeThrough ==
  ASSUME call \in Calls, NEW o \in Offers
  PROVE  through(o) \in Calls
BY DEF Calls, Records, Answers, through, NotAsked, NoAnswer, NotRead, Statuses

\* So has a call that has polled one.
LEMMA TypePolled ==
  ASSUME call \in Calls, NEW o \in Offers, NEW rec \in Records
  PROVE  polled(o, rec) \in Calls
BY DEF Calls, Records, Answers, polled, NotAsked, NoAnswer, NotRead, Statuses

\* So has a call that has found one more terminal.
LEMMA TypeMore ==
  ASSUME NEW c \in Calls, NEW o \in Offers
  PROVE  [c EXCEPT !.terminals = @ \cup {o}] \in Calls
BY DEF Calls

\* A booked take is one more Fill, at the height of the answer.
LEMMA BookAppends ==
  ASSUME call \in Calls, NEW o \in Offers, Book(o)
  PROVE  LET f == [offer |-> o, height |-> fill_height(o)] IN
         /\ f \in Fills /\ Append(call.fills, f) \in Seq(Fills)
         /\ call' = [through(o) EXCEPT !.fills = Append(call.fills, f)]
<1>1. through(o).fills = call.fills /\ call.fills \in Seq(Fills) /\ answer.height \in Nat
  BY DEF through, Calls, answer, Answers
<1>2. [offer |-> o, height |-> fill_height(o)] \in Fills
  BY <1>1 DEF Fills, fill_height
<1> QED BY <1>1, <1>2 DEF Book

\* An answer is one of the answers there are.
LEMMA TypeAnswers ==
  ASSUME FillTypeOK, NEW o \in Offers, NEW reply \in prove_fill_on_chain(o)
  PROVE  reply \in Answers
<1> USE DEF FillTypeOK, WorldOK, Chains, Spendings, Calls
<1>1. chain.spend[o] \in Spendings /\ node.spend[o] \in Spendings
  OBVIOUS
<1>2. said(o) \in Answers
  BY <1>1 DEF said, says, shows, spent_together, Silence, NoAnswer, Answers
<1> QED BY <1>2 DEF prove_fill_on_chain, Silence, Refused, NoAnswer, Answers

\* Everything the proof of a fill goes through keeps the types.
LEMMA TypeStep ==
  ASSUME FillTypeOK, [Next]_vars
  PROVE  FillTypeOK'
<1> USE DEF FillTypeOK, WorldOK, ManagerOK, EngineOK, world, state, manager, engine, db
<1>1. CASE UNCHANGED vars
  BY <1>1 DEF vars
<1>2. CASE Block
  <2>1. PICK spend \in [Offers -> Spends] : chain' = [tip |-> chain.tip + 1, spend |-> spend]
    BY <1>2 DEF Block
  <2>2. \A o \in Offers : spend[o] \in Spendings
    BY FillAssumption DEF Spends, Unspent, Spendings
  <2>3. chain' \in Chains
    BY <2>1, <2>2 DEF Chains
  <2> QED BY <1>2, <2>3 DEF Block
<1>3. CASE NodeSyncs
  BY <1>3 DEF NodeSyncs
<1>4. CASE Reorg
  <2>1. PICK spend \in [Offers -> Spends] : chain' = [chain EXCEPT !.spend = spend]
    BY <1>4 DEF Reorg
  <2>2. \A o \in Offers : spend[o] \in Spendings
    BY FillAssumption DEF Spends, Unspent, Spendings
  <2>3. chain' \in Chains
    BY <2>1, <2>2 DEF Chains
  <2>4. status' \in [Offers -> Statuses] /\ reorgs' \in Nat
    BY <1>4 DEF Reorg, Statuses
  <2> QED BY <1>4, <2>3, <2>4 DEF Reorg
<1>5. CASE \E o \in Offers : WalletSees(o)
  <2>1. PICK o \in Offers : WalletSees(o)
    BY <1>5
  <2>2. chain.spend[o].at \in Nat
    BY DEF Chains, Spendings
  <2> QED BY <2>1, <2>2 DEF WalletSees, Statuses
<1>6. CASE \E o \in Offers, st \in Statuses : CancelledElsewhere(o, st)
  BY <1>6 DEF CancelledElsewhere
<1>7. CASE Begin
  <2>1. PICK fn \in BOOLEAN :
          /\ call' = [Idle EXCEPT !.pc = IF offers = {} THEN "prove" ELSE "poll",
                        !.block = IF fn THEN node.tip ELSE chain.tip,
                        !.from_node = fn, !.todo = offers]
    BY <1>7 DEF Begin
  <2>2. node.tip \in Nat /\ chain.tip \in Nat
    BY DEF Chains
  <2>3. call' \in Calls
    <3>1. PICK p \in {"prove", "poll"}, b \in Nat :
            call' = [Idle EXCEPT !.pc = p, !.block = b, !.from_node = fn, !.todo = offers]
      BY <2>1, <2>2
    <3> QED BY <3>1, TypeIdle DEF Calls
  <2>4. /\ fill_proof_deferrals' \in [Offers -> Holds]
        /\ cancel_status_proven' \in [Offers -> Statuses \cup {"none"}]
        /\ cancel_status_inconclusive' \in
             [Offers -> [status : Statuses \cup {"none"}, block : Nat]]
    BY <1>7 DEF Begin, keep, NoWindow, Holds
  <2> QED BY <1>7, <2>3, <2>4 DEF Begin
<1>8. CASE \E o \in Offers : Poll(o)
  <2>1. PICK o \in Offers : Poll(o)
    BY <1>8
  <2>2. [status |-> status[o], claimed |-> confirmed_at_index[o]] \in Records
    BY DEF Records
  <2>3. call' \in Calls
    BY <2>1, <2>2, TypePolled DEF Poll
  <2>4. fill_proof_deferrals' \in [Offers -> Holds]
    BY <2>1 DEF Poll, hold_after, Holds
  <2> QED BY <2>1, <2>3, <2>4 DEF Poll
<1>9. CASE \E o \in Offers : SkipPoll(o)
  <2>1. PICK o \in Offers : SkipPoll(o)
    BY <1>9
  <2>2. NotRead \in Records
    BY DEF Records, NotRead
  <2>3. call' \in Calls
    BY <2>1, <2>2, TypePolled DEF SkipPoll
  <2> QED BY <2>1, <2>3 DEF SkipPoll
<1>10. CASE \E o \in Offers : Ask(o)
  <2>1. PICK o \in Offers : Ask(o)
    BY <1>10
  <2>2. PICK reply \in prove_fill_on_chain(o) :
          call' = [call EXCEPT !.asking = {o}, !.asked = [held |-> held(o), answer |-> reply],
                               !.failed = @ \/ reply.lookup = "failed"]
    BY <2>1 DEF Ask
  <2>3. reply \in Answers
    BY TypeAnswers
  <2>4. held(o) \in BOOLEAN /\ (call.failed \/ reply.lookup = "failed") \in BOOLEAN
    BY DEF held
  <2>5. call' \in Calls
    BY <2>2, <2>3, <2>4 DEF Calls
  <2> QED BY <2>1, <2>5 DEF Ask
<1>11. CASE \E o \in Offers : PassBy(o) \/ Book(o) \/ CloseDead(o) \/ StillTakeable(o)
                               \/ Defer(o) \/ Wait(o) \/ Stand(o)
  <2>1. PICK o \in Offers : PassBy(o) \/ Book(o) \/ CloseDead(o) \/ StillTakeable(o)
                               \/ Defer(o) \/ Wait(o) \/ Stand(o)
    BY <1>11
  <2>2. through(o) \in Calls
    BY TypeThrough
  <2>3. /\ answer.height \in Nat /\ call.block \in Nat
        /\ read(o) \in Statuses \cup {"unread"}
    BY DEF Calls, Answers, answer, read, Records
  <2>4. window_ended(o) \in [Offers -> [status : Statuses \cup {"none"}, block : Nat]]
    BY DEF window_ended, NoWindow
  <2>5. hold_after(fill_proof_deferrals[o], read(o)) \in Holds
    BY DEF hold_after, Holds
  <2>6. CASE PassBy(o)
    <3>1. call' \in Calls
      <4>1. call' = through(o) \/ call' = [through(o) EXCEPT !.terminals = @ \cup {o}]
        BY <2>6 DEF PassBy
      <4> QED BY <2>2, <4>1, TypeMore
    <3>2. fill_proof_deferrals' \in [Offers -> Holds]
      BY <2>5, <2>6 DEF PassBy
    <3> QED BY <2>6, <3>1, <3>2 DEF PassBy, remove_offer
  <2>7. CASE Book(o)
    <3>1. PICK f \in Seq(Fills) : call' = [through(o) EXCEPT !.fills = f]
      BY <2>7, BookAppends
    <3>5. call' \in Calls
      BY <2>2, <3>1 DEF Calls
    <3> QED BY <2>4, <2>7, <3>5 DEF Book, remove_offer, Holds
  <2>8. CASE CloseDead(o)
    <3>1. call' \in Calls
      BY <2>2, <2>8 DEF CloseDead, Calls
    <3> QED BY <2>4, <2>8, <3>1 DEF CloseDead, remove_offer, Holds
  <2>9. CASE StillTakeable(o) \/ Defer(o)
    BY <2>2, <2>4, <2>9 DEF StillTakeable, Defer, Holds
  <2>10. CASE Wait(o)
    <3>1. answer = Silence => read(o) \in Statuses
      BY <2>10, <2>3 DEF Wait, not_held, under_cancel, written_by_a_cancel, Statuses
    <3>2. cancel_status_inconclusive' \in
             [Offers -> [status : Statuses \cup {"none"}, block : Nat]]
      <4>1. cancel_status_inconclusive[o] \in [status : Statuses \cup {"none"}, block : Nat]
        OBVIOUS
      <4>2. answer = Silence => window(o) \in [status : Statuses \cup {"none"}, block : Nat]
        BY <2>3, <3>1, <4>1 DEF window
      <4> QED BY <2>4, <2>10, <4>2 DEF Wait
    <3> QED BY <2>2, <2>10, <3>2 DEF Wait
  <2>11. CASE Stand(o)
    <3>1. call' \in Calls
      <4>1. call' = through(o) \/ call' = [through(o) EXCEPT !.terminals = @ \cup {o}]
        BY <2>11 DEF Stand
      <4> QED BY <2>2, <4>1, TypeMore
    <3>2. read(o) \in Statuses
      BY <2>11 DEF Stand, under_cancel, written_by_a_cancel, Statuses
    <3>3. fill_proof_deferrals' \in [Offers -> Holds]
      BY <2>11 DEF Stand, Holds
    <3>4. offers' \subseteq Offers
      BY <2>11 DEF Stand, remove_offer
    <3>5. /\ cancel_status_proven' \in [Offers -> Statuses \cup {"none"}]
          /\ cancel_status_inconclusive' \in
               [Offers -> [status : Statuses \cup {"none"}, block : Nat]]
      BY <2>11, <3>2 DEF Stand, NoWindow
    <3> QED BY <2>11, <3>1, <3>3, <3>4, <3>5 DEF Stand
  <2> QED BY <2>1, <2>6, <2>7, <2>8, <2>9, <2>10, <2>11
<1>12. CASE EndDetect
  <2>1. seen \in Seq(Fills)
    BY FillsConcat DEF seen, Calls
  <2>2. deep_places \in SUBSET (1 .. Len(seen))
    BY DEF deep_places
  <2>3. /\ at_places(seen, deep_places) \in Seq(Fills)
        /\ at_places(seen, (1 .. Len(seen)) \ deep_places) \in Seq(Fills)
    BY <2>1, <2>2, AtPlaces
  <2>4. call' \in Calls
    <3>1. PICK T \in SUBSET Offers :
            call' = [call EXCEPT !.pc = "write", !.fills = at_places(seen, deep_places),
                                 !.terminals = {}, !.dead = {}, !.todo = T]
      BY <1>12 DEF EndDetect
    <3> QED BY <2>3, <3>1 DEF Calls
  <2>5. pending_unconfirmed_terminals' \in [Offers -> [block : Nat, failures : Nat]]
    <3>1. call.block \in Nat
      BY DEF Calls
    <3> QED BY <1>12, <3>1 DEF EndDetect, unless_filled, buffered, NotBuffered
  <2>6. row' \in [Offers -> Rows]
    BY <1>12 DEF EndDetect, closed, Rows
  <2>7. pending_dead_writes' \subseteq Offers /\ abandoned' \subseteq Offers
    BY <1>12 DEF EndDetect, Calls
  <2> QED BY <1>12, <2>3, <2>4, <2>5, <2>6, <2>7 DEF EndDetect
<1>13. CASE \E o \in Offers : Recheck(o) \/ CloseFails(o) \/ NoVerdict(o) \/ NotAskedAgain(o)
  <2>1. PICK o \in Offers : Recheck(o) \/ CloseFails(o) \/ NoVerdict(o) \/ NotAskedAgain(o)
    BY <1>13
  <2>2. call' \in Calls
    <3>1. call' = [call EXCEPT !.todo = @ \ {o}]
      BY <2>1 DEF Recheck, CloseFails, NoVerdict, NotAskedAgain
    <3> QED BY <3>1 DEF Calls
  <2>3. drop(o) \in [Offers -> [block : Nat, failures : Nat]]
    BY DEF drop, NotBuffered
  <2>4. closed({o}) \in [Offers -> Rows]
    BY DEF closed, Rows
  <2>5. \A n \in Nat : [pending_unconfirmed_terminals EXCEPT ![o].failures = n]
                          \in [Offers -> [block : Nat, failures : Nat]]
    OBVIOUS
  <2>6. CASE Recheck(o)
    BY <2>2, <2>3, <2>4, <2>6 DEF Recheck, readopt
  <2>7. CASE CloseFails(o)
    <3>1. pending_unconfirmed_terminals' \in [Offers -> [block : Nat, failures : Nat]]
      <4>1. [pending_unconfirmed_terminals EXCEPT ![o].failures = 0]
              \in [Offers -> [block : Nat, failures : Nat]]
        OBVIOUS
      <4> QED BY <2>3, <2>7, <4>1 DEF CloseFails
    <3>2. abandoned' \subseteq Offers
      BY <2>7 DEF CloseFails
    <3> QED BY <2>2, <2>7, <3>1, <3>2 DEF CloseFails
  <2>8. CASE NoVerdict(o)
    <3>1. pending_unconfirmed_terminals[o].failures + 1 \in Nat
      OBVIOUS
    <3>2. pending_unconfirmed_terminals' \in [Offers -> [block : Nat, failures : Nat]]
      BY <2>3, <2>5, <2>8, <3>1, ZenonT(40) DEF NoVerdict
    <3>3. abandoned' \subseteq Offers
      BY <2>8 DEF NoVerdict
    <3> QED BY <2>2, <2>8, <3>2, <3>3 DEF NoVerdict
  <2>9. CASE NotAskedAgain(o)
    BY <2>2, <2>9 DEF NotAskedAgain
  <2> QED BY <2>1, <2>6, <2>7, <2>8, <2>9
<1>14. CASE Write \/ WriteFails
  <2>1. /\ fill \in Fills /\ next_fill \in Calls
    <3>1. call.fills # <<>> /\ call.fills \in Seq(Fills)
      BY <1>14 DEF Write, WriteFails, recording, Calls
    <3>2. Tail(call.fills) \in Seq(Fills) /\ fill \in Fills
      BY <3>1, FillsTail DEF fill
    <3> QED BY <3>2 DEF next_fill, Calls
  <2>2. fill.offer \in Offers
    BY <2>1 DEF Fills
  <2>3. CASE Write
    <3>1. call' \in Calls
      <4>1. call.written + 1 \in Nat
        BY DEF Calls
      <4>2. call' = next_fill \/ call' = [call EXCEPT !.written = call.written + 1]
        BY <2>3 DEF Write
      <4> QED BY <2>1, <4>1, <4>2, ZenonT(40) DEF Calls
    <3>2. row' \in [Offers -> Rows]
      BY <2>2, <2>3 DEF Write, Rows
    <3>3. inventory' \in [Offers -> Nat]
      <4>1. \/ inventory' = inventory
            \/ inventory' = [inventory EXCEPT ![fill.offer] = inventory[fill.offer] + 1]
        BY <2>3 DEF Write
      <4>2. inventory[fill.offer] + 1 \in Nat
        BY <2>2
      <4> QED BY <2>2, <4>1, <4>2
    <3> QED BY <2>3, <3>1, <3>2, <3>3 DEF Write
  <2>4. CASE WriteFails
    BY <2>1, <2>2, <2>4 DEF WriteFails
  <2> QED BY <1>14, <2>3, <2>4
<1>15. CASE \E o \in Offers : Reconcile(o)
  <2>1. call.block \in Nat
    BY DEF Calls
  <2>2. \A o \in Offers : buffered(pending_unconfirmed_terminals, {o})
                            \in [Offers -> [block : Nat, failures : Nat]]
    BY <2>1 DEF buffered
  <2> QED BY <1>15, <2>2 DEF Reconcile, remove_offer
<1>16. CASE \E o \in Offers, st \in Statuses : SendCancel(o, st)
  <2>1. PICK o \in Offers, st \in Statuses : SendCancel(o, st)
    BY <1>16
  <2>2. row' \in [Offers -> Rows]
    BY <2>1 DEF SendCancel, Rows
  <2>3. status' \in [Offers -> Statuses]
    BY <2>1 DEF SendCancel
  <2> QED BY <2>1, <2>2, <2>3 DEF SendCancel
<1>17. CASE Crash
  <2>1. call' \in Calls
    BY <1>17, TypeIdle DEF Crash
  <2>2. /\ fill_proof_deferrals' \in [Offers -> Holds]
        /\ cancel_status_proven' \in [Offers -> Statuses \cup {"none"}]
        /\ cancel_status_inconclusive' \in
             [Offers -> [status : Statuses \cup {"none"}, block : Nat]]
        /\ pending_unconfirmed_terminals' \in [Offers -> [block : Nat, failures : Nat]]
    BY <1>17 DEF Crash, Nobody, Holds, NoWindow, NotBuffered
  <2>3. <<>> \in Seq(Fills)
    OBVIOUS
  <2> QED BY <1>17, <2>1, <2>2, <2>3 DEF Crash
<1>18. CASE Boot
  BY <1>18 DEF Boot, open_rows, Rows
<1>19. CASE EndStep
  BY <1>19, TypeIdle DEF EndStep, Calls
<1> QED BY <1>1, <1>2, <1>3, <1>4, <1>5, <1>6, <1>7, <1>8, <1>9, <1>10, <1>11, <1>12,
       <1>13, <1>14, <1>15, <1>16, <1>17, <1>18, <1>19
       DEF Next, WorldNext, DetectNext, StepNext, OtherNext

-----------------------------------------------------------------------------
(* What a step of the call does to the call.                               *)

\* Being through with an offer changes its record and whose turn it is.
LEMMA ThroughFields ==
  ASSUME call \in Calls, NEW o \in Offers
  PROVE  /\ through(o).pc = call.pc /\ through(o).block = call.block
         /\ through(o).from_node = call.from_node /\ through(o).failed = call.failed
         /\ through(o).todo = call.todo \ {o} /\ through(o).asking = {}
         /\ through(o).recs = [call.recs EXCEPT ![o] = NotRead]
         /\ through(o).fills = call.fills /\ through(o).written = call.written
         /\ through(o).terminals = call.terminals /\ through(o).dead = call.dead
BY DEF through, Calls

PolledStep(o) ==
  /\ call.pc = "poll" /\ o \in call.todo /\ call'.pc \in {"poll", "prove"}
  /\ call'.block = call.block /\ call'.from_node = call.from_node
  /\ call'.asking = call.asking /\ call'.fills = call.fills /\ call'.written = call.written
  /\ call'.terminals = call.terminals /\ call'.dead = call.dead
  /\ call'.recs \in {[call.recs EXCEPT ![o] = NotRead],
                     [call.recs EXCEPT ![o] = [status |-> status[o],
                                               claimed |-> confirmed_at_index[o]]]}
  /\ \/ call'.pc = "poll" /\ call'.todo = call.todo \ {o}
     \/ call'.pc = "prove" /\ call'.todo = {p \in Offers : call'.recs[p] # NotRead}
                           /\ call.todo = {o}
  /\ UNCHANGED <<world, state, cancel_status_proven, cancel_status_inconclusive,
                 proven_dead, engine, db>>

\* A poll writes one record; the last one starts the proofs.
LEMMA PollFields ==
  ASSUME call \in Calls, NEW o \in Offers, Poll(o) \/ SkipPoll(o)
  PROVE  PolledStep(o)
<1>1. ASSUME NEW rec, call' = polled(o, rec)
      PROVE  /\ call'.block = call.block /\ call'.from_node = call.from_node
             /\ call'.asking = call.asking /\ call'.fills = call.fills
             /\ call'.written = call.written
             /\ call'.terminals = call.terminals /\ call'.dead = call.dead
             /\ call'.recs = [call.recs EXCEPT ![o] = rec]
             /\ \/ call'.pc = call.pc /\ call'.todo = call.todo \ {o}
                \/ call'.pc = "prove" /\ call.todo = {o}
                   /\ call'.todo = {p \in Offers : call'.recs[p] # NotRead}
  BY <1>1 DEF polled, Calls
<1>2. \/ call' = polled(o, NotRead)
      \/ call' = polled(o, [status |-> status[o], claimed |-> confirmed_at_index[o]])
  BY DEF Poll, SkipPoll
<1>3. /\ call.pc = "poll" /\ o \in call.todo
      /\ UNCHANGED <<world, state, cancel_status_proven, cancel_status_inconclusive,
                     proven_dead, engine, db>>
  BY DEF Poll, SkipPoll, manager
<1>4. CASE call' = polled(o, NotRead)
  BY <1>1, <1>3, <1>4 DEF PolledStep
<1>5. CASE call' = polled(o, [status |-> status[o], claimed |-> confirmed_at_index[o]])
  BY <1>1, <1>3, <1>5 DEF PolledStep
<1> QED BY <1>2, <1>4, <1>5

AskedStep(o, reply) ==
  /\ turn(o) /\ (read(o) = "confirmed" \/ reprove(o)) /\ reply \in prove_fill_on_chain(o)
  /\ call'.pc = call.pc /\ call'.block = call.block /\ call'.from_node = call.from_node
  /\ call'.todo = call.todo /\ call'.recs = call.recs /\ call'.asking = {o}
  /\ call'.asked = [held |-> held(o), answer |-> reply]
  /\ call'.fills = call.fills /\ call'.written = call.written
  /\ call'.terminals = call.terminals /\ call'.dead = call.dead
  /\ UNCHANGED <<world, offers, manager, engine, db>>

\* Asking takes one of the answers there are, and begins nothing else.
LEMMA AskFields ==
  ASSUME call \in Calls, NEW o \in Offers, Ask(o)
  PROVE  \E reply \in prove_fill_on_chain(o) : AskedStep(o, reply)
<1>1. PICK reply \in prove_fill_on_chain(o) :
        call' = [call EXCEPT !.asking = {o}, !.asked = [held |-> held(o), answer |-> reply],
                             !.failed = @ \/ reply.lookup = "failed"]
  BY DEF Ask
<1>2. AskedStep(o, reply)
  BY <1>1 DEF AskedStep, Ask, Calls, world
<1> QED BY <1>2

Answered(o) == PassBy(o) \/ Book(o) \/ CloseDead(o) \/ StillTakeable(o)
               \/ Defer(o) \/ Wait(o) \/ Stand(o)

\* What is kept whatever the answer is used for.
ThroughStep(o) ==
  /\ call'.pc = call.pc /\ call'.block = call.block /\ call'.from_node = call.from_node
  /\ call'.todo = call.todo \ {o} /\ call'.asking = {}
  /\ call'.recs = [call.recs EXCEPT ![o] = NotRead] /\ call'.written = call.written
  /\ offers' \in {offers, offers \ {o}}
  /\ UNCHANGED <<world, engine, db>>
FoundTake(o)     == call'.fills = Append(call.fills, [offer |-> o, height |-> answer.height])
FoundTerminal(o) == call'.terminals = call.terminals \cup {o}
FoundDead(o)     == call'.dead = call.dead \cup {o}

\* An answer ends the offer's turn, and finds at most one of a take, a terminal
\* and a dead offer.
LEMMA AnswerFields ==
  ASSUME call \in Calls, NEW o \in Offers, Answered(o)
  PROVE  /\ ThroughStep(o)
         /\ IF Book(o) THEN FoundTake(o) ELSE call'.fills = call.fills
         /\ \/ call'.terminals = call.terminals
            \/ /\ FoundTerminal(o) /\ offers' = offers \ {o}
               /\ read(o) \in {"cancelled", "failed"} /\ (PassBy(o) \/ Stand(o))
         /\ IF CloseDead(o) THEN FoundDead(o) ELSE call'.dead = call.dead
<1> USE DEF world, state, manager, engine, db
<1>f. /\ through(o).pc = call.pc /\ through(o).block = call.block
      /\ through(o).from_node = call.from_node
      /\ through(o).todo = call.todo \ {o} /\ through(o).asking = {}
      /\ through(o).recs = [call.recs EXCEPT ![o] = NotRead]
      /\ through(o).fills = call.fills /\ through(o).written = call.written
      /\ through(o).terminals = call.terminals /\ through(o).dead = call.dead
  BY ThroughFields
<1>t. through(o) \in Calls
  BY TypeThrough
<1>a. call'.fills = call.fills => call'.fills # Append(call.fills, [offer |-> o, height |-> answer.height])
  <2>1. Len(Append(call.fills, [offer |-> o, height |-> answer.height])) = Len(call.fills) + 1
        /\ Len(call.fills) \in Nat
    BY DEF Calls
  <2> QED BY <2>1
<1>1. CASE PassBy(o)
  <2>1. \/ call' = through(o) /\ UNCHANGED offers
        \/ /\ call' = [through(o) EXCEPT !.terminals = @ \cup {o}]
           /\ offers' = offers \ {o} /\ read(o) \in {"cancelled", "failed"}
    BY <1>1 DEF PassBy, remove_offer
  <2>2. ~Book(o) /\ ~CloseDead(o)
    BY <1>1 DEF PassBy, Book, CloseDead, turn, answered
  <2>3. UNCHANGED <<world, engine, db>>
    BY <1>1 DEF PassBy
  <2>4. \/ call'.terminals = call.terminals /\ UNCHANGED offers
        \/ /\ FoundTerminal(o)
           /\ offers' = offers \ {o} /\ read(o) \in {"cancelled", "failed"}
    BY <1>f, <1>t, <2>1 DEF FoundTerminal, Calls
  <2>5. call'.fills = call.fills /\ call'.dead = call.dead /\ ThroughStep(o)
    BY <1>f, <1>t, <2>1, <2>3 DEF ThroughStep, Calls
  <2> QED BY <1>1, <2>2, <2>4, <2>5
<1>2. CASE Book(o)
  <2>1. call' = [through(o) EXCEPT !.fills = Append(call.fills, [offer |-> o, height |-> answer.height])]
    BY <1>2, <1>f DEF Book, fill_height
  <2>2. ~CloseDead(o)
    BY <1>2 DEF Book, CloseDead, dead_offer_closable
  <2>3. UNCHANGED <<world, engine, db>> /\ offers' = offers \ {o}
    BY <1>2 DEF Book, remove_offer
  <2>4. ThroughStep(o) /\ FoundTake(o) /\ call'.dead = call.dead /\ call'.terminals = call.terminals
    BY <1>f, <1>t, <2>1, <2>3 DEF ThroughStep, FoundTake, Calls
  <2> QED BY <1>2, <2>2, <2>4
<1>3. CASE CloseDead(o)
  <2>1. call' = [through(o) EXCEPT !.dead = @ \cup {o}]
    BY <1>3 DEF CloseDead
  <2>2. ~Book(o)
    BY <1>3 DEF Book, CloseDead, dead_offer_closable
  <2>3. UNCHANGED <<world, engine, db>> /\ offers' = offers \ {o}
    BY <1>3 DEF CloseDead, remove_offer
  <2>4. ThroughStep(o) /\ FoundDead(o) /\ call'.fills = call.fills /\ call'.terminals = call.terminals
    BY <1>f, <1>t, <2>1, <2>3 DEF ThroughStep, FoundDead, Calls
  <2> QED BY <1>3, <2>2, <2>4
<1>4. CASE StillTakeable(o) \/ Defer(o) \/ Wait(o)
  <2>1. call' = through(o) /\ UNCHANGED <<world, engine, db>> /\ UNCHANGED offers
    BY <1>4 DEF StillTakeable, Defer, Wait
  <2>2. ThroughStep(o) /\ call'.fills = call.fills /\ call'.terminals = call.terminals
        /\ call'.dead = call.dead
    BY <1>f, <2>1 DEF ThroughStep
  <2>3. ~Book(o)
    BY <1>a, <1>2, <2>2 DEF FoundTake
  <2>4. CloseDead(o) => FoundDead(o)
    BY <1>3
  <2> QED BY <2>2, <2>3, <2>4, <1>a
<1>5. CASE Stand(o)
  <2>1. \/ call' = through(o) /\ UNCHANGED offers
        \/ /\ call' = [through(o) EXCEPT !.terminals = @ \cup {o}]
           /\ offers' = offers \ {o} /\ read(o) \in {"cancelled", "failed"}
    BY <1>5 DEF Stand, remove_offer
  <2>3. UNCHANGED <<world, engine, db>>
    BY <1>5 DEF Stand
  <2>4. \/ call'.terminals = call.terminals /\ UNCHANGED offers
        \/ /\ FoundTerminal(o)
           /\ offers' = offers \ {o} /\ read(o) \in {"cancelled", "failed"}
    BY <1>f, <1>t, <2>1 DEF FoundTerminal, Calls
  <2>5. call'.fills = call.fills /\ call'.dead = call.dead /\ ThroughStep(o)
    BY <1>f, <1>t, <2>1, <2>3 DEF ThroughStep, Calls
  <2>6. ~Book(o)
    BY <1>a, <1>2, <2>5 DEF FoundTake
  <2>7. CloseDead(o) => FoundDead(o)
    BY <1>3
  <2> QED BY <1>5, <2>4, <2>5, <2>6, <2>7
<1> QED BY <1>1, <1>2, <1>3, <1>4, <1>5 DEF Answered

\* The Fresh offers: found to be taken, and not yet recorded.
EndedDetect ==
  /\ call'.pc = "write" /\ call'.block = call.block /\ call'.from_node = call.from_node
  /\ call'.recs = call.recs /\ call'.asking = call.asking /\ call'.written = call.written
  /\ call'.terminals = {} /\ call'.dead = {}
  /\ call'.todo = {o \in Offers : at_depth(pending_unconfirmed_terminals'[o].block, call.block)}
  /\ \A o \in Offers : pending_unconfirmed_terminals'[o] =
       IF o \in Fresh THEN NotBuffered
       ELSE buffered(pending_unconfirmed_terminals, call.terminals)[o]
  /\ UNCHANGED <<world, state, manager, up, trade_log, inventory>>
SplitFills ==
  /\ Fresh' = Fresh
  /\ \A k \in 1 .. Len(call'.fills) :
       at_depth(call'.fills[k].height, call.block) /\ \E i \in 1 .. Len(seen) : call'.fills[k] = seen[i]
  /\ \A k \in 1 .. Len(pending_unconfirmed_fills') :
       \E i \in 1 .. Len(seen) : pending_unconfirmed_fills'[k] = seen[i]
  /\ FoundOnce => FoundOnce'
DeadRows ==
  LET queued == pending_dead_writes \cup call.dead IN
  /\ pending_dead_writes' \subseteq queued /\ abandoned \subseteq abandoned'
  /\ \A o \in Offers : \/ row'[o] = row[o]
                       \/ row'[o] = "cancelled" /\ row[o] # "filled" /\ o \in queued
  /\ \A o \in queued : row'[o] \in {"cancelled", "filled"}
                       \/ o \in pending_dead_writes' \cup abandoned'

\* What the step makes of a detect_fills call: nothing that was found is lost.
LEMMA EndDetectFields ==
  ASSUME FillTypeOK, EndDetect
  PROVE  /\ call.pc = "prove" /\ call.todo = {} /\ call.asking = {}
         /\ EndedDetect /\ SplitFills /\ DeadRows
<1>1. /\ pending_unconfirmed_fills \in Seq(Fills) /\ call.fills \in Seq(Fills)
      /\ call \in Calls
  BY DEF FillTypeOK, EngineOK, Calls
<1>2. /\ seen \in Seq(Fills) /\ offers_of(seen) = Fresh
      /\ FoundOnce => Distinct(seen)
  BY <1>1, FillsConcat DEF seen, Fresh, FoundOnce
<1>3. deep_places \in SUBSET (1 .. Len(seen))
  BY DEF deep_places
<1>4. EndedDetect
  <2>1. PICK T \in SUBSET Offers :
          /\ T = {o \in Offers : at_depth(pending_unconfirmed_terminals'[o].block, call.block)}
          /\ call' = [call EXCEPT !.pc = "write", !.fills = at_places(seen, deep_places),
                               !.terminals = {}, !.dead = {}, !.todo = T]
    BY DEF EndDetect
  <2>2. /\ call'.pc = "write" /\ call'.block = call.block /\ call'.from_node = call.from_node
        /\ call'.recs = call.recs /\ call'.asking = call.asking /\ call'.written = call.written
        /\ call'.terminals = {} /\ call'.dead = {} /\ call'.todo = T
    BY <1>1, <2>1 DEF Calls
  <2>3. \A o \in Offers : pending_unconfirmed_terminals'[o] =
          IF o \in Fresh THEN NotBuffered
          ELSE buffered(pending_unconfirmed_terminals, call.terminals)[o]
    BY <1>1, <1>2 DEF EndDetect, unless_filled, FillTypeOK, EngineOK
  <2>4. UNCHANGED <<world, state, manager, up, trade_log, inventory>>
    BY DEF EndDetect
  <2> QED BY <2>1, <2>2, <2>3, <2>4 DEF EndedDetect
<1>5. SplitFills
  <2> DEFINE later == (1 .. Len(seen)) \ deep_places
  <2>1. /\ call'.fills = at_places(seen, deep_places)
        /\ pending_unconfirmed_fills' = at_places(seen, later)
    BY <1>1 DEF EndDetect, Calls
  <2>2. later \in SUBSET (1 .. Len(seen))
    OBVIOUS
  <2> DEFINE u == at_places(seen, deep_places)
             v == at_places(seen, later)
  <2>a. /\ \A k \in 1 .. Len(u) : \E i \in deep_places : u[k] = seen[i]
        /\ offers_of(u) \cup offers_of(v) = offers_of(seen)
        /\ Distinct(seen) => Distinct(u) /\ Distinct(v) /\ offers_of(u) \cap offers_of(v) = {}
    BY <1>2, <1>3, FillsSplit
  <2>b. \A k \in 1 .. Len(v) : \E i \in later : v[k] = seen[i]
    BY <1>2, <2>2, FillsSplit
  <2>c. call'.fills = u /\ pending_unconfirmed_fills' = v
    BY <2>1
  <2> HIDE DEF u, v, later
  <2>3. /\ offers_of(call'.fills) \cup offers_of(pending_unconfirmed_fills') = offers_of(seen)
        /\ Distinct(seen) =>
             /\ Distinct(call'.fills) /\ Distinct(pending_unconfirmed_fills')
             /\ offers_of(call'.fills) \cap offers_of(pending_unconfirmed_fills') = {}
    BY <2>a, <2>c
  <2>4. \A k \in 1 .. Len(call'.fills) : \E i \in deep_places : call'.fills[k] = seen[i]
    BY <2>a, <2>c
  <2>5. \A k \in 1 .. Len(pending_unconfirmed_fills') :
          \E i \in later : pending_unconfirmed_fills'[k] = seen[i]
    BY <2>b, <2>c
  <2>6. offers_of(call.fills)' = offers_of(call'.fills)
        /\ offers_of(pending_unconfirmed_fills)' = offers_of(pending_unconfirmed_fills')
    BY DEF offers_of
  <2>7. Fresh' = Fresh
    BY <1>2, <2>3, <2>6 DEF Fresh
  <2>8. FoundOnce => FoundOnce'
    BY <1>2, <2>3, <2>6 DEF FoundOnce, Distinct
  <2> QED BY <1>3, <2>4, <2>5, <2>7, <2>8 DEF SplitFills, deep_places, later
<1>6. DeadRows
  <2>1. PICK failing, given_up :
          /\ failing \subseteq pending_dead_writes \cup call.dead /\ given_up \subseteq failing
          /\ row' = closed((pending_dead_writes \cup call.dead) \ failing)
          /\ pending_dead_writes' = failing \ given_up
          /\ abandoned' = abandoned \cup given_up
    BY DEF EndDetect
  <2>2. pending_dead_writes \cup call.dead \subseteq Offers
    BY <1>1 DEF Calls, FillTypeOK, EngineOK
  <2> QED BY <2>1, <2>2 DEF DeadRows, closed, FillTypeOK, EngineOK
<1> QED BY <1>4, <1>5, <1>6 DEF EndDetect

MaturedStep(o) ==
  /\ call.pc = "write" /\ o \in call.todo
  /\ call'.pc = call.pc /\ call'.block = call.block /\ call'.from_node = call.from_node
  /\ call'.todo = call.todo \ {o} /\ call'.recs = call.recs /\ call'.asking = call.asking
  /\ call'.asked = call.asked /\ call'.fills = call.fills /\ call'.written = call.written
  /\ call'.terminals = call.terminals /\ call'.dead = call.dead
  /\ \A p \in Offers \ {o} : pending_unconfirmed_terminals'[p] = pending_unconfirmed_terminals[p]
  /\ \/ pending_unconfirmed_terminals'[o] = NotBuffered
     \/ pending_unconfirmed_terminals'[o].block = pending_unconfirmed_terminals[o].block
  /\ UNCHANGED <<world, manager, up, pending_unconfirmed_fills, pending_dead_writes,
                 trade_log, inventory>>
Matured(o) == Recheck(o) \/ CloseFails(o) \/ NoVerdict(o) \/ NotAskedAgain(o)

\* A matured terminal is dropped or waits on in the same window.
LEMMA MaturedFields ==
  ASSUME FillTypeOK, NEW o \in Offers, Matured(o)
  PROVE  MaturedStep(o)
<1> USE DEF FillTypeOK, EngineOK, Matured, engine, db
<1>1. call' = [call EXCEPT !.todo = @ \ {o}] /\ call.pc = "write" /\ o \in call.todo
  BY DEF Recheck, CloseFails, NoVerdict, NotAskedAgain, maturing
<1>2. /\ call'.pc = call.pc /\ call'.block = call.block /\ call'.from_node = call.from_node
      /\ call'.todo = call.todo \ {o} /\ call'.recs = call.recs /\ call'.asking = call.asking
      /\ call'.asked = call.asked /\ call'.fills = call.fills /\ call'.written = call.written
      /\ call'.terminals = call.terminals /\ call'.dead = call.dead
  BY <1>1 DEF Calls
<1>3. pending_unconfirmed_terminals' \in
        {pending_unconfirmed_terminals, drop(o)} \cup
        {[pending_unconfirmed_terminals EXCEPT ![o].failures = n] : n \in Nat}
  <2>1. pending_unconfirmed_terminals[o].failures + 1 \in Nat /\ 0 \in Nat
    OBVIOUS
  <2> QED BY <2>1 DEF Recheck, CloseFails, NoVerdict, NotAskedAgain
<1>4. \A n \in Nat :
        /\ [pending_unconfirmed_terminals EXCEPT ![o].failures = n][o].block
             = pending_unconfirmed_terminals[o].block
        /\ \A p \in Offers \ {o} : [pending_unconfirmed_terminals EXCEPT ![o].failures = n][p]
                                     = pending_unconfirmed_terminals[p]
  OBVIOUS
<1>5. drop(o)[o] = NotBuffered /\ \A p \in Offers \ {o} : drop(o)[p] = pending_unconfirmed_terminals[p]
  BY DEF drop
<1>6. UNCHANGED <<world, manager, up, pending_unconfirmed_fills, pending_dead_writes,
                  trade_log, inventory>>
  BY DEF Recheck, CloseFails, NoVerdict, NotAskedAgain
<1> QED BY <1>1, <1>2, <1>3, <1>4, <1>5, <1>6 DEF MaturedStep

RecordedStep ==
  /\ call.pc = "write" /\ call.todo = {} /\ call.fills # <<>> /\ fill \in Fills
  /\ call'.pc = call.pc /\ call'.block = call.block /\ call'.from_node = call.from_node
  /\ call'.todo = call.todo /\ call'.recs = call.recs /\ call'.asking = call.asking
  /\ call'.terminals = call.terminals /\ call'.dead = call.dead
  /\ \/ call'.fills = call.fills /\ call'.written = call.written + 1
     \/ call'.fills = Tail(call.fills) /\ call'.written = 0
  /\ UNCHANGED <<world, state, manager, up, pending_unconfirmed_fills,
                 pending_unconfirmed_terminals, pending_dead_writes>>

\* A fill is written in three steps; the last one, and a failure, end it.
LEMMA WriteFields ==
  ASSUME FillTypeOK, Write \/ WriteFails
  PROVE  /\ RecordedStep
         /\ Write =>
              /\ call.written <= 2 =>
                   \/ call.written = 0 /\ UNCHANGED <<row, inventory>>
                   \/ /\ call.written = 1 /\ row' = [row EXCEPT ![fill.offer] = "filled"]
                      /\ UNCHANGED inventory
                   \/ /\ call.written = 2
                      /\ inventory' = [inventory EXCEPT ![fill.offer] = @ + 1]
                      /\ UNCHANGED row
              /\ call'.written = 0 <=> call.written = 2
              /\ UNCHANGED abandoned
         /\ WriteFails => /\ call.written < 2 /\ row[fill.offer] # "filled"
                          /\ abandoned' = abandoned \cup {fill.offer}
                          /\ call'.written = 0 /\ call'.fills = Tail(call.fills)
                          /\ UNCHANGED <<row, inventory>>
<1> USE DEF engine, db
<1>1. call \in Calls /\ call.written \in Nat /\ call.fills # <<>>
  BY DEF FillTypeOK, Calls, Write, WriteFails, recording
<1>2. fill \in Fills
  BY <1>1, FillsTail DEF Calls, fill
<1>3. /\ next_fill.pc = call.pc /\ next_fill.block = call.block
      /\ next_fill.from_node = call.from_node
      /\ next_fill.todo = call.todo /\ next_fill.recs = call.recs
      /\ next_fill.asking = call.asking
      /\ next_fill.terminals = call.terminals /\ next_fill.dead = call.dead
      /\ next_fill.fills = Tail(call.fills) /\ next_fill.written = 0
  BY <1>1 DEF next_fill, Calls
<1>4. CASE Write
  <2>1. Len(Writes) = 3 /\ Writes[1] = "journal" /\ Writes[2] = "mark" /\ Writes[3] = "inventory"
    BY DEF Writes
  <2>2. call' = IF call.written + 1 = 3 THEN next_fill
                ELSE [call EXCEPT !.written = call.written + 1]
    BY <1>4, <2>1 DEF Write
  <2>3. CASE call.written = 2
    <3>1. call' = next_fill
      BY <1>1, <2>2, <2>3
    <3>2. RecordedStep
      BY <1>1, <1>2, <1>3, <1>4, <3>1 DEF RecordedStep, Write, recording
    <3>3. inventory' = [inventory EXCEPT ![fill.offer] = @ + 1] /\ UNCHANGED <<row, abandoned>>
      BY <1>4, <2>1, <2>3 DEF Write
    <3>4. ~WriteFails
      BY <2>3 DEF WriteFails
    <3> QED BY <1>3, <2>3, <3>1, <3>2, <3>3, <3>4
  <2>4. CASE call.written # 2
    <3>1. call' = [call EXCEPT !.written = call.written + 1]
      BY <1>1, <2>2, <2>4
    <3>2. /\ call'.pc = call.pc /\ call'.block = call.block /\ call'.from_node = call.from_node
          /\ call'.todo = call.todo /\ call'.recs = call.recs /\ call'.asking = call.asking
          /\ call'.terminals = call.terminals /\ call'.dead = call.dead
          /\ call'.fills = call.fills /\ call'.written = call.written + 1
      BY <1>1, <3>1 DEF Calls
    <3>3. RecordedStep
      BY <1>1, <1>2, <1>4, <3>2 DEF RecordedStep, Write, recording
    <3>4. call.written <= 2 =>
            \/ call.written = 0 /\ UNCHANGED <<row, inventory>>
            \/ /\ call.written = 1 /\ row' = [row EXCEPT ![fill.offer] = "filled"]
               /\ UNCHANGED inventory
      BY <1>1, <1>4, <2>1, <2>4 DEF Write
    <3>5. UNCHANGED abandoned
      BY <1>4 DEF Write
    <3>6. ~WriteFails
      <4>1. Len(Tail(call.fills)) # Len(call.fills)
        BY <1>1 DEF Calls
      <4> QED BY <1>3, <3>2, <4>1 DEF WriteFails
    <3> QED BY <1>1, <2>4, <3>2, <3>3, <3>4, <3>5, <3>6
  <2> QED BY <2>3, <2>4
<1>5. CASE WriteFails /\ ~Write
  <2>1. RecordedStep
    BY <1>1, <1>2, <1>3, <1>5 DEF RecordedStep, WriteFails, recording
  <2>2. /\ call.written < 2 /\ row[fill.offer] # "filled"
        /\ abandoned' = abandoned \cup {fill.offer}
        /\ UNCHANGED <<row, inventory>>
    BY <1>5 DEF WriteFails
  <2>3. call'.written = 0 /\ call'.fills = Tail(call.fills)
    BY <1>3, <1>5 DEF WriteFails
  <2> QED BY <1>5, <2>1, <2>2, <2>3
<1> QED BY <1>4, <1>5

-----------------------------------------------------------------------------
(* What the steps leave alone.                                             *)

\* A call keeps its number and the one it asks, from Begin to the next Begin.
LEMMA CallKept ==
  ASSUME FillTypeOK, [Next]_vars
  PROVE  \/ Block \/ NodeSyncs \/ Reorg \/ Begin
         \/ UNCHANGED <<chain, node, call>>
         \/ UNCHANGED <<chain, node>> /\ call' = Idle
         \/ UNCHANGED <<chain, node>> /\ call'.block = call.block /\ call'.from_node = call.from_node
<1> USE DEF world, state, manager, engine, db
<1>c. call \in Calls
  BY DEF FillTypeOK
<1>1. ASSUME NEW o \in Offers, WalletSees(o) \/ \E st \in Statuses : CancelledElsewhere(o, st)
      PROVE  UNCHANGED <<chain, node, call>>
  BY <1>1 DEF WalletSees, CancelledElsewhere
<1>3. ASSUME NEW o \in Offers, Poll(o) \/ SkipPoll(o)
      PROVE  UNCHANGED <<chain, node>> /\ call'.block = call.block /\ call'.from_node = call.from_node
  BY <1>c, <1>3, PollFields DEF PolledStep
<1>4. ASSUME NEW o \in Offers, Ask(o)
      PROVE  UNCHANGED <<chain, node>> /\ call'.block = call.block /\ call'.from_node = call.from_node
  BY <1>c, <1>4, AskFields DEF AskedStep
<1>5. ASSUME NEW o \in Offers, Answered(o)
      PROVE  UNCHANGED <<chain, node>> /\ call'.block = call.block /\ call'.from_node = call.from_node
  BY <1>c, <1>5, AnswerFields DEF ThroughStep
<1>6. ASSUME EndDetect \/ Write \/ WriteFails \/ EndStep
      PROVE  UNCHANGED <<chain, node>> /\ call'.block = call.block /\ call'.from_node = call.from_node
  BY <1>c, <1>6 DEF EndDetect, Write, WriteFails, EndStep, next_fill, Calls, Idle
<1>7. ASSUME NEW o \in Offers, Recheck(o) \/ CloseFails(o) \/ NoVerdict(o) \/ NotAskedAgain(o)
      PROVE  UNCHANGED <<chain, node>> /\ call'.block = call.block /\ call'.from_node = call.from_node
  BY <1>c, <1>7 DEF Recheck, CloseFails, NoVerdict, NotAskedAgain, Calls
<1>8. ASSUME NEW o \in Offers, Reconcile(o) \/ \E st \in Statuses : SendCancel(o, st)
      PROVE  UNCHANGED <<chain, node, call>>
  BY <1>8 DEF Reconcile, SendCancel
<1>9. Crash => UNCHANGED <<chain, node>> /\ call' = Idle
  BY DEF Crash
<1>10. Boot => UNCHANGED <<chain, node, call>>
  BY DEF Boot
<1>11. UNCHANGED vars => UNCHANGED <<chain, node, call>>
  BY DEF vars
<1> QED BY <1>1, <1>3, <1>4, <1>5, <1>6, <1>7, <1>8, <1>9, <1>10, <1>11
        DEF Next, WorldNext, DetectNext, StepNext, OtherNext, Answered

-----------------------------------------------------------------------------
(* The chain and its spends.                                               *)

\* A spend that is deep stays deep, and a tip does not go down.
LEMMA Deeper ==
  ASSUME NEW h \in Nat, NEW a \in Nat, NEW b \in Nat, a <= b, at_depth(h, a)
  PROVE  at_depth(h, b)
BY FillAssumption DEF at_depth

\* The node begins at the chain.
LEMMA ChainInit == Init => ChainOK
BY FillAssumption DEF Init, ChainOK, SpendsOK, DeepAgrees, Nobody, Unspent, Idle

\* The node's deep spends are the chain's: neither a block nor a reorganisation
\* touches them, and what the node has seen is never ahead.
LEMMA ChainStep ==
  ASSUME FillTypeOK, FillTypeOK', ChainOK, [Next]_vars
  PROVE  ChainOK'
<1> USE DEF FillTypeOK, WorldOK, Chains
<1>0. /\ chain.tip \in Nat /\ node.tip \in Nat /\ chain'.tip \in Nat /\ node'.tip \in Nat
      /\ call.block \in Nat /\ call'.block \in Nat
      /\ call.from_node \in BOOLEAN /\ call'.from_node \in BOOLEAN
      /\ ConfirmationDepth \in Nat \ {0}
  BY FillAssumption DEF Calls
<1>s. \A o \in Offers : /\ chain.spend[o] \in Spendings /\ chain.spend'[o] \in Spendings
                        /\ node.spend[o] \in Spendings /\ node.spend'[o] \in Spendings
                        /\ chain.spend[o].at \in Nat /\ chain.spend'[o].at \in Nat
                        /\ node.spend[o].at \in Nat /\ node.spend'[o].at \in Nat
  BY DEF Spendings
<1>1. CASE Block
  <2>1. PICK spend \in [Offers -> Spends] :
          /\ \A o \in Offers : \/ spend[o] = chain.spend[o]
                               \/ chain.spend[o] = Unspent /\ spend[o].at = chain.tip + 1
          /\ chain' = [tip |-> chain.tip + 1, spend |-> spend]
    BY <1>1 DEF Block
  <2>2. /\ chain'.tip = chain.tip + 1 /\ chain'.spend = spend
        /\ node' = node /\ call' = call /\ chain.tip = node.tip
    BY <1>1, <2>1 DEF Block
  <2>3. \A o \in Offers : (spend[o].at = 0) <=> (spend[o].by = "none")
    BY FillAssumption DEF Spends, Unspent
  <2>4. SpendsOK(chain)'
    BY <1>0, <1>s, <2>1, <2>2, <2>3 DEF SpendsOK, ChainOK
  <2>5. DeepAgrees'
    BY <1>0, <1>s, <2>1, <2>2 DEF DeepAgrees, ChainOK, at_depth, SpendsOK, Unspent
  <2> QED BY <1>0, <2>2, <2>4, <2>5 DEF ChainOK, SpendsOK
<1>2. CASE NodeSyncs
  BY <1>0, <1>2 DEF NodeSyncs, ChainOK, SpendsOK, DeepAgrees
<1>3. CASE Reorg
  <2>1. PICK spend \in [Offers -> Spends] :
          /\ \A o \in Offers : spend[o] # chain.spend[o] =>
               /\ ~at_depth(chain.spend[o].at, chain.tip)
               /\ \/ spend[o] = Unspent
                  \/ spend[o].at <= chain.tip /\ ~at_depth(spend[o].at, chain.tip)
          /\ chain' = [chain EXCEPT !.spend = spend]
    BY <1>3 DEF Reorg
  <2>2. chain'.tip = chain.tip /\ chain'.spend = spend /\ node' = node /\ call' = call
    BY <1>3, <2>1 DEF Reorg
  <2>3. \A o \in Offers : (spend[o].at = 0) <=> (spend[o].by = "none")
    BY FillAssumption DEF Spends, Unspent
  <2>4. SpendsOK(chain)'
    BY <1>0, <2>1, <2>2, <2>3 DEF SpendsOK, ChainOK, Unspent
  <2>5. ASSUME NEW o \in Offers, chain'.spend[o] # chain.spend[o]
        PROVE  ~at_depth(chain'.spend[o].at, node.tip) /\ ~at_depth(chain.spend[o].at, node.tip)
    <3>1. /\ ~at_depth(chain.spend[o].at, chain.tip)
          /\ chain'.spend[o].at = 0 \/ ~at_depth(chain'.spend[o].at, chain.tip)
      BY <2>1, <2>2, <2>5 DEF Unspent
    <3> QED BY <1>0, <1>s, <3>1 DEF at_depth, ChainOK
  <2>6. DeepAgrees'
    BY <2>2, <2>5 DEF DeepAgrees, ChainOK
  <2> QED BY <1>0, <2>2, <2>4, <2>6 DEF ChainOK, SpendsOK
<1>4. CASE Begin
  <2>1. PICK fn \in BOOLEAN :
          call' = [Idle EXCEPT !.pc = IF offers = {} THEN "prove" ELSE "poll",
                     !.block = IF fn THEN node.tip ELSE chain.tip,
                     !.from_node = fn, !.todo = offers]
    BY <1>4 DEF Begin
  <2>2. call'.block = (IF fn THEN node.tip ELSE chain.tip) /\ call'.from_node = fn
    BY <2>1 DEF Idle
  <2>3. UNCHANGED <<chain, node>>
    BY <1>4 DEF Begin, world
  <2> QED BY <1>0, <2>2, <2>3 DEF ChainOK, SpendsOK, DeepAgrees
<1>5. CASE UNCHANGED <<chain, node, call>>
  BY <1>5 DEF ChainOK, SpendsOK, DeepAgrees
<1>6. CASE UNCHANGED <<chain, node>> /\ call' = Idle
  BY <1>0, <1>6 DEF ChainOK, SpendsOK, DeepAgrees, Idle
<1>7. CASE UNCHANGED <<chain, node>> /\ call'.block = call.block /\ call'.from_node = call.from_node
  BY <1>7 DEF ChainOK, SpendsOK, DeepAgrees
<1> QED BY <1>1, <1>2, <1>3, <1>4, <1>5, <1>6, <1>7, CallKept

-----------------------------------------------------------------------------
(* Where the call is.                                                      *)

WorldStep == UNCHANGED <<state, manager, call, engine, db>>

\* The steps by what they are about.
LEMMA Steps ==
  ASSUME [Next]_vars
  PROVE  \/ WorldStep
         \/ Begin \/ EndDetect \/ (Write \/ WriteFails) \/ EndStep \/ Crash \/ Boot
         \/ \E o \in Offers : (Poll(o) \/ SkipPoll(o)) \/ Ask(o) \/ Answered(o)
                              \/ Matured(o) \/ Reconcile(o)
                              \/ \E st \in Statuses : SendCancel(o, st)
<1>1. UNCHANGED vars \/ WorldNext => WorldStep
  BY DEF vars, WorldNext, Block, NodeSyncs, Reorg, WalletSees, CancelledElsewhere, WorldStep
<1> QED BY <1>1 DEF Next, DetectNext, StepNext, OtherNext, Answered, Matured

\* A call begins with the offers that are tracked, and with nothing found.
LEMMA BeginFields ==
  ASSUME FillTypeOK, Begin
  PROVE  /\ up /\ call.pc = "idle"
         /\ call'.pc \in {"prove", "poll"} /\ call'.todo = offers
         /\ call'.block \in {node.tip, chain.tip} /\ call'.from_node \in BOOLEAN
         /\ call'.from_node => call'.block = node.tip
         /\ call'.pc = "prove" => offers = {}
         /\ call'.recs = Nobody(NotRead) /\ call'.asking = {} /\ call'.asked = NotAsked
         /\ call'.fills = <<>> /\ call'.written = 0
         /\ call'.terminals = {} /\ call'.dead = {}
         /\ UNCHANGED <<world, state, proven_dead, engine, db>>
<1>1. PICK fn \in BOOLEAN :
        call' = [Idle EXCEPT !.pc = IF offers = {} THEN "prove" ELSE "poll",
                   !.block = IF fn THEN node.tip ELSE chain.tip,
                   !.from_node = fn, !.todo = offers]
  BY DEF Begin
<1>2. /\ call'.pc = (IF offers = {} THEN "prove" ELSE "poll") /\ call'.todo = offers
      /\ call'.block = (IF fn THEN node.tip ELSE chain.tip) /\ call'.from_node = fn
      /\ call'.recs = Nobody(NotRead) /\ call'.asking = {} /\ call'.asked = NotAsked
      /\ call'.fills = <<>> /\ call'.written = 0
      /\ call'.terminals = {} /\ call'.dead = {}
  BY <1>1 DEF Idle, Nobody
<1> QED BY <1>2 DEF Begin

\* An answer is used while the call proves, in the turn of the offer it is about.
LEMMA AnswerInTurn ==
  ASSUME CallShape, NEW o \in Offers, Answered(o)
  PROVE  call.pc = "prove" /\ o \in call.todo /\ (PassBy(o) \/ call.asking = {o})
<1>1. PassBy(o) => turn(o)
  BY DEF PassBy
<1>2. ~PassBy(o) => call.asking = {o}
  BY DEF Answered, Book, CloseDead, StillTakeable, Defer, Wait, Stand, answered, not_held
<1> QED BY <1>1, <1>2 DEF turn, CallShape

\* A booked take is one more fill of the call, and one more offer.
LEMMA BookFound ==
  ASSUME call \in Calls, NEW o \in Offers, Book(o)
  PROVE  /\ call'.fills = Append(call.fills, [offer |-> o, height |-> answer.height])
         /\ [offer |-> o, height |-> answer.height] \in Fills
         /\ offers_of(call'.fills) = offers_of(call.fills) \cup {o}
         /\ Distinct(call.fills) /\ o \notin offers_of(call.fills) => Distinct(call'.fills)
<1> DEFINE f == [offer |-> o, height |-> answer.height]
<1>1. f \in Fills /\ f.offer = o /\ call.fills \in Seq(Fills)
  BY BookAppends DEF fill_height, Calls
<1>2. call'.fills = Append(call.fills, f)
  BY AnswerFields DEF Answered, FoundTake
<1> HIDE DEF f
<1>3. /\ offers_of(call'.fills) = offers_of(call.fills) \cup {o}
      /\ Distinct(call.fills) /\ o \notin offers_of(call.fills) => Distinct(call'.fills)
  BY <1>1, <1>2, FillsAppend
<1> QED BY <1>1, <1>2, <1>3 DEF f

\* The first process has not begun a call.
LEMMA ShapeInit == Init => CallShape /\ DownIsEmpty
BY DEF Init, CallShape, DownIsEmpty, Idle

\* What was found is in the call only while it proves and writes, and a process
\* that is down has found nothing.
LEMMA ShapeStep ==
  ASSUME FillTypeOK, FillTypeOK', CallShape, DownIsEmpty, [Next]_vars
  PROVE  CallShape' /\ DownIsEmpty'
<1> USE DEF world, state, manager, engine, db
<1>t. /\ call \in Calls /\ call' \in Calls /\ call.block \in Nat /\ call.written \in Nat
      /\ call'.block \in Nat
      /\ ConfirmationDepth \in Nat \ {0}
  BY FillAssumption DEF FillTypeOK, Calls
<1>u. call.pc # "idle" => up
  BY DEF DownIsEmpty, Idle
<1>1. CASE WorldStep
  BY <1>1 DEF WorldStep, CallShape, DownIsEmpty, fill
<1>2. CASE Begin
  <2>1. call'.block > 0
    BY <1>2, BeginFields DEF FillTypeOK, WorldOK, Chains
  <2>2. CallShape'
    BY <1>2, <2>1, BeginFields DEF CallShape
  <2> QED BY <1>2, <2>2, BeginFields DEF DownIsEmpty
<1>3. CASE EndDetect
  <2>1. call.pc = "prove" /\ EndedDetect /\ call.asking = {}
    BY <1>3, EndDetectFields
  <2>2. call.written = 0
    BY <2>1 DEF CallShape
  <2>3. CallShape'
    BY <2>1, <2>2 DEF CallShape, EndedDetect
  <2> QED BY <1>u, <2>1, <2>3 DEF DownIsEmpty, EndedDetect
<1>4. CASE Write \/ WriteFails
  <2>1. RecordedStep
    BY <1>4, WriteFields
  <2>2. fill.offer \in Offers
    BY <2>1 DEF RecordedStep, Fills
  <2>3. CASE Write
    <3>1. /\ \/ call.written = 0 /\ UNCHANGED <<row, inventory>>
             \/ /\ call.written = 1 /\ row' = [row EXCEPT ![fill.offer] = "filled"]
                /\ UNCHANGED inventory
             \/ /\ call.written = 2
                /\ inventory' = [inventory EXCEPT ![fill.offer] = @ + 1]
                /\ UNCHANGED row
          /\ call'.written = 0 <=> call.written = 2
      BY <2>3, WriteFields DEF CallShape
    <3>2. call'.written = 2 => call.written = 1 /\ call'.fills = call.fills
      BY <1>t, <2>1 DEF RecordedStep
    <3>3. call'.written <= 2
      BY <1>t, <2>1, <3>1 DEF RecordedStep, CallShape
    <3>4. call'.written # 0 => call'.fills = call.fills
      BY <2>1 DEF RecordedStep
    <3>5. call'.written = 2 => row'[fill'.offer] = "filled"
      BY <2>2, <3>1, <3>2 DEF fill, FillTypeOK, EngineOK
    <3>6. CallShape'
      BY <2>1, <3>3, <3>4, <3>5 DEF RecordedStep, CallShape
    <3> QED BY <1>u, <2>1, <3>6 DEF RecordedStep, DownIsEmpty
  <2>4. CASE WriteFails
    <3>1. call'.written = 0
      BY <2>4, WriteFields
    <3>2. CallShape'
      BY <2>1, <3>1 DEF RecordedStep, CallShape
    <3> QED BY <1>u, <2>1, <3>2 DEF RecordedStep, DownIsEmpty
  <2> QED BY <1>4, <2>3, <2>4
<1>5. CASE EndStep
  <2>1. /\ call'.pc = "idle" /\ call'.todo = {} /\ call'.asking = {} /\ call'.fills = <<>>
        /\ call'.written = 0 /\ call'.terminals = {} /\ call'.dead = {}
    BY <1>5 DEF EndStep, Idle
  <2>2. CallShape'
    BY <2>1 DEF CallShape
  <2> QED BY <1>5, <1>u, <2>2 DEF EndStep, DownIsEmpty
<1>6. CASE Crash
  <2>1. CallShape'
    BY <1>6 DEF Crash, CallShape, Idle
  <2> QED BY <1>6, <2>1 DEF Crash, DownIsEmpty
<1>7. CASE Boot
  <2>1. call' = Idle /\ up'
    BY <1>7 DEF Boot, DownIsEmpty
  <2> QED BY <2>1 DEF CallShape, DownIsEmpty, Idle
<1>8. ASSUME NEW o \in Offers, Poll(o) \/ SkipPoll(o)
      PROVE  CallShape' /\ DownIsEmpty'
  <2>1. PolledStep(o)
    BY <1>t, <1>8, PollFields
  <2>2. CallShape'
    BY <2>1 DEF PolledStep, CallShape
  <2> QED BY <1>u, <2>1, <2>2 DEF PolledStep, DownIsEmpty
<1>9. ASSUME NEW o \in Offers, Ask(o)
      PROVE  CallShape' /\ DownIsEmpty'
  <2>1. PICK reply : AskedStep(o, reply)
    BY <1>t, <1>9, AskFields
  <2>2. CallShape'
    BY <2>1 DEF AskedStep, CallShape, turn
  <2> QED BY <1>u, <2>1, <2>2 DEF AskedStep, DownIsEmpty, turn
<1>10. ASSUME NEW o \in Offers, Answered(o)
      PROVE  CallShape' /\ DownIsEmpty'
  <2>1. ThroughStep(o) /\ call.pc = "prove"
    BY <1>10, <1>t, AnswerFields, AnswerInTurn
  <2>2. CallShape'
    BY <2>1 DEF ThroughStep, CallShape
  <2> QED BY <1>u, <2>1, <2>2 DEF ThroughStep, DownIsEmpty
<1>11. ASSUME NEW o \in Offers, Matured(o)
      PROVE  CallShape' /\ DownIsEmpty'
  <2>1. MaturedStep(o)
    BY <1>11, MaturedFields
  <2>2. /\ call'.written = 0 /\ call'.asking = {} /\ call'.pc = "write"
        /\ call'.terminals = {} /\ call'.dead = {} /\ call'.block > 0
    BY <2>1 DEF MaturedStep, CallShape
  <2>3. \A p \in call'.todo : at_depth(pending_unconfirmed_terminals'[p].block, call'.block)
    <3>1. \A p \in call'.todo : p \in Offers \ {o} /\ p \in call.todo
      BY <1>t, <2>1 DEF MaturedStep, Calls
    <3> QED BY <2>1, <3>1 DEF MaturedStep, CallShape
  <2>4. CallShape'
    BY <2>2, <2>3 DEF CallShape
  <2> QED BY <1>u, <2>1, <2>4 DEF MaturedStep, DownIsEmpty
<1>12. ASSUME NEW o \in Offers, Reconcile(o)
      PROVE  CallShape' /\ DownIsEmpty'
  BY <1>12 DEF Reconcile, CallShape, DownIsEmpty, fill
<1>13. ASSUME NEW o \in Offers, NEW st \in Statuses, SendCancel(o, st)
      PROVE  CallShape' /\ DownIsEmpty'
  <2>1. \A p \in Offers : row[p] = "filled" => row'[p] = "filled"
    BY <1>13 DEF SendCancel, FillTypeOK, EngineOK
  <2>2. call.written = 2 => fill \in Fills
    BY <1>t, FillsTail DEF CallShape, fill, Calls
  <2>3. CallShape'
    BY <1>13, <2>1, <2>2 DEF SendCancel, CallShape, fill, Fills
  <2> QED BY <1>13, <2>3 DEF SendCancel, DownIsEmpty
<1> QED BY <1>1, <1>2, <1>3, <1>4, <1>5, <1>6, <1>7, <1>8, <1>9, <1>10, <1>11, <1>12, <1>13, Steps

-----------------------------------------------------------------------------
(* Nothing is forgotten.                                                   *)

\* The offer is in somebody's hands.
InHand(o) ==
  \/ o \in offers \cup call.terminals \cup call.dead
  \/ o \in pending_dead_writes \cup abandoned
  \/ o \in Fresh
  \/ pending_unconfirmed_terminals[o] # NotBuffered
Kept == up => \A o \in open_rows : InHand(o)

\* Whose hands an offer is in, said without the concatenation of the two lists.
LEMMA KeptSays ==
  ASSUME FillTypeOK
  PROVE  Kept <=> NothingForgotten
<1>1. offers_of(seen) = Fresh
  BY FillsConcat DEF FillTypeOK, EngineOK, Calls, seen, Fresh
<1> QED BY <1>1 DEF Kept, InHand, NothingForgotten

\* A tracked offer leaves the book only as a take, a terminal or dead, and what
\* ages is dropped only when it is written, taken back or given up.
LEMMA KeptStep ==
  ASSUME FillTypeOK, FillTypeOK', CallShape, DownIsEmpty, Kept, [Next]_vars
  PROVE  Kept'
<1> USE DEF world, state, manager, engine, db
<1>t. /\ call \in Calls /\ call.block \in Nat /\ call.written \in Nat
      /\ call.fills \in Seq(Fills) /\ pending_unconfirmed_fills \in Seq(Fills)
      /\ ConfirmationDepth \in Nat \ {0}
      /\ row \in [Offers -> Rows] /\ row' \in [Offers -> Rows]
      /\ pending_unconfirmed_terminals \in [Offers -> [block : Nat, failures : Nat]]
  BY FillAssumption DEF FillTypeOK, Calls, EngineOK
<1>u. call.pc # "idle" => up
  BY DEF DownIsEmpty, Idle
<1>f. call'.fills = call.fills /\ UNCHANGED pending_unconfirmed_fills => Fresh' = Fresh
  BY DEF Fresh, offers_of
<1>1. CASE WorldStep
  BY <1>1, <1>f DEF WorldStep, Kept, InHand, open_rows
<1>2. CASE Begin
  <2>1. Fresh \subseteq Fresh'
    <3>1. call.fills = <<>> /\ call'.fills = <<>> /\ UNCHANGED pending_unconfirmed_fills
      BY <1>2, BeginFields DEF CallShape
    <3> QED BY <3>1, <1>f
  <2>2. call.terminals = {} /\ call.dead = {}
    BY <1>2, BeginFields DEF CallShape
  <2> QED BY <1>2, <2>1, <2>2, BeginFields DEF Kept, InHand, open_rows
<1>3. CASE EndDetect
  <2>1. /\ EndedDetect /\ Fresh' = Fresh /\ DeadRows /\ up /\ call.block > 0
    BY <1>3, <1>u, EndDetectFields DEF SplitFills, CallShape
  <2>2. ASSUME NEW o \in open_rows' PROVE InHand(o)'
    <3>1. o \in open_rows /\ row'[o] = row[o]
      BY <1>t, <2>1, <2>2 DEF open_rows, DeadRows
    <3>2. InHand(o)
      BY <2>1, <3>1 DEF Kept
    <3>3. o \in pending_dead_writes \cup call.dead => InHand(o)'
      BY <2>1, <2>2 DEF DeadRows, open_rows, InHand
    <3>4. o \in offers \cup abandoned \cup Fresh => InHand(o)'
      BY <2>1 DEF EndedDetect, DeadRows, InHand
    <3>5. CASE o \notin Fresh /\ o \in call.terminals
      <4>1. pending_unconfirmed_terminals'[o].block > 0
        <5>1. o \in Offers /\ pending_unconfirmed_terminals[o].block \in Nat
          BY <1>t, <3>1 DEF open_rows
        <5>2. pending_unconfirmed_terminals'[o]
                = buffered(pending_unconfirmed_terminals, call.terminals)[o]
          BY <2>1, <3>5, <5>1 DEF EndedDetect
        <5>3. pending_unconfirmed_terminals'[o] =
                IF call.block > pending_unconfirmed_terminals[o].block
                THEN [block |-> call.block, failures |-> 0] ELSE pending_unconfirmed_terminals[o]
          BY <3>5, <5>1, <5>2 DEF buffered
        <5> QED BY <1>t, <2>1, <5>1, <5>3
      <4> QED BY <4>1 DEF InHand, NotBuffered
    <3>6. CASE o \notin Fresh /\ pending_unconfirmed_terminals[o] # NotBuffered
      <4>1. \/ pending_unconfirmed_terminals'[o] = pending_unconfirmed_terminals[o]
            \/ pending_unconfirmed_terminals'[o].block > 0
        BY <1>t, <2>1, <3>1, <3>6 DEF EndedDetect, buffered, open_rows
      <4> QED BY <3>6, <4>1 DEF InHand, NotBuffered
    <3> QED BY <3>2, <3>3, <3>4, <3>5, <3>6 DEF InHand
  <2> QED BY <2>2 DEF Kept
<1>4. CASE Write \/ WriteFails
  <2>1. RecordedStep /\ up
    BY <1>4, <1>u, WriteFields DEF RecordedStep
  <2>2. \/ call'.fills = call.fills
        \/ /\ call'.fills = Tail(call.fills) /\ call.fills # <<>>
           /\ row[fill.offer] = "filled" \/ fill.offer \in abandoned'
    BY <1>4, <1>t, <2>1, WriteFields DEF RecordedStep, CallShape
  <2>3. abandoned \subseteq abandoned'
    BY <1>4, WriteFields
  <2>4. open_rows' \subseteq open_rows
    <3>1. \A p \in Offers : row'[p] = row[p] \/ row'[p] = "filled"
      BY <1>4, <1>t, WriteFields DEF CallShape
    <3> QED BY <3>1 DEF open_rows
  <2>5. Fresh \subseteq Fresh' \cup {p \in Offers : p \in abandoned' \/ row[p] = "filled"}
    <3>1. CASE call'.fills = call.fills
      BY <1>f, <2>1, <3>1 DEF RecordedStep
    <3>2. CASE /\ call'.fills = Tail(call.fills) /\ call.fills # <<>>
               /\ row[fill.offer] = "filled" \/ fill.offer \in abandoned'
      <4>1. offers_of(call.fills) = {fill.offer} \cup offers_of(call'.fills) /\ fill.offer \in Offers
        BY <1>t, <3>2, FillsTail DEF fill, Fills
      <4>2. offers_of(call'.fills) \subseteq Fresh' /\ offers_of(pending_unconfirmed_fills) \subseteq Fresh'
        BY <2>1 DEF Fresh, offers_of, RecordedStep
      <4> QED BY <3>2, <4>1, <4>2 DEF Fresh
    <3> QED BY <2>2, <3>1, <3>2
  <2> QED BY <2>1, <2>3, <2>4, <2>5 DEF Kept, InHand, RecordedStep, open_rows
<1>5. CASE EndStep
  <2>1. call.fills = <<>> /\ call'.fills = <<>> /\ UNCHANGED pending_unconfirmed_fills
    BY <1>5 DEF EndStep, Idle
  <2>2. call.terminals = {} /\ call.dead = {} /\ Fresh' = Fresh
    BY <1>5, <1>f, <2>1 DEF CallShape, EndStep
  <2> QED BY <1>5, <2>2 DEF EndStep, Kept, InHand, open_rows
<1>6. CASE Crash
  BY <1>6 DEF Crash, Kept
<1>7. CASE Boot
  <2>1. open_rows' \subseteq offers'
    BY <1>7, <1>t DEF Boot, open_rows
  <2> QED BY <2>1 DEF Kept, InHand
<1>8. ASSUME NEW o \in Offers, Poll(o) \/ SkipPoll(o)
      PROVE  Kept'
  BY <1>t, <1>u, <1>8, <1>f, PollFields DEF PolledStep, Kept, InHand, open_rows
<1>9. ASSUME NEW o \in Offers, Ask(o)
      PROVE  Kept'
  <2>1. PICK reply : AskedStep(o, reply)
    BY <1>t, <1>9, AskFields
  <2> QED BY <2>1, <1>f DEF AskedStep, Kept, InHand, open_rows
<1>10. ASSUME NEW o \in Offers, Answered(o)
      PROVE  Kept'
  <2>1. ThroughStep(o) /\ Fresh \subseteq Fresh'
    <3>1. ThroughStep(o)
      BY <1>10, <1>t, AnswerFields
    <3>2. CASE Book(o)
      <4>1. offers_of(call'.fills) = offers_of(call.fills) \cup {o}
        BY <1>t, <3>2, BookFound
      <4> QED BY <3>1, <4>1 DEF Fresh, offers_of, ThroughStep
    <3>3. CASE ~Book(o)
      BY <1>10, <1>t, <1>f, <3>1, <3>3, AnswerFields DEF ThroughStep
    <3> QED BY <3>1, <3>2, <3>3
  <2>2. offers' # offers => InHand(o)'
    <3>1. CASE Book(o)
      <4>1. offers_of(call'.fills) = offers_of(call.fills) \cup {o}
        BY <1>t, <3>1, BookFound
      <4> QED BY <4>1 DEF Fresh, offers_of, InHand
    <3>2. CASE CloseDead(o)
      BY <1>10, <1>t, <3>2, AnswerFields DEF FoundDead, InHand
    <3>3. CASE PassBy(o) \/ Stand(o)
      <4>1. offers' # offers => call' = [through(o) EXCEPT !.terminals = @ \cup {o}]
        BY <3>3 DEF PassBy, Stand, remove_offer
      <4>2. through(o) \in Calls
        BY <1>t, TypeThrough
      <4> QED BY <4>1, <4>2 DEF Calls, InHand
    <3>4. CASE StillTakeable(o) \/ Defer(o) \/ Wait(o)
      BY <3>4 DEF StillTakeable, Defer, Wait
    <3> QED BY <1>10, <3>1, <3>2, <3>3, <3>4 DEF Answered
  <2>3. call.terminals \subseteq call'.terminals /\ call.dead \subseteq call'.dead
    BY <1>10, <1>t, AnswerFields DEF FoundTerminal, FoundDead
  <2> QED BY <2>1, <2>2, <2>3 DEF ThroughStep, Kept, InHand, open_rows
<1>11. ASSUME NEW o \in Offers, Matured(o)
      PROVE  Kept'
  <2>1. MaturedStep(o) /\ up /\ Fresh' = Fresh
    BY <1>11, <1>u, <1>f, MaturedFields DEF MaturedStep
  <2>2. o \in open_rows' => InHand(o)'
    <3>1. CASE Recheck(o)
      BY <1>t, <3>1 DEF Recheck, closed, open_rows, InHand, readopt
    <3>2. CASE CloseFails(o) \/ NoVerdict(o) \/ NotAskedAgain(o)
      <4>1. at_depth(pending_unconfirmed_terminals[o].block, call.block)
        BY <2>1 DEF MaturedStep, CallShape
      <4>2. pending_unconfirmed_terminals[o].block > 0
        BY <4>1 DEF at_depth
      <4>3. \/ o \in abandoned'
            \/ pending_unconfirmed_terminals'[o].block = pending_unconfirmed_terminals[o].block
        BY <1>t, <3>2 DEF CloseFails, NoVerdict, NotAskedAgain
      <4> QED BY <1>t, <4>2, <4>3 DEF InHand, NotBuffered
    <3> QED BY <1>11, <3>1, <3>2 DEF Matured
  <2>3. \A p \in Offers \ {o} : p \in open_rows' => p \in open_rows
    BY <1>11, <1>t DEF Matured, Recheck, CloseFails, NoVerdict, NotAskedAgain, closed, open_rows
  <2>4. offers \subseteq offers' /\ abandoned \subseteq abandoned'
    BY <1>11 DEF Matured, Recheck, CloseFails, NoVerdict, NotAskedAgain, readopt
  <2>5. ASSUME NEW p \in open_rows', p # o PROVE InHand(p)'
    <3>1. p \in Offers \ {o} /\ InHand(p)
      BY <2>1, <2>3, <2>5 DEF Kept, open_rows
    <3> QED BY <2>1, <2>4, <3>1 DEF MaturedStep, InHand
  <2> QED BY <2>2, <2>5 DEF Kept
<1>12. ASSUME NEW o \in Offers, Reconcile(o)
      PROVE  Kept'
  <2>1. Fresh' = Fresh /\ UNCHANGED <<call, pending_dead_writes, abandoned, row, up>>
    BY <1>12, <1>f DEF Reconcile
  <2>2. offers' \cup {o} = offers \cup {o}
    BY <1>12 DEF Reconcile, remove_offer
  <2>3. \A p \in Offers : pending_unconfirmed_terminals[p] # NotBuffered =>
          pending_unconfirmed_terminals'[p] # NotBuffered
    BY <1>12, <1>t DEF Reconcile, buffered, NotBuffered
  <2>4. o \in offers => InHand(o)'
    BY <1>12, <1>t DEF Reconcile, buffered, NotBuffered, InHand, remove_offer
  <2> QED BY <2>1, <2>2, <2>3, <2>4 DEF Kept, InHand, open_rows
<1>13. ASSUME NEW o \in Offers, NEW st \in Statuses, SendCancel(o, st)
      PROVE  Kept'
  <2>1. open_rows' = open_rows
    BY <1>13, <1>t DEF SendCancel, open_rows
  <2> QED BY <1>13, <1>f, <2>1 DEF SendCancel, Kept, InHand, open_rows
<1> QED BY <1>1, <1>2, <1>3, <1>4, <1>5, <1>6, <1>7, <1>8, <1>9, <1>10, <1>11, <1>12, <1>13, Steps

-----------------------------------------------------------------------------
(* Each take is found once, recorded once, and its offer never comes back. *)

\* Who changes the world.
LEMMA WorldSteps ==
  ASSUME [Next]_vars
  PROVE  \/ Block \/ NodeSyncs \/ Reorg \/ \E o \in Offers : WalletSees(o)
         \/ \E o \in Offers, st \in Statuses : CancelledElsewhere(o, st) \/ SendCancel(o, st)
         \/ UNCHANGED <<chain, node, status, confirmed_at_index, reorgs>>
<1> USE DEF world
<1>1. Begin \/ EndDetect \/ Write \/ WriteFails \/ EndStep \/ Crash \/ Boot =>
        UNCHANGED <<chain, node, status, confirmed_at_index, reorgs>>
  BY DEF Begin, EndDetect, Write, WriteFails, EndStep, Crash, Boot
<1>2. ASSUME NEW o \in Offers,
             Poll(o) \/ SkipPoll(o) \/ Ask(o) \/ Answered(o) \/ Matured(o) \/ Reconcile(o)
      PROVE  UNCHANGED <<chain, node, status, confirmed_at_index, reorgs>>
  BY <1>2 DEF Poll, SkipPoll, Ask, Answered, PassBy, Book, CloseDead, StillTakeable, Defer, Wait,
     Stand, Matured, Recheck, CloseFails, NoVerdict, NotAskedAgain, Reconcile
<1>3. UNCHANGED vars => UNCHANGED <<chain, node, status, confirmed_at_index, reorgs>>
  BY DEF vars
<1> QED BY <1>1, <1>2, <1>3
        DEF Next, WorldNext, DetectNext, StepNext, OtherNext, Answered, Matured

\* The wallet's status goes on, except that a FAILED may be rolled back.
LEMMA StatusGoesOn ==
  ASSUME FillTypeOK, [Next]_vars
  PROVE  \A o \in Offers :
           /\ status[o] \in Past => status'[o] \in Past
           /\ status[o] \in Cancelling => status'[o] \in Cancelling
           /\ status[o] \in Past /\ status'[o] = "confirmed" =>
                status[o] = "confirmed" /\ confirmed_at_index'[o] = confirmed_at_index[o]
<1> USE DEF FillTypeOK, WorldOK, Past, Cancelling
<1>1. CASE Block \/ NodeSyncs
  BY <1>1 DEF Block, NodeSyncs
<1>2. CASE Reorg
  BY <1>2 DEF Reorg
<1>3. CASE \E o \in Offers : WalletSees(o)
  BY <1>3 DEF WalletSees
<1>4. CASE \E o \in Offers, st \in Statuses : CancelledElsewhere(o, st) \/ SendCancel(o, st)
  BY <1>4 DEF CancelledElsewhere, SendCancel, written_by_a_cancel
<1>5. CASE UNCHANGED <<chain, node, status, confirmed_at_index, reorgs>>
  BY <1>5
<1> QED BY <1>1, <1>2, <1>3, <1>4, <1>5, WorldSteps

\* What the call knows of an offer is what the wallet said when it was polled.
LEMMA RecsStep ==
  ASSUME FillTypeOK, FillTypeOK', CallShape, [Next]_vars
  PROVE  /\ \A p \in Offers :
              \/ call'.recs[p] \in {call.recs[p], NotRead}
              \/ /\ call'.recs[p] = [status |-> status[p], claimed |-> confirmed_at_index[p]]
                 /\ call.pc = "poll" /\ p \in call.todo
                 /\ UNCHANGED <<chain, node, status, confirmed_at_index, reorgs>>
         /\ \A p \in call'.asking :
              \/ p \in call.asking /\ call'.recs = call.recs /\ call'.asked = call.asked
              \/ Ask(p) /\ call'.recs = call.recs
<1> USE DEF world, state, manager, engine, db
<1>t. call \in Calls /\ call' \in Calls
  BY DEF FillTypeOK
<1>1. CASE UNCHANGED call
  BY <1>1
<1>2. CASE Begin
  BY <1>2, BeginFields DEF Nobody
<1>3. CASE EndDetect
  BY <1>3, EndDetectFields DEF EndedDetect
<1>4. CASE Write \/ WriteFails
  <2>1. RecordedStep
    BY <1>4, WriteFields
  <2>2. call'.asked = call.asked
    BY <1>4, <1>t DEF Write, WriteFails, next_fill, Calls
  <2> QED BY <2>1, <2>2 DEF RecordedStep
<1>5. CASE EndStep \/ Crash
  <2>1. call'.recs = [o \in Offers |-> NotRead] /\ call'.asking = {}
    <3>1. CASE EndStep
      BY <3>1 DEF EndStep, Idle
    <3>2. CASE Crash
      BY <3>2 DEF Crash, Idle
    <3> QED BY <1>5, <3>1, <3>2
  <2> QED BY <2>1
<1>6. ASSUME NEW o \in Offers, Poll(o) \/ SkipPoll(o)
      PROVE  /\ \A p \in Offers :
                  \/ call'.recs[p] \in {call.recs[p], NotRead}
                  \/ /\ call'.recs[p] = [status |-> status[p], claimed |-> confirmed_at_index[p]]
                     /\ call.pc = "poll" /\ p \in call.todo
                     /\ UNCHANGED <<chain, node, status, confirmed_at_index, reorgs>>
             /\ call'.asking = {}
  <2>1. PolledStep(o)
    BY <1>t, <1>6, PollFields
  <2>2. call'.asking = {}
    BY <2>1 DEF PolledStep, CallShape
  <2>3. call.recs \in [Offers -> Records]
    BY <1>t DEF Calls
  <2>4. \A p \in Offers \ {o} : call'.recs[p] = call.recs[p]
    BY <2>1, <2>3 DEF PolledStep
  <2>5. call'.recs[o] \in {NotRead, [status |-> status[o], claimed |-> confirmed_at_index[o]]}
    BY <2>1, <2>3 DEF PolledStep
  <2>6. /\ UNCHANGED <<chain, node, status, confirmed_at_index, reorgs>>
        /\ call.pc = "poll" /\ o \in call.todo
    BY <2>1 DEF PolledStep
  <2> QED BY <2>2, <2>4, <2>5, <2>6
<1>7. ASSUME NEW o \in Offers, Ask(o)
      PROVE  call'.recs = call.recs /\ call'.asking = {o}
  BY <1>t, <1>7, AskFields DEF AskedStep
<1>8. ASSUME NEW o \in Offers, Answered(o)
      PROVE  call'.asking = {} /\ \A p \in Offers : call'.recs[p] \in {call.recs[p], NotRead}
  <2>1. ThroughStep(o)
    BY <1>t, <1>8, AnswerFields
  <2> QED BY <1>t, <2>1 DEF ThroughStep, Calls
<1>9. ASSUME NEW o \in Offers, Matured(o)
      PROVE  call'.recs = call.recs /\ call'.asking = call.asking /\ call'.asked = call.asked
  BY <1>9, MaturedFields DEF MaturedStep
<1>10. WorldStep \/ Boot \/ (\E o \in Offers : Reconcile(o) \/ \E st \in Statuses : SendCancel(o, st))
         => UNCHANGED call
  BY DEF WorldStep, Boot, Reconcile, SendCancel
<1> QED BY <1>1, <1>2, <1>3, <1>4, <1>5, <1>6, <1>7, <1>8, <1>9, <1>10, Steps

\* A status is followed, from the poll to the answer's use.
LEMMA StatusFollowsStep ==
  ASSUME FillTypeOK, FillTypeOK', CallShape, StatusFollows, [Next]_vars
  PROVE  StatusFollows'
<1>1. ASSUME NEW o \in Offers, call'.recs[o] \in {call.recs[o], NotRead}
      PROVE  /\ call'.recs[o].status \in Past => status'[o] \in Past
             /\ call'.recs[o].status \in Cancelling => status'[o] \in Cancelling
             /\ call'.recs[o].status = "confirmed" /\ status'[o] = "confirmed" =>
                  call'.recs[o].claimed = confirmed_at_index'[o]
  BY <1>1, StatusGoesOn DEF StatusFollows, NotRead, Past, Cancelling
<1>2. ASSUME NEW o \in Offers,
             call'.recs[o] = [status |-> status[o], claimed |-> confirmed_at_index[o]],
             UNCHANGED <<chain, node, status, confirmed_at_index, reorgs>>
      PROVE  /\ call'.recs[o].status = status'[o]
             /\ call'.recs[o].claimed = confirmed_at_index'[o]
  BY <1>2
<1>3. ASSUME NEW o \in call'.asking
      PROVE  call'.recs[o].status \in Past
  <2>1. CASE o \in call.asking /\ call'.recs = call.recs
    BY <2>1, <1>3 DEF StatusFollows, FillTypeOK, Calls
  <2>2. CASE Ask(o) /\ call'.recs = call.recs
    BY <2>2 DEF Ask, reprove, written_by_a_cancel, read, Past
  <2> QED BY <1>3, <2>1, <2>2, RecsStep
<1> QED BY <1>1, <1>2, <1>3, RecsStep DEF StatusFollows

\* Only a take that is booked is freshly found.
LEMMA FreshStep ==
  ASSUME FillTypeOK, CallShape, [Next]_vars
  PROVE  Fresh' \subseteq Fresh \/ \E o \in Offers : Book(o) /\ Fresh' = Fresh \cup {o}
<1> USE DEF world, state, manager, engine, db
<1>t. call \in Calls
  BY DEF FillTypeOK
<1>f. call'.fills = call.fills /\ UNCHANGED pending_unconfirmed_fills => Fresh' = Fresh
  BY DEF Fresh, offers_of
<1>1. CASE Write \/ WriteFails
  <2>1. /\ UNCHANGED pending_unconfirmed_fills /\ call.fills # <<>>
        /\ call'.fills = call.fills \/ call'.fills = Tail(call.fills)
    BY <1>1, WriteFields DEF RecordedStep
  <2>2. call'.fills = Tail(call.fills) => offers_of(call'.fills) \subseteq offers_of(call.fills)
    BY <1>t, <2>1, FillsTail DEF Calls
  <2> QED BY <1>f, <2>1, <2>2 DEF Fresh, offers_of
<1>2. ASSUME NEW o \in Offers, Answered(o)
      PROVE  Fresh' \subseteq Fresh \/ (Book(o) /\ Fresh' = Fresh \cup {o})
  <2>1. UNCHANGED pending_unconfirmed_fills
    BY <1>t, <1>2, AnswerFields DEF ThroughStep
  <2>2. CASE Book(o)
    <3>1. offers_of(call'.fills) = offers_of(call.fills) \cup {o}
      BY <1>t, <2>2, BookFound
    <3>2. /\ offers_of(call.fills)' = offers_of(call'.fills)
          /\ offers_of(pending_unconfirmed_fills)' = offers_of(pending_unconfirmed_fills)
      BY <2>1 DEF offers_of
    <3> QED BY <2>2, <3>1, <3>2 DEF Fresh
  <2>3. CASE ~Book(o)
    <3>1. call'.fills = call.fills
      BY <1>t, <1>2, <2>3, AnswerFields
    <3> QED BY <1>f, <2>1, <3>1
  <2> QED BY <2>2, <2>3
<1>3. CASE EndDetect
  BY <1>3, EndDetectFields DEF SplitFills
<1>4. CASE Begin \/ EndStep
  <2>1. call.fills = <<>> /\ call'.fills = <<>> /\ UNCHANGED pending_unconfirmed_fills
    BY <1>4, BeginFields DEF EndStep, Idle, CallShape
  <2> QED BY <1>f, <2>1
<1>5. CASE Crash
  BY <1>5 DEF Crash, Idle, Fresh, offers_of
<1>6. ASSUME NEW o \in Offers, Poll(o) \/ SkipPoll(o) \/ Ask(o) \/ Matured(o) \/ Reconcile(o)
                               \/ \E st \in Statuses : SendCancel(o, st)
      PROVE  Fresh' = Fresh
  <2>1. Poll(o) \/ SkipPoll(o) => PolledStep(o)
    BY <1>t, PollFields
  <2>2. Ask(o) => \E reply : AskedStep(o, reply)
    BY <1>t, AskFields
  <2>3. Matured(o) => MaturedStep(o)
    BY MaturedFields
  <2>4. call'.fills = call.fills /\ UNCHANGED pending_unconfirmed_fills
    BY <1>6, <2>1, <2>2, <2>3 DEF PolledStep, AskedStep, MaturedStep, Reconcile, SendCancel
  <2> QED BY <1>f, <2>4
<1>7. CASE WorldStep \/ Boot
  BY <1>7, <1>f DEF WorldStep, Boot
<1> QED BY <1>1, <1>2, <1>3, <1>4, <1>5, <1>6, <1>7, Steps

\* Only the mark of a fill that is being written makes a row filled, and nothing
\* unmakes it.
LEMMA RowStep ==
  ASSUME FillTypeOK, CallShape, [Next]_vars
  PROVE  \A p \in Offers :
           \/ row'[p] = "filled" <=> row[p] = "filled"
           \/ Write /\ call.written = 1 /\ p = fill.offer /\ row'[p] = "filled"
<1> USE DEF FillTypeOK, EngineOK, world, state, manager, engine, db
<1>1. CASE Write \/ WriteFails
  BY <1>1, WriteFields DEF RecordedStep, Fills, CallShape
<1>2. CASE EndDetect
  BY <1>2, EndDetectFields DEF DeadRows
<1>3. CASE Boot
  BY <1>3 DEF Boot, open_rows
<1>4. ASSUME NEW o \in Offers, Matured(o) \/ \E st \in Statuses : SendCancel(o, st)
      PROVE  \A p \in Offers : row'[p] = "filled" <=> row[p] = "filled"
  BY <1>4 DEF Matured, Recheck, CloseFails, NoVerdict, NotAskedAgain, closed, SendCancel
<1>5. ASSUME NEW o \in Offers, Poll(o) \/ SkipPoll(o) \/ Ask(o) \/ Answered(o) \/ Reconcile(o)
      PROVE  UNCHANGED row
  <2>1. Answered(o) => ThroughStep(o)
    BY AnswerFields
  <2> QED BY <1>5, <2>1 DEF Poll, SkipPoll, Ask, ThroughStep, Reconcile
<1>6. CASE WorldStep \/ Begin \/ EndStep \/ Crash
  BY <1>6 DEF WorldStep, Begin, EndStep, Crash
<1> QED BY <1>1, <1>2, <1>3, <1>4, <1>5, <1>6, Steps

\* What has ended stays ended: nobody adopts, polls or proves it again.
LEMMA EndedStep ==
  ASSUME FillTypeOK, FillTypeOK', CallShape, DownIsEmpty, Books, [Next]_vars
  PROVE  \A o \in Offers : Ended(o)' =>
           Ended(o) \/ (Book(o) /\ status[o] \in Past /\ o \in call.todo)
<1>1. \A o \in Offers : Book(o) => status[o] \in Past /\ o \in call.todo
  BY AnswerInTurn DEF Answered, Book, answered, Books, StatusFollows, CallShape
<1>2. Write /\ call.written = 1 => fill.offer \in Fresh
  BY FillsTail, WriteFields DEF RecordedStep, FillTypeOK, Calls, fill, Fresh
<1>3. \A o \in Offers : row'[o] = "filled" => row[o] = "filled" \/ o \in Fresh
  BY <1>2, RowStep
<1> QED BY <1>1, <1>3, FreshStep DEF Ended

\* An offer that was taken or recorded is not tracked, polled or proven again.
LEMMA EndedStaysEndedStep ==
  ASSUME FillTypeOK, FillTypeOK', CallShape, DownIsEmpty, Books, [Next]_vars
  PROVE  EndedStaysEnded'
<1> USE DEF world, state, manager, engine, db
<1>t. call \in Calls /\ row \in [Offers -> Rows]
  BY DEF FillTypeOK, EngineOK
<1>0. SUFFICES ASSUME NEW o \in Offers, Ended(o)'
               PROVE  /\ status'[o] \in Past /\ o \notin offers' \cup call'.todo
                      /\ call'.pc = "poll" => call'.recs[o] = NotRead
  BY DEF EndedStaysEnded
<1>1. CASE Book(o) /\ status[o] \in Past /\ o \in call.todo
  <2>1. call'.pc = "prove" /\ call'.todo = call.todo \ {o} /\ UNCHANGED world
    BY <1>t, <1>1, AnswerFields, AnswerInTurn DEF Answered, ThroughStep
  <2>2. offers' = offers \ {o}
    BY <1>1 DEF Book, remove_offer
  <2> QED BY <1>1, <2>1, <2>2
<1>2. CASE Ended(o)
  <2>1. /\ status[o] \in Past /\ o \notin offers \cup call.todo
        /\ call.pc = "poll" => call.recs[o] = NotRead
    BY <1>2 DEF Books, EndedStaysEnded
  <2>2. status'[o] \in Past
    BY <2>1, StatusGoesOn
  <2>3. o \notin offers' /\ o \notin call'.todo /\ (call'.pc = "poll" => call'.recs[o] = NotRead)
    <3>1. CASE WorldStep \/ \E p \in Offers, st \in Statuses : SendCancel(p, st)
      BY <2>1, <3>1 DEF WorldStep, SendCancel
    <3>2. CASE Begin
      BY <2>1, <3>2, BeginFields DEF Nobody
    <3>3. CASE EndDetect
      <4>1. /\ EndedDetect /\ call.pc = "prove" /\ UNCHANGED state
        BY <3>3, EndDetectFields DEF EndedDetect
      <4>2. pending_unconfirmed_terminals'[o] = NotBuffered
        <5>1. o \notin Fresh => pending_unconfirmed_terminals[o] = NotBuffered /\ o \notin call.terminals
          BY <1>2 DEF Ended, Books, EndedNotBuffered
        <5> QED BY <4>1, <5>1 DEF EndedDetect, buffered
      <4>3. ~at_depth(pending_unconfirmed_terminals'[o].block, call.block)
        BY <4>2 DEF at_depth, NotBuffered
      <4> QED BY <2>1, <4>1, <4>3 DEF EndedDetect
    <3>4. CASE Write \/ WriteFails
      BY <2>1, <3>4, WriteFields DEF RecordedStep
    <3>5. CASE EndStep \/ Crash
      <4>1. CASE EndStep
        BY <2>1, <4>1 DEF EndStep, Idle
      <4>2. CASE Crash
        BY <2>1, <4>2 DEF Crash, Idle
      <4> QED BY <3>5, <4>1, <4>2
    <3>6. CASE Boot
      <4>1. Fresh = {} /\ call' = Idle /\ call = Idle
        BY <3>6 DEF Boot, DownIsEmpty, Fresh, offers_of, Idle
      <4>2. row[o] = "filled"
        BY <1>2, <4>1 DEF Ended
      <4>3. o \notin offers'
        BY <3>6, <4>2 DEF Boot, open_rows
      <4> QED BY <2>1, <4>1, <4>3 DEF Idle
    <3>7. CASE \E p \in Offers : Poll(p) \/ SkipPoll(p)
      <4>1. PICK p \in Offers : PolledStep(p)
        BY <1>t, <3>7, PollFields
      <4>2. p # o /\ call.recs \in [Offers -> Records]
        BY <1>t, <2>1, <4>1 DEF PolledStep, Calls
      <4>3. call'.recs[o] = NotRead
        BY <2>1, <4>1, <4>2 DEF PolledStep
      <4> QED BY <2>1, <4>1, <4>3 DEF PolledStep
    <3>8. CASE \E p \in Offers : Ask(p)
      <4>1. PICK p \in Offers : \E reply : AskedStep(p, reply)
        BY <1>t, <3>8, AskFields
      <4> QED BY <2>1, <4>1 DEF AskedStep, turn
    <3>9. CASE \E p \in Offers : Answered(p)
      <4>1. PICK p \in Offers : ThroughStep(p) /\ call.pc = "prove"
        BY <1>t, <3>9, AnswerFields, AnswerInTurn
      <4> QED BY <2>1, <4>1 DEF ThroughStep
    <3>10. CASE \E p \in Offers : Matured(p)
      <4>1. PICK p \in Offers : Matured(p)
        BY <3>10
      <4>2. MaturedStep(p) /\ p # o
        BY <2>1, <4>1, MaturedFields DEF MaturedStep
      <4>3. offers' \subseteq offers \cup {p}
        BY <4>1 DEF Matured, Recheck, readopt, CloseFails, NoVerdict, NotAskedAgain
      <4> QED BY <2>1, <4>2, <4>3 DEF MaturedStep
    <3>11. CASE \E p \in Offers : Reconcile(p)
      <4>1. PICK p \in Offers : Reconcile(p)
        BY <3>11
      <4>2. offers' \subseteq offers \cup {p} /\ (p \in offers \/ status[p] = "accept")
            /\ UNCHANGED call
        BY <4>1 DEF Reconcile, remove_offer
      <4>3. p = o => o \notin offers'
        BY <2>1, <4>1, <4>2 DEF Past
      <4> QED BY <2>1, <4>2, <4>3
    <3> QED BY <3>1, <3>2, <3>3, <3>4, <3>5, <3>6, <3>7, <3>8, <3>9, <3>10, <3>11, Steps
  <2> QED BY <2>1, <2>2, <2>3
<1> QED BY <1>0, <1>1, <1>2, EndedStep


\* What is over is not aging as a cancellation.
LEMMA EndedNotBufferedStep ==
  ASSUME FillTypeOK, FillTypeOK', CallShape, DownIsEmpty, Books, [Next]_vars
  PROVE  EndedNotBuffered'
<1> USE DEF world, state, manager, engine, db
<1>t. /\ call \in Calls /\ row \in [Offers -> Rows]
      /\ pending_unconfirmed_terminals \in [Offers -> [block : Nat, failures : Nat]]
  BY DEF FillTypeOK, EngineOK
<1>0. SUFFICES ASSUME NEW o \in Offers,
                      row'[o] = "filled" \/ (call'.pc = "write" /\ o \in Fresh')
               PROVE  /\ pending_unconfirmed_terminals'[o] = NotBuffered
                      /\ o \notin call'.terminals
  BY DEF EndedNotBuffered
<1>1. CASE EndDetect
  <2>1. EndedDetect /\ Fresh' = Fresh /\ (row'[o] = "filled" => row[o] = "filled")
    BY <1>1, EndDetectFields DEF SplitFills, DeadRows
  <2>2. o \in Fresh \/ row[o] = "filled"
    BY <1>0, <2>1
  <2>3. o \notin Fresh => pending_unconfirmed_terminals[o] = NotBuffered /\ o \notin call.terminals
    BY <2>2 DEF Books, EndedNotBuffered
  <2> QED BY <2>1, <2>3 DEF EndedDetect, buffered
<1>2. CASE Begin \/ EndStep \/ Crash
  <2>1. call'.pc # "write" /\ call'.terminals = {}
    <3>1. CASE Begin
      BY <3>1, BeginFields
    <3>2. CASE EndStep
      BY <3>2 DEF EndStep, Idle
    <3>3. CASE Crash
      BY <3>3 DEF Crash, Idle
    <3> QED BY <1>2, <3>1, <3>2, <3>3
  <2>2. UNCHANGED row
    BY <1>2 DEF Begin, EndStep, Crash
  <2>3. pending_unconfirmed_terminals'[o] \in {pending_unconfirmed_terminals[o], NotBuffered}
    BY <1>2 DEF Begin, EndStep, Crash, Nobody
  <2> QED BY <1>0, <2>1, <2>2, <2>3 DEF Books, EndedNotBuffered
<1>3. CASE ~(EndDetect \/ Begin \/ EndStep \/ Crash)
  <2>1. call'.pc = "write" => call.pc = "write"
    <3>1. \A p \in Offers : (Poll(p) \/ SkipPoll(p)) \/ Ask(p) \/ Answered(p) => call'.pc # "write"
      <4>1. ASSUME NEW p \in Offers, Poll(p) \/ SkipPoll(p) PROVE call'.pc # "write"
        BY <1>t, <4>1, PollFields DEF PolledStep
      <4>2. ASSUME NEW p \in Offers, Ask(p) PROVE call'.pc # "write"
        BY <1>t, <4>2, AskFields DEF AskedStep, turn
      <4>3. ASSUME NEW p \in Offers, Answered(p) PROVE call'.pc # "write"
        BY <1>t, <4>3, AnswerFields, AnswerInTurn DEF ThroughStep
      <4> QED BY <4>1, <4>2, <4>3
    <3>2. CASE WorldStep \/ Boot \/ \E p \in Offers : Reconcile(p)
                           \/ \E st \in Statuses : SendCancel(p, st)
      BY <3>2 DEF WorldStep, Boot, Reconcile, SendCancel
    <3>3. CASE Write \/ WriteFails
      BY <3>3, WriteFields DEF RecordedStep
    <3>4. CASE \E p \in Offers : Matured(p)
      BY <3>4, MaturedFields DEF MaturedStep
    <3> QED BY <1>3, <3>1, <3>2, <3>3, <3>4, Steps
  <2>2. call'.pc = "write" /\ o \in Fresh' => o \in Fresh
    <3>1. call'.pc = "write" => ~\E p \in Offers : Book(p)
      BY <2>1, AnswerInTurn DEF Answered
    <3>2. \A p \in Offers : Book(p) => call'.pc = "prove"
      BY <1>t, AnswerFields, AnswerInTurn DEF ThroughStep, Answered
    <3> QED BY <3>2, FreshStep
  <2>3. row'[o] = "filled" => row[o] = "filled" \/ (call.pc = "write" /\ o \in Fresh)
    <3>1. Write /\ call.written = 1 => fill.offer \in Fresh /\ call.pc = "write"
      BY FillsTail, WriteFields DEF RecordedStep, FillTypeOK, Calls, fill, Fresh
    <3> QED BY <3>1, RowStep
  <2>4. row[o] = "filled" \/ (call.pc = "write" /\ o \in Fresh)
    BY <1>0, <2>1, <2>2, <2>3
  <2>5. /\ pending_unconfirmed_terminals[o] = NotBuffered /\ o \notin call.terminals
        /\ o \notin offers \cup call.todo
    BY <2>4 DEF Books, EndedNotBuffered, EndedStaysEnded, Ended
  <2>6. CASE \E p \in Offers : Matured(p)
    BY <2>5, <2>6, MaturedFields DEF MaturedStep
  <2>7. CASE \E p \in Offers : Answered(p)
    <3>1. PICK p \in Offers : Answered(p)
      BY <2>7
    <3>2. p # o /\ ThroughStep(p) /\ call'.terminals \subseteq call.terminals \cup {p}
      BY <1>t, <2>5, <3>1, AnswerFields, AnswerInTurn DEF FoundTerminal
    <3> QED BY <2>5, <3>2 DEF ThroughStep
  <2>8. CASE \E p \in Offers : Reconcile(p)
    <3>1. PICK p \in Offers : Reconcile(p)
      BY <2>8
    <3>2. /\ UNCHANGED call
          /\ \/ UNCHANGED pending_unconfirmed_terminals
             \/ /\ p # o
                /\ pending_unconfirmed_terminals' = buffered(pending_unconfirmed_terminals, {p})
      BY <2>5, <3>1 DEF Reconcile
    <3> QED BY <2>5, <3>2 DEF buffered
  <2>9. CASE \E p \in Offers : (Poll(p) \/ SkipPoll(p)) \/ Ask(p)
                              \/ \E st \in Statuses : SendCancel(p, st)
    <3>1. PICK p \in Offers : (Poll(p) \/ SkipPoll(p)) \/ Ask(p)
                              \/ \E st \in Statuses : SendCancel(p, st)
      BY <2>9
    <3>2. Poll(p) \/ SkipPoll(p) => PolledStep(p)
      BY <1>t, PollFields
    <3>3. Ask(p) => \E reply : AskedStep(p, reply)
      BY <1>t, AskFields
    <3> QED BY <2>5, <3>1, <3>2, <3>3 DEF PolledStep, AskedStep, SendCancel
  <2>10. CASE WorldStep \/ Boot \/ Write \/ WriteFails
    BY <2>5, <2>10, WriteFields DEF WorldStep, Boot, RecordedStep
  <2> QED BY <1>3, <2>6, <2>7, <2>8, <2>9, <2>10, Steps
<1> QED BY <1>1, <1>2, <1>3

\* The two lists never name an offer twice.
LEMMA FoundOnceStep ==
  ASSUME FillTypeOK, CallShape, DownIsEmpty, Books, [Next]_vars
  PROVE  FoundOnce'
<1> USE DEF world, state, manager, engine, db
<1>t. call \in Calls /\ call.fills \in Seq(Fills) /\ FoundOnce
  BY DEF FillTypeOK, Calls, Books
<1>f. /\ Distinct(call.fills)' <=> Distinct(call'.fills)
      /\ Distinct(pending_unconfirmed_fills)' <=> Distinct(pending_unconfirmed_fills')
      /\ offers_of(call.fills)' = offers_of(call'.fills)
      /\ offers_of(pending_unconfirmed_fills)' = offers_of(pending_unconfirmed_fills')
  BY DEF Distinct, offers_of
<1>1. CASE call'.fills = call.fills /\ UNCHANGED pending_unconfirmed_fills
  BY <1>t, <1>1, <1>f DEF FoundOnce
<1>2. CASE EndDetect
  BY <1>t, <1>2, EndDetectFields DEF SplitFills
<1>3. CASE Write \/ WriteFails
  <2>1. /\ UNCHANGED pending_unconfirmed_fills /\ call.fills # <<>>
        /\ call'.fills = call.fills \/ call'.fills = Tail(call.fills)
    BY <1>3, WriteFields DEF RecordedStep
  <2>2. CASE call'.fills = Tail(call.fills)
    <3>1. Distinct(call'.fills) /\ offers_of(call'.fills) \subseteq offers_of(call.fills)
      BY <1>t, <2>1, <2>2, FillsTail DEF FoundOnce
    <3> QED BY <1>t, <1>f, <2>1, <3>1 DEF FoundOnce
  <2> QED BY <1>1, <2>1, <2>2
<1>4. CASE Begin \/ EndStep
  <2>1. call.fills = <<>> /\ call'.fills = <<>> /\ UNCHANGED pending_unconfirmed_fills
    BY <1>4, BeginFields DEF EndStep, Idle, CallShape
  <2> QED BY <1>1, <2>1
<1>5. CASE Crash
  <2>1. call'.fills = <<>> /\ pending_unconfirmed_fills' = <<>>
    BY <1>5 DEF Crash, Idle
  <2>2. Distinct(<<>>) /\ offers_of(<<>>) = {}
    BY DEF Distinct, offers_of
  <2> QED BY <1>f, <2>1, <2>2 DEF FoundOnce
<1>6. ASSUME NEW o \in Offers, Answered(o)
      PROVE  FoundOnce'
  <2>1. UNCHANGED pending_unconfirmed_fills
    BY <1>t, <1>6, AnswerFields DEF ThroughStep
  <2>2. CASE ~Book(o)
    <3>1. call'.fills = call.fills
      BY <1>t, <1>6, <2>2, AnswerFields
    <3> QED BY <1>1, <2>1, <3>1
  <2>3. CASE Book(o)
    <3>1. o \notin Fresh
      BY <1>6, AnswerInTurn DEF Books, EndedStaysEnded, Ended
    <3>2. /\ offers_of(call'.fills) = offers_of(call.fills) \cup {o}
          /\ Distinct(call'.fills)
      BY <1>t, <2>3, <3>1, BookFound DEF Fresh, FoundOnce
    <3> QED BY <1>t, <1>f, <2>1, <3>1, <3>2 DEF Fresh, FoundOnce
  <2> QED BY <2>2, <2>3
<1>7. ASSUME NEW o \in Offers, (Poll(o) \/ SkipPoll(o)) \/ Ask(o) \/ Matured(o) \/ Reconcile(o)
                               \/ \E st \in Statuses : SendCancel(o, st)
      PROVE  call'.fills = call.fills /\ UNCHANGED pending_unconfirmed_fills
  <2>1. Poll(o) \/ SkipPoll(o) => PolledStep(o)
    BY <1>t, PollFields
  <2>2. Ask(o) => \E reply : AskedStep(o, reply)
    BY <1>t, AskFields
  <2>3. Matured(o) => MaturedStep(o)
    BY MaturedFields
  <2> QED BY <1>7, <2>1, <2>2, <2>3
          DEF PolledStep, AskedStep, MaturedStep, Reconcile, SendCancel
<1>8. CASE WorldStep \/ Boot
  BY <1>1, <1>8 DEF WorldStep, Boot
<1> QED BY <1>1, <1>2, <1>3, <1>4, <1>5, <1>6, <1>7, <1>8, Steps

\* The inventory moves when the fill's last write is done, and the fill is gone.
LEMMA CountedOnceStep ==
  ASSUME FillTypeOK, FillTypeOK', CallShape, DownIsEmpty, Books, [Next]_vars
  PROVE  CountedOnce'
<1> USE DEF world, state, manager, engine, db
<1>t. /\ call \in Calls /\ call.fills \in Seq(Fills)
      /\ inventory \in [Offers -> Nat] /\ FoundOnce /\ CountedOnce
  BY DEF FillTypeOK, EngineOK, Calls, Books
<1>1. CASE Write /\ call.written = 2
  <2>1. /\ inventory' = [inventory EXCEPT ![fill.offer] = @ + 1] /\ UNCHANGED row
        /\ call.fills # <<>> /\ fill \in Fills
        /\ call'.fills = Tail(call.fills) /\ UNCHANGED pending_unconfirmed_fills
    <3>1. RecordedStep /\ (call'.written = 0 <=> call.written = 2)
      BY <1>1, WriteFields
    <3>2. inventory' = [inventory EXCEPT ![fill.offer] = @ + 1] /\ UNCHANGED row
      BY <1>1, WriteFields
    <3>3. call'.fills = Tail(call.fills)
      BY <1>1, <3>1 DEF RecordedStep
    <3> QED BY <3>1, <3>2, <3>3 DEF RecordedStep
  <2>2. row[fill.offer] = "filled"
    BY <1>1 DEF CallShape
  <2>3. /\ offers_of(call.fills) = {fill.offer} \cup offers_of(call'.fills)
        /\ fill.offer \notin offers_of(call'.fills) /\ fill.offer \in Offers
    BY <1>t, <2>1, FillsTail DEF fill, FoundOnce, Fills
  <2>4. fill.offer \notin offers_of(pending_unconfirmed_fills)
    BY <1>t, <2>3 DEF FoundOnce
  <2>5. Fresh' = offers_of(pending_unconfirmed_fills) \cup offers_of(call'.fills)
    BY <2>1 DEF Fresh, offers_of
  <2>6. inventory[fill.offer] = 0
    BY <1>t, <2>3 DEF CountedOnce, Fresh
  <2>7. \A p \in Offers : p \in Fresh' => p \in Fresh
    BY <2>3, <2>5 DEF Fresh
  <2> QED BY <1>t, <2>1, <2>2, <2>3, <2>4, <2>5, <2>6, <2>7 DEF CountedOnce
<1>2. CASE UNCHANGED inventory
  <2>1. ASSUME NEW o \in Offers, inventory[o] # 0
        PROVE  inventory'[o] = 1 /\ row'[o] = "filled" /\ o \notin Fresh'
    <3>1. inventory[o] = 1 /\ row[o] = "filled" /\ o \notin Fresh
      BY <1>t, <2>1 DEF CountedOnce
    <3>2. row'[o] = "filled"
      BY <3>1, RowStep
    <3>3. ~Book(o)
      BY <3>1, AnswerInTurn DEF Answered, Books, EndedStaysEnded, Ended
    <3> QED BY <1>2, <3>1, <3>2, <3>3, FreshStep
  <2> QED BY <1>2, <2>1 DEF CountedOnce
<1>3. UNCHANGED inventory \/ (Write /\ call.written = 2)
  <2>1. Write \/ WriteFails => UNCHANGED inventory \/ (Write /\ call.written = 2)
    BY WriteFields DEF CallShape
  <2>2. ASSUME NEW o \in Offers, Answered(o) \/ Matured(o)
        PROVE  UNCHANGED inventory
    BY <1>t, <2>2, AnswerFields, MaturedFields DEF ThroughStep, MaturedStep
  <2>3. ASSUME NEW o \in Offers, (Poll(o) \/ SkipPoll(o)) \/ Ask(o) \/ Reconcile(o)
                               \/ \E st \in Statuses : SendCancel(o, st)
        PROVE  UNCHANGED inventory
    BY <2>3 DEF Poll, SkipPoll, Ask, Reconcile, SendCancel
  <2>4. WorldStep \/ Begin \/ EndDetect \/ EndStep \/ Crash \/ Boot => UNCHANGED inventory
    BY DEF WorldStep, Begin, EndDetect, EndStep, Crash, Boot
  <2> QED BY <2>1, <2>2, <2>3, <2>4, Steps
<1> QED BY <1>1, <1>2, <1>3

-----------------------------------------------------------------------------
(* What the chain may still change.                                        *)

\* A spend changes when a block brings it, or when a reorganisation that does not
\* reach the depth replaces one nobody has been shown.
LEMMA ChainMoves ==
  ASSUME FillTypeOK, FillTypeOK', [Next]_vars
  PROVE  /\ chain.tip \in Nat /\ chain'.tip \in Nat /\ chain.tip <= chain'.tip
         /\ \A o \in Offers : chain'.spend[o] # chain.spend[o] =>
              \/ /\ Block /\ chain.spend[o] = Unspent /\ chain'.spend[o].at = chain.tip + 1
                 /\ UNCHANGED <<status, state, manager, call, engine, db>>
              \/ /\ Reorg /\ ~at_depth(chain.spend[o].at, chain.tip)
                 /\ \/ chain'.spend[o] = Unspent
                    \/ /\ chain'.spend[o].at <= chain.tip
                       /\ ~at_depth(chain'.spend[o].at, chain.tip)
                 /\ UndoneTakes \/ ~shown(o)
                 /\ status'[o] = (IF status[o] = "failed" THEN "accept" ELSE status[o])
                 /\ UNCHANGED <<node, confirmed_at_index, state, manager, call, engine, db>>
<1>t. chain.tip \in Nat /\ chain \in Chains
  BY DEF FillTypeOK, WorldOK, Chains
<1>1. CASE Block
  <2>1. PICK spend :
          /\ \A o \in Offers : \/ spend[o] = chain.spend[o]
                               \/ chain.spend[o] = Unspent /\ spend[o].at = chain.tip + 1
          /\ chain' = [tip |-> chain.tip + 1, spend |-> spend]
    BY <1>1 DEF Block
  <2>2. chain'.tip = chain.tip + 1 /\ chain'.spend = spend
    BY <2>1
  <2>3. UNCHANGED <<status, state, manager, call, engine, db>>
    BY <1>1 DEF Block
  <2> QED BY <1>t, <1>1, <2>1, <2>2, <2>3
<1>2. CASE Reorg
  <2>1. PICK spend :
          /\ \A o \in Offers : spend[o] # chain.spend[o] =>
               /\ ~at_depth(chain.spend[o].at, chain.tip)
               /\ \/ spend[o] = Unspent
                  \/ spend[o].at <= chain.tip /\ ~at_depth(spend[o].at, chain.tip)
               /\ UndoneTakes \/ ~shown(o)
          /\ chain' = [chain EXCEPT !.spend = spend]
          /\ status' = [o \in Offers |-> IF status[o] = "failed" /\ spend[o] # chain.spend[o]
                                         THEN "accept" ELSE status[o]]
    BY <1>2 DEF Reorg
  <2>2. chain'.tip = chain.tip /\ chain'.spend = spend
    BY <1>t, <2>1 DEF Chains
  <2>3. UNCHANGED <<node, confirmed_at_index, state, manager, call, engine, db>>
    BY <1>2 DEF Reorg
  <2>4. \A o \in Offers : spend[o] # chain.spend[o] =>
          status'[o] = (IF status[o] = "failed" THEN "accept" ELSE status[o])
    BY <2>1
  <2> QED BY <1>t, <1>2, <2>1, <2>2, <2>3, <2>4
<1>3. CASE UNCHANGED chain
  BY <1>t, <1>3
<1>4. Block \/ Reorg \/ UNCHANGED chain
  BY WorldSteps DEF NodeSyncs, WalletSees, CancelledElsewhere, SendCancel
<1> QED BY <1>1, <1>2, <1>3, <1>4

\* What is at depth does not move.
LEMMA DeepStays ==
  ASSUME FillTypeOK, FillTypeOK', [Next]_vars,
         NEW o \in Offers, at_depth(chain.spend[o].at, chain.tip)
  PROVE  chain'.spend[o] = chain.spend[o] /\ at_depth(chain'.spend[o].at, chain'.tip)
<1>1. chain.spend[o].at \in Nat /\ chain.tip \in Nat /\ chain'.tip \in Nat
  BY DEF FillTypeOK, WorldOK, Chains, Spendings
<1>2. chain'.spend[o] = chain.spend[o] /\ chain.tip <= chain'.tip
  BY <1>1, ChainMoves DEF at_depth, Unspent
<1> QED BY <1>1, <1>2, Deeper

\* Nor does a death at depth.
LEMMA DeepDeadStays ==
  ASSUME FillTypeOK, FillTypeOK', [Next]_vars, NEW o \in Offers, DeepDead(o)
  PROVE  DeepDead(o)'
BY DeepStays DEF DeepDead, is_dead

\* A claim that is refuted at depth stays refuted.
LEMMA RefutedStays ==
  ASSUME FillTypeOK, FillTypeOK', [Next]_vars, NEW o \in Offers, NEW h \in Nat, Refuted(chain, o, h)
  PROVE  Refuted(chain', o, h)
<1>1. /\ chain.tip \in Nat /\ chain'.tip \in Nat /\ chain.tip <= chain'.tip
      /\ chain'.spend[o].at \in Nat /\ chain.spend[o].at \in Nat
      /\ ConfirmationDepth \in Nat \ {0}
  BY FillAssumption, ChainMoves DEF FillTypeOK, WorldOK, Chains, Spendings
<1>2. at_depth(h, chain.tip) /\ at_depth(h, chain'.tip)
  BY <1>1, Deeper DEF Refuted
<1>3. chain'.spend[o] # chain.spend[o] =>
        \/ chain'.spend[o].at = chain.tip + 1 \/ chain'.spend[o].at = 0
        \/ ~at_depth(chain'.spend[o].at, chain.tip)
  BY ChainMoves DEF Unspent
<1>4. chain'.spend[o].at # h
  BY <1>1, <1>2, <1>3 DEF Refuted, at_depth
<1> QED BY <1>2, <1>4 DEF Refuted

\* While an answer is awaited the call stands still.
LEMMA AskingKept ==
  ASSUME FillTypeOK, FillTypeOK', CallShape, [Next]_vars, NEW o \in call'.asking
  PROVE  /\ call'.block = call.block /\ call'.from_node = call.from_node /\ o \in Offers
         /\ \/ /\ o \in call.asking /\ call'.recs = call.recs /\ call'.asked = call.asked
            \/ \E reply : AskedStep(o, reply)
<1>1. o \in Offers /\ call \in Calls
  BY DEF FillTypeOK, Calls
<1>2. \/ o \in call.asking /\ call'.recs = call.recs /\ call'.asked = call.asked
      \/ Ask(o) /\ call'.recs = call.recs
  BY RecsStep
<1>3. ~Begin /\ call' # Idle
  BY BeginFields DEF Idle
<1>4. Block \/ NodeSyncs \/ Reorg => UNCHANGED call
  BY DEF Block, NodeSyncs, Reorg
<1> QED BY <1>1, <1>2, <1>3, <1>4, CallKept, AskFields

-----------------------------------------------------------------------------
(* Holds: what is released while CONFIRMED was refuted at depth.           *)

\* No hold is released in the initial state.
LEMMA HoldsInit == Init => HoldsOK
BY DEF Init, HoldsOK, Idle, Nobody

\* A hold is released only on the full node's word that the coins are unspent at
\* the depth of the claim, and that word keeps.
LEMMA HoldsStep ==
  ASSUME FillTypeOK, FillTypeOK', CallShape, ChainOK, StatusFollows, HoldsOK, [Next]_vars
  PROVE  HoldsOK'
<1> USE DEF world, state, manager, engine, db
<1>t. /\ call \in Calls /\ call.block \in Nat /\ node.tip \in Nat /\ ConfirmationDepth \in Nat \ {0}
      /\ \A o \in Offers : /\ call.recs[o].claimed \in Nat /\ confirmed_at_index[o] \in Nat
                           /\ chain.spend[o].at \in Nat /\ node.spend[o].at \in Nat
      /\ fill_proof_deferrals \in [Offers -> Holds]
  BY FillAssumption DEF FillTypeOK, WorldOK, ManagerOK, Calls, Records, Chains, Spendings
<1>1. ASSUME NEW o \in call'.asking,
             live_offer_cancellable(call.asked.answer, call.recs[o].claimed)'
      PROVE  Refuted(chain', o, call'.recs[o].claimed)
  <2>1. call'.block = call.block /\ call'.from_node = call.from_node /\ o \in Offers
    BY AskingKept
  <2>2. CASE o \in call.asking /\ call'.recs = call.recs /\ call'.asked = call.asked
    <3>1. Refuted(chain, o, call.recs[o].claimed)
      BY <1>1, <2>1, <2>2 DEF HoldsOK, live_offer_cancellable
    <3> QED BY <1>t, <2>1, <2>2, <3>1, RefutedStays
  <2>3. CASE \E reply : AskedStep(o, reply)
    <3>1. PICK reply : AskedStep(o, reply)
      BY <2>3
    <3> DEFINE h == call.recs[o].claimed
    <3>2. /\ call'.recs = call.recs /\ call'.asked.answer = reply /\ UNCHANGED chain
          /\ reply \in prove_fill_on_chain(o)
      BY <3>1 DEF AskedStep
    <3>3. reply.verdict = "live" /\ call.from_node /\ at_depth(h, call.block)
      BY <1>1, <2>1, <3>2 DEF live_offer_cancellable
    <3>4. reply = says(node.spend[o], TRUE)
      <4>1. NoAnswer.verdict = "unknown" /\ Refused.verdict = "unknown" /\ Silence.verdict = "unknown"
        BY DEF NoAnswer, Refused, Silence
      <4>2. reply = said(o)
        BY <3>2, <3>3, <4>1 DEF prove_fill_on_chain
      <4> QED BY <1>t, <3>3, <4>2 DEF said, Calls
    <3>5. node.spend[o].by = "none"
      BY <2>1, <3>3, <3>4 DEF says, shows, spent_together, FillTypeOK, WorldOK, Chains, Spendings
    <3>6. node.spend[o].at = 0 /\ call.block <= node.tip
      BY <2>1, <3>3, <3>5 DEF ChainOK, SpendsOK
    <3>7. at_depth(h, node.tip)
      BY <1>t, <2>1, <3>3, <3>6, Deeper
    <3>8. chain.spend[o].at # h
      BY <1>t, <2>1, <3>6, <3>7 DEF ChainOK, DeepAgrees, at_depth
    <3>9. at_depth(h, chain.tip)
      <4>1. chain.tip \in Nat /\ node.tip <= chain.tip
        BY DEF FillTypeOK, WorldOK, Chains, ChainOK
      <4> QED BY <1>t, <2>1, <3>7, <4>1, Deeper
    <3> QED BY <3>2, <3>8, <3>9 DEF Refuted
  <2> QED BY <2>2, <2>3, AskingKept
<1>2. ASSUME NEW o \in Offers, fill_proof_deferrals[o] = "cancellable"
      PROVE  status'[o] \in Past /\ (status'[o] = "confirmed" => Refuted(chain', o, confirmed_at_index'[o]))
  <2>1. status[o] \in Past /\ (status[o] = "confirmed" => Refuted(chain, o, confirmed_at_index[o]))
    BY <1>2 DEF HoldsOK
  <2>2. /\ status'[o] \in Past
        /\ status'[o] = "confirmed" =>
             status[o] = "confirmed" /\ confirmed_at_index'[o] = confirmed_at_index[o]
    BY <2>1, StatusGoesOn
  <2>3. ASSUME status'[o] = "confirmed"
        PROVE  Refuted(chain', o, confirmed_at_index'[o])
    BY <1>t, <2>1, <2>2, <2>3, RefutedStays
  <2> QED BY <2>2, <2>3
<1>3. ASSUME NEW o \in Offers, Defer(o), live_offer_cancellable(answer, call.recs[o].claimed)
      PROVE  status'[o] \in Past /\ (status'[o] = "confirmed" => Refuted(chain', o, confirmed_at_index'[o]))
  <2>1. o \in call.asking /\ UNCHANGED <<chain, status, confirmed_at_index>>
        /\ call.recs[o].status \in {"confirmed"} \cup Cancelling
    BY <1>3 DEF Defer, answered, under_cancel, written_by_a_cancel, read, Cancelling
  <2>2. Refuted(chain, o, call.recs[o].claimed)
    BY <1>3, <2>1 DEF HoldsOK, answer
  <2>3. status[o] \in Past /\ (status[o] = "confirmed" => call.recs[o].claimed = confirmed_at_index[o])
    BY <2>1 DEF StatusFollows, Past, Cancelling
  <2> QED BY <2>1, <2>2, <2>3 DEF Refuted
<1>4. ASSUME NEW o \in Offers, fill_proof_deferrals'[o] = "cancellable"
      PROVE  \/ fill_proof_deferrals[o] = "cancellable"
             \/ Defer(o) /\ live_offer_cancellable(answer, call.recs[o].claimed)
  <2>1. CASE UNCHANGED fill_proof_deferrals
    BY <1>4, <2>1
  <2>2. CASE Begin \/ Crash
    BY <1>4, <2>2 DEF Begin, Crash, Nobody
  <2>3. CASE \E p \in Offers : (Poll(p) \/ SkipPoll(p)) \/ Ask(p) \/ Answered(p)
    <3>1. PICK p \in Offers : (Poll(p) \/ SkipPoll(p)) \/ Ask(p) \/ Answered(p)
      BY <2>3
    <3>2. \A st : hold_after(fill_proof_deferrals[p], st) = "cancellable" =>
            fill_proof_deferrals[p] = "cancellable"
      BY DEF hold_after
    <3>3. CASE Defer(p)
      BY <1>t, <1>4, <3>3 DEF Defer
    <3>4. CASE ~Defer(p)
      BY <1>t, <1>4, <3>1, <3>2, <3>4
         DEF Poll, SkipPoll, Ask, Answered, PassBy, Book, CloseDead, StillTakeable, Wait, Stand
    <3> QED BY <3>3, <3>4
  <2>4. (\/ WorldStep \/ EndDetect \/ (Write \/ WriteFails) \/ EndStep \/ Boot
         \/ \E p \in Offers : Matured(p) \/ Reconcile(p) \/ \E st \in Statuses : SendCancel(p, st))
          => UNCHANGED fill_proof_deferrals
    <3>1. WorldStep \/ EndDetect \/ (Write \/ WriteFails) \/ EndStep \/ Boot
            => UNCHANGED fill_proof_deferrals
      BY DEF WorldStep, EndDetect, Write, WriteFails, EndStep, Boot
    <3>2. ASSUME NEW p \in Offers,
                 Matured(p) \/ Reconcile(p) \/ \E st \in Statuses : SendCancel(p, st)
          PROVE  UNCHANGED fill_proof_deferrals
      BY <3>2 DEF Reconcile, SendCancel, Matured, Recheck, CloseFails, NoVerdict, NotAskedAgain
    <3> QED BY <3>1, <3>2
  <2> QED BY <2>1, <2>2, <2>3, <2>4, Steps
<1> QED BY <1>1, <1>2, <1>3, <1>4 DEF HoldsOK

-----------------------------------------------------------------------------
(* Dead: what is closed on a proof has been spent otherwise, at depth.     *)

\* Nobody is proven dead in the initial state.
LEMMA DeadInit == Init => DeadOK
BY DEF Init, DeadOK, Idle, Nobody

\* What the call closes it has seen dead at depth, and a FAILED trade was not
\* spent in one block.
LEMMA DeadStep ==
  ASSUME FillTypeOK, FillTypeOK', CallShape, ChainOK, DeadOK, [Next]_vars
  PROVE  DeadOK'
<1> USE DEF world, state, manager, engine, db
<1>t. /\ call \in Calls /\ call.block \in Nat /\ node.tip \in Nat /\ chain.tip \in Nat
      /\ \A o \in Offers : chain.spend[o].at \in Nat /\ node.spend[o].at \in Nat
      /\ call.dead \cup pending_dead_writes \cup proven_dead \subseteq Offers
      /\ call'.dead \cup pending_dead_writes' \cup proven_dead' \subseteq Offers
  BY DEF FillTypeOK, ManagerOK, EngineOK, WorldOK, Calls, Chains, Spendings
<1>1. ASSUME NEW o \in call'.asking, dead_offer_closable(call.asked.answer)'
      PROVE  DeepDead(o)'
  <2>1. call'.block = call.block /\ call'.from_node = call.from_node /\ o \in Offers
    BY AskingKept
  <2>2. CASE o \in call.asking /\ call'.recs = call.recs /\ call'.asked = call.asked
    <3>1. DeepDead(o)
      BY <1>1, <2>1, <2>2 DEF DeadOK, dead_offer_closable
    <3> QED BY <2>1, <3>1, DeepDeadStays
  <2>3. CASE \E reply : AskedStep(o, reply)
    <3>1. PICK reply : AskedStep(o, reply)
      BY <2>3
    <3>2. /\ call'.asked.answer = reply /\ UNCHANGED chain /\ reply \in prove_fill_on_chain(o)
      BY <3>1 DEF AskedStep
    <3>3. reply.verdict = "dead" /\ at_depth(reply.height, call.block)
      BY <1>1, <2>1, <3>2 DEF dead_offer_closable
    <3>4. NoAnswer.verdict = "unknown" /\ Refused.verdict = "unknown" /\ Silence.verdict = "unknown"
      BY DEF NoAnswer, Refused, Silence
    <3>5. reply = said(o)
      BY <3>2, <3>3, <3>4 DEF prove_fill_on_chain
    <3> DEFINE seen_by == IF call.from_node THEN node ELSE chain
    <3>6. is_dead(seen_by.spend[o]) /\ reply.height = seen_by.spend[o].at
      <4>1. seen_by.spend[o] \in Spendings
        BY <2>1 DEF FillTypeOK, WorldOK, Chains
      <4> HIDE DEF seen_by
      <4>2. reply = says(seen_by.spend[o], call.from_node)
        BY <3>5 DEF said, seen_by
      <4> QED BY <3>3, <3>4, <4>1, <4>2 DEF says, shows, spent_together, is_dead, Spendings
    <3>7. chain.spend[o] = seen_by.spend[o]
      <4>1. CASE call.from_node
        <5>1. at_depth(node.spend[o].at, node.tip)
          BY <1>t, <2>1, <3>3, <3>6, <4>1, Deeper DEF ChainOK
        <5> QED BY <2>1, <4>1, <5>1 DEF ChainOK, DeepAgrees
      <4> QED BY <4>1
    <3>8. at_depth(chain.spend[o].at, chain.tip)
      BY <1>t, <2>1, <3>3, <3>6, <3>7, Deeper DEF ChainOK
    <3>9. DeepDead(o)
      BY <3>6, <3>7, <3>8 DEF DeepDead
    <3> QED BY <3>2, <3>9 DEF DeepDead
  <2> QED BY <2>2, <2>3, AskingKept
<1>2. ASSUME NEW o \in call.dead \cup pending_dead_writes \cup proven_dead
      PROVE  DeepDead(o)'
  BY <1>t, <1>2, DeepDeadStays DEF DeadOK
<1>3. ASSUME NEW o \in Offers, CloseDead(o)
      PROVE  DeepDead(o)'
  <2>1. o \in call.asking /\ dead_offer_closable(call.asked.answer)
    BY <1>3 DEF CloseDead, answered, answer
  <2>2. DeepDead(o)
    BY <2>1 DEF DeadOK
  <2> QED BY <2>2, DeepDeadStays
<1>4. call'.dead \cup pending_dead_writes' \cup proven_dead'
        \subseteq call.dead \cup pending_dead_writes \cup proven_dead \cup {o \in Offers : CloseDead(o)}
  <2>1. CASE UNCHANGED <<pending_dead_writes, proven_dead>> /\ call'.dead \subseteq call.dead
    BY <2>1
  <2>2. CASE EndDetect
    BY <2>2, EndDetectFields DEF EndedDetect, DeadRows
  <2>3. CASE Crash
    BY <2>3 DEF Crash, Idle
  <2>4. CASE \E o \in Offers : Answered(o)
    <3>1. PICK o \in Offers : Answered(o)
      BY <2>4
    <3>2. UNCHANGED pending_dead_writes
      BY <1>t, <3>1, AnswerFields DEF ThroughStep
    <3>3. CASE CloseDead(o)
      <4>1. call'.dead = call.dead \cup {o}
        BY <1>t, <3>1, <3>3, AnswerFields DEF FoundDead
      <4>2. proven_dead' = proven_dead \cup {o}
        BY <3>3 DEF CloseDead
      <4> QED BY <3>2, <3>3, <4>1, <4>2
    <3>4. CASE ~CloseDead(o)
      <4>1. call'.dead = call.dead
        BY <1>t, <3>1, <3>4, AnswerFields
      <4>2. UNCHANGED proven_dead
        BY <3>1, <3>4 DEF Answered, PassBy, Book, StillTakeable, Defer, Wait, Stand
      <4> QED BY <3>2, <4>1, <4>2
    <3> QED BY <3>3, <3>4
  <2>5. CASE Begin \/ EndStep
    BY <2>1, <2>5, BeginFields DEF EndStep, Idle
  <2>6. CASE Write \/ WriteFails
    BY <2>1, <2>6, WriteFields DEF RecordedStep
  <2>7. CASE WorldStep \/ Boot
    BY <2>1, <2>7 DEF WorldStep, Boot
  <2>8. CASE \E o \in Offers : (Poll(o) \/ SkipPoll(o)) \/ Ask(o) \/ Matured(o) \/ Reconcile(o)
                               \/ \E st \in Statuses : SendCancel(o, st)
    <3>1. PICK o \in Offers : (Poll(o) \/ SkipPoll(o)) \/ Ask(o) \/ Matured(o) \/ Reconcile(o)
                               \/ \E st \in Statuses : SendCancel(o, st)
      BY <2>8
    <3>2. Poll(o) \/ SkipPoll(o) => PolledStep(o)
      BY <1>t, PollFields
    <3>3. Ask(o) => \E reply : AskedStep(o, reply)
      BY <1>t, AskFields
    <3>4. Matured(o) => MaturedStep(o)
      BY MaturedFields
    <3> QED BY <2>1, <3>1, <3>2, <3>3, <3>4
            DEF PolledStep, AskedStep, MaturedStep, Reconcile, SendCancel
  <2> QED BY <2>2, <2>3, <2>4, <2>5, <2>6, <2>7, <2>8, Steps
<1>5. ASSUME NEW o \in Offers, status'[o] = "failed"
      PROVE  chain'.spend[o].by = "apart"
  <2>1. CASE status[o] = "failed"
    <3>1. chain.spend[o].by = "apart"
      BY <2>1 DEF DeadOK
    <3> QED BY <1>5, <2>1, <3>1, ChainMoves DEF Unspent
  <2>2. CASE status[o] # "failed"
    <3>1. ~Block /\ ~NodeSyncs /\ ~Reorg
      BY <1>5, <2>2 DEF Block, NodeSyncs, Reorg, FillTypeOK, WorldOK
    <3>2. CASE \E p \in Offers : WalletSees(p)
      BY <1>5, <2>2, <3>2 DEF WalletSees, FillTypeOK, WorldOK
    <3>3. CASE \E p \in Offers, st \in Statuses : CancelledElsewhere(p, st) \/ SendCancel(p, st)
      BY <1>5, <2>2, <3>3 DEF CancelledElsewhere, SendCancel, written_by_a_cancel, FillTypeOK, WorldOK
    <3> QED BY <1>5, <2>2, <3>1, <3>2, <3>3, WorldSteps
  <2> QED BY <2>1, <2>2
<1> QED BY <1>1, <1>2, <1>3, <1>4, <1>5 DEF DeadOK

-----------------------------------------------------------------------------
(* Takes: what is booked was taken, at depth, while no take is undone.     *)

\* Nothing is booked in the initial state.
LEMMA TakesInit == Init => TakesStand
BY DEF Init, TakesStand, AllTaken, BookedOnlyTakes, Idle, Nobody, Unspent

\* Every fill of the list is a take of c, at its height.
AllTakenIn(c, fills) ==
  \A i \in 1 .. Len(fills) : /\ c.spend[fills[i].offer].by = "take"
                             /\ c.spend[fills[i].offer].at = fills[i].height

\* A take that somebody was shown, or that is deep, is not undone.
LEMMA TakeStays ==
  ASSUME FillTypeOK, FillTypeOK', [Next]_vars, ~UndoneTakes, NEW o \in Offers,
         chain.spend[o].by = "take",
         \/ taken(o) \/ at_depth(chain.spend[o].at, chain.tip)
  PROVE  chain'.spend[o] = chain.spend[o]
<1>1. taken(o) => shown(o)
  BY DEF shown
<1> QED BY <1>1, ChainMoves DEF Unspent

\* From the answer to the row, a take stays the take it was.
LEMMA TakesStep ==
  ASSUME FillTypeOK, FillTypeOK', CallShape, ChainOK, TakesStand, [Next]_vars, ~UndoneTakes
  PROVE  TakesStand'
<1> USE DEF world, state, manager, engine, db
<1>t. /\ call \in Calls /\ call.block \in Nat /\ chain.tip \in Nat
      /\ call.fills \in Seq(Fills) /\ pending_unconfirmed_fills \in Seq(Fills)
      /\ call.block <= chain.tip
      /\ \A o \in Offers : chain.spend[o] \in Spendings /\ chain.spend[o].at \in Nat
  BY DEF FillTypeOK, EngineOK, WorldOK, Calls, Chains, Spendings, ChainOK
<1>a. \A fills \in Seq(Fills) : Len(fills) \in Nat /\ \A i \in 1 .. Len(fills) :
        fills[i] \in Fills /\ fills[i].offer \in Offers /\ fills[i].height \in Nat
  <2>1. \A f \in Fills : f.offer \in Offers /\ f.height \in Nat
    BY DEF Fills
  <2>2. \A fills \in Seq(Fills) : Len(fills) \in Nat /\ \A i \in 1 .. Len(fills) : fills[i] \in Fills
    OBVIOUS
  <2> QED BY <2>1, <2>2
<1>b. AllTakenIn(chain, call.fills) /\ AllTakenIn(chain, pending_unconfirmed_fills)
  BY DEF TakesStand, AllTaken, TakeAt, AllTakenIn
<1>c. AllTakenIn(chain', call.fills) /\ AllTakenIn(chain', pending_unconfirmed_fills)
  <2>1. ASSUME NEW i \in 1 .. Len(call.fills)
        PROVE  chain'.spend[call.fills[i].offer] = chain.spend[call.fills[i].offer]
    <3>1. taken(call.fills[i].offer)
      BY DEF taken
    <3> QED BY <1>t, <1>a, <1>b, <3>1, TakeStays DEF AllTakenIn
  <2>2. ASSUME NEW i \in 1 .. Len(pending_unconfirmed_fills)
        PROVE  chain'.spend[pending_unconfirmed_fills[i].offer]
                 = chain.spend[pending_unconfirmed_fills[i].offer]
    <3>1. taken(pending_unconfirmed_fills[i].offer)
      BY DEF taken
    <3> QED BY <1>t, <1>a, <1>b, <3>1, TakeStays DEF AllTakenIn
  <2> QED BY <1>b, <2>1, <2>2 DEF AllTakenIn
<1>1. ASSUME NEW o \in Offers, node'.spend[o].by = "take"
      PROVE  chain'.spend[o] = node'.spend[o]
  <2>1. CASE NodeSyncs
    BY <2>1 DEF NodeSyncs
  <2>2. CASE UNCHANGED node
    <3>1. chain.spend[o] = node.spend[o] /\ taken(o)
      BY <1>1, <2>2 DEF TakesStand, taken
    <3> QED BY <1>1, <2>2, <3>1, TakeStays
  <2>3. NodeSyncs \/ UNCHANGED node
    BY WorldSteps DEF Block, Reorg, WalletSees, CancelledElsewhere, SendCancel
  <2> QED BY <2>1, <2>2, <2>3
<1>2. ASSUME NEW o \in call'.asking, call'.asked.answer.verdict = "settled"
      PROVE  TakeAt(o, call.asked.answer.height)'
  <2>1. o \in Offers
    BY AskingKept
  <2>2. CASE o \in call.asking /\ call'.asked = call.asked
    <3>1. TakeAt(o, call.asked.answer.height) /\ taken(o)
      BY <1>2, <2>2 DEF TakesStand, taken
    <3> QED BY <2>1, <2>2, <3>1, TakeStays DEF TakeAt
  <2>3. CASE \E reply : AskedStep(o, reply)
    <3>1. PICK reply : AskedStep(o, reply)
      BY <2>3
    <3>2. /\ call'.asked.answer = reply /\ UNCHANGED chain /\ reply \in prove_fill_on_chain(o)
      BY <3>1 DEF AskedStep
    <3>3. reply.verdict = "settled"
      BY <1>2, <3>2
    <3>4. NoAnswer.verdict = "unknown" /\ Refused.verdict = "unknown" /\ Silence.verdict = "unknown"
      BY DEF NoAnswer, Refused, Silence
    <3>5. reply = said(o)
      BY <3>2, <3>3, <3>4 DEF prove_fill_on_chain
    <3> DEFINE seen_by == IF call.from_node THEN node ELSE chain
    <3>6. seen_by.spend[o].by = "take" /\ reply.height = seen_by.spend[o].at
      <4>1. seen_by.spend[o] \in Spendings
        BY <2>1 DEF FillTypeOK, WorldOK, Chains
      <4> HIDE DEF seen_by
      <4>2. reply = says(seen_by.spend[o], call.from_node)
        BY <3>5 DEF said, seen_by
      <4> QED BY <3>3, <3>4, <4>1, <4>2 DEF says, shows, spent_together, Spendings
    <3>7. chain.spend[o] = seen_by.spend[o]
      BY <2>1, <3>6 DEF TakesStand
    <3> QED BY <3>2, <3>6, <3>7 DEF TakeAt
  <2> QED BY <2>2, <2>3, AskingKept
<1>3. AllTaken(pending_unconfirmed_fills)' /\ AllTaken(call.fills)'
      /\ (call'.pc = "write" =>
            \A i \in 1 .. Len(call'.fills) : at_depth(call'.fills[i].height, call'.block))
  <2>a. /\ AllTaken(pending_unconfirmed_fills)' <=> AllTakenIn(chain', pending_unconfirmed_fills')
        /\ AllTaken(call.fills)' <=> AllTakenIn(chain', call'.fills)
    BY DEF AllTaken, TakeAt, AllTakenIn
  <2>b. call.pc = "write" => \A i \in 1 .. Len(call.fills) : at_depth(call.fills[i].height, call.block)
    BY DEF TakesStand
  <2>1. CASE /\ call'.fills = call.fills /\ UNCHANGED pending_unconfirmed_fills
             /\ call'.pc = "write" => call.pc = "write" /\ call'.block = call.block
    BY <1>c, <2>1, <2>a, <2>b
  <2>2. CASE EndDetect
    <3>1. EndedDetect /\ SplitFills
      BY <2>2, EndDetectFields
    <3>2. \A i \in 1 .. Len(seen) : /\ chain'.spend[seen[i].offer].by = "take"
                                    /\ chain'.spend[seen[i].offer].at = seen[i].height
      <4>1. \A i \in 1 .. Len(seen) :
               \/ \E j \in 1 .. Len(pending_unconfirmed_fills) : seen[i] = pending_unconfirmed_fills[j]
               \/ \E j \in 1 .. Len(call.fills) : seen[i] = call.fills[j]
        BY <1>t, SeenIs
      <4> QED BY <1>c, <4>1 DEF AllTakenIn
    <3> QED BY <2>a, <3>1, <3>2 DEF EndedDetect, SplitFills, AllTakenIn
  <2>3. CASE Write \/ WriteFails
    <3>1. /\ call'.pc = "write" /\ call.pc = "write" /\ call'.block = call.block
          /\ UNCHANGED pending_unconfirmed_fills /\ call.fills # <<>>
          /\ call'.fills = call.fills \/ call'.fills = Tail(call.fills)
      BY <2>3, WriteFields DEF RecordedStep
    <3>2. CASE call'.fills = Tail(call.fills)
      <4>1. \A i \in 1 .. Len(call'.fills) : \E j \in 1 .. Len(call.fills) : call'.fills[i] = call.fills[j]
        BY <1>t, <3>1, <3>2
      <4> QED BY <1>c, <2>a, <2>b, <3>1, <4>1 DEF AllTakenIn
    <3> QED BY <2>1, <3>1, <3>2
  <2>4. CASE Begin \/ EndStep
    <3>1. /\ call.fills = <<>> /\ call'.fills = <<>> /\ UNCHANGED pending_unconfirmed_fills
          /\ call'.pc # "write"
      BY <2>4, BeginFields DEF EndStep, Idle, CallShape
    <3> QED BY <2>1, <3>1
  <2>5. CASE Crash
    <3>1. call'.fills = <<>> /\ pending_unconfirmed_fills' = <<>> /\ call'.pc # "write"
      BY <2>5 DEF Crash, Idle
    <3>2. AllTakenIn(chain', <<>>)
      BY DEF AllTakenIn
    <3> QED BY <2>a, <3>1, <3>2
  <2>6. ASSUME NEW o \in Offers, Answered(o)
        PROVE  AllTaken(pending_unconfirmed_fills)' /\ AllTaken(call.fills)' /\ call'.pc # "write"
    <3>1. UNCHANGED pending_unconfirmed_fills /\ call'.pc = "prove"
      BY <1>t, <2>6, AnswerFields, AnswerInTurn DEF ThroughStep
    <3>2. CASE ~Book(o)
      <4>1. call'.fills = call.fills
        BY <1>t, <2>6, <3>2, AnswerFields
      <4> QED BY <1>c, <2>a, <3>1, <4>1
    <3>3. CASE Book(o)
      <4> DEFINE f == [offer |-> o, height |-> answer.height]
      <4>1. call'.fills = Append(call.fills, f) /\ f \in Fills
        BY <1>t, <3>3, BookFound
      <4>2. o \in call.asking /\ answer.verdict = "settled"
        BY <3>3 DEF Book, answered
      <4>3. TakeAt(o, answer.height) /\ taken(o)
        BY <4>2 DEF TakesStand, answer, taken
      <4>4. chain'.spend[o].by = "take" /\ chain'.spend[o].at = answer.height
        BY <4>3, TakeStays DEF TakeAt
      <4>5. chain'.spend[f.offer].by = "take" /\ chain'.spend[f.offer].at = f.height
        BY <4>4
      <4> HIDE DEF f
      <4>6. \A i \in 1 .. Len(call'.fills) :
              call'.fills[i] = f \/ \E j \in 1 .. Len(call.fills) : call'.fills[i] = call.fills[j]
        BY <1>t, <4>1
      <4>7. AllTakenIn(chain', call'.fills)
        BY <1>c, <4>5, <4>6 DEF AllTakenIn
      <4> QED BY <1>c, <2>a, <3>1, <4>7
    <3> QED BY <3>2, <3>3
  <2>7. CASE \E o \in Offers : (Poll(o) \/ SkipPoll(o)) \/ Ask(o) \/ Matured(o) \/ Reconcile(o)
                               \/ \E st \in Statuses : SendCancel(o, st)
    <3>1. PICK o \in Offers : (Poll(o) \/ SkipPoll(o)) \/ Ask(o) \/ Matured(o) \/ Reconcile(o)
                               \/ \E st \in Statuses : SendCancel(o, st)
      BY <2>7
    <3>2. Poll(o) \/ SkipPoll(o) => PolledStep(o)
      BY <1>t, PollFields
    <3>3. Ask(o) => \E reply : AskedStep(o, reply)
      BY <1>t, AskFields
    <3>4. Matured(o) => MaturedStep(o)
      BY MaturedFields
    <3> QED BY <2>1, <3>1, <3>2, <3>3, <3>4
            DEF PolledStep, AskedStep, MaturedStep, Reconcile, SendCancel, turn
  <2>8. CASE WorldStep \/ Boot
    BY <2>1, <2>8 DEF WorldStep, Boot
  <2> QED BY <2>2, <2>3, <2>4, <2>5, <2>6, <2>7, <2>8, Steps
<1>4. ASSUME NEW o \in Offers, row'[o] = "filled"
      PROVE  chain'.spend[o].by = "take" /\ at_depth(chain'.spend[o].at, chain'.tip)
  <2>1. row[o] = "filled" \/ (Write /\ o = fill.offer)
    BY <1>4, RowStep
  <2>2. chain.spend[o].by = "take" /\ at_depth(chain.spend[o].at, chain.tip)
    <3>1. CASE row[o] = "filled"
      BY <3>1 DEF TakesStand, BookedOnlyTakes
    <3>2. CASE Write /\ o = fill.offer
      <4>1. call.pc = "write" /\ call.fills # <<>>
        BY <3>2 DEF Write, recording
      <4>2. 1 \in 1 .. Len(call.fills) /\ fill = call.fills[1]
        BY <1>t, <4>1 DEF fill
      <4>3. TakeAt(o, fill.height) /\ at_depth(fill.height, call.block) /\ fill.height \in Nat
        BY <1>a, <1>t, <3>2, <4>1, <4>2 DEF TakesStand, AllTaken
      <4> QED BY <1>t, <4>3, Deeper DEF TakeAt
    <3> QED BY <2>1, <3>1, <3>2
  <2> QED BY <2>2, DeepStays
<1> QED BY <1>1, <1>2, <1>3, <1>4 DEF TakesStand, BookedOnlyTakes

-----------------------------------------------------------------------------
(* Cancels: what ages as cancelled cannot be taken any more.               *)

\* No cancel is believed in the initial state.
LEMMA CancelsInit == Init => CancelsOK
BY DEF Init, CancelsOK, Waiting, Idle, Nobody, NotRead

\* Where a status comes from.
LEMMA StatusComes ==
  ASSUME FillTypeOK, [Next]_vars, NEW o \in Offers
  PROVE  /\ status'[o] \in Cancelling =>
              \/ status[o] \in Cancelling
              \/ \E st \in Statuses : CancelledElsewhere(o, st) \/ SendCancel(o, st)
         /\ status'[o] = "failed" => status[o] \in {"failed", "accept"}
         /\ status'[o] = "accept" => status[o] = "accept" \/ Reorg
<1> USE DEF FillTypeOK, WorldOK, Cancelling
<1>1. CASE Block \/ NodeSyncs \/ UNCHANGED <<chain, node, status, confirmed_at_index, reorgs>>
  BY <1>1 DEF Block, NodeSyncs
<1>2. CASE Reorg
  BY <1>2 DEF Reorg
<1>3. CASE \E p \in Offers : WalletSees(p)
  BY <1>3 DEF WalletSees
<1>4. ASSUME NEW p \in Offers, NEW st \in Statuses, CancelledElsewhere(p, st) \/ SendCancel(p, st)
      PROVE  /\ status'[o] \in Cancelling => status[o] \in Cancelling \/ p = o
             /\ status'[o] = "failed" => status[o] \in {"failed", "accept"}
             /\ status'[o] = "accept" => status[o] = "accept"
  BY <1>4 DEF CancelledElsewhere, SendCancel, written_by_a_cancel
<1> QED BY <1>1, <1>2, <1>3, <1>4, WorldSteps

\* A cancel of a revived offer that the wallet would believe: it is not written
\* over a FAILED the call has read, nor on an offer that is not managed.
LEMMA CancelMeets ==
  ASSUME ~ShallowFailed, NEW o \in Offers, NEW st \in Statuses,
         CancelledElsewhere(o, st) \/ SendCancel(o, st)
  PROVE  /\ call.recs[o].status # "failed" /\ (up => o \in offers)
         /\ UNCHANGED <<call, offers, pending_unconfirmed_fills, pending_unconfirmed_terminals>>
BY DEF CancelledElsewhere, SendCancel, revived_is_cancellable, state, engine

\* Coins spent together stay so while the wallet's silence about them is used.
LEMMA TogetherStays ==
  ASSUME FillTypeOK, FillTypeOK', [Next]_vars, ~UndoneTakes, NEW o \in Offers,
         chain.spend[o].by = "together", silent(o)
  PROVE  chain'.spend[o] = chain.spend[o]
<1>1. shown(o)
  BY DEF shown
<1> QED BY <1>1, ChainMoves DEF Unspent

\* Nor do coins that nothing can revive, while they are relied on.
LEMMA BuriedStays ==
  ASSUME FillTypeOK, FillTypeOK', [Next]_vars, ~UndoneTakes, NEW o \in Offers,
         Buried(o), silent(o)
  PROVE  Buried(o)'
BY DeepDeadStays, TogetherStays DEF Buried

\* Only a silence about coins spent together lasts a whole window.
LEMMA SilenceStep ==
  ASSUME FillTypeOK, FillTypeOK', CallShape, ~UndoneTakes, CancelsOK, [Next]_vars,
         NEW o \in call'.asking, call'.asked.answer = Silence,
         call'.recs[o].status \in Cancelling, window_over(o)'
  PROVE  chain'.spend[o].by = "together"
<1> USE DEF world, state, manager, engine, db
<1>1. call'.block = call.block /\ call'.from_node = call.from_node /\ o \in Offers
  BY AskingKept
<1>2. CASE o \in call.asking /\ call'.recs = call.recs /\ call'.asked = call.asked
  <2>1. UNCHANGED cancel_status_inconclusive
    <3>1. ~Begin /\ ~Crash
      BY BeginFields DEF Crash, Idle
    <3>2. ASSUME NEW p \in Offers, Answered(p) PROVE FALSE
      BY <3>2, AnswerFields DEF ThroughStep, FillTypeOK
    <3>3. WorldStep \/ EndDetect \/ (Write \/ WriteFails) \/ EndStep \/ Boot
            => UNCHANGED cancel_status_inconclusive
      BY DEF WorldStep, EndDetect, Write, WriteFails, EndStep, Boot
    <3>4. ASSUME NEW p \in Offers, (Poll(p) \/ SkipPoll(p)) \/ Ask(p) \/ Matured(p) \/ Reconcile(p)
                                    \/ \E st \in Statuses : SendCancel(p, st)
          PROVE  UNCHANGED cancel_status_inconclusive
      BY <3>4 DEF Poll, SkipPoll, Ask, Reconcile, SendCancel, Matured, Recheck, CloseFails,
                  NoVerdict, NotAskedAgain
    <3> QED BY <3>1, <3>2, <3>3, <3>4, Steps
  <2>2. window_over(o)
    BY <1>1, <1>2, <2>1 DEF window_over, window, read
  <2>3. chain.spend[o].by = "together" /\ silent(o)
    BY <1>2, <2>2 DEF CancelsOK, silent
  <2> QED BY <1>1, <2>3, TogetherStays
<1>3. CASE \E reply : AskedStep(o, reply)
  <2>1. PICK reply : AskedStep(o, reply)
    BY <1>3
  <2>2. /\ reply = Silence /\ UNCHANGED <<chain, cancel_status_inconclusive>>
        /\ reply \in prove_fill_on_chain(o) /\ call'.recs = call.recs
    BY <2>1 DEF AskedStep
  <2>3. window_over(o)
    BY <1>1, <2>2 DEF window_over, window, read
  <2>4. ~may_be_vague(o)
    <3>1. call.block \in Nat /\ ConfirmationDepth \in Nat \ {0}
      BY FillAssumption DEF FillTypeOK, Calls
    <3>2. CASE cancel_status_inconclusive[o].status = read(o)
      <4> DEFINE w == cancel_status_inconclusive[o]
      <4>1. window(o) = w /\ w.block \in Nat /\ w.status = call.recs[o].status
        BY <1>1, <3>2 DEF window, read, FillTypeOK, ManagerOK
      <4>2. call.block - w.block >= ConfirmationDepth
        BY <2>3, <4>1 DEF window_over
      <4>3. may_be_vague(o) => call.block - w.block < ConfirmationDepth
        BY <4>1 DEF may_be_vague
      <4> HIDE DEF w
      <4> QED BY <3>1, <4>1, <4>2, <4>3
    <3>3. CASE cancel_status_inconclusive[o].status # read(o)
      <4>1. window(o).block = call.block
        BY <3>3 DEF window
      <4> QED BY <2>3, <3>1, <4>1 DEF window_over
    <3> QED BY <3>2, <3>3
  <2>5. reply = said(o)
    BY <2>2, <2>4 DEF prove_fill_on_chain, Silence, Refused, NoAnswer
  <2>6. ~call.from_node /\ chain.spend[o].by = "together"
    <3> DEFINE spend == (IF call.from_node THEN node ELSE chain).spend[o]
    <3>1. spend \in Spendings
      BY <1>1 DEF FillTypeOK, WorldOK, Chains
    <3>2. says(spend, call.from_node).verdict = "unknown"
      BY <2>2, <2>5 DEF said, Silence, NoAnswer
    <3>3. spend.by = "together" /\ ~call.from_node
      <4> HIDE DEF spend
      <4> QED BY <3>1, <3>2 DEF says, shows, spent_together, Spendings
    <3> QED BY <3>3
  <2> QED BY <2>2, <2>6
<1> QED BY <1>2, <1>3, AskingKept

\* A proof that let a cancel through belongs to the call that made it.
LEMMA ProvenStep ==
  ASSUME FillTypeOK, FillTypeOK', CallShape, DownIsEmpty, StatusFollows, CancelsOK, [Next]_vars,
         NEW o \in Offers, cancel_status_proven'[o] = "cancelled"
  PROVE  /\ status'[o] \in Past /\ o \notin offers' \cup call'.todo /\ call'.pc # "poll"
         /\ call'.pc = "prove" => o \in call'.terminals
<1> USE DEF world, state, manager, engine, db
<1>t. /\ call \in Calls /\ call.block \in Nat /\ ConfirmationDepth \in Nat \ {0}
      /\ cancel_status_proven \in [Offers -> Statuses \cup {"none"}]
      /\ pending_unconfirmed_terminals \in [Offers -> [block : Nat, failures : Nat]]
  BY FillAssumption DEF FillTypeOK, ManagerOK, EngineOK, Calls
<1>0. CASE cancel_status_proven[o] # "cancelled"
  <2>1. Stand(o) /\ read(o) = "cancelled"
    <3>1. CASE Begin \/ Crash
      BY <1>0, <3>1 DEF Begin, Crash, keep, Nobody
    <3>2. CASE \E p \in Offers : Stand(p)
      BY <1>t, <1>0, <3>2 DEF Stand
    <3>3. ASSUME NEW p \in Offers, Answered(p) /\ ~Stand(p)
          PROVE  UNCHANGED cancel_status_proven
      BY <3>3 DEF Answered, PassBy, Book, CloseDead, StillTakeable, Defer, Wait
    <3>4. WorldStep \/ EndDetect \/ (Write \/ WriteFails) \/ EndStep \/ Boot
            => UNCHANGED cancel_status_proven
      BY DEF WorldStep, EndDetect, Write, WriteFails, EndStep, Boot
    <3>5. ASSUME NEW p \in Offers, (Poll(p) \/ SkipPoll(p)) \/ Ask(p) \/ Matured(p) \/ Reconcile(p)
                                    \/ \E st \in Statuses : SendCancel(p, st)
          PROVE  UNCHANGED cancel_status_proven
      BY <3>5 DEF Poll, SkipPoll, Ask, Reconcile, SendCancel, Matured, Recheck, CloseFails,
                  NoVerdict, NotAskedAgain
    <3> QED BY <1>0, <3>1, <3>2, <3>3, <3>4, <3>5, Steps
  <2>2. o \in call.asking /\ call.recs[o].status = "cancelled" /\ call.pc = "prove"
    BY <2>1, AnswerInTurn DEF Answered, Stand, answered, not_held, read
  <2>3. UNCHANGED status /\ offers' = offers \ {o} /\ call'.todo = call.todo \ {o}
        /\ call'.pc = "prove"
    BY <1>t, <2>1, <2>2, AnswerFields DEF Answered, ThroughStep, Stand, remove_offer
  <2>4. o \in call'.terminals
    <3>1. call' = [through(o) EXCEPT !.terminals = @ \cup {o}] /\ through(o) \in Calls
      BY <1>t, <2>1, TypeThrough DEF Stand
    <3> QED BY <3>1 DEF Calls
  <2>5. status[o] \in Past
    BY <2>2 DEF StatusFollows, Past
  <2> QED BY <2>3, <2>4, <2>5
<1>1. CASE cancel_status_proven[o] = "cancelled"
  <2>1. /\ status[o] \in Past /\ o \notin offers \cup call.todo /\ call.pc # "poll"
        /\ call.pc = "prove" => o \in call.terminals
    BY <1>1 DEF CancelsOK
  <2>2. status'[o] \in Past
    BY <2>1, StatusGoesOn
  <2>3. o \notin offers' \cup call'.todo /\ call'.pc # "poll"
        /\ (call'.pc = "prove" => o \in call'.terminals)
    <3>1. CASE WorldStep \/ \E p \in Offers, st \in Statuses : SendCancel(p, st)
      BY <2>1, <3>1 DEF WorldStep, SendCancel
    <3>2. CASE Begin
      BY <2>1, <3>2 DEF Begin, keep
    <3>3. CASE EndDetect
      <4>1. EndedDetect /\ call.pc = "prove"
        BY <3>3, EndDetectFields
      <4>2. ~at_depth(pending_unconfirmed_terminals'[o].block, call.block)
        <5>1. CASE o \in Fresh
          BY <4>1, <5>1 DEF EndedDetect, NotBuffered, at_depth
        <5>2. CASE o \notin Fresh
          <6>1. pending_unconfirmed_terminals'[o]
                  = buffered(pending_unconfirmed_terminals, call.terminals)[o]
            BY <4>1, <5>2 DEF EndedDetect
          <6>2. pending_unconfirmed_terminals'[o].block \in Nat
                /\ pending_unconfirmed_terminals'[o].block >= call.block
            BY <1>t, <2>1, <4>1, <6>1 DEF buffered
          <6> QED BY <1>t, <6>2 DEF at_depth
        <5> QED BY <5>1, <5>2
      <4> QED BY <2>1, <4>1, <4>2 DEF EndedDetect
    <3>4. CASE Write \/ WriteFails
      BY <2>1, <3>4, WriteFields DEF RecordedStep
    <3>5. CASE EndStep
      BY <2>1, <3>5 DEF EndStep, Idle
    <3>6. CASE Crash
      BY <3>6 DEF Crash, Idle
    <3>7. CASE Boot
      BY <1>1, <3>7 DEF Boot, DownIsEmpty, Nobody
    <3>8. CASE \E p \in Offers : (Poll(p) \/ SkipPoll(p))
      BY <1>t, <2>1, <3>8, PollFields DEF PolledStep
    <3>9. CASE \E p \in Offers : Ask(p)
      <4>1. PICK p \in Offers : \E reply : AskedStep(p, reply)
        BY <1>t, <3>9, AskFields
      <4> QED BY <2>1, <4>1 DEF AskedStep, turn
    <3>10. CASE \E p \in Offers : Answered(p)
      <4>1. PICK p \in Offers : /\ ThroughStep(p) /\ call.pc = "prove"
                                /\ call.terminals \subseteq call'.terminals
        BY <1>t, <3>10, AnswerFields, AnswerInTurn DEF FoundTerminal
      <4> QED BY <2>1, <4>1 DEF ThroughStep
    <3>11. CASE \E p \in Offers : Matured(p)
      <4>1. PICK p \in Offers : Matured(p)
        BY <3>11
      <4>2. MaturedStep(p) /\ p # o
        BY <2>1, <4>1, MaturedFields DEF MaturedStep
      <4>3. offers' \subseteq offers \cup {p}
        BY <4>1 DEF Matured, Recheck, readopt, CloseFails, NoVerdict, NotAskedAgain
      <4> QED BY <2>1, <4>2, <4>3 DEF MaturedStep
    <3>12. CASE \E p \in Offers : Reconcile(p)
      <4>1. PICK p \in Offers : Reconcile(p)
        BY <3>12
      <4>2. offers' \subseteq offers \cup {p} /\ (p \in offers \/ status[p] = "accept")
            /\ UNCHANGED call
        BY <4>1 DEF Reconcile, remove_offer
      <4>3. p # o
        BY <2>1, <4>2 DEF Past
      <4> QED BY <2>1, <4>2, <4>3
    <3> QED BY <3>1, <3>2, <3>3, <3>4, <3>5, <3>6, <3>7, <3>8, <3>9, <3>10, <3>11, <3>12, Steps
  <2> QED BY <2>2, <2>3
<1> QED BY <1>0, <1>1

\* Who begins to age, or ages on without being tracked or found, was so already,
\* or is ended by this step's answer.
LEMMA WaitingStep ==
  ASSUME FillTypeOK, FillTypeOK', CallShape, DownIsEmpty, Books, [Next]_vars, NEW o \in Offers,
         ~Answered(o), o \notin offers' \cup Fresh', Waiting(o)'
  PROVE  \/ Waiting(o) /\ o \notin offers \cup Fresh
         \/ Reconcile(o) /\ status[o] = "failed" /\ UNCHANGED status /\ o \in offers
<1> USE DEF world, state, manager, engine, db
<1>t. /\ call \in Calls
      /\ pending_unconfirmed_terminals \in [Offers -> [block : Nat, failures : Nat]]
  BY DEF FillTypeOK, EngineOK
<1>w. Waiting(o)' <=> o \in call'.terminals \/ pending_unconfirmed_terminals'[o] # NotBuffered
  BY DEF Waiting, NotBuffered
<1>f. /\ UNCHANGED pending_unconfirmed_fills /\ call'.fills = call.fills => Fresh' = Fresh
      /\ offers_of(call.fills)' = offers_of(call'.fills)
  BY DEF Fresh, offers_of
<1>1. CASE /\ offers \subseteq offers' /\ call'.terminals \subseteq call.terminals
           /\ UNCHANGED <<pending_unconfirmed_fills, pending_unconfirmed_terminals>>
           /\ call'.fills = call.fills
  BY <1>1, <1>w, <1>f DEF Waiting
<1>2. CASE WorldStep
  BY <1>1, <1>2 DEF WorldStep
<1>3. CASE Begin \/ EndStep
  <2>1. /\ UNCHANGED <<offers, pending_unconfirmed_fills, pending_unconfirmed_terminals>>
        /\ call.fills = <<>> /\ call'.fills = <<>> /\ call'.terminals = {}
    BY <1>3, BeginFields DEF EndStep, Idle, CallShape
  <2> QED BY <1>1, <2>1
<1>4. CASE EndDetect
  <2>1. EndedDetect /\ Fresh' = Fresh
    BY <1>4, EndDetectFields DEF SplitFills
  <2>2. /\ pending_unconfirmed_terminals'[o] # NotBuffered /\ o \notin Fresh /\ UNCHANGED offers
    BY <1>w, <2>1 DEF EndedDetect
  <2>3. pending_unconfirmed_terminals'[o]
          = buffered(pending_unconfirmed_terminals, call.terminals)[o]
    BY <2>1, <2>2 DEF EndedDetect
  <2>4. Waiting(o)
    BY <2>2, <2>3 DEF buffered, Waiting
  <2> QED BY <2>2, <2>4
<1>5. CASE Write \/ WriteFails
  <2>1. RecordedStep
    BY <1>5, WriteFields
  <2>2. Waiting(o) /\ call.pc = "write" /\ o \notin offers
    BY <1>w, <2>1 DEF RecordedStep, Waiting
  <2>3. o \notin Fresh
    BY <2>2 DEF Books, EndedNotBuffered, Waiting
  <2> QED BY <2>2, <2>3
<1>6. CASE Crash
  BY <1>6, <1>w DEF Crash, Idle, Nobody
<1>7. CASE Boot
  BY <1>7, <1>w DEF Boot, DownIsEmpty, Idle, Nobody
<1>8. ASSUME NEW p \in Offers, (Poll(p) \/ SkipPoll(p)) \/ Ask(p) \/ \E st \in Statuses : SendCancel(p, st)
      PROVE  Waiting(o) /\ o \notin offers \cup Fresh
  <2>1. Poll(p) \/ SkipPoll(p) => PolledStep(p)
    BY <1>t, PollFields
  <2>2. Ask(p) => \E reply : AskedStep(p, reply)
    BY <1>t, AskFields
  <2> QED BY <1>1, <1>8, <2>1, <2>2, <1>w, <1>f DEF PolledStep, AskedStep, SendCancel, Waiting
<1>9. ASSUME NEW p \in Offers, Answered(p)
      PROVE  Waiting(o) /\ o \notin offers \cup Fresh
  <2>1. p # o
    BY <1>9
  <2>2. ThroughStep(p) /\ call'.terminals \subseteq call.terminals \cup {p}
    BY <1>t, <1>9, AnswerFields DEF FoundTerminal
  <2>3. o \notin Fresh
    <3>1. offers_of(call.fills) \subseteq offers_of(call'.fills)
      BY <1>t, <1>9, AnswerFields, BookFound
    <3> QED BY <1>f, <2>2, <3>1 DEF ThroughStep, Fresh, offers_of
  <2> QED BY <1>w, <2>1, <2>2, <2>3 DEF ThroughStep, Waiting
<1>10. ASSUME NEW p \in Offers, Matured(p)
       PROVE  Waiting(o) /\ o \notin offers \cup Fresh
  <2>1. MaturedStep(p)
    BY <1>10, MaturedFields
  <2>2. offers \subseteq offers'
    BY <1>10 DEF Matured, Recheck, readopt, CloseFails, NoVerdict, NotAskedAgain
  <2>3. CASE p = o
    <3>1. at_depth(pending_unconfirmed_terminals[o].block, call.block)
      BY <2>1, <2>3 DEF MaturedStep, CallShape
    <3>2. Waiting(o)
      BY <3>1 DEF Waiting, NotBuffered, at_depth
    <3> QED BY <1>f, <2>1, <2>2, <3>2 DEF MaturedStep
  <2>4. CASE p # o
    BY <1>w, <1>f, <2>1, <2>2, <2>4 DEF MaturedStep, Waiting
  <2> QED BY <2>3, <2>4
<1>11. ASSUME NEW p \in Offers, Reconcile(p)
       PROVE  \/ Waiting(o) /\ o \notin offers \cup Fresh
              \/ Reconcile(o) /\ status[o] = "failed" /\ UNCHANGED status /\ o \in offers
  <2>1. UNCHANGED <<call, pending_unconfirmed_fills, status>>
    BY <1>11 DEF Reconcile
  <2>2. Fresh' = Fresh
    BY <1>f, <2>1
  <2>3. CASE offers \subseteq offers' /\ UNCHANGED pending_unconfirmed_terminals
    BY <1>w, <2>1, <2>2, <2>3 DEF Waiting
  <2>4. CASE ~(offers \subseteq offers' /\ UNCHANGED pending_unconfirmed_terminals)
    <3>1. /\ p \in offers /\ status[p] = "failed" /\ offers' = offers \ {p}
          /\ pending_unconfirmed_terminals' = buffered(pending_unconfirmed_terminals, {p})
      BY <1>11, <2>4 DEF Reconcile, remove_offer
    <3>2. p # o => Waiting(o) /\ o \notin offers \cup Fresh
      BY <1>w, <2>1, <2>2, <3>1 DEF Waiting, buffered
    <3> QED BY <1>11, <2>1, <3>1, <3>2
  <2> QED BY <2>3, <2>4
<1> QED BY <1>2, <1>3, <1>4, <1>5, <1>6, <1>7, <1>8, <1>9, <1>10, <1>11, Steps

\* What the call does with an offer that was found: it is booked, or on its way
\* out because it is dead at depth, or silent for a window, or FAILED.
LEMMA EndsBuried ==
  ASSUME FillTypeOK, FillTypeOK', CallShape, DeadOK, CancelsOK, NEW o \in Offers, Answered(o),
         ~Book(o), offers' # offers \/ call'.terminals # call.terminals,
         status[o] \in Cancelling
  PROVE  Buried(o)
<1> USE DEF world, state, manager, engine, db
<1>t. call \in Calls /\ call.pc = "prove" /\ o \in call.todo
  BY AnswerInTurn DEF FillTypeOK
<1>1. ~StillTakeable(o) /\ ~Defer(o) /\ ~Wait(o)
  <2>1. call' = through(o) => call'.terminals = call.terminals
    BY <1>t, ThroughFields
  <2> QED BY <2>1 DEF StillTakeable, Defer, Wait
<1>2. CASE PassBy(o)
  <2>1. read(o) \in {"cancelled", "failed"} /\ ~reprove(o)
    <3>1. call' = through(o) => call'.terminals = call.terminals
      BY <1>t, ThroughFields
    <3> QED BY <1>2, <3>1 DEF PassBy
  <2>2. read(o) # "failed"
    BY DEF CancelsOK, read
  <2>3. cancel_status_proven[o] = "cancelled"
    BY <2>1, <2>2 DEF reprove, written_by_a_cancel
  <2> QED BY <1>t, <2>3 DEF CancelsOK
<1>3. CASE CloseDead(o)
  BY <1>3 DEF CloseDead, answered, answer, DeadOK, Buried
<1>4. CASE Stand(o)
  <2>1. o \in call.asking /\ call.recs[o].status \in Cancelling
    BY <1>4 DEF Stand, answered, under_cancel, written_by_a_cancel, read, Cancelling
  <2>2. dead_offer_closable(call.asked.answer) \/ (call.asked.answer = Silence /\ window_over(o))
    BY <1>4 DEF Stand, answer
  <2> QED BY <2>1, <2>2 DEF DeadOK, CancelsOK, Buried
<1> QED BY <1>1, <1>2, <1>3, <1>4 DEF Answered

\* What ages as cancelled, untracked, cannot be taken any more.
LEMMA BuriedStep ==
  ASSUME FillTypeOK, FillTypeOK', CallShape, DownIsEmpty, Books, DeadOK, CancelsOK, [Next]_vars,
         ~UndoneTakes, ~ShallowFailed, NEW o \in Offers,
         o \notin offers' \cup Fresh', Waiting(o)', status'[o] \in Cancelling
  PROVE  Buried(o)'
<1> USE DEF world, state, manager, engine, db
<1>1. CASE Waiting(o) /\ o \notin offers \cup Fresh
  <2>1. up /\ silent(o)
    BY <1>1 DEF Waiting, DownIsEmpty, Idle, Nobody, silent
  <2>2. status[o] \in Cancelling
    BY <1>1, <2>1, StatusComes, CancelMeets
  <2>3. Buried(o)
    BY <1>1, <2>2 DEF CancelsOK
  <2> QED BY <2>1, <2>3, BuriedStays
<1>2. CASE Answered(o) /\ ~(Waiting(o) /\ o \notin offers \cup Fresh)
  <2>t. call \in Calls
    BY DEF FillTypeOK
  <2>1. ThroughStep(o) /\ UNCHANGED <<chain, status>>
    BY <2>t, <1>2, AnswerFields DEF ThroughStep
  <2>2. ~Book(o)
    <3>1. Book(o) => o \in Fresh'
      <4>1. Book(o) => o \in offers_of(call'.fills)
        BY <2>t, BookFound
      <4> QED BY <4>1 DEF Fresh, offers_of
    <3> QED BY <3>1
  <2>3. offers' # offers \/ call'.terminals # call.terminals
    <3>1. call'.fills = call.fills /\ UNCHANGED <<pending_unconfirmed_fills, pending_unconfirmed_terminals>>
      BY <2>t, <1>2, <2>1, <2>2, AnswerFields DEF ThroughStep
    <3>2. Fresh' = Fresh
      BY <3>1 DEF Fresh, offers_of
    <3>3. Waiting(o)' => Waiting(o) \/ call'.terminals # call.terminals
      BY <3>1 DEF Waiting, NotBuffered
    <3> QED BY <1>2, <3>2, <3>3
  <2>4. Buried(o)
    BY <1>2, <2>1, <2>2, <2>3, EndsBuried
  <2> QED BY <2>1, <2>4 DEF Buried, DeepDead
<1>3. ~(Reconcile(o) /\ status[o] = "failed" /\ UNCHANGED status)
  BY DEF Cancelling
<1> QED BY <1>1, <1>2, <1>3, WaitingStep

\* What the call does under a cancel's status, a window at a time.
LEMMA CancelsStep ==
  ASSUME FillTypeOK, FillTypeOK', CallShape, DownIsEmpty, Books, DeadOK, CancelsOK, [Next]_vars,
         ~UndoneTakes, ~ShallowFailed
  PROVE  CancelsOK'
<1>1. ASSUME NEW o \in Offers, call'.recs[o].status = "failed"
      PROVE  status'[o] \notin Cancelling
  <2>1. CASE call'.recs[o] \in {call.recs[o], NotRead}
    <3>1. call.recs[o].status = "failed"
      BY <1>1, <2>1 DEF NotRead
    <3>2. status[o] \notin Cancelling
      BY <3>1 DEF CancelsOK
    <3> QED BY <3>1, <3>2, StatusComes, CancelMeets
  <2>2. CASE /\ call'.recs[o] = [status |-> status[o], claimed |-> confirmed_at_index[o]]
             /\ UNCHANGED <<chain, node, status, confirmed_at_index, reorgs>>
    <3>1. status'[o] = "failed"
      BY <1>1, <2>2
    <3> QED BY <3>1 DEF Cancelling
  <2> QED BY <2>1, <2>2, RecsStep
<1>2. ASSUME NEW o \in call'.asking, call'.asked.answer = Silence,
             call'.recs[o].status \in Cancelling, window_over(o)'
      PROVE  chain'.spend[o].by = "together"
  BY <1>2, SilenceStep
<1>3. ASSUME NEW o \in Offers, cancel_status_proven'[o] = "cancelled"
      PROVE  /\ status'[o] \in Past /\ o \notin offers' \cup call'.todo /\ call'.pc # "poll"
             /\ call'.pc = "prove" => o \in call'.terminals
  BY <1>3, ProvenStep DEF Books
<1>4. ASSUME NEW o \in Offers, o \notin offers' \cup Fresh', Waiting(o)', status'[o] \in Cancelling
      PROVE  Buried(o)'
  BY <1>4, BuriedStep
<1>5. Silence' = Silence
  BY DEF Silence, NoAnswer
<1> QED BY <1>1, <1>2, <1>3, <1>4, <1>5 DEF CancelsOK

-----------------------------------------------------------------------------
(* Closes: a row is closed for an offer whose coins were spent otherwise.  *)

\* What a row is closed on: a proof, a cancel that cannot be undone any more, or
\* a FAILED trade, when it is over for good or at a process's start.
LEMMA ClosesOn ==
  ASSUME FillTypeOK, FillTypeOK', CallShape, DownIsEmpty, Books, DeadOK, CancelsOK, [Next]_vars,
         ~UndoneTakes, ~ShallowFailed, NEW o \in Offers,
         row[o] # "cancelled", row'[o] = "cancelled"
  PROVE  /\ UNCHANGED <<chain, reorgs>>
         /\ \/ Buried(o)
            \/ /\ status[o] = "failed"
               /\ \/ Recheck(o) /\ Waiting(o)
                  \/ Boot /\ at_depth(chain.spend[o].at, chain.tip)
<1> USE DEF world, state, manager, engine, db
<1>t. row \in [Offers -> Rows] /\ call \in Calls
  BY DEF FillTypeOK, EngineOK
<1>1. CASE EndDetect
  <2>1. DeadRows /\ UNCHANGED <<chain, reorgs>>
    BY <1>1, EndDetectFields DEF EndedDetect
  <2>2. o \in pending_dead_writes \cup call.dead
    BY <2>1 DEF DeadRows
  <2> QED BY <2>1, <2>2 DEF DeadOK, Buried
<1>2. CASE \E p \in Offers : Matured(p)
  <2>1. Recheck(o) /\ o \notin offers /\ over(o) /\ UNCHANGED <<chain, reorgs>>
    BY <1>2 DEF Matured, Recheck, CloseFails, NoVerdict, NotAskedAgain, closed
  <2>2. call.pc = "write" /\ o \in call.todo
    BY <2>1 DEF Recheck, maturing
  <2>3. pending_unconfirmed_terminals[o] # NotBuffered
    BY <2>2 DEF CallShape, NotBuffered, at_depth
  <2>4. Waiting(o) /\ o \notin Fresh
    BY <2>2, <2>3 DEF Waiting, Books, EndedNotBuffered
  <2>5. status[o] = "cancelled" => Buried(o)
    BY <2>1, <2>4 DEF CancelsOK, Cancelling
  <2>6. o \in proven_dead => Buried(o)
    BY DEF DeadOK, Buried
  <2> QED BY <2>1, <2>4, <2>5, <2>6 DEF over
<1>3. CASE Boot
  <2>1. status[o] = "failed" /\ at_depth(chain.spend[o].at, chain.tip)
    BY <1>3 DEF Boot
  <2> QED BY <1>3, <2>1 DEF Boot
<1>4. CASE Write \/ WriteFails
  BY <1>4, <1>t DEF Write, WriteFails
<1>5. CASE WorldStep \/ Begin \/ EndStep \/ Crash
  BY <1>5 DEF WorldStep, Begin, EndStep, Crash
<1>6. ASSUME NEW p \in Offers, Answered(p)
      PROVE  FALSE
  BY <1>6, <1>t, AnswerFields DEF ThroughStep
<1>7. ASSUME NEW p \in Offers, (Poll(p) \/ SkipPoll(p)) \/ Ask(p) \/ Reconcile(p)
                               \/ \E st \in Statuses : SendCancel(p, st)
      PROVE  FALSE
  BY <1>7, <1>t DEF Poll, SkipPoll, Ask, Reconcile, SendCancel
<1> QED BY <1>1, <1>2, <1>3, <1>4, <1>5, <1>6, <1>7, Steps

\* A row is closed only for an offer that is dead.
ClosesOnlyDead ==
  [][\A o \in Offers : row[o] # "cancelled" /\ row'[o] = "cancelled" =>
       is_dead(chain.spend[o])]_vars

\* What cannot be revived is dead.
LEMMA BuriedIsDead ==
  ASSUME NEW o \in Offers, Buried(o)
  PROVE  is_dead(chain.spend[o])
BY DEF Buried, DeepDead, is_dead

\* No step closes the row of an offer that was taken or can be taken.
LEMMA ClosesStep ==
  ASSUME FillTypeOK, FillTypeOK', CallShape, DownIsEmpty, Books, DeadOK, CancelsOK, [Next]_vars,
         ~UndoneTakes, ~ShallowFailed
  PROVE  [\A o \in Offers : row[o] # "cancelled" /\ row'[o] = "cancelled" =>
            is_dead(chain.spend[o])]_vars
<1>1. ASSUME NEW o \in Offers, row[o] # "cancelled", row'[o] = "cancelled"
      PROVE  is_dead(chain.spend[o])
  <2>1. Buried(o) \/ status[o] = "failed"
    BY <1>1, ClosesOn
  <2>2. status[o] = "failed" => is_dead(chain.spend[o])
    BY DEF DeadOK, is_dead
  <2> QED BY <2>1, <2>2, BuriedIsDead
<1> QED BY <1>1

\* No row is closed in the initial state.
LEMMA ClosedInit == Init => ClosedOK
BY DEF Init, ClosedOK, FoundInNumber, Idle, Nobody, NotRead

\* What is FAILED stays so until the first reorganisation, and so does its spend.
LEMMA FailedStays ==
  ASSUME FillTypeOK, FillTypeOK', [Next]_vars, DeadOK, ~Reorg, NEW o \in Offers
  PROVE  /\ status[o] = "failed" => status'[o] = "failed" /\ chain'.spend[o] = chain.spend[o]
         /\ status[o] # "accept" => status'[o] # "accept"
         /\ status[o] # "accept" /\ status'[o] = "failed" => status[o] = "failed"
<1>1. status[o] = "failed" => chain'.spend[o] = chain.spend[o]
  BY ChainMoves DEF DeadOK, Unspent
<1>2. status[o] = "failed" => status'[o] = "failed"
  <2> USE DEF FillTypeOK, WorldOK
  <2>1. CASE Block \/ NodeSyncs \/ UNCHANGED <<chain, node, status, confirmed_at_index, reorgs>>
    BY <2>1 DEF Block, NodeSyncs
  <2>2. CASE \E p \in Offers : WalletSees(p)
    BY <2>2 DEF WalletSees
  <2>3. CASE \E p \in Offers, st \in Statuses : CancelledElsewhere(p, st) \/ SendCancel(p, st)
    BY <2>3 DEF CancelledElsewhere, SendCancel
  <2> QED BY <2>1, <2>2, <2>3, WorldSteps
<1> QED BY <1>1, <1>2, StatusComes


\* Only a poll writes a record down.
LEMMA PolledBy ==
  ASSUME FillTypeOK, FillTypeOK', CallShape, [Next]_vars, NEW o \in Offers,
         call'.recs[o] # call.recs[o], call'.recs[o] # NotRead
  PROVE  Poll(o)
<1> USE DEF world, state, manager, engine, db
<1>t. call \in Calls /\ call.recs \in [Offers -> Records]
  BY DEF FillTypeOK, Calls
<1>1. call.pc = "poll" /\ o \in call.todo /\ call' # call
  BY RecsStep
<1>2. ~WorldStep /\ ~Boot
  BY <1>1 DEF WorldStep, Boot
<1>3. ~Begin /\ ~EndDetect /\ ~Write /\ ~WriteFails /\ ~EndStep /\ ~Crash
  <2>1. ~Begin
    BY BeginFields DEF Nobody
  <2>2. ~EndDetect /\ ~Write /\ ~WriteFails /\ ~EndStep
    BY <1>1 DEF EndDetect, Write, WriteFails, EndStep, recording
  <2>3. ~Crash
    BY DEF Crash, Idle
  <2> QED BY <2>1, <2>2, <2>3
<1>4. ASSUME NEW p \in Offers, Ask(p) \/ Answered(p) \/ Matured(p) \/ Reconcile(p)
                               \/ \E st \in Statuses : SendCancel(p, st)
      PROVE  FALSE
  BY <1>1, <1>4, AnswerInTurn, MaturedFields DEF Ask, turn, MaturedStep, Reconcile, SendCancel
<1>5. ASSUME NEW p \in Offers, Poll(p) \/ SkipPoll(p)
      PROVE  p = o /\ Poll(p)
  <2>1. PolledStep(p)
    BY <1>t, <1>5, PollFields
  <2>2. p = o
    BY <1>t, <2>1 DEF PolledStep
  <2>3. SkipPoll(p) => call'.recs = [call.recs EXCEPT ![p] = NotRead]
    BY <1>t DEF SkipPoll, polled, Calls
  <2> QED BY <1>t, <1>5, <2>2, <2>3
<1> QED BY <1>2, <1>3, <1>4, <1>5, Steps

\* A terminal is in the call since it was read, at the call's number.
LEMMA TerminalsStep ==
  ASSUME FillTypeOK, FillTypeOK', CallShape, [Next]_vars, NEW o \in Offers, o \in call'.terminals
  PROVE  \/ o \in call.terminals /\ call'.block = call.block
         \/ /\ Answered(o) /\ call'.block = call.block /\ o \in call.todo /\ call.pc = "prove"
            /\ call.recs[o].status \in {"cancelled", "failed"}
<1> USE DEF world, state, manager, engine, db
<1>t. call \in Calls
  BY DEF FillTypeOK
<1>1. CASE UNCHANGED call
  BY <1>1
<1>2. CASE Begin \/ EndDetect \/ EndStep \/ Crash
  <2>1. call'.terminals = {}
    <3>1. CASE Begin
      BY <3>1, BeginFields
    <3>2. CASE EndDetect
      BY <3>2, EndDetectFields DEF EndedDetect
    <3>3. CASE EndStep
      BY <3>3 DEF EndStep, Idle
    <3>4. CASE Crash
      BY <3>4 DEF Crash, Idle
    <3> QED BY <1>2, <3>1, <3>2, <3>3, <3>4
  <2> QED BY <2>1
<1>3. CASE Write \/ WriteFails
  BY <1>3, WriteFields DEF RecordedStep
<1>4. ASSUME NEW p \in Offers, (Poll(p) \/ SkipPoll(p)) \/ Ask(p) \/ Matured(p)
      PROVE  call'.terminals = call.terminals /\ call'.block = call.block
  <2>1. Poll(p) \/ SkipPoll(p) => PolledStep(p)
    BY <1>t, PollFields
  <2>2. Ask(p) => \E reply : AskedStep(p, reply)
    BY <1>t, AskFields
  <2>3. Matured(p) => MaturedStep(p)
    BY MaturedFields
  <2> QED BY <1>4, <2>1, <2>2, <2>3 DEF PolledStep, AskedStep, MaturedStep
<1>5. ASSUME NEW p \in Offers, Answered(p), o \notin call.terminals
      PROVE  /\ p = o /\ o \in call.todo /\ call.pc = "prove"
             /\ call.recs[o].status \in {"cancelled", "failed"}
  BY <1>5, <1>t, AnswerFields, AnswerInTurn DEF FoundTerminal, read
<1>6. ASSUME NEW p \in Offers, Answered(p)
      PROVE  call'.block = call.block
  BY <1>6, <1>t, AnswerFields DEF ThroughStep
<1>7. WorldStep \/ Boot \/ (\E p \in Offers : Reconcile(p) \/ \E st \in Statuses : SendCancel(p, st))
        => UNCHANGED call
  BY DEF WorldStep, Boot, Reconcile, SendCancel
<1> QED BY <1>1, <1>2, <1>3, <1>4, <1>5, <1>6, <1>7, Steps

\* A window begins at the number of the heartbeat that found the terminal, or later.
LEMMA WindowStep ==
  ASSUME FillTypeOK, FillTypeOK', CallShape, DownIsEmpty, [Next]_vars, ~ShallowFailed,
         NEW o \in Offers, pending_unconfirmed_terminals'[o] # NotBuffered
  PROVE  \/ /\ pending_unconfirmed_terminals[o] # NotBuffered
            /\ pending_unconfirmed_terminals[o].block <= pending_unconfirmed_terminals'[o].block
         \/ /\ o \in call.terminals /\ EndDetect
            /\ call.block <= pending_unconfirmed_terminals'[o].block
         \/ /\ status[o] = "failed" /\ chain.spend[o].at <= call.block /\ Reconcile(o)
            /\ call.block <= pending_unconfirmed_terminals'[o].block
<1> USE DEF world, state, manager, engine, db
<1>t. /\ call \in Calls /\ call.block \in Nat /\ pending_unconfirmed_terminals[o].block \in Nat
      /\ pending_unconfirmed_terminals'[o].block \in Nat
      /\ pending_unconfirmed_terminals \in [Offers -> [block : Nat, failures : Nat]]
  BY DEF FillTypeOK, EngineOK, Calls
<1>1. CASE UNCHANGED pending_unconfirmed_terminals
  BY <1>t, <1>1
<1>2. CASE EndDetect
  <2>1. pending_unconfirmed_terminals'[o]
          = buffered(pending_unconfirmed_terminals, call.terminals)[o]
    BY <1>2, EndDetectFields DEF EndedDetect
  <2> QED BY <1>t, <1>2, <2>1 DEF buffered
<1>3. CASE Crash
  BY <1>3 DEF Crash, Nobody
<1>4. ASSUME NEW p \in Offers, Matured(p)
      PROVE  /\ pending_unconfirmed_terminals[o] # NotBuffered
             /\ pending_unconfirmed_terminals[o].block <= pending_unconfirmed_terminals'[o].block
  <2>1. MaturedStep(p)
    BY <1>4, MaturedFields
  <2>2. CASE p = o
    <3>1. pending_unconfirmed_terminals[o] # NotBuffered
      BY <2>1, <2>2 DEF MaturedStep, CallShape, NotBuffered, at_depth
    <3> QED BY <1>t, <2>1, <2>2, <3>1 DEF MaturedStep
  <2>3. CASE p # o
    BY <1>t, <2>1, <2>3 DEF MaturedStep
  <2> QED BY <2>2, <2>3
<1>5. ASSUME NEW p \in Offers, Reconcile(p), pending_unconfirmed_terminals' # pending_unconfirmed_terminals
      PROVE  \/ /\ pending_unconfirmed_terminals[o] # NotBuffered
                /\ pending_unconfirmed_terminals[o].block <= pending_unconfirmed_terminals'[o].block
             \/ /\ status[o] = "failed" /\ chain.spend[o].at <= call.block /\ Reconcile(o)
                /\ call.block <= pending_unconfirmed_terminals'[o].block
  <2>1. /\ status[p] = "failed" /\ in_number(p)
        /\ pending_unconfirmed_terminals' = buffered(pending_unconfirmed_terminals, {p})
    BY <1>5 DEF Reconcile
  <2>2. chain.spend[p].at <= call.block
    BY <1>t, <2>1 DEF in_number, FillTypeOK, WorldOK, Chains, Spendings
  <2> QED BY <1>t, <1>5, <2>1, <2>2 DEF buffered
<1>6. CASE WorldStep \/ Begin \/ (Write \/ WriteFails) \/ EndStep \/ Boot
  BY <1>1, <1>6, WriteFields DEF WorldStep, Begin, EndStep, Boot, RecordedStep
<1>7. ASSUME NEW p \in Offers, (Poll(p) \/ SkipPoll(p)) \/ Ask(p) \/ Answered(p)
                               \/ \E st \in Statuses : SendCancel(p, st)
      PROVE  UNCHANGED pending_unconfirmed_terminals
  BY <1>7, <1>t, AnswerFields DEF Poll, SkipPoll, Ask, SendCancel, ThroughStep
<1> QED BY <1>1, <1>2, <1>3, <1>4, <1>5, <1>6, <1>7, Steps

\* Only a reorganisation undoes what was in the number.
LEMMA InNumberStep ==
  ASSUME FillTypeOK, FillTypeOK', CallShape, DownIsEmpty, Books, DeadOK, [Next]_vars, ~Reorg,
         ~ShallowFailed, NEW o \in Offers, FoundInNumber(o)
  PROVE  FoundInNumber(o)'
<1> USE DEF world, state, manager, engine, db
<1> DEFINE Since(h) == status[o] # "accept" /\ (status[o] = "failed" => chain.spend[o].at <= h)
           SinceThen(h) == status'[o] # "accept" /\ (status'[o] = "failed" => chain'.spend[o].at <= h)
<1>t. /\ call \in Calls /\ call' \in Calls /\ call.block \in Nat /\ chain.spend[o].at \in Nat
      /\ pending_unconfirmed_terminals[o].block \in Nat
      /\ pending_unconfirmed_terminals'[o].block \in Nat
  BY DEF FillTypeOK, WorldOK, EngineOK, Calls, Chains, Spendings
<1>s. \A h, i \in Nat : Since(h) /\ h <= i => SinceThen(i)
  BY <1>t, FailedStays
<1>1. ASSUME call'.recs[o].status = "failed"
      PROVE  status'[o] = "failed" /\ chain'.spend[o].at <= call'.block
  <2>1. CASE call'.recs[o] = call.recs[o]
    <3>1. status[o] = "failed" /\ chain.spend[o].at <= call.block
      BY <1>1, <2>1 DEF FoundInNumber
    <3>2. call'.block = call.block
      <4>1. ~Begin /\ call' # Idle
        BY <1>1, BeginFields DEF Idle, Nobody, NotRead
      <4>2. Block \/ NodeSyncs => UNCHANGED call
        BY DEF Block, NodeSyncs
      <4> QED BY <4>1, <4>2, CallKept
    <3> QED BY <3>1, <3>2, FailedStays
  <2>2. CASE call'.recs[o] # call.recs[o]
    <3>1. /\ call'.recs[o] = [status |-> status[o], claimed |-> confirmed_at_index[o]]
          /\ call.pc = "poll" /\ o \in call.todo
          /\ UNCHANGED <<chain, node, status, confirmed_at_index, reorgs>>
      BY <1>1, <2>2, RecsStep DEF NotRead
    <3>2. status[o] = "failed"
      BY <1>1, <3>1
    <3>3. Poll(o)
      BY <1>1, <2>2, PolledBy DEF NotRead
    <3>4. chain.spend[o].at <= call.block
      BY <1>t, <3>2, <3>3 DEF Poll, in_number
    <3>5. call'.block = call.block
      BY <1>t, <3>3, PollFields DEF PolledStep
    <3> QED BY <3>1, <3>2, <3>4, <3>5
  <2> QED BY <2>1, <2>2
<1>2. ASSUME o \in call'.terminals
      PROVE  SinceThen(call'.block)
  <2>1. Since(call.block) /\ call'.block = call.block
    <3>1. CASE o \in call.terminals /\ call'.block = call.block
      BY <3>1 DEF FoundInNumber
    <3>2. CASE call'.block = call.block /\ call.recs[o].status = "failed"
      BY <3>2 DEF FoundInNumber
    <3>3. CASE call'.block = call.block /\ call.recs[o].status = "cancelled"
      BY <3>3 DEF Books, StatusFollows, Cancelling
    <3> QED BY <1>2, <3>1, <3>2, <3>3, TerminalsStep
  <2> QED BY <1>t, <1>s, <2>1
<1>3. ASSUME pending_unconfirmed_terminals'[o] # NotBuffered
      PROVE  SinceThen(pending_unconfirmed_terminals'[o].block)
  <2>1. CASE /\ pending_unconfirmed_terminals[o] # NotBuffered
             /\ pending_unconfirmed_terminals[o].block <= pending_unconfirmed_terminals'[o].block
    BY <1>t, <1>s, <2>1 DEF FoundInNumber
  <2>2. CASE /\ o \in call.terminals
             /\ call.block <= pending_unconfirmed_terminals'[o].block
    BY <1>t, <1>s, <2>2 DEF FoundInNumber
  <2>3. CASE /\ status[o] = "failed" /\ chain.spend[o].at <= call.block
             /\ call.block <= pending_unconfirmed_terminals'[o].block
    BY <1>t, <1>s, <2>3
  <2> QED BY <1>3, <2>1, <2>2, <2>3, WindowStep
<1>4. NotBuffered' = NotBuffered
  BY DEF NotBuffered
<1> QED BY <1>1, <1>2, <1>3, <1>4 DEF FoundInNumber

\* Until the second reorganisation a closed row's offer stays dead.
LEMMA ClosedStep ==
  ASSUME FillTypeOK, FillTypeOK', CallShape, DownIsEmpty, ChainOK, Books, DeadOK, CancelsOK,
         ClosedOK, [Next]_vars, ~UndoneTakes, ~ShallowFailed, MaxReorgs <= 1
  PROVE  ClosedOK'
<1> USE DEF world, state, manager, engine, db
<1>r. /\ Reorg => reorgs = 0 /\ reorgs' # 0
      /\ ~Reorg => reorgs' = reorgs
  <2>1. Reorg => reorgs = 0 /\ reorgs' # 0
    BY FillAssumption DEF Reorg, FillTypeOK, WorldOK
  <2>2. ~Reorg => reorgs' = reorgs
    BY WorldSteps DEF Block, NodeSyncs, WalletSees, CancelledElsewhere, SendCancel
  <2> QED BY <2>1, <2>2
<1>1. ASSUME reorgs' = 0, NEW o \in Offers
      PROVE  FoundInNumber(o)'
  <2>1. ~Reorg /\ reorgs = 0
    BY <1>1, <1>r
  <2>2. FoundInNumber(o)
    BY <2>1 DEF ClosedOK, FoundInNumber
  <2> QED BY <2>1, <2>2, InNumberStep
<1>2. ASSUME NEW o \in Offers, row'[o] = "cancelled", row[o] = "cancelled"
      PROVE  is_dead(chain'.spend[o]) /\ (reorgs' = 0 => Buried(o)')
  <2>1. is_dead(chain.spend[o]) /\ (reorgs = 0 => Buried(o))
    BY <1>2 DEF ClosedOK
  <2>2. CASE reorgs = 0
    <3>1. Buried(o)'
      BY <1>2, <2>1, <2>2, BuriedStays DEF silent
    <3>2. is_dead(chain'.spend[o])
      BY <3>1 DEF Buried, DeepDead, is_dead
    <3> QED BY <3>1, <3>2
  <2>3. CASE reorgs # 0
    <3>1. ~Reorg /\ reorgs' # 0
      BY <1>r, <2>3
    <3> QED BY <2>1, <3>1, ChainMoves DEF is_dead, Unspent
  <2> QED BY <2>2, <2>3
<1>3. ASSUME NEW o \in Offers, row'[o] = "cancelled", row[o] # "cancelled"
      PROVE  is_dead(chain'.spend[o]) /\ (reorgs' = 0 => Buried(o)')
  <2>1. /\ UNCHANGED <<chain, reorgs>>
        /\ \/ Buried(o)
           \/ /\ status[o] = "failed"
              /\ \/ Recheck(o) /\ Waiting(o)
                 \/ Boot /\ at_depth(chain.spend[o].at, chain.tip)
    BY <1>3, ClosesOn
  <2>2. status[o] = "failed" => is_dead(chain.spend[o])
    BY DEF DeadOK, is_dead
  <2>3. ASSUME reorgs = 0, status[o] = "failed", Recheck(o)
        PROVE  at_depth(chain.spend[o].at, chain.tip)
    <3>1. /\ pending_unconfirmed_terminals[o].block \in Nat /\ call.block \in Nat
          /\ chain.tip \in Nat /\ chain.spend[o].at \in Nat /\ call.block <= chain.tip
          /\ ConfirmationDepth \in Nat \ {0}
      BY FillAssumption DEF FillTypeOK, EngineOK, WorldOK, Calls, Chains, Spendings, ChainOK
    <3>2. at_depth(pending_unconfirmed_terminals[o].block, call.block)
      BY <2>3 DEF Recheck, maturing, CallShape
    <3>3. chain.spend[o].at <= pending_unconfirmed_terminals[o].block
      BY <2>3, <3>2 DEF ClosedOK, FoundInNumber, NotBuffered, at_depth
    <3>4. chain.spend[o].at > 0
      BY <2>2, <2>3, <3>1 DEF is_dead, ChainOK, SpendsOK
    <3> QED BY <3>1, <3>2, <3>3, <3>4 DEF at_depth
  <2>4. is_dead(chain.spend[o]) /\ (reorgs = 0 => Buried(o))
    BY <2>1, <2>2, <2>3, BuriedIsDead DEF Buried, DeepDead
  <2> QED BY <2>1, <2>4 DEF Buried, DeepDead
<1> QED BY <1>1, <1>2, <1>3 DEF ClosedOK, FoundInNumber

-----------------------------------------------------------------------------
(* The invariant, and what follows from it.                                *)

\* Whatever a reorganisation undoes.
IInv == /\ FillTypeOK /\ CallShape /\ DownIsEmpty /\ ChainOK
        /\ Books /\ Kept /\ HoldsOK /\ DeadOK

\* Nothing is booked, kept, held or dead in the initial state.
LEMMA IInvInit == Init => IInv
<1>1. Init => Books
  BY DEF Init, Books, StatusFollows, EndedStaysEnded, EndedNotBuffered, FoundOnce, CountedOnce,
         Ended, Fresh, offers_of, Distinct, Idle, Nobody, Past, Cancelling, NotRead
<1>2. Init => Kept
  BY DEF Init, Kept, InHand, open_rows, Nobody
<1> QED BY <1>1, <1>2, TypeInit, ShapeInit, ChainInit, HoldsInit, DeadInit DEF IInv

\* Each part is kept by every step, with the parts it rests on.
LEMMA IInvStep == IInv /\ [Next]_vars => IInv'
<1> SUFFICES ASSUME IInv, [Next]_vars PROVE IInv'
  OBVIOUS
<1>1. FillTypeOK'
  BY TypeStep DEF IInv
<1>2. CallShape' /\ DownIsEmpty' /\ ChainOK'
  BY <1>1, ShapeStep, ChainStep DEF IInv
<1>3. Books'
  BY <1>1, StatusFollowsStep, EndedStaysEndedStep, EndedNotBufferedStep, FoundOnceStep,
     CountedOnceStep DEF IInv, Books
<1>4. Kept' /\ HoldsOK' /\ DeadOK'
  BY <1>1, KeptStep, HoldsStep, DeadStep DEF IInv, Books
<1> QED BY <1>1, <1>2, <1>3, <1>4 DEF IInv

\* What the fill proof rests on, in every state, whatever a reorganisation undoes.
THEOREM FillInvariant == Spec => []IInv
BY IInvInit, IInvStep, PTL DEF Spec

\* Type correctness of the fill proof.
THEOREM FillTypeCorrect == Spec => []FillTypeOK
<1>1. IInv => FillTypeOK
  BY DEF IInv
<1> QED BY <1>1, FillInvariant, PTL

\* NothingForgotten: no step of detect_fills, of the step around it or of a restart
\* lets go of an offer whose row is open, whatever the chain undoes.
THEOREM FillsNothingForgotten == Spec => []NothingForgotten
<1>1. IInv => NothingForgotten
  BY KeptSays DEF IInv
<1> QED BY <1>1, FillInvariant, PTL

\* NeverBookedTwice: the inventory moves once for an offer, because an offer that was
\* found or recorded is never tracked again and its two lists name it once.
THEOREM FillsBookedOnce == Spec => []NeverBookedTwice
<1>1. CountedOnce => NeverBookedTwice
  <2> SUFFICES ASSUME CountedOnce, NEW o \in Offers PROVE inventory[o] <= 1
    BY DEF NeverBookedTwice
  <2>1. inventory[o] = 0 \/ inventory[o] = 1
    BY DEF CountedOnce
  <2>2. CASE inventory[o] = 0
    BY <2>2
  <2>3. CASE inventory[o] = 1
    BY <2>3
  <2> QED BY <2>1, <2>2, <2>3
<1>2. IInv => CountedOnce
  BY DEF IInv, Books
<1> QED BY <1>1, <1>2, FillInvariant, PTL

\* HoldKeepsConfirmed: a cancel by id that goes out over a held CONFIRMED goes out over
\* one whose height the chain refutes at depth.
THEOREM FillsHoldKeeps == Spec => HoldKeepsConfirmed
<1>1. IInv =>
        [\A o \in Offers, st \in Statuses :
           SendCancel(o, st) /\ held(o) /\ status[o] = "confirmed" =>
             ~(chain.spend[o].by = "take" /\ chain.spend[o].at = confirmed_at_index[o])]_vars
  <2> SUFFICES ASSUME IInv, NEW o \in Offers, NEW st \in Statuses,
                      SendCancel(o, st), held(o), status[o] = "confirmed"
               PROVE  chain.spend[o].at # confirmed_at_index[o]
    OBVIOUS
  <2>1. fill_proof_deferrals[o] = "cancellable"
    BY DEF SendCancel, held, IInv, FillTypeOK, ManagerOK, Holds
  <2> QED BY <2>1 DEF IInv, HoldsOK, Refuted
<1> QED BY <1>1, FillInvariant, PTL DEF HoldKeepsConfirmed

-----------------------------------------------------------------------------
(* While a reorganisation undoes no take that was shown.                   *)

\* BookedOnlyTakes: from the answer to the row the take is the chain's, at the height
\* of the Fill, and the row is written at depth.
THEOREM FillsBookedOnlyTakes ==
  ASSUME ~UndoneTakes
  PROVE  Spec => []BookedOnlyTakes
<1>1. Init => TakesStand
  BY TakesInit
<1>2. IInv /\ IInv' /\ TakesStand /\ [Next]_vars => TakesStand'
  BY TakesStep DEF IInv
<1>3. TakesStand => BookedOnlyTakes
  BY DEF TakesStand
<1> QED BY <1>1, <1>2, <1>3, FillInvariant, PTL DEF Spec

\* And a cancel does not believe a FAILED that can still be undone: what ages as
\* cancelled cannot be taken.
LEMMA CancelsInvariant ==
  ASSUME ~UndoneTakes, ~ShallowFailed
  PROVE  Spec => []CancelsOK
<1>1. Init => CancelsOK
  BY CancelsInit
<1>2. IInv /\ IInv' /\ CancelsOK /\ [Next]_vars => CancelsOK'
  BY CancelsStep DEF IInv
<1> QED BY <1>1, <1>2, FillInvariant, PTL DEF Spec

\* ClosesOnlyDead, for any number of reorganisations.
THEOREM FillsCloseOnlyDead ==
  ASSUME ~UndoneTakes, ~ShallowFailed
  PROVE  Spec => ClosesOnlyDead
<1>1. IInv /\ IInv' /\ CancelsOK /\ [Next]_vars =>
        [\A o \in Offers : row[o] # "cancelled" /\ row'[o] = "cancelled" =>
           is_dead(chain.spend[o])]_vars
  BY ClosesStep DEF IInv
<1> QED BY <1>1, FillInvariant, CancelsInvariant, PTL DEF Spec, ClosesOnlyDead

\* ClosedOnlyIfDead: up to one reorganisation, what is closed also stays dead.  A
\* second one can revive a trade that was found FAILED twice.
THEOREM FillsClosedOnlyIfDead ==
  ASSUME ~UndoneTakes, ~ShallowFailed, MaxReorgs <= 1
  PROVE  Spec => []ClosedOnlyIfDead
<1>1. Init => ClosedOK
  BY ClosedInit
<1>2. IInv /\ IInv' /\ CancelsOK /\ ClosedOK /\ [Next]_vars => ClosedOK'
  BY ClosedStep DEF IInv
<1>3. ClosedOK => ClosedOnlyIfDead
  BY DEF ClosedOK, ClosedOnlyIfDead
<1> QED BY <1>1, <1>2, <1>3, FillInvariant, CancelsInvariant, PTL DEF Spec
=============================================================================
