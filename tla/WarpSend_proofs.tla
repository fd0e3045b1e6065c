-------------------------- MODULE WarpSend_proofs --------------------------
(***************************************************************************)
(* Proofs about the sends of a warp job, for any number of sends, coins    *)
(* and polls: an unwrap burns at most once; what is listed as dead can     *)
(* never land; while a job is open every send that may still land is on    *)
(* its books; and a job that closes leaves nothing behind.                 *)
(*                                                                         *)
(* The burn: at any time all but one of the sends that were made are       *)
(* ruled out twice, by the chain, which has a coin of theirs spent         *)
(* elsewhere for good, and by the books, which list their id or their      *)
(* coins.  The chain's part makes the one that is left the only one that   *)
(* can land; the books' part keeps the history scan from taking one that   *)
(* is ruled out for the one that is not, and retiring the wrong send.  A   *)
(* cat_spend is made again, or made late by a call that was given up on,   *)
(* only when none is left.                                                 *)
(*                                                                         *)
(* The ledger: each send the books do not name, and each call given up on, *)
(* has an entry without an id to itself, one that knows no coins or its    *)
(* own.  An entry is made with every reservation; it goes only when a send *)
(* takes it, and whoever stood behind it moves to the entry that send      *)
(* leaves.  So an entry can be dead only together with whom it stands for, *)
(* and a job whose entries are all cleared has no send left.  The pass     *)
(* that clears them is followed attempt by attempt.                        *)
(***************************************************************************)
EXTENDS WarpSendProps, FiniteSetTheorems, SequenceTheorems, WellFoundedInduction, TLAPS

JobFields == {"status", "from", "marker", "removals", "priors", "coins", "dead", "presumed",
              "exclude", "seq", "polls", "pin", "abandoned"}

\* The chain: a send has landed when all of its coins are spent by it, and its
\* coins are buried together.
ChainOK ==
  /\ made \in [Sends -> SUBSET Coins] /\ deep \in [Coins -> BOOLEAN]
  /\ DOMAIN by = Coins /\ DOMAIN out = Sends
  /\ \A a \in Sends : Landed(a) => a \in sent /\ \A c \in made[a] : by[c] = Tx(a)
  /\ \A a \in Sends, c \in Coins : by[c] = Tx(a) => Landed(a) /\ c \in made[a]
  /\ \A c \in Coins : deep[c] => Spent(c)
  /\ \A a \in Sends : Landed(a) => \A c, d \in made[a] : deep[c] => deep[d]

\* Sends are numbered in the order they are made.
Numbered == \E n \in 0 .. MaxSends : sent = 1 .. n

\* A send is on the books when its id is, or its coins are.
OnBooks(j, a) == InPriors(j, Tx(a)) \/ \E k \in Keys : j.coins[k] = made[a]

\* The sends the books do not rule out.
Stray(j) == {a \in sent : ~(OnBooks(j, a) /\ Doomed(a))}

\* The row of a burn.
BookShape(j) ==
  /\ DOMAIN j = JobFields
  /\ j.status \in {"BURN_SENT", "BURNING", "FAILED"} \cup Closed /\ j.from = "BURN_SENT"
  /\ j.marker \in {NoTx, Unknown} \cup {Tx(a) : a \in Sends}
  /\ j.priors \in Seq(Keys) /\ Len(j.priors) <= MaxSends
  /\ j.marker # NoTx => Len(j.priors) < MaxSends
  /\ DOMAIN j.coins = Keys
  /\ \A a \in Sends : j.coins[Tx(a)] \in {{}, made[a]}

\* An unnamed entry is filed under a number no entry has had.
FreshNumbers(j) ==
  /\ j.seq \in Nat /\ j.seq <= Len(j.priors)
  /\ \A n \in 1 .. MaxSends : n > j.seq => j.coins[Unnamed(n)] = {} /\ ~InPriors(j, Unnamed(n))

\* Without a send on record none is left that could land; with one on record it
\* is the only one, known by its id, by its coins, or not at all.
OneOpen(j) ==
  /\ j.marker = NoTx => j.removals = {} /\ Stray(j) = {}
  /\ j.marker = Unknown =>
       /\ \A a, b \in Stray(j) : a = b
       /\ j.removals # {} => \A a \in Stray(j) : made[a] = j.removals
  /\ \A a \in Sends : j.marker = Tx(a) =>
       /\ a \in sent /\ j.removals \in {{}, made[a]} /\ Stray(j) \subseteq {a}

BookOK(j) == BookShape(j) /\ FreshNumbers(j) /\ OneOpen(j)

\* Nothing is known of the send on record.
Blank(j) == j.marker = Unknown /\ j.removals = {}

\* What a call in flight, or one given up on, may still make.
CallsOK ==
  /\ rpc \in {"idle", "reserved", "made"}
  /\ late # {} => rpc = "idle" /\ Blank(job) /\ Stray(job) = {} /\ \E e \in late : late = {e}
  /\ rpc = "reserved" => Blank(job) /\ Stray(job) = {} /\ BookOK(before)
  /\ rpc = "made" => Blank(job) /\ sent # {} /\ Stray(job) \subseteq {Cardinality(sent)}

BurnInv == kind = "burn" => BookOK(job) /\ CallsOK

WarpInv == kind \in {"fund", "burn"} /\ ChainOK /\ Numbered /\ BurnInv

-----------------------------------------------------------------------------
(* Names and numbers.                                                      *)

\* Ids are told apart.
LEMMA Names ==
  /\ \A a, b \in Sends : Tx(a) = Tx(b) => a = b
  /\ \A a \in Sends : Tx(a) \notin {Nobody, Other, NoTx, Unknown} /\ Id(Tx(a)) = a
  /\ \A a \in Sends, n \in Nat : Tx(a) # Unnamed(n)
  /\ \A n \in Nat : Unnamed(n) # NoTx /\ Id(Unnamed(n)) = 0
  /\ \A m, n \in Nat : Unnamed(m) = Unnamed(n) => m = n
  /\ NoTx # Unknown /\ Nobody # Other /\ Id(Unknown) = 0
  BY DEF Tx, Nobody, Other, NoTx, Unknown, Unnamed, Id

\* A send's parent is one of its coins.
LEMMA ParentIsACoin ==
  ASSUME NEW a \in sent
  PROVE  Parent(a) \in made[a]
  BY DEF sent, Parent

\* As many sends as there are numbers, and the next one is not made yet.
LEMMA Counted ==
  ASSUME Numbered
  PROVE  /\ Cardinality(sent) \in 0 .. MaxSends /\ sent = 1 .. Cardinality(sent)
         /\ NextSend \notin sent
<1>1. PICK n \in 0 .. MaxSends : sent = 1 .. n
  BY DEF Numbered
<1>2. n \in Nat
  BY WarpAssumption DEF WarpAssumption
<1>3. Cardinality(1 .. n) = n
  BY <1>2, FS_Interval
<1> QED BY <1>1, <1>2, <1>3 DEF NextSend

\* A landed send is not doomed, so neither is it doomed in the end.
LEMMA LandedLives ==
  ASSUME ChainOK, NEW a \in Sends, Landed(a)
  PROVE  a \in sent /\ ~Doomed(a)
  BY DEF ChainOK, Doomed

\* A send is judged dead by its own coins only when it cannot land any more.
LEMMA DeadIsDoomed ==
  ASSUME ChainOK, NEW a \in sent, NEW id, NEW unique, NEW see,
         Judged(made[a], id, unique, see) = "dead"
  PROVE  Doomed(a)
<1> DEFINE coins == made[a]
<1>1. /\ see.fail # "coins" /\ \E c \in coins : AtDepth(c)
      /\ see.fail # "outputs" /\ ~OutputSeen(coins, unique)
  BY DEF Judged
<1>2. a \in Sends
  BY DEF sent
<1>3. ~Landed(a)
  BY <1>1, ParentIsACoin DEF OutputSeen
<1>4. PICK c \in coins : AtDepth(c)
  BY <1>1
<1>5. c \in Coins
  BY <1>2 DEF ChainOK
<1>6. by[c] # Tx(a)
  BY <1>2, <1>3, <1>5 DEF ChainOK
<1> QED BY <1>4, <1>6 DEF Doomed, AtDepth

\* A pass meets records of sends that were made.
LEMMA HeldAreSent ==
  ASSUME NEW asks \in BOOLEAN, NEW see \in PassesIf(asks)
  PROVE  see.held \subseteq sent
<1>1. CASE asks
  <2>1. see \in Passes
    BY <1>1 DEF PassesIf
  <2>2. see.held \in SUBSET sent
    BY <2>1 DEF Passes
  <2> QED BY <2>2
<1>2. CASE ~asks
  BY <1>2 DEF PassesIf
<1> QED BY <1>1, <1>2

\* The history names a send the books do not rule out, if only one is left.
LEMMA ExistingIsStray ==
  ASSUME NEW j, NEW required, NEW see, see.held \subseteq sent, NEW u \in Sends,
         Stray(j) \subseteq {u}, Existing(j, required, see) # 0
  PROVE  Existing(j, required, see) = u /\ u \in Stray(j)
<1> DEFINE live == UNION {j.coins[k] : k \in Keys \ Settled(j)}
           sets == {j.coins[k] : k \in Keys} \ {{}}
           ids  == {j.priors[i] : i \in DOMAIN j.priors}
           hits == Hits(see, ids, sets, live, required)
<1>1. Existing(j, required, see) = Pick(hits, see)
  BY DEF Existing
<1>2. ASSUME NEW a \in hits
      PROVE  a = u /\ a \in Stray(j)
  <2>1. a \in sent /\ Tx(a) \notin ids /\ made[a] \notin sets
    BY DEF Hits
  <2>2. made[a] # {}
    BY <2>1 DEF sent
  <2>3. ~OnBooks(j, a)
    BY <2>1, <2>2 DEF OnBooks, InPriors
  <2> QED BY <2>1, <2>3 DEF Stray
<1>3. hits # {}
  BY <1>1 DEF Pick
<1>4. hits = {u} /\ u \in Stray(j)
  BY <1>2, <1>3
<1>5. u \in Nat
  BY DEF Sends
<1>6. Max({u}) = u /\ Min({u}) = u
  BY <1>5 DEF Max, Min
<1> QED BY <1>1, <1>4, <1>6 DEF Pick

-----------------------------------------------------------------------------
(* The chain.                                                              *)

\* The wallet's own spends and everybody else's keep the chain consistent, move
\* no book, and bring no doomed send back.
LEMMA WorldKeeps ==
  ASSUME ChainOK, World
  PROVE  /\ ChainOK' /\ made' = made /\ sent' = sent
         /\ UNCHANGED <<kind, job, rpcVars>>
         /\ \A a \in Sends : Doomed(a) => Doomed(a)'
<1> USE Names
<1>0. made' = made /\ sent' = sent /\ UNCHANGED <<kind, job, rpcVars>>
  BY DEF World, Lands, BurySend, UndoSend, SpendsOut, BuryOut, UndoOut, TakesCoin, BuryTake,
         UndoTake, Chain, sent
<1>1. ASSUME NEW a \in Sends, Lands(a)
      PROVE  ChainOK' /\ \A b \in Sends : Doomed(b) => Doomed(b)'
  <2>1. /\ a \in sent /\ \A c \in made[a] : ~Spent(c)
        /\ by' = [c \in Coins |-> IF c \in made[a] THEN Tx(a) ELSE by[c]] /\ deep' = deep
        /\ out' = [b \in Sends |-> IF b \in {a} THEN "unspent" ELSE out[b]]
    BY <1>1 DEF Lands, Chain, With, CanLand, ChainOK
  <2>2. \A b \in Sends : Landed(b)' <=> Landed(b) \/ b = a
    BY <2>1 DEF Landed
  <2>3. \A c \in Coins : deep[c] => c \notin made[a]
    BY <2>1 DEF ChainOK
  <2>4. \A b \in Sends : \A c \in made[b] : c \in Coins
    BY DEF ChainOK
  <2>5. \A c \in Coins : by'[c] = IF c \in made[a] THEN Tx(a) ELSE by[c]
    BY <2>1
  <2>6. \A b \in Sends : Landed(b) => \A c \in made[b] : c \notin made[a]
    BY <2>1, <2>4 DEF ChainOK, Spent
  <2>7. \A b \in Sends : Landed(b)' => b \in sent /\ \A c \in made[b] : by'[c] = Tx(b)
    BY <2>1, <2>2, <2>4, <2>5, <2>6 DEF ChainOK
  <2>8. \A b \in Sends, c \in Coins : by'[c] = Tx(b) => Landed(b)' /\ c \in made[b]
    BY <2>2, <2>5 DEF ChainOK
  <2>9. \A c \in Coins : deep[c] => Spent(c)'
    BY <2>3, <2>5 DEF ChainOK, Spent
  <2>10. \A b \in Sends : Landed(b)' => \A c, d \in made[b] : deep[c] => deep[d]
    BY <2>2, <2>3, <2>4 DEF ChainOK
  <2>11. ChainOK'
    BY <1>0, <2>1, <2>7, <2>8, <2>9, <2>10 DEF ChainOK
  <2>12. \A b \in Sends : Doomed(b) => Doomed(b)'
    BY <1>0, <2>1, <2>3, <2>4, <2>5 DEF Doomed, Spent
  <2> QED BY <2>11, <2>12
<1>2. ASSUME NEW a \in Sends, BurySend(a)
      PROVE  ChainOK' /\ \A b \in Sends : Doomed(b) => Doomed(b)'
  <2>1. /\ Landed(a) /\ by' = by /\ out' = out
        /\ deep' = [c \in Coins |-> IF c \in made[a] THEN TRUE ELSE deep[c]]
    BY <1>2 DEF BurySend, Chain, With, ChainOK
  <2>2. \A b \in Sends : (Landed(b) /\ \E c \in made[b] : c \in made[a]) => b = a
    BY <2>1 DEF ChainOK
  <2>3. \A b \in Sends : \A c \in made[b] : c \in Coins
    BY DEF ChainOK
  <2>4. \A c \in Coins : deep'[c] = (c \in made[a] \/ deep[c])
    BY <2>1 DEF ChainOK
  <2>5. \A c \in Coins : deep'[c] => Spent(c)
    BY <2>1, <2>4 DEF ChainOK, Spent
  <2>6. \A b \in Sends : Landed(b) => \A c, d \in made[b] : deep'[c] => deep'[d]
    BY <2>2, <2>3, <2>4 DEF ChainOK
  <2>7. deep' \in [Coins -> BOOLEAN]
    BY <2>1 DEF ChainOK
  <2>8. ChainOK'
    BY <1>0, <2>1, <2>5, <2>6, <2>7 DEF ChainOK, Landed, Spent
  <2>9. \A b \in Sends : Doomed(b) => Doomed(b)'
    BY <1>0, <2>1, <2>3, <2>4 DEF Doomed, Spent
  <2> QED BY <2>8, <2>9
<1>3. ASSUME NEW a \in Sends, UndoSend(a)
      PROVE  ChainOK' /\ \A b \in Sends : Doomed(b) => Doomed(b)'
  <2>1. /\ Landed(a) /\ ~Final(a) /\ deep' = deep
        /\ by' = [c \in Coins |-> IF c \in made[a] THEN Nobody ELSE by[c]]
        /\ out' = [b \in Sends |-> IF b \in {a} THEN "none" ELSE out[b]]
    BY <1>3 DEF UndoSend, Chain, With, ChainOK
  <2>2. \A b \in Sends : Landed(b)' <=> Landed(b) /\ b # a
    BY <2>1 DEF Landed
  <2>3. \A b \in Sends : \A c \in made[b] : c \in Coins
    BY DEF ChainOK
  <2>4. \A c \in Coins : deep[c] => c \notin made[a]
    BY <2>1 DEF ChainOK, Final
  <2>5. \A c \in Coins : by'[c] = IF c \in made[a] THEN Nobody ELSE by[c]
    BY <2>1
  <2>6. \A b \in Sends : Landed(b) /\ b # a => \A c \in made[b] : c \notin made[a]
    BY <2>1 DEF ChainOK
  <2>7. \A b \in Sends : Landed(b)' => b \in sent /\ \A c \in made[b] : by'[c] = Tx(b)
    BY <2>2, <2>3, <2>5, <2>6 DEF ChainOK
  <2>8. \A b \in Sends, c \in Coins : by'[c] = Tx(b) => Landed(b)' /\ c \in made[b]
    BY <2>2, <2>5 DEF ChainOK
  <2>9. \A c \in Coins : deep[c] => Spent(c)'
    BY <2>4, <2>5 DEF ChainOK, Spent
  <2>10. \A b \in Sends : Landed(b)' => \A c, d \in made[b] : deep[c] => deep[d]
    BY <2>2 DEF ChainOK
  <2>11. ChainOK'
    BY <1>0, <2>1, <2>7, <2>8, <2>9, <2>10 DEF ChainOK
  <2>12. \A b \in Sends : Doomed(b) => Doomed(b)'
    BY <1>0, <2>1, <2>3, <2>4, <2>5 DEF Doomed, Spent
  <2> QED BY <2>11, <2>12
<1>4. ASSUME NEW a \in Sends, SpendsOut(a) \/ BuryOut(a) \/ UndoOut(a)
      PROVE  ChainOK' /\ \A b \in Sends : Doomed(b) => Doomed(b)'
  <2>1. by' = by /\ deep' = deep /\ DOMAIN out' = Sends
        /\ \A b \in Sends : Landed(b)' <=> Landed(b)
    <3>1. /\ by' = by /\ deep' = deep /\ out[a] # "none"
          /\ out' = out \/ \E v \in {"claimed", "swept", "unspent"} : out' = With(out, {a}, v)
      BY <1>4 DEF SpendsOut, BuryOut, UndoOut, Chain
    <3>2. ASSUME NEW v \in {"claimed", "swept", "unspent"}, out' = With(out, {a}, v)
          PROVE  DOMAIN out' = Sends /\ \A b \in Sends : Landed(b)' <=> Landed(b)
      BY <3>1, <3>2 DEF With, ChainOK, Landed
    <3> QED BY <3>1, <3>2 DEF ChainOK, Landed
  <2> QED BY <1>0, <2>1 DEF ChainOK, Doomed, Spent
<1>5. ASSUME NEW c \in Coins, TakesCoin(c)
      PROVE  ChainOK' /\ \A b \in Sends : Doomed(b) => Doomed(b)'
  <2>1. /\ ~Spent(c) /\ deep' = deep /\ out' = out
        /\ by' = [d \in Coins |-> IF d \in {c} THEN Other ELSE by[d]]
    BY <1>5 DEF TakesCoin, Chain, With, ChainOK
  <2>2. \A d \in Coins : by'[d] = IF d = c THEN Other ELSE by[d]
    BY <2>1
  <2>3. \A b \in Sends : \A d \in made[b] : d \in Coins
    BY DEF ChainOK
  <2>4. \A b \in Sends : Landed(b) => c \notin made[b]
    BY <2>1 DEF ChainOK, Spent
  <2>5. ~deep[c]
    BY <2>1 DEF ChainOK
  <2>6. ChainOK'
    BY <1>0, <2>1, <2>2, <2>3, <2>4 DEF ChainOK, Landed, Spent
  <2>7. \A b \in Sends : Doomed(b) => Doomed(b)'
    BY <1>0, <2>1, <2>2, <2>3, <2>5 DEF Doomed, Spent
  <2> QED BY <2>6, <2>7
<1>6. ASSUME NEW c \in Coins, BuryTake(c)
      PROVE  ChainOK' /\ \A b \in Sends : Doomed(b) => Doomed(b)'
  <2>1. /\ by[c] = Other /\ by' = by /\ out' = out
        /\ deep' = [d \in Coins |-> IF d \in {c} THEN TRUE ELSE deep[d]]
    BY <1>6 DEF BuryTake, Chain, With, ChainOK
  <2>2. \A d \in Coins : deep'[d] = (d = c \/ deep[d])
    BY <2>1 DEF ChainOK
  <2>3. \A b \in Sends : \A d \in made[b] : d \in Coins
    BY DEF ChainOK
  <2>4. \A b \in Sends : Landed(b) => c \notin made[b]
    BY <2>1 DEF ChainOK
  <2>5. deep' \in [Coins -> BOOLEAN]
    BY <2>1 DEF ChainOK
  <2>6. \A b \in Sends : Landed(b) => \A d, e \in made[b] : deep'[d] => deep'[e]
    BY <2>2, <2>3, <2>4 DEF ChainOK
  <2>7. \A d \in Coins : deep'[d] => Spent(d)
    BY <2>1, <2>2 DEF ChainOK, Spent
  <2>8. ChainOK'
    BY <1>0, <2>1, <2>5, <2>6, <2>7 DEF ChainOK, Landed, Spent
  <2>9. \A b \in Sends : Doomed(b) => Doomed(b)'
    BY <1>0, <2>1, <2>2, <2>3 DEF Doomed, Spent
  <2> QED BY <2>8, <2>9
<1>7. ASSUME NEW c \in Coins, UndoTake(c)
      PROVE  ChainOK' /\ \A b \in Sends : Doomed(b) => Doomed(b)'
  <2>1. /\ by[c] = Other /\ ~deep[c] /\ deep' = deep /\ out' = out
        /\ by' = [d \in Coins |-> IF d \in {c} THEN Nobody ELSE by[d]]
    BY <1>7 DEF UndoTake, Chain, With, ChainOK
  <2>2. \A d \in Coins : by'[d] = IF d = c THEN Nobody ELSE by[d]
    BY <2>1
  <2>3. \A b \in Sends : \A d \in made[b] : d \in Coins
    BY DEF ChainOK
  <2>4. \A b \in Sends : Landed(b) => c \notin made[b]
    BY <2>1 DEF ChainOK
  <2>5. ChainOK'
    BY <1>0, <2>1, <2>2, <2>3, <2>4 DEF ChainOK, Landed, Spent
  <2>6. \A b \in Sends : Doomed(b) => Doomed(b)'
    BY <1>0, <2>1, <2>2, <2>3 DEF Doomed, Spent
  <2> QED BY <2>5, <2>6
<1>8. ChainOK' /\ \A b \in Sends : Doomed(b) => Doomed(b)'
  BY <1>1, <1>2, <1>3, <1>4, <1>5, <1>6, <1>7 DEF World
<1> QED BY <1>0, <1>8

\* A call that runs makes at most the next send and touches no other.
LEMMA CallMakes ==
  ASSUME ChainOK, Numbered, kind \in {"fund", "burn"}, NEW excluded,
         Calls(NextSend, excluded), UNCHANGED <<chainVars, kind>>
  PROVE  /\ ChainOK' /\ Numbered' /\ sent \subseteq sent' /\ sent' \subseteq sent \cup {NextSend}
         /\ sent' # {} /\ sent' \subseteq sent \cup {Cardinality(sent')}
         /\ \A a \in sent : made'[a] = made[a]
         /\ \A a \in Sends : made[a] \in {{}, made'[a]}
         /\ \A a \in sent : Doomed(a) => Doomed(a)'
<1> USE Names
<1>1. PICK S \in SUBSET Coins :
        Cardinality(S) \in Inputs[kind] /\ made' = [made EXCEPT ![NextSend] = S]
  BY DEF Calls
<1>2. S # {}
  BY <1>1, FS_EmptySet, WarpAssumption DEF WarpAssumption
<1> DEFINE m == Cardinality(sent)
<1>3. m \in Nat /\ m <= MaxSends /\ sent = 1 .. m /\ NextSend = m + 1 /\ MaxSends \in Nat \ {0}
  BY Counted, WarpAssumption DEF WarpAssumption, NextSend
<1>4. made' \in [Sends -> SUBSET Coins] /\ by' = by /\ deep' = deep /\ out' = out
  BY <1>1 DEF ChainOK, chainVars
<1>5. \A a \in Sends : made'[a] = IF a = NextSend THEN S ELSE made[a]
  BY <1>1 DEF ChainOK
<1>6. NextSend \notin sent
  BY Counted
<1>7. sent' = sent \cup ({NextSend} \cap Sends)
  BY <1>2, <1>5, <1>6 DEF sent
<1>8. Numbered' /\ sent' # {} /\ sent' \subseteq sent \cup {Cardinality(sent')}
  <2>1. m < MaxSends \/ m = MaxSends
    BY <1>3
  <2>2. CASE m < MaxSends
    <3>1. sent' = 1 .. (m + 1) /\ m + 1 \in 0 .. MaxSends
      BY <1>3, <1>7, <2>2 DEF Sends
    <3>2. Cardinality(sent') = m + 1
      BY <1>3, <3>1, FS_Interval
    <3>3. m + 1 \in sent'
      BY <1>3, <3>1
    <3>4. sent' \subseteq sent \cup {m + 1}
      BY <1>3, <1>7
    <3>5. Numbered'
      BY <3>1 DEF Numbered
    <3> QED BY <3>2, <3>3, <3>4, <3>5
  <2>3. CASE m = MaxSends
    <3>1. sent' = sent
      BY <1>3, <1>7, <2>3 DEF Sends
    <3>2. 1 \in sent
      BY <1>3, <2>3
    <3>3. Numbered'
      BY <3>1, <1>3 DEF Numbered
    <3> QED BY <3>1, <3>2, <3>3
  <2> QED BY <2>1, <2>2, <2>3
<1>9. \A a \in sent : made'[a] = made[a]
  BY <1>5, <1>6 DEF sent
<1>10. \A a \in Sends : made[a] \in {{}, made'[a]}
  BY <1>5, <1>6 DEF sent
<1>11. \A a \in sent : Doomed(a) => Doomed(a)'
  BY <1>4, <1>9 DEF Doomed, Spent
<1>12. ChainOK'
  <2>1. \A a \in Sends : Landed(a) => a \in sent'
    BY <1>7 DEF ChainOK
  <2>2. \A a \in Sends : Landed(a) => made'[a] = made[a]
    BY <1>9 DEF ChainOK
  <2> QED BY <1>4, <2>1, <2>2 DEF ChainOK, Landed, Spent
<1> QED BY <1>7, <1>8, <1>9, <1>10, <1>11, <1>12

-----------------------------------------------------------------------------
(* The row of a burn.                                                      *)

BurnStates == {"BURN_SENT", "BURNING", "FAILED"} \cup Closed

\* What an edit leaves alone that keeps the books.
SameBook(i, j) ==
  /\ DOMAIN i = JobFields /\ i.status \in BurnStates /\ i.from = j.from
  /\ i.marker = j.marker /\ i.removals = j.removals
  /\ i.priors = j.priors /\ i.coins = j.coins /\ i.seq = j.seq

\* Status, deadline, exclusions, the pin and the dead list are not the books.
LEMMA SameBookKeeps ==
  ASSUME NEW j, BookOK(j), NEW i, SameBook(i, j)
  PROVE  BookOK(i) /\ Stray(i) = Stray(j) /\ (Blank(i) <=> Blank(j))
<1>1. Stray(i) = Stray(j)
  BY DEF Stray, OnBooks, InPriors, SameBook
<1>2. BookShape(i) /\ FreshNumbers(i)
  BY DEF BookOK, BookShape, FreshNumbers, InPriors, SameBook, BurnStates
<1>3. OneOpen(i)
  BY <1>1 DEF BookOK, OneOpen, SameBook
<1> QED BY <1>1, <1>2, <1>3 DEF BookOK, SameBook, Blank

\* Waiting for the next tick keeps them.
LEMMA PolledKeeps ==
  ASSUME NEW j, BookOK(j)
  PROVE  SameBook(Polled(j), j)
  BY DEF BookOK, BookShape, Polled, SameBook, JobFields, BurnStates

\* The row is written and nothing else moves.
LEMMA RowIsWritten ==
  ASSUME NEW i, job' = i, UNCHANGED <<chainVars, made>>, BookOK(i)
  PROVE  BookOK(job)' /\ Stray(job)' = Stray(i) /\ (Blank(job)' <=> Blank(i))
<1>1. sent' = sent /\ \A a \in Sends : Doomed(a)' <=> Doomed(a)
  BY DEF chainVars, sent, Doomed, Spent
<1>2. made' = made
  OBVIOUS
<1>3. Stray(job)' = Stray(i)
  BY <1>1, <1>2 DEF Stray, OnBooks, InPriors, sent
<1>4. BookShape(job)' /\ FreshNumbers(job)'
  BY <1>2 DEF BookOK, BookShape, FreshNumbers, InPriors
<1>5. OneOpen(job)'
  BY <1>1, <1>2, <1>3 DEF BookOK, OneOpen
<1> QED BY <1>3, <1>4, <1>5 DEF BookOK, Blank

\* The same of the row a refusal puts back.
LEMMA BeforeIsWritten ==
  ASSUME NEW i, before' = i, UNCHANGED <<chainVars, made>>, BookOK(i)
  PROVE  BookOK(before)'
<1>1. sent' = sent /\ \A a \in Sends : Doomed(a)' <=> Doomed(a)
  BY DEF chainVars, sent, Doomed, Spent
<1>2. made' = made
  OBVIOUS
<1>3. Stray(before)' = Stray(i)
  BY <1>1, <1>2 DEF Stray, OnBooks, InPriors, sent
<1>4. BookShape(before)' /\ FreshNumbers(before)'
  BY <1>2 DEF BookOK, BookShape, FreshNumbers, InPriors
<1>5. OneOpen(before)'
  BY <1>1, <1>2, <1>3 DEF BookOK, OneOpen
<1> QED BY <1>4, <1>5 DEF BookOK

\* An entry that is appended is on the list, and so is all that was.
LEMMA AppendLists ==
  ASSUME NEW s \in Seq(Keys), NEW k \in Keys
  PROVE  /\ Append(s, k) \in Seq(Keys) /\ Len(Append(s, k)) = Len(s) + 1
         /\ \A x : (\E i \in DOMAIN Append(s, k) : Append(s, k)[i] = x)
                   <=> x = k \/ \E i \in DOMAIN s : s[i] = x
<1>1. /\ Append(s, k) \in Seq(Keys) /\ Len(Append(s, k)) = Len(s) + 1 /\ Len(s) \in Nat
      /\ DOMAIN s = 1 .. Len(s) /\ DOMAIN Append(s, k) = 1 .. (Len(s) + 1)
      /\ Append(s, k)[Len(s) + 1] = k /\ \A i \in 1 .. Len(s) : Append(s, k)[i] = s[i]
  OBVIOUS
<1> QED BY <1>1

\* A retired send's books: its own coins are filed, and no other entry is lost.
LEMMA Retires ==
  ASSUME NEW j, BookOK(j), j.marker # NoTx, NEW k \in Keys, NEW coins, NEW proven,
         coins # {},
         \A b \in Stray(j) : Doomed(b) /\ made[b] = coins,
         \/ k = UnnamedKey(j)
         \/ \E a \in Sends : k = Tx(a) /\ coins = made[a]
  PROVE  LET i == Replacement(j, k, coins, proven)
         IN BookOK(i) /\ i.marker = NoTx /\ Stray(i) = {}
<1> DEFINE i == Replacement(j, k, coins, proven)
<1> USE Names
<1>1. /\ DOMAIN i = JobFields /\ i.status = j.status /\ i.from = j.from
      /\ i.marker = NoTx /\ i.removals = {}
      /\ i.coins = [j.coins EXCEPT ![k] = coins]
      /\ i.priors = IF InPriors(j, k) THEN j.priors ELSE Append(j.priors, k)
      /\ i.seq = IF k[1] = "unnamed" THEN k[2] ELSE j.seq
  BY DEF BookOK, BookShape, Replacement, JobFields
<1> HIDE DEF i
<1>2. /\ j.priors \in Seq(Keys) /\ Len(j.priors) < MaxSends /\ DOMAIN j.coins = Keys
      /\ j.seq \in Nat /\ j.seq <= Len(j.priors)
  BY DEF BookOK, BookShape, FreshNumbers
<1>3. \A x \in Keys : i.coins[x] = IF x = k THEN coins ELSE j.coins[x]
  BY <1>1, <1>2
<1>4. \A x : InPriors(i, x) <=> x = k \/ InPriors(j, x)
  <2>1. CASE InPriors(j, k)
    BY <1>1, <2>1 DEF InPriors
  <2>2. CASE ~InPriors(j, k)
    <3>1. i.priors = Append(j.priors, k)
      BY <1>1, <2>2
    <3>2. \A x : (\E h \in DOMAIN Append(j.priors, k) : Append(j.priors, k)[h] = x)
                   <=> x = k \/ \E h \in DOMAIN j.priors : j.priors[h] = x
      <4>1. j.priors \in Seq(Keys) /\ k \in Keys
        BY <1>2
      <4> QED BY ONLY <4>1, AppendLists, Zenon
    <3> QED BY <3>1, <3>2 DEF InPriors
  <2> QED BY <2>1, <2>2
<1>5. ASSUME k = UnnamedKey(j)
      PROVE  /\ FreshNumbers(i) /\ BookShape(i)
             /\ \A b \in sent : OnBooks(j, b) => OnBooks(i, b)
  <2>1. k = Unnamed(j.seq + 1) /\ j.seq + 1 \in 1 .. MaxSends /\ i.seq = j.seq + 1
    BY <1>1, <1>2, <1>5, WarpAssumption DEF UnnamedKey, Unnamed, WarpAssumption
  <2>2. j.coins[k] = {} /\ ~InPriors(j, k)
    BY <2>1, <1>2 DEF BookOK, FreshNumbers
  <2>3. i.priors \in Seq(Keys) /\ Len(i.priors) = Len(j.priors) + 1
    BY <1>1, <1>2, <2>2, AppendLists
  <2>4. FreshNumbers(i)
    <3>1. ASSUME NEW n \in 1 .. MaxSends, n > i.seq
          PROVE  i.coins[Unnamed(n)] = {} /\ ~InPriors(i, Unnamed(n))
      <4>1. n > j.seq /\ n # j.seq + 1 /\ n \in Nat
        BY <2>1, <1>2, <3>1
      <4>2. Unnamed(n) # k /\ Unnamed(n) \in Keys
        BY <2>1, <4>1, <1>2, <3>1 DEF Unnamed, Keys
      <4> QED BY <4>1, <4>2, <1>3, <1>4 DEF BookOK, FreshNumbers
    <3> QED BY <3>1, <2>1, <2>3, <1>2 DEF FreshNumbers
  <2>5. BookShape(i)
    <3>1. \A a \in Sends : Tx(a) # k
      BY <2>1, <1>2
    <3>2. \A a \in Sends : Tx(a) \in Keys
      BY DEF Keys
    <3>3. Len(i.priors) <= MaxSends
      BY <2>3, <1>2, WarpAssumption DEF WarpAssumption
    <3> QED BY <1>1, <1>2, <1>3, <2>3, <3>1, <3>2, <3>3 DEF BookOK, BookShape
  <2>6. \A b \in sent : OnBooks(j, b) => OnBooks(i, b)
    <3>1. ASSUME NEW b \in sent, NEW x \in Keys, j.coins[x] = made[b]
          PROVE  i.coins[x] = made[b]
      BY <3>1, <2>2, <1>3 DEF sent
    <3> QED BY <3>1, <1>4 DEF OnBooks
  <2> QED BY <2>4, <2>5, <2>6
<1>6. ASSUME NEW a \in Sends, k = Tx(a), coins = made[a]
      PROVE  /\ FreshNumbers(i) /\ BookShape(i)
             /\ \A b \in sent : OnBooks(j, b) => OnBooks(i, b)
  <2>1. i.seq = j.seq
    BY <1>1, <1>6 DEF Tx
  <2>2. /\ i.priors \in Seq(Keys) /\ Len(i.priors) <= MaxSends
        /\ Len(j.priors) <= Len(i.priors)
    <3>1. CASE InPriors(j, k)
      BY <1>1, <1>2, <3>1, WarpAssumption DEF WarpAssumption
    <3>2. CASE ~InPriors(j, k)
      <4>1. i.priors = Append(j.priors, k)
        BY <1>1, <3>2
      <4>2. i.priors \in Seq(Keys) /\ Len(i.priors) = Len(j.priors) + 1
        BY <1>2, <4>1, AppendLists
      <4> QED BY <4>2, <1>2, WarpAssumption DEF WarpAssumption
    <3> QED BY <3>1, <3>2
  <2>3. FreshNumbers(i)
    <3>1. ASSUME NEW n \in 1 .. MaxSends, n > i.seq
          PROVE  i.coins[Unnamed(n)] = {} /\ ~InPriors(i, Unnamed(n))
      <4>1. n \in Nat /\ n \in 0 .. MaxSends
        BY <3>1, WarpAssumption DEF WarpAssumption
      <4>2. Unnamed(n) # k /\ Unnamed(n) \in Keys
        BY <1>6, <4>1 DEF Keys
      <4> QED BY <2>1, <4>2, <1>3, <1>4, <3>1 DEF BookOK, FreshNumbers
    <3>2. i.seq \in Nat /\ i.seq <= Len(i.priors)
      <4>1. Len(i.priors) \in Nat /\ Len(j.priors) \in Nat
        BY <2>2, <1>2
      <4> QED BY <4>1, <2>1, <2>2, <1>2
    <3> QED BY <3>1, <3>2 DEF FreshNumbers
  <2>4. BookShape(i)
    <3>1. \A b \in Sends : i.coins[Tx(b)] \in {{}, made[b]}
      <4>1. \A b \in Sends : Tx(b) \in Keys
        BY DEF Keys
      <4>2. \A b \in Sends : Tx(b) = k => b = a
        BY <1>6
      <4> QED BY <4>1, <4>2, <1>3, <1>6 DEF BookOK, BookShape
    <3> QED BY <1>1, <1>2, <2>2, <3>1 DEF BookOK, BookShape
  <2>5. \A b \in sent : OnBooks(j, b) => OnBooks(i, b)
    <3>1. ASSUME NEW b \in sent, NEW x \in Keys, j.coins[x] = made[b]
          PROVE  i.coins[x] = made[b]
      <4>1. CASE x = k
        <5>1. made[b] # {}
          BY DEF sent
        <5>2. j.coins[k] \in {{}, made[a]}
          BY <1>6 DEF BookOK, BookShape
        <5> QED BY <4>1, <5>1, <5>2, <3>1, <1>3, <1>6
      <4>2. CASE x # k
        BY <4>2, <3>1, <1>3
      <4> QED BY <4>1, <4>2
    <3> QED BY <3>1, <1>4 DEF OnBooks
  <2> QED BY <2>3, <2>4, <2>5
<1>7. BookShape(i) /\ FreshNumbers(i) /\ \A b \in sent : OnBooks(j, b) => OnBooks(i, b)
  BY <1>5, <1>6
<1>8. Stray(i) = {}
  <2>1. ASSUME NEW b \in sent PROVE b \notin Stray(i)
    <3>1. CASE b \in Stray(j)
      BY <3>1, <1>3 DEF Stray, OnBooks
    <3>2. CASE b \notin Stray(j)
      BY <3>2, <1>7 DEF Stray
    <3> QED BY <3>1, <3>2
  <2> QED BY <2>1 DEF Stray
<1>9. OneOpen(i)
  BY <1>1, <1>8 DEF OneOpen
<1> QED BY <1>1, <1>7, <1>8, <1>9 DEF BookOK, i

-----------------------------------------------------------------------------
(* What the ticks and the operator do to a burn.                           *)

\* What a step between two sends leaves: a row in order, and no call revived.
Kept == BookOK(job)' /\ CallsOK'

\* A row in order is written while no call is in flight.
LEMMA Rewritten ==
  ASSUME rpc = "idle", CallsOK, NEW i, job' = i, BookOK(i),
         UNCHANGED <<chainVars, made, rpcVars>>,
         late # {} => Blank(i) /\ Stray(i) = {}
  PROVE  Kept
<1>1. BookOK(job)' /\ Stray(job)' = Stray(i) /\ (Blank(job)' <=> Blank(i))
  BY RowIsWritten
<1>2. rpc' = "idle" /\ late' = late
  BY DEF rpcVars
<1>3. CallsOK'
  BY <1>1, <1>2 DEF CallsOK
<1> QED BY <1>1, <1>3 DEF Kept

\* An edit that leaves the books alone, while no call is in flight.
LEMMA Edited ==
  ASSUME rpc = "idle", BookOK(job), CallsOK, NEW i, job' = i, SameBook(i, job),
         UNCHANGED <<chainVars, made, rpcVars>>
  PROVE  Kept
<1>1. BookOK(i) /\ Stray(i) = Stray(job) /\ (Blank(i) <=> Blank(job))
  BY SameBookKeeps
<1> QED BY <1>1, Rewritten DEF CallsOK

\* Once nothing is left on record that could land, the books may be written and
\* the next send reserved.
LEMMA SendsAgainKeeps ==
  ASSUME kind = "burn", rpc = "idle", BookOK(job), CallsOK, late = {},
         NEW j, BookOK(j), j.marker = NoTx, NEW see, see.held \subseteq sent,
         SendsAgain(j, see)
  PROVE  Kept
<1>1. Stray(j) = {} /\ j.removals = {}
  BY DEF BookOK, OneOpen
<1>2. Existing(j, {}, see) = 0
  <2>1. 1 \in Sends
    BY WarpAssumption DEF Sends, WarpAssumption
  <2> QED BY <1>1, <2>1, ExistingIsStray
<1>3. Stays(job) \/ Reserves(j, see)
  BY <1>2 DEF SendsAgain
<1>4. CASE Stays(job)
  <2>1. job' = Polled(job) /\ UNCHANGED <<chainVars, made, rpcVars>>
    BY <1>4 DEF Stays
  <2> QED BY <2>1, PolledKeeps, Edited
<1>5. CASE Reserves(j, see)
  <2>1. PICK dead, exclude :
          /\ job' = [j EXCEPT !.marker = Unknown, !.dead = dead, !.exclude = exclude]
          /\ Len(j.priors) < MaxSends
          /\ rpc' = "reserved" /\ before' = job /\ late' = {} /\ UNCHANGED <<chainVars, made>>
    BY <1>5 DEF Reserves
  <2> DEFINE i == [j EXCEPT !.marker = Unknown, !.dead = dead, !.exclude = exclude]
  <2>2. /\ DOMAIN i = JobFields /\ i.status = j.status /\ i.from = j.from
        /\ i.marker = Unknown /\ i.removals = {} /\ i.priors = j.priors /\ i.coins = j.coins
        /\ i.seq = j.seq
    BY <1>1 DEF BookOK, BookShape, JobFields
  <2> HIDE DEF i
  <2>3. Stray(i) = {}
    BY <2>2, <1>1 DEF Stray, OnBooks, InPriors
  <2>4. BookShape(i) /\ FreshNumbers(i)
    BY <2>1, <2>2 DEF BookOK, BookShape, FreshNumbers, InPriors
  <2>5. OneOpen(i)
    BY <2>2, <2>3, Names DEF OneOpen
  <2>6. BookOK(i) /\ Blank(i)
    BY <2>2, <2>4, <2>5 DEF BookOK, Blank
  <2>7. job' = i
    BY <2>1 DEF i
  <2>8. BookOK(job)' /\ Stray(job)' = {} /\ Blank(job)'
    BY <2>1, <2>3, <2>6, <2>7, RowIsWritten
  <2>9. BookOK(before)'
    BY <2>1, BeforeIsWritten
  <2> QED BY <2>1, <2>8, <2>9 DEF Kept, CallsOK
<1> QED BY <1>3, <1>4, <1>5

\* What a judgement knows of a named send is the coins it spends.
LEMMA KnownCoins ==
  ASSUME BookOK(job), NEW a \in Sends, job.marker = Tx(a), NEW see
  PROVE  /\ a \in sent /\ Removals(job.removals, a, see) \in {{}, made[a]}
         /\ Id(job.marker) = a
  BY Names DEF BookOK, OneOpen, Removals

\* No coin, no death.
LEMMA DeadHasCoins ==
  ASSUME NEW coins, NEW id, NEW unique, NEW see, Judged(coins, id, unique, see) = "dead"
  PROVE  coins # {}
<1>1. \E c \in coins : AtDepth(c)
  BY DEF Judged
<1> QED BY <1>1

\* The send on record, judged dead under its id, is retired.
LEMMA NamedIsRetired ==
  ASSUME ChainOK, BookOK(job), NEW a \in Sends, job.marker = Tx(a), NEW see, NEW unique,
         Judged(Removals(job.removals, a, see), a, unique, see) = "dead"
  PROVE  LET i == Replacement(job, job.marker, Removals(job.removals, a, see), TRUE)
         IN BookOK(i) /\ i.marker = NoTx /\ Stray(i) = {}
<1> DEFINE coins == Removals(job.removals, a, see)
<1>1. a \in sent /\ coins = made[a] /\ coins # {}
  BY KnownCoins, DeadHasCoins
<1> HIDE DEF coins
<1>2. Doomed(a)
  BY <1>1, DeadIsDoomed DEF coins
<1>3. \A b \in Stray(job) : Doomed(b) /\ made[b] = coins
  BY <1>1, <1>2 DEF BookOK, OneOpen
<1>4. job.marker \in Keys /\ job.marker # NoTx
  BY Names DEF Keys
<1>5. /\ BookOK(Replacement(job, job.marker, coins, TRUE))
      /\ Replacement(job, job.marker, coins, TRUE).marker = NoTx
      /\ Stray(Replacement(job, job.marker, coins, TRUE)) = {}
  BY <1>1, <1>3, <1>4, Retires
<1> QED BY <1>5 DEF coins

\* ... and one that has only its coins, under a number of its own.
LEMMA UnnamedIsRetired ==
  ASSUME ChainOK, BookOK(job), job.marker = Unknown, NEW see, NEW unique,
         Judged(job.removals, 0, unique, see) = "dead"
  PROVE  LET i == Replacement(job, UnnamedKey(job), job.removals, TRUE)
         IN BookOK(i) /\ i.marker = NoTx /\ Stray(i) = {}
<1>1. job.removals # {}
  BY DeadHasCoins
<1>2. \A b \in Stray(job) : made[b] = job.removals /\ b \in sent
  BY <1>1 DEF BookOK, OneOpen, Stray
<1>3. \A b \in Stray(job) : Doomed(b)
  BY <1>2, DeadIsDoomed
<1>4. Unknown # NoTx
  BY Names
<1>5. UnnamedKey(job) \in Keys
  <2>1. /\ job.seq \in Nat /\ Len(job.priors) \in Nat /\ job.seq <= Len(job.priors)
        /\ Len(job.priors) < MaxSends
    BY <1>4 DEF BookOK, BookShape, FreshNumbers
  <2>2. job.seq + 1 \in 0 .. MaxSends
    BY <2>1, WarpAssumption DEF WarpAssumption
  <2> QED BY <2>2 DEF UnnamedKey, Keys
<1> QED BY <1>1, <1>2, <1>3, <1>4, <1>5, Retires

\* A tick keeps a burn's row in order.
LEMMA TickKeeps ==
  ASSUME WarpInv, kind = "burn", Tick
  PROVE  Kept
<1> USE Names
<1>0. ChainOK /\ BookOK(job) /\ CallsOK
  BY DEF WarpInv, BurnInv
<1>1. /\ job.status \in BurnStates /\ job.from = "BURN_SENT" /\ DOMAIN job = JobFields
      /\ Starting = "BURN_SENT"
  BY <1>0 DEF BookOK, BookShape, BurnStates, Starting
<1>2. CASE Expire
  <2> DEFINE j == [job EXCEPT !.from = job.status]
             i == [j EXCEPT !.status = "FAILED", !.polls = 0]
  <2>1. /\ job' = i /\ rpc = "idle" /\ UNCHANGED <<chainVars, made, rpcVars>>
        /\ job.status = "BURN_SENT"
    BY <1>1, <1>2 DEF Expire, Moves, Pending, BurnStates, Closed
  <2>2. SameBook(i, job)
    BY <2>1, <1>1 DEF SameBook, JobFields, BurnStates
  <2> HIDE DEF i
  <2> QED BY <1>0, <2>1, <2>2, Edited
<1>3. ASSUME Ticking, NEW see \in PassesIf(Sending \/ job.priors # <<>>),
             \/ TickArrived(see) \/ TickUnsent(see) \/ TickUnnamed(see)
             \/ TickRecorded(see) \/ TickFunded(see) \/ TickClaiming(see)
      PROVE  Kept
  <2>1. rpc = "idle" /\ see.held \subseteq sent
    <3>1. (Sending \/ job.priors # <<>>) \in BOOLEAN
      BY DEF Sending
    <3> QED BY <1>3, <3>1, HeldAreSent DEF Ticking
  <2>2. ASSUME Stays(job) PROVE Kept
    BY <1>0, <2>1, <2>2, PolledKeeps, Edited DEF Stays
  <2>3. CASE TickArrived(see)
    <3>1. PICK a : Moves([job EXCEPT !.pin = a], "BURNING")
      BY <2>3 DEF TickArrived
    <3> DEFINE j == [job EXCEPT !.pin = a]
               i == [j EXCEPT !.status = "BURNING", !.polls = 0]
    <3>2. job' = i /\ UNCHANGED <<chainVars, made, rpcVars>>
      BY <3>1 DEF Moves
    <3>3. SameBook(i, job)
      BY <1>1 DEF SameBook, JobFields, BurnStates
    <3> HIDE DEF i
    <3> QED BY <1>0, <2>1, <3>2, <3>3, Edited
  <2>4. CASE TickUnsent(see)
    <3>1. job.marker = NoTx /\ SendsAgain(job, see)
      BY <2>4 DEF TickUnsent
    <3>2. late = {}
      BY <1>0, <3>1 DEF CallsOK, Blank
    <3> QED BY <1>0, <2>1, <3>1, <3>2, SendsAgainKeeps
  <2>5. CASE TickUnnamed(see)
    <3> DEFINE a == Existing(job, job.removals, see)
               r == Replacement(job, UnnamedKey(job), job.removals, TRUE)
    <3>1. job.marker = Unknown
      BY <2>5 DEF TickUnnamed
    <3>2. CASE a # 0 /\ Stays(Adopts(job, a))
      <4>1. PICK u \in Sends : Stray(job) \subseteq {u}
        <5>1. 1 \in Sends
          BY WarpAssumption DEF Sends, WarpAssumption
        <5>2. \A b, c \in Stray(job) : b = c
          BY <1>0, <3>1 DEF BookOK, OneOpen
        <5>3. Stray(job) \subseteq Sends
          BY DEF Stray, sent
        <5> QED BY <5>1, <5>2, <5>3
      <4>2. a = u /\ u \in Stray(job)
        BY <2>1, <3>2, <4>1, ExistingIsStray
      <4> HIDE DEF a
      <4>3. a \in Sends /\ a \in sent /\ job.removals \in {{}, made[a]}
        BY <1>0, <3>1, <4>2 DEF BookOK, OneOpen, Stray
      <4> DEFINE j == [job EXCEPT !.marker = Tx(a), !.pin = IF kind = "burn" THEN a ELSE @]
                 i == [j EXCEPT !.polls = @ + 1]
      <4>4. job' = i /\ UNCHANGED <<chainVars, made, rpcVars>>
        BY <3>2 DEF Stays, Adopts, Polled
      <4>5. /\ DOMAIN i = JobFields /\ i.status = job.status /\ i.from = job.from
            /\ i.marker = Tx(a) /\ i.removals = job.removals /\ i.priors = job.priors
            /\ i.coins = job.coins /\ i.seq = job.seq
        BY <1>1 DEF JobFields
      <4> HIDE DEF i
      <4>6. Stray(i) = Stray(job)
        BY <4>5 DEF Stray, OnBooks, InPriors
      <4>7. BookShape(i) /\ FreshNumbers(i)
        BY <1>0, <3>1, <4>3, <4>5 DEF BookOK, BookShape, FreshNumbers, InPriors
      <4>8. OneOpen(i)
        BY <4>1, <4>2, <4>3, <4>5, <4>6 DEF OneOpen
      <4>9. late = {}
        BY <1>0, <4>2 DEF CallsOK
      <4> QED BY <1>0, <2>1, <4>4, <4>7, <4>8, <4>9, Rewritten DEF BookOK
    <3>3. CASE /\ job.removals # {} /\ Judged(job.removals, 0, Unique(job), see) = "dead"
               /\ SendsAgain(r, see)
      <4>1. BookOK(r) /\ r.marker = NoTx
        BY <1>0, <3>1, <3>3, UnnamedIsRetired
      <4>2. late = {}
        BY <1>0, <3>3 DEF CallsOK, Blank
      <4> HIDE DEF r
      <4> QED BY <1>0, <2>1, <3>3, <4>1, <4>2, SendsAgainKeeps
    <3> HIDE DEF a, r
    <3>4. \/ a # 0 /\ Stays(Adopts(job, a))
          \/ /\ job.removals # {} /\ Judged(job.removals, 0, Unique(job), see) = "dead"
             /\ SendsAgain(r, see)
          \/ Stays(job)
      BY <2>5 DEF TickUnnamed, a, r
    <3> QED BY <2>2, <3>2, <3>3, <3>4
  <2>6. CASE TickRecorded(see)
    <3> DEFINE a     == Id(job.marker)
               coins == Removals(job.removals, a, see)
               r     == Replacement(job, job.marker, coins, TRUE)
    <3>1. PICK b \in Sends : job.marker = Tx(b)
      BY <1>0, <2>6 DEF TickRecorded, BookOK, BookShape, NoTx, Id
    <3>2. a = b /\ b \in sent /\ coins \in {{}, made[b]}
      BY <1>0, <3>1, KnownCoins
    <3>3. late = {}
      BY <1>0, <3>1 DEF CallsOK, Blank
    <3>4. CASE Judged(coins, a, Unique(job), see) = "dead" /\ SendsAgain(r, see)
      <4>1. BookOK(r) /\ r.marker = NoTx
        <5>1. Judged(Removals(job.removals, b, see), b, Unique(job), see) = "dead"
          BY <3>2, <3>4
        <5>2. /\ BookOK(Replacement(job, job.marker, Removals(job.removals, b, see), TRUE))
              /\ Replacement(job, job.marker, Removals(job.removals, b, see), TRUE).marker = NoTx
          BY <1>0, <3>1, <5>1, NamedIsRetired
        <5> QED BY <3>2, <5>2
      <4> HIDE DEF r
      <4> QED BY <1>0, <2>1, <3>3, <3>4, <4>1, SendsAgainKeeps
    <3>5. CASE Stays([job EXCEPT !.removals = coins])
      <4> HIDE DEF coins
      <4> DEFINE j == [job EXCEPT !.removals = coins]
                 i == [j EXCEPT !.polls = @ + 1]
      <4>1. job' = i /\ UNCHANGED <<chainVars, made, rpcVars>>
        BY <3>5 DEF Stays, Polled
      <4>2. /\ DOMAIN i = JobFields /\ i.status = job.status /\ i.from = job.from
            /\ i.marker = job.marker /\ i.removals = coins /\ i.priors = job.priors
            /\ i.coins = job.coins /\ i.seq = job.seq
        BY <1>1 DEF JobFields
      <4> HIDE DEF i
      <4>3. Stray(i) = Stray(job)
        BY <4>2 DEF Stray, OnBooks, InPriors
      <4>4. BookShape(i) /\ FreshNumbers(i)
        BY <1>0, <4>2 DEF BookOK, BookShape, FreshNumbers, InPriors
      <4>5. OneOpen(i)
        BY <1>0, <3>1, <3>2, <4>2, <4>3 DEF BookOK, OneOpen
      <4> QED BY <1>0, <2>1, <3>3, <4>1, <4>4, <4>5, Rewritten DEF BookOK
    <3> QED BY <2>6, <3>4, <3>5 DEF TickRecorded
  <2>7. ~TickFunded(see) /\ ~TickClaiming(see)
    BY <1>1 DEF TickFunded, TickClaiming, BurnStates, Closed
  <2> QED BY <1>3, <2>3, <2>4, <2>5, <2>6, <2>7
<1> QED BY <1>2, <1>3 DEF Tick

\* So does the operator.
LEMMA OperatorKeeps ==
  ASSUME WarpInv, kind = "burn", Operator
  PROVE  Kept
<1> USE Names
<1>0. ChainOK /\ BookOK(job) /\ CallsOK
  BY DEF WarpInv, BurnInv
<1>1. /\ job.status \in BurnStates /\ job.from = "BURN_SENT" /\ DOMAIN job = JobFields
      /\ Starting = "BURN_SENT"
  BY <1>0 DEF BookOK, BookShape, BurnStates, Starting
<1>2. CASE Abandon
  <2> DEFINE s == IF Claimed THEN "COMPLETED" ELSE "CANCELLED"
             i == [job EXCEPT !.abandoned = TRUE, !.status = s]
  <2>1. job' = i /\ rpc = "idle" /\ UNCHANGED <<chainVars, made, rpcVars>>
    BY <1>2 DEF Abandon, Rewrites
  <2>2. s \in BurnStates
    BY DEF BurnStates, Closed
  <2> HIDE DEF s
  <2>3. SameBook(i, job)
    BY <1>1, <2>2 DEF SameBook, JobFields
  <2> HIDE DEF i
  <2> QED BY <1>0, <2>1, <2>3, Edited
<1>3. CASE Retry
  <2>1. PICK see : /\ rpc = "idle"
                   /\ job' = [Released(see) EXCEPT !.status = "BURN_SENT"]
                   /\ UNCHANGED <<chainVars, made, rpcVars>>
    BY <1>1, <1>3 DEF Retry, Rewrites
  <2>2. BookOK(Released(see)) /\ (late # {} => Blank(Released(see)) /\ Stray(Released(see)) = {})
    <3> DEFINE a     == Id(job.marker)
               coins == Removals(job.removals, a, see)
               v     == Judged(coins, a, Unique(job), see)
               key   == IF job.marker = Unknown THEN UnnamedKey(job) ELSE job.marker
               known == job.marker # Unknown \/ coins # {}
               r     == Replacement(job, key, coins, known /\ v = "dead")
    <3>1. \/ Released(see) = job
          \/ /\ Released(see) = r /\ job.marker # NoTx /\ known /\ v = "dead"
      BY DEF Released, MayRelease
    <3>2. CASE Released(see) = job
      BY <1>0, <3>2 DEF CallsOK
    <3>3. CASE Released(see) = r /\ job.marker # NoTx /\ known /\ v = "dead"
      <4>1. r = Replacement(job, key, coins, TRUE)
        BY <3>3
      <4>2. CASE job.marker = Unknown
        <5>1. a = 0 /\ coins = job.removals /\ key = UnnamedKey(job)
          BY <4>2 DEF Removals
        <5>2. BookOK(r) /\ job.removals # {}
          BY <1>0, <3>3, <4>1, <4>2, <5>1, UnnamedIsRetired, DeadHasCoins
        <5> QED BY <1>0, <3>3, <5>2 DEF CallsOK, Blank
      <4>3. CASE job.marker # Unknown
        <5>1. PICK b \in Sends : job.marker = Tx(b)
          BY <1>0, <3>3, <4>3 DEF BookOK, BookShape
        <5>2. a = b /\ key = job.marker
          BY <5>1
        <5>3. BookOK(r)
          BY <1>0, <3>3, <4>1, <5>1, <5>2, NamedIsRetired
        <5> QED BY <1>0, <3>3, <4>3, <5>3 DEF CallsOK, Blank
      <4> QED BY <4>2, <4>3
    <3> QED BY <3>1, <3>2, <3>3
  <2> DEFINE j == Released(see)
             i == [j EXCEPT !.status = "BURN_SENT"]
  <2> HIDE DEF j
  <2>3. SameBook(i, j)
    BY <2>2 DEF SameBook, BookOK, BookShape, JobFields, BurnStates, j
  <2> HIDE DEF i
  <2>4. BookOK(i) /\ Stray(i) = Stray(j) /\ (Blank(i) <=> Blank(j))
    BY <2>2, <2>3, SameBookKeeps DEF j
  <2>5. job' = i
    BY <2>1 DEF i, j
  <2> QED BY <1>0, <2>1, <2>2, <2>4, <2>5, Rewritten DEF j
<1>4. ~SweepPushes /\ ~SweepEnds
  BY DEF SweepPushes, SweepEnds
<1> QED BY <1>2, <1>3, <1>4 DEF Operator

-----------------------------------------------------------------------------
(* The send RPC, the chain, and the theorem.                               *)

\* A blank row whose books rule out every send stays in order while the wallet
\* makes the next one, which is then the only one they do not rule out.
LEMMA CallKeepsRow ==
  ASSUME WarpInv, kind = "burn", Blank(job), Stray(job) = {}, NEW excluded,
         Calls(NextSend, excluded), UNCHANGED <<chainVars, kind, job>>
  PROVE  /\ BookOK(job)' /\ Blank(job)' /\ ChainOK' /\ Numbered' /\ sent' # {}
         /\ Stray(job)' \subseteq {Cardinality(sent')}
<1> USE Names
<1>0. ChainOK /\ Numbered /\ BookOK(job) /\ kind \in {"fund", "burn"} /\ job' = job
  BY DEF WarpInv, BurnInv
<1>1. /\ ChainOK' /\ Numbered' /\ sent' # {} /\ sent' \subseteq sent \cup {Cardinality(sent')}
      /\ \A a \in sent : made'[a] = made[a]
      /\ \A a \in Sends : made[a] \in {{}, made'[a]}
      /\ \A a \in sent : Doomed(a) => Doomed(a)'
  BY <1>0, CallMakes
<1>2. \A a \in sent : a \notin Stray(job)'
  BY <1>0, <1>1 DEF Stray, OnBooks, InPriors
<1>3. Stray(job)' \subseteq {Cardinality(sent')}
  BY <1>1, <1>2 DEF Stray
<1>4. Blank(job)'
  BY <1>0 DEF Blank
<1>5. BookShape(job)' /\ FreshNumbers(job)'
  <2>1. \A a \in Sends : job.coins[Tx(a)] \in {{}, made'[a]}
    BY <1>0, <1>1 DEF BookOK, BookShape
  <2> QED BY <1>0, <2>1 DEF BookOK, BookShape, FreshNumbers, InPriors
<1>6. OneOpen(job)'
  BY <1>3, <1>4 DEF OneOpen, Blank
<1> QED BY <1>1, <1>3, <1>4, <1>5, <1>6 DEF BookOK

\* Every step that is the chain's or somebody else's leaves the books true.
LEMMA WorldKeepsRows ==
  ASSUME WarpInv, kind = "burn", World
  PROVE  Kept
<1> USE Names
<1>0. ChainOK /\ BookOK(job) /\ CallsOK
  BY DEF WarpInv, BurnInv
<1>1. /\ made' = made /\ sent' = sent /\ UNCHANGED <<job, rpcVars>>
      /\ \A a \in Sends : Doomed(a) => Doomed(a)'
  BY <1>0, WorldKeeps
<1>2. job' = job /\ before' = before /\ rpc' = rpc /\ late' = late
  BY <1>1 DEF rpcVars
<1>3. sent \subseteq Sends
  BY DEF sent
<1>4. Stray(job)' \subseteq Stray(job)
  BY <1>1, <1>2, <1>3 DEF Stray, OnBooks, InPriors
<1>5. Stray(before)' \subseteq Stray(before)
  BY <1>1, <1>2, <1>3 DEF Stray, OnBooks, InPriors
<1>6. BookOK(job)'
  <2>1. BookShape(job)' /\ FreshNumbers(job)'
    BY <1>0, <1>1, <1>2 DEF BookOK, BookShape, FreshNumbers, InPriors
  <2>2. OneOpen(job)'
    BY <1>0, <1>1, <1>2, <1>4 DEF BookOK, OneOpen
  <2> QED BY <2>1, <2>2 DEF BookOK
<1>7. ASSUME BookOK(before) PROVE BookOK(before)'
  <2>1. BookShape(before)' /\ FreshNumbers(before)'
    BY <1>7, <1>1, <1>2 DEF BookOK, BookShape, FreshNumbers, InPriors
  <2>2. OneOpen(before)'
    BY <1>7, <1>1, <1>2, <1>5 DEF BookOK, OneOpen
  <2> QED BY <2>1, <2>2 DEF BookOK
<1>8. CallsOK'
  <2>1. Blank(job)' <=> Blank(job)
    BY <1>2 DEF Blank
  <2> QED BY <1>0, <1>1, <1>2, <1>4, <1>7, <2>1 DEF CallsOK
<1> QED BY <1>6, <1>8 DEF Kept

\* The wallet runs the call in flight.
LEMMA SendKeeps ==
  ASSUME WarpInv, kind = "burn", WalletSends
  PROVE  Kept
<1>0. ChainOK /\ BookOK(job) /\ CallsOK
  BY DEF WarpInv, BurnInv
<1>1. /\ rpc = "reserved" /\ Calls(NextSend, job.exclude) /\ rpc' = "made" /\ late' = late
      /\ UNCHANGED <<chainVars, kind, job>>
  BY DEF WalletSends
<1>2. Blank(job) /\ Stray(job) = {} /\ late = {}
  BY <1>0, <1>1 DEF CallsOK
<1>3. /\ BookOK(job)' /\ Blank(job)' /\ sent' # {}
      /\ Stray(job)' \subseteq {Cardinality(sent')}
  BY <1>1, <1>2, CallKeepsRow
<1> QED BY <1>1, <1>2, <1>3 DEF Kept, CallsOK

\* ... or one it was thought to have lost, which is the last.
LEMMA LateKeeps ==
  ASSUME WarpInv, kind = "burn", RunsLate
  PROVE  Kept
<1>0. ChainOK /\ BookOK(job) /\ CallsOK
  BY DEF WarpInv, BurnInv
<1>1. PICK excluded \in late : /\ Calls(NextSend, excluded) /\ late' = late \ {excluded}
                               /\ UNCHANGED <<chainVars, kind, job, rpc>>
  BY DEF RunsLate
<1>2. rpc = "idle" /\ Blank(job) /\ Stray(job) = {} /\ \E e \in late : late = {e}
  BY <1>0, <1>1 DEF CallsOK
<1>3. BookOK(job)'
  BY <1>1, <1>2, CallKeepsRow
<1>4. late' = {} /\ rpc' = "idle"
  BY <1>1, <1>2
<1> QED BY <1>3, <1>4 DEF Kept, CallsOK

\* An answer names the send that was made, or lists its coins, or neither.
LEMMA AnswerKeeps ==
  ASSUME WarpInv, kind = "burn", Answered
  PROVE  Kept
<1> USE Names
<1>0. ChainOK /\ Numbered /\ BookOK(job) /\ CallsOK
  BY DEF WarpInv, BurnInv
<1> DEFINE n == Cardinality(sent)
<1>1. PICK id \in {Tx(n), Unknown}, cs \in {made[n], {}} :
        job' = [Polled(job) EXCEPT !.marker = id, !.removals = cs, !.exclude = {},
                                   !.pin = IF kind = "burn" /\ cs # {} THEN n ELSE @]
  BY DEF Answered
<1>2. rpc = "made" /\ rpc' = "idle" /\ late' = late /\ UNCHANGED <<chainVars, made>>
  BY DEF Answered
<1>3. Blank(job) /\ sent # {} /\ Stray(job) \subseteq {n} /\ late = {}
  BY <1>0, <1>2 DEF CallsOK
<1>4. n \in sent /\ n \in Sends
  <2>1. n \in 0 .. MaxSends /\ sent = 1 .. n /\ MaxSends \in Nat
    BY <1>0, Counted, WarpAssumption DEF WarpAssumption
  <2>2. n \in sent
    BY <1>3, <2>1
  <2> QED BY <2>2 DEF sent
<1> HIDE DEF n
<1> DEFINE j == Polled(job)
           i == [j EXCEPT !.marker = id, !.removals = cs, !.exclude = {},
                          !.pin = IF kind = "burn" /\ cs # {} THEN n ELSE @]
<1>5. SameBook(j, job)
  BY <1>0, PolledKeeps
<1> HIDE DEF j
<1>6. /\ DOMAIN i = JobFields /\ i.status = j.status /\ i.from = j.from
      /\ i.marker = id /\ i.removals = cs /\ i.priors = j.priors
      /\ i.coins = j.coins /\ i.seq = j.seq
  BY <1>5 DEF SameBook, JobFields
<1> HIDE DEF i
<1>7. Stray(i) = Stray(job)
  BY <1>5, <1>6 DEF Stray, OnBooks, InPriors, SameBook
<1>8. BookShape(i) /\ FreshNumbers(i)
  <2>1. /\ i.status \in BurnStates /\ i.from = job.from /\ i.priors = job.priors
        /\ i.coins = job.coins /\ i.seq = job.seq
    BY <1>5, <1>6 DEF SameBook
  <2>2. job.marker # NoTx
    BY <1>3 DEF Blank
  <2> QED BY <1>0, <1>1, <1>4, <1>6, <2>1, <2>2
          DEF BookOK, BookShape, FreshNumbers, InPriors, BurnStates
<1>9. OneOpen(i)
  BY <1>1, <1>3, <1>4, <1>6, <1>7 DEF OneOpen
<1>10. job' = i
  BY <1>1 DEF i, j
<1>11. BookOK(job)'
  BY <1>2, <1>8, <1>9, <1>10, RowIsWritten DEF BookOK
<1> QED BY <1>2, <1>3, <1>11 DEF Kept, CallsOK

\* A refusal puts back a row that was in order, and nothing was sent since.
LEMMA RefusalKeeps ==
  ASSUME WarpInv, kind = "burn", Refused
  PROVE  Kept
<1>0. CallsOK
  BY DEF WarpInv, BurnInv
<1>1. /\ rpc = "reserved" /\ rpc' = "idle" /\ job' = Polled(before) /\ late' = late
      /\ UNCHANGED <<chainVars, made>>
  BY DEF Refused
<1>2. BookOK(before) /\ late = {}
  BY <1>0, <1>1 DEF CallsOK
<1>3. BookOK(Polled(before))
  BY <1>2, PolledKeeps, SameBookKeeps
<1>4. BookOK(job)'
  BY <1>1, <1>3, RowIsWritten
<1> QED BY <1>1, <1>2, <1>4 DEF Kept, CallsOK

\* Without an answer the reservation stands, and what it may still make is one send.
LEMMA GivingUpKeeps ==
  ASSUME WarpInv, kind = "burn", NoAnswer \/ Crash
  PROVE  Kept
<1>0. BookOK(job) /\ CallsOK
  BY DEF WarpInv, BurnInv
<1>1. /\ rpc # "idle" /\ rpc' = "idle" /\ job' \in {job, Polled(job)}
      /\ late' \in {late, IF rpc = "reserved" THEN late \cup {job.exclude} ELSE late}
      /\ UNCHANGED <<chainVars, made>>
  BY DEF NoAnswer, Crash, GivesUp, LeftRecorded
<1>2. late = {} /\ Blank(job) /\ (rpc = "reserved" => Stray(job) = {})
  BY <1>0, <1>1 DEF CallsOK
<1>3. /\ BookOK(Polled(job)) /\ Stray(Polled(job)) = Stray(job)
      /\ (Blank(Polled(job)) <=> Blank(job))
  BY <1>0, PolledKeeps, SameBookKeeps
<1>4. BookOK(job)' /\ Stray(job)' = Stray(job) /\ Blank(job)'
  <2>1. CASE job' = job
    BY <1>0, <1>1, <1>2, <2>1, RowIsWritten
  <2>2. CASE job' = Polled(job)
    BY <1>1, <1>2, <1>3, <2>2, RowIsWritten
  <2> QED BY <1>1, <2>1, <2>2
<1>5. late' # {} => rpc = "reserved" /\ late' = {job.exclude}
  BY <1>1, <1>2
<1> QED BY <1>1, <1>2, <1>4, <1>5 DEF Kept, CallsOK

\* The chain and the numbers are in order whatever the job is.
LEMMA ChainStep ==
  ASSUME WarpInv, [Next]_vars
  PROVE  kind' = kind /\ ChainOK' /\ Numbered'
<1>0. ChainOK /\ Numbered /\ kind \in {"fund", "burn"}
  BY DEF WarpInv
<1>1. CASE World
  <2>1. ChainOK' /\ sent' = sent /\ kind' = kind
    BY <1>0, <1>1, WorldKeeps
  <2> QED BY <1>0, <2>1 DEF Numbered
<1>2. CASE WalletSends \/ RunsLate
  <2>1. PICK excluded : Calls(NextSend, excluded) /\ UNCHANGED <<chainVars, kind>>
    BY <1>2 DEF WalletSends, RunsLate
  <2> QED BY <1>0, <2>1, CallMakes
<1>3. CASE UNCHANGED <<chainVars, made, kind>>
  <2>1. by' = by /\ deep' = deep /\ out' = out /\ made' = made /\ kind' = kind
    BY <1>3 DEF chainVars
  <2>2. sent' = sent
    BY <2>1 DEF sent
  <2> QED BY <1>0, <2>1, <2>2 DEF ChainOK, Numbered, Landed, Spent
<1>4. CASE Tick
  <2> DEFINE Moved == UNCHANGED <<chainVars, made, kind>>
  <2>1. ASSUME NEW j, Stays(j) PROVE Moved
    BY <2>1 DEF Stays
  <2>2. ASSUME NEW j, NEW s, Moves(j, s) PROVE Moved
    BY <2>2 DEF Moves
  <2>3. ASSUME NEW j, NEW see, SendsAgain(j, see) PROVE Moved
    BY <2>1, <2>3 DEF SendsAgain, Reserves
  <2>4. ASSUME Expire PROVE Moved
    BY <2>2, <2>4 DEF Expire
  <2>5. ASSUME NEW see, \/ TickArrived(see) \/ TickUnsent(see) \/ TickUnnamed(see)
                        \/ TickRecorded(see) \/ TickFunded(see)
        PROVE  Moved
    BY <2>1, <2>2, <2>3, <2>5
       DEF TickArrived, TickUnsent, TickUnnamed, TickRecorded, TickFunded
  <2>6. ASSUME NEW see, TickClaiming(see) PROVE Moved
    <3>1. CASE \E a \in Unspent : Pushes(a)
      BY <3>1 DEF Pushes
    <3> QED BY <2>1, <2>2, <2>6, <3>1 DEF TickClaiming
  <2> QED BY <1>3, <1>4, <2>4, <2>5, <2>6 DEF Tick
<1>5. CASE RpcEnds \/ Crash
  BY <1>3, <1>5 DEF RpcEnds, Crash, Answered, Refused, NoAnswer
<1>6. CASE Operator
  BY <1>3, <1>6 DEF Operator, Retry, SweepPushes, SweepEnds, Abandon, Rewrites, chainVars
<1>7. CASE UNCHANGED vars
  BY <1>3, <1>7 DEF vars
<1> QED BY <1>1, <1>2, <1>4, <1>5, <1>6, <1>7 DEF Next

\* Every step keeps the invariant.
LEMMA WarpStep ==
  ASSUME WarpInv, [Next]_vars
  PROVE  WarpInv'
<1>1. kind' = kind /\ ChainOK' /\ Numbered'
  BY ChainStep
<1>2. ASSUME kind = "burn" PROVE Kept
  <2>1. CASE UNCHANGED vars
    <3>1. /\ job' = job /\ before' = before /\ rpc' = rpc /\ late' = late
          /\ UNCHANGED <<chainVars, made>>
      BY <2>1 DEF vars, rpcVars
    <3>2. BookOK(job) /\ CallsOK
      BY <1>2 DEF WarpInv, BurnInv
    <3>3. BookOK(job)' /\ Stray(job)' = Stray(job) /\ (Blank(job)' <=> Blank(job))
      BY <3>1, <3>2, RowIsWritten
    <3>4. BookOK(before) => BookOK(before)'
      BY <3>1, BeforeIsWritten
    <3>5. sent' = sent
      BY <3>1 DEF sent
    <3> QED BY <3>1, <3>2, <3>3, <3>4, <3>5 DEF Kept, CallsOK
  <2> QED BY <1>2, <2>1, TickKeeps, OperatorKeeps, SendKeeps, LateKeeps, AnswerKeeps,
             RefusalKeeps, GivingUpKeeps, WorldKeepsRows DEF Next, RpcEnds
<1> QED BY <1>1, <1>2 DEF WarpInv, BurnInv, Kept

\* A job that has sent nothing is in order.
LEMMA WarpInit == Init => WarpInv
<1> SUFFICES ASSUME Init PROVE WarpInv
  OBVIOUS
<1> USE Names
<1>1. /\ made = [a \in Sends |-> {}] /\ by = [c \in Coins |-> Nobody]
      /\ deep = [c \in Coins |-> FALSE] /\ out = [a \in Sends |-> "none"]
  BY DEF Init
<1>2. sent = {}
  BY <1>1 DEF sent
<1>3. ChainOK
  BY <1>1, <1>2 DEF ChainOK, Landed, Spent
<1>4. Numbered
  BY <1>2, WarpAssumption DEF Numbered, WarpAssumption
<1>5. ASSUME kind = "burn" PROVE BookOK(job) /\ CallsOK
  <2>1. /\ DOMAIN job = JobFields /\ job.status = "BURN_SENT" /\ job.from = "BURN_SENT"
        /\ job.marker = NoTx /\ job.removals = {} /\ job.priors = <<>>
        /\ job.coins = [k \in Keys |-> {}] /\ job.seq = 0
    BY <1>5 DEF Init, NewJob, JobFields, Starting
  <2>2. Stray(job) = {}
    BY <1>2 DEF Stray
  <2>3. \A a \in Sends : Tx(a) \in Keys
    BY DEF Keys
  <2>4. \A n \in 1 .. MaxSends : Unnamed(n) \in Keys
    BY WarpAssumption DEF Keys, WarpAssumption
  <2>5. BookShape(job)
    BY <2>1, <2>3, WarpAssumption DEF BookShape, WarpAssumption
  <2>6. FreshNumbers(job)
    BY <2>1, <2>4 DEF FreshNumbers, InPriors
  <2>7. OneOpen(job)
    BY <2>1, <2>2 DEF OneOpen
  <2> QED BY <2>5, <2>6, <2>7 DEF BookOK, CallsOK, Init
<1> QED BY <1>3, <1>4, <1>5 DEF WarpInv, BurnInv, Init

\* The books of a burn, its call in flight and the chain agree in every reachable
\* state, for any number of sends, coins and polls.
THEOREM WarpInvariant == Spec => []WarpInv
BY WarpInit, WarpStep, PTL DEF Spec

\* A job burns at most once, whatever the wallet forgets, loses or answers late,
\* whatever else spends its coins, and whatever a reorganisation undoes.
THEOREM BurnsOnce == Spec => []OneBurn
<1>1. WarpInv => OneBurn
  <2> SUFFICES ASSUME WarpInv, kind = "burn"
               PROVE  Cardinality({a \in sent : Landed(a)}) <= 1
    BY DEF OneBurn
  <2> DEFINE landed == {a \in sent : Landed(a)}
  <2>1. ChainOK /\ BookOK(job)
    BY DEF WarpInv, BurnInv
  <2>2. landed \subseteq Stray(job)
    BY <2>1, LandedLives DEF Stray, sent
  <2>3. \A a, b \in Stray(job) : a = b
    BY <2>1 DEF BookOK, BookShape, OneOpen
  <2>4. landed = {} \/ \E a : landed = {a}
    BY <2>2, <2>3
  <2> HIDE DEF landed
  <2>5. Cardinality(landed) \in {0, 1}
    BY <2>4, FS_EmptySet, FS_Singleton
  <2> QED BY <2>5 DEF landed
<1> QED BY <1>1, WarpInvariant, PTL

-----------------------------------------------------------------------------
(* The ledger of a job: its entries, and whom each stands for.             *)

\* Two fundings with a coin in common spend the very same coins: what the
\* promises of a claim's ledger rest on. Fundings of one coin each meet it
\* (OneCoinApart); a burn needs none of it.
Separate == kind = "fund" =>
  \A a, b \in sent : made[a] \cap made[b] # {} => made[a] = made[b]

\* The names of entries that have no transaction id, Unknown among them.
Numbers == {Unnamed(n) : n \in 0 .. MaxSends}

\* An entry of the books: the send on record or one retired.
Holds(j, k) == k = j.marker \/ InPriors(j, k)

\* The entries without an id, the sends no entry names, the calls that may still
\* run, and, together, what needs an entry to hide behind.
Slots(j)   == {k \in Numbers : Holds(j, k)}
Unkeyed(j) == {a \in sent : ~Holds(j, Tx(a))}
Call(e)    == <<"call", e>>
Tokens(j)  == {Tx(a) : a \in Unkeyed(j)} \cup {Call(e) : e \in late}

\* An entry that knows its coins stands for a send of those coins.
Fits(j, sends, x, k) == Own(j, k) # {} => \E a \in Sends : x = Tx(a) /\ sends[a] = Own(j, k)

\* Each of T has an entry of K to itself, and fits it.
Behind(j, sends, T, K) ==
  \E g \in [T -> K] : /\ \A x, y \in T : g[x] = g[y] => x = y
                      /\ \A x \in T : Fits(j, sends, x, g[x])

\* A set of numbers has a least one.
LEMMA Least ==
  ASSUME NEW T \in SUBSET Nat, T # {}
  PROVE  \E x \in T : \A y \in T : x <= y
<1> DEFINE R == OpToRel(<, Nat)
<1>1. IsWellFoundedOn(R, Nat)
  BY NatLessThanWellFounded
<1>2. \A x, y \in Nat : y < x => <<y, x>> \in R
  BY DEF OpToRel
<1> HIDE DEF R
<1>3. PICK x \in T : \A y \in T : ~(<<y, x>> \in R)
  BY <1>1, WFMin
<1>4. ASSUME NEW y \in T PROVE x <= y
  <2>1. x \in Nat /\ y \in Nat /\ ~(y < x)
    BY <1>2, <1>3
  <2> QED BY <2>1
<1> QED BY <1>4

\* What is picked from hits is one of them.
LEMMA PickIsAHit ==
  ASSUME NEW S \in SUBSET Sends, S # {}, NEW see
  PROVE  Pick(S, see) \in S
<1> DEFINE low(x)  == \A y \in S : x <= y
           high(x) == \A y \in S : x >= y
<1>0. MaxSends \in Nat /\ S \subseteq Nat
  BY WarpAssumption DEF WarpAssumption, Sends
<1>1. \E x \in S : low(x)
  BY <1>0, Least
<1>2. \E x \in S : high(x)
  <2> DEFINE T == {MaxSends - x : x \in S}
  <2>1. T \in SUBSET Nat /\ T # {}
    BY <1>0 DEF Sends
  <2>2. PICK t \in T : \A y \in T : t <= y
    BY <2>1, Least
  <2>3. PICK x \in S : t = MaxSends - x
    OBVIOUS
  <2>4. ASSUME NEW y \in S PROVE x >= y
    <3>1. MaxSends - y \in T
      OBVIOUS
    <3>2. t <= MaxSends - y
      BY <2>2, <3>1
    <3>3. x \in Nat /\ y \in Nat
      BY <1>0
    <3> QED BY <1>0, <2>3, <3>2, <3>3
  <2> QED BY <2>3, <2>4
<1>3. Min(S) \in S
  BY <1>1 DEF Min
<1>4. Max(S) \in S
  BY <1>2 DEF Max
<1> QED BY <1>3, <1>4 DEF Pick

\* What the history scan finds is a send that no entry lists by its id or its
\* coins, and that shares one of the coins asked for.
LEMMA ExistingIsAHit ==
  ASSUME NEW j, NEW required, NEW see, see.held \subseteq sent, Existing(j, required, see) # 0,
         j.priors \in Seq(Keys)
  PROVE  LET a == Existing(j, required, see)
         IN /\ a \in sent /\ ~InPriors(j, Tx(a))
            /\ \A k \in Keys : j.coins[k] # made[a]
            /\ required = {} \/ made[a] \cap required # {}
<1> DEFINE live == UNION {j.coins[k] : k \in Keys \ Settled(j)}
           sets == {j.coins[k] : k \in Keys} \ {{}}
           ids  == {j.priors[i] : i \in DOMAIN j.priors}
           hits == Hits(see, ids, sets, live, required)
<1>1. Existing(j, required, see) = Pick(hits, see)
  BY DEF Existing
<1>2. hits # {}
  BY <1>1 DEF Pick
<1>3. hits \in SUBSET Sends
  BY DEF Hits, sent
<1>4. Pick(hits, see) \in hits
  BY <1>2, <1>3, PickIsAHit
<1>5. ASSUME NEW a \in hits
      PROVE  /\ a \in sent /\ ~InPriors(j, Tx(a))
             /\ \A k \in Keys : j.coins[k] # made[a]
             /\ required = {} \/ made[a] \cap required # {}
  <2>1. a \in sent /\ Tx(a) \notin ids /\ made[a] \notin sets
        /\ (required = {} \/ made[a] \cap required # {})
    BY DEF Hits
  <2>2. made[a] # {}
    BY <2>1 DEF sent
  <2> QED BY <2>1, <2>2 DEF InPriors
<1> QED BY <1>1, <1>4, <1>5

\* Fewer to hide, behind more entries that know the same coins.
LEMMA BehindFewer ==
  ASSUME NEW j, NEW i, NEW sends, NEW T, NEW K, Behind(j, sends, T, K),
         NEW U, NEW L, U \subseteq T, K \subseteq L, \A k \in K : Own(i, k) = Own(j, k)
  PROVE  Behind(i, sends, U, L)
<1>1. PICK g \in [T -> K] : /\ \A x, y \in T : g[x] = g[y] => x = y
                            /\ \A x \in T : Fits(j, sends, x, g[x])
  BY DEF Behind
<1> DEFINE h == [x \in U |-> g[x]]
<1>2. h \in [U -> L] /\ \A x \in U : h[x] = g[x] /\ g[x] \in K
  OBVIOUS
<1> HIDE DEF h
<1>3. \A x, y \in U : h[x] = h[y] => x = y
  BY <1>1, <1>2
<1>4. \A x \in U : Fits(i, sends, x, h[x])
  BY <1>1, <1>2 DEF Fits
<1> QED BY <1>2, <1>3, <1>4 DEF Behind

\* An entry takes the id of a send: the send that hid behind it moves to the one
\* the named send leaves, which knows no coins or the same ones.
LEMMA BehindNamed ==
  ASSUME NEW j, NEW i, NEW T, NEW K, Behind(j, made, T, K), NEW k \in K, NEW a \in sent,
         Tx(a) \in T,
         \A m \in K \ {k} : Own(i, m) = Own(j, m),
         Own(j, k) = made[a] \/ (\A m \in K : Own(j, m) # made[a])
  PROVE  Behind(i, made, T \ {Tx(a)}, K \ {k})
<1> USE Names
<1>1. PICK g \in [T -> K] : /\ \A x, y \in T : g[x] = g[y] => x = y
                            /\ \A x \in T : Fits(j, made, x, g[x])
  BY DEF Behind
<1> DEFINE U == T \ {Tx(a)}
           L == K \ {k}
           h == [x \in U |-> IF g[x] = k THEN g[Tx(a)] ELSE g[x]]
<1>2. \A x \in U : h[x] = IF g[x] = k THEN g[Tx(a)] ELSE g[x]
  OBVIOUS
<1>3. \A x \in U : g[x] \in K /\ g[Tx(a)] \in K /\ g[x] # g[Tx(a)]
  BY <1>1
<1>4. h \in [U -> L]
  BY <1>3
<1> HIDE DEF h
<1>5. \A x, y \in U : h[x] = h[y] => x = y
  BY <1>1, <1>2, <1>3
<1>6. ASSUME NEW x \in U PROVE Fits(i, made, x, h[x])
  <2>1. CASE g[x] # k
    BY <1>1, <1>2, <1>3, <2>1 DEF Fits
  <2>2. CASE g[x] = k
    <3>1. h[x] = g[Tx(a)] /\ g[Tx(a)] \in L
      BY <1>2, <1>3, <2>2
    <3>2. Own(j, g[Tx(a)]) \in {{}, made[a]}
      <4>1. Fits(j, made, Tx(a), g[Tx(a)])
        BY <1>1
      <4>2. a \in Sends
        BY DEF sent
      <4> QED BY <4>1, <4>2 DEF Fits
    <3>3. Own(j, g[Tx(a)]) = {} \/ (Own(j, g[Tx(a)]) = made[a] /\ Own(j, k) = made[a])
      BY <3>1, <3>2
    <3>4. Fits(j, made, x, k)
      BY <1>1, <2>2
    <3>5. made[a] # {}
      BY DEF sent
    <3> QED BY <3>1, <3>3, <3>4, <3>5 DEF Fits
  <2> QED BY <2>1, <2>2
<1> QED BY <1>4, <1>5, <1>6 DEF Behind

\* An entry is filed under another name with its coins.
LEMMA BehindRenamed ==
  ASSUME NEW j, NEW i, NEW sends, NEW T, NEW K, Behind(j, sends, T, K), NEW k \in K, NEW n,
         n \notin K,
         \A m \in K \ {k} : Own(i, m) = Own(j, m), Own(i, n) = Own(j, k)
  PROVE  Behind(i, sends, T, (K \ {k}) \cup {n})
<1>1. PICK g \in [T -> K] : /\ \A x, y \in T : g[x] = g[y] => x = y
                            /\ \A x \in T : Fits(j, sends, x, g[x])
  BY DEF Behind
<1> DEFINE L == (K \ {k}) \cup {n}
           h == [x \in T |-> IF g[x] = k THEN n ELSE g[x]]
<1>2. \A x \in T : h[x] = (IF g[x] = k THEN n ELSE g[x]) /\ g[x] \in K
  OBVIOUS
<1>3. h \in [T -> L]
  OBVIOUS
<1> HIDE DEF h
<1>4. \A x, y \in T : h[x] = h[y] => x = y
  BY <1>1, <1>2
<1>5. \A x \in T : Fits(i, sends, x, h[x])
  BY <1>1, <1>2 DEF Fits
<1> QED BY <1>3, <1>4, <1>5 DEF Behind

\* One more to hide, and one more entry that it fits.
LEMMA BehindOneMore ==
  ASSUME NEW j, NEW i, NEW sends, NEW T, NEW K, Behind(j, sends, T, K), NEW x0, x0 \notin T,
         NEW k0, k0 \notin K,
         \A m \in K : Own(i, m) = Own(j, m), Fits(i, sends, x0, k0)
  PROVE  Behind(i, sends, T \cup {x0}, K \cup {k0})
<1>1. PICK g \in [T -> K] : /\ \A x, y \in T : g[x] = g[y] => x = y
                            /\ \A x \in T : Fits(j, sends, x, g[x])
  BY DEF Behind
<1> DEFINE U == T \cup {x0}
           L == K \cup {k0}
           h == [x \in U |-> IF x = x0 THEN k0 ELSE g[x]]
<1>2. \A x \in U : h[x] = (IF x = x0 THEN k0 ELSE g[x]) /\ (x # x0 => x \in T /\ g[x] \in K)
  OBVIOUS
<1>3. h \in [U -> L]
  OBVIOUS
<1> HIDE DEF h
<1>4. \A x, y \in U : h[x] = h[y] => x = y
  BY <1>1, <1>2
<1>5. \A x \in U : Fits(i, sends, x, h[x])
  BY <1>1, <1>2 DEF Fits
<1> QED BY <1>3, <1>4, <1>5 DEF Behind

\* Sends made meanwhile disturb nobody.
LEMMA BehindLater ==
  ASSUME NEW j, NEW sends, NEW T, NEW K, Behind(j, sends, T, K), NEW later,
         \A a \in Sends : sends[a] # {} => later[a] = sends[a]
  PROVE  Behind(j, later, T, K)
<1>1. PICK g \in [T -> K] : /\ \A x, y \in T : g[x] = g[y] => x = y
                            /\ \A x \in T : Fits(j, sends, x, g[x])
  BY DEF Behind
<1>2. \A x \in T : Fits(j, later, x, g[x])
  BY <1>1 DEF Fits
<1> QED BY <1>1, <1>2 DEF Behind

\* A call becomes the send it makes, behind the same entry: it fitted one that
\* knows no coins.
LEMMA BehindMade ==
  ASSUME NEW j, NEW sends, NEW T, NEW K, Behind(j, sends, T, K), NEW e, Call(e) \in T,
         NEW x0, x0 \notin T
  PROVE  Behind(j, sends, (T \ {Call(e)}) \cup {x0}, K)
<1>1. PICK g \in [T -> K] : /\ \A x, y \in T : g[x] = g[y] => x = y
                            /\ \A x \in T : Fits(j, sends, x, g[x])
  BY DEF Behind
<1> DEFINE U == (T \ {Call(e)}) \cup {x0}
           h == [x \in U |-> IF x = x0 THEN g[Call(e)] ELSE g[x]]
<1>2. \A x \in U : h[x] = (IF x = x0 THEN g[Call(e)] ELSE g[x])
        /\ (x # x0 => x \in T /\ x # Call(e))
  OBVIOUS
<1>3. h \in [U -> K]
  OBVIOUS
<1> HIDE DEF h
<1>4. \A x, y \in U : h[x] = h[y] => x = y
  BY <1>1, <1>2
<1>5. \A a : Call(e) # Tx(a)
  BY DEF Call, Tx
<1>6. Own(j, g[Call(e)]) = {}
  <2>1. Fits(j, sends, Call(e), g[Call(e)])
    BY <1>1
  <2> QED BY <2>1, <1>5 DEF Fits
<1>7. \A x \in U : Fits(j, sends, x, h[x])
  BY <1>1, <1>2, <1>6 DEF Fits
<1> QED BY <1>3, <1>4, <1>7 DEF Behind

\* Coins of which one is spent elsewhere for good.
DeadSet(S) == (\E c \in S : AtDepth(c)) /\ \A b \in sent : made[b] = S => Doomed(b)

\* What is listed as dead: sends that can never land, and entries without an id,
\* under a number given out, whose coins tell so while they are on the list.
DeadOK(j) ==
  /\ j.dead \subseteq Keys
  /\ \A a \in Sends : Tx(a) \in j.dead => Doomed(a)
  /\ \A n \in 0 .. MaxSends : Unnamed(n) \in j.dead =>
       /\ 0 < n /\ n <= j.seq
       /\ InPriors(j, Unnamed(n)) => DeadSet(j.coins[Unnamed(n)])

\* What an entry can know of its coins.
CoinSets == {{}} \cup {made[a] : a \in sent}

\* No entry is listed twice, and an id is that of a send.
ListOK(j) ==
  /\ j.priors \in Seq(Keys)
  /\ \A m, n \in DOMAIN j.priors : j.priors[m] = j.priors[n] => m = n
  /\ ~InPriors(j, Unknown) /\ ~InPriors(j, j.marker)
  /\ \A a \in Sends : InPriors(j, Tx(a)) => a \in sent

\* Recorded coins are those of a send, and under its id its own.
CoinsOK(j) ==
  /\ DOMAIN j.coins = Keys /\ \A k \in Keys : j.coins[k] \in CoinSets
  /\ \A a \in Sends : j.coins[Tx(a)] \in {{}, made[a]}

\* The send on record, its coins, and a number left to retire it under.
MarkerOK(j) ==
  /\ j.marker \in {NoTx, Unknown} \cup {Tx(a) : a \in sent}
  /\ j.marker = Unknown => j.seq < MaxSends
  /\ j.removals \in CoinSets /\ (j.marker = NoTx => j.removals = {})
  /\ \A a \in sent : j.marker = Tx(a) => j.removals \in {{}, made[a]}

\* A row, of either kind of job.
RowOK(j) ==
  /\ DOMAIN j = JobFields /\ j.from \in Pending /\ j.pin \in {0} \cup sent
  /\ MarkerOK(j) /\ ListOK(j) /\ CoinsOK(j) /\ FreshNumbers(j) /\ DeadOK(j)

\* A row with an entry for every send and every call it does not name.
InOrder(j) == RowOK(j) /\ Behind(j, made, Tokens(j), Slots(j))

\* Entries have an id or a number, never both.
LEMMA KeyNames ==
  /\ Numbers \subseteq Keys /\ Unknown \in Numbers /\ NoTx \notin Keys
  /\ \A a \in Sends : Tx(a) \in Keys /\ Tx(a) \notin Numbers
  /\ \A n \in 0 .. MaxSends : Unnamed(n) \in Numbers
  /\ \A k \in Keys : k \in Numbers \/ \E a \in Sends : k = Tx(a)
<1>1. 0 \in 0 .. MaxSends /\ 0 .. MaxSends \subseteq Nat
  BY WarpAssumption DEF WarpAssumption
<1>2. Numbers \subseteq Keys /\ \A n \in 0 .. MaxSends : Unnamed(n) \in Numbers
  BY DEF Numbers, Keys
<1>3. \A k \in Keys : k \in Numbers \/ \E a \in Sends : k = Tx(a)
  BY DEF Numbers, Keys
<1>4. \A a \in Sends : Tx(a) \in Keys /\ Tx(a) \notin Numbers
  BY DEF Numbers, Keys, Tx, Unnamed
<1>5. NoTx \notin Keys
  BY DEF Keys, Tx, Unnamed, NoTx
<1> QED BY <1>1, <1>2, <1>3, <1>4, <1>5 DEF Unknown

\* Rows that differ in nothing the ledger reads.
SameRow(i, j) ==
  /\ DOMAIN i = JobFields /\ i.from \in Pending /\ i.pin \in {0} \cup sent
  /\ i.marker = j.marker /\ i.removals = j.removals /\ i.priors = j.priors
  /\ i.coins = j.coins /\ i.seq = j.seq /\ i.dead = j.dead

\* They hold the same entries, hiding the same sends.
LEMMA SameRowKeeps ==
  ASSUME NEW j, RowOK(j), NEW i, SameRow(i, j)
  PROVE  /\ RowOK(i) /\ Tokens(i) = Tokens(j) /\ Slots(i) = Slots(j)
         /\ (Blank(i) <=> Blank(j)) /\ \A k : Own(i, k) = Own(j, k)
              /\ (InPriors(i, k) <=> InPriors(j, k))
         /\ \A T, K : Behind(j, made, T, K) => Behind(i, made, T, K)
<1> USE DEF SameRow
<1>1. \A k : InPriors(i, k) <=> InPriors(j, k)
  BY DEF InPriors
<1>2. \A k : Own(i, k) = Own(j, k)
  BY DEF Own
<1>3. Tokens(i) = Tokens(j) /\ Slots(i) = Slots(j)
  BY <1>1 DEF Tokens, Slots, Unkeyed, Holds
<1>4. RowOK(i)
  BY <1>1 DEF RowOK, MarkerOK, ListOK, CoinsOK, FreshNumbers, DeadOK
<1>5. \A T, K : Behind(j, made, T, K) => Behind(i, made, T, K)
  <2> SUFFICES ASSUME NEW T, NEW K, Behind(j, made, T, K) PROVE Behind(i, made, T, K)
    OBVIOUS
  <2> QED BY <1>2, BehindFewer
<1> QED BY <1>1, <1>2, <1>3, <1>4, <1>5 DEF Blank

\* A row whose send on record is given an id no entry has loses the send from
\* the hidden ones, and the nameless entry if it was one.
LEMMA AdoptedKeeps ==
  ASSUME NEW j, RowOK(j), NEW a \in sent, ~InPriors(j, Tx(a)),
         NEW i, DOMAIN i = JobFields, i.from \in Pending, i.pin \in {0} \cup sent, i.marker = Tx(a),
         i.removals \in {{}, made[a]}, i.priors = j.priors, i.coins = j.coins, i.seq = j.seq,
         i.dead = j.dead,
         j.marker \in {NoTx, Unknown}
  PROVE  /\ RowOK(i) /\ Tokens(i) \subseteq Tokens(j) \ {Tx(a)} /\ Slots(i) = Slots(j) \ {Unknown}
         /\ \A k \in Slots(i) : Own(i, k) = Own(j, k)
<1> USE Names, KeyNames
<1>1. \A k : InPriors(i, k) <=> InPriors(j, k)
  BY DEF InPriors
<1>2. a \in Sends
  BY DEF sent
<1>3. ~InPriors(j, Unknown) /\ ~InPriors(j, NoTx)
  BY DEF RowOK, ListOK, InPriors
<1>4. Tokens(i) \subseteq Tokens(j) \ {Tx(a)}
  <2>1. Unkeyed(i) \subseteq Unkeyed(j) \ {a}
    <3>1. ASSUME NEW b \in Unkeyed(i) PROVE b \in Unkeyed(j) /\ b # a
      <4>1. b \in Sends /\ Tx(b) \notin {NoTx, Unknown}
        BY DEF Unkeyed, sent
      <4> QED BY <4>1, <1>1 DEF Unkeyed, Holds
    <3> QED BY <3>1
  <2>2. \A e : Call(e) # Tx(a)
    BY DEF Call, Tx
  <2>3. \A b \in Unkeyed(i) : b \in Sends
    BY DEF Unkeyed, sent
  <2> QED BY <1>2, <2>1, <2>2, <2>3 DEF Tokens
<1>5. Slots(i) = Slots(j) \ {Unknown}
  <2>1. NoTx \notin Numbers /\ Tx(a) \notin Numbers
    BY <1>2
  <2> QED BY <1>1, <1>3, <2>1 DEF Slots, Holds
<1>6. \A k \in Slots(i) : Own(i, k) = Own(j, k)
  <2>1. \A k \in Slots(i) : k # Tx(a) /\ k # j.marker
    BY <1>2, <1>5 DEF Slots
  <2> QED BY <2>1 DEF Own
<1>7. RowOK(i)
  <2>1. MarkerOK(i)
    <3>1. \A b \in sent : Tx(b) = Tx(a) => b = a
      BY DEF sent
    <3> QED BY <3>1, <1>2 DEF RowOK, MarkerOK, CoinSets
  <2>2. ListOK(i)
    BY <1>1 DEF RowOK, ListOK
  <2> QED BY <1>1, <2>1, <2>2 DEF RowOK, CoinsOK, FreshNumbers, DeadOK
<1> QED BY <1>4, <1>5, <1>6, <1>7

\* The send on record is given an id: no other entry knows the coins of that
\* send.
LEMMA AdoptedInOrder ==
  ASSUME NEW j, InOrder(j), NEW a \in sent, ~InPriors(j, Tx(a)),
         NEW i, DOMAIN i = JobFields, i.from \in Pending, i.pin \in {0} \cup sent, i.marker = Tx(a),
         i.removals \in {{}, made[a]}, i.priors = j.priors, i.coins = j.coins, i.seq = j.seq,
         i.dead = j.dead,
         j.marker \in {NoTx, Unknown}, j.removals \in {{}, made[a]},
         \A k \in Slots(j) \ {Unknown} : Own(j, k) # made[a]
  PROVE  InOrder(i)
<1> USE Names, KeyNames
<1>0. RowOK(j) /\ Behind(j, made, Tokens(j), Slots(j)) /\ a \in Sends /\ made[a] # {}
  BY DEF InOrder, sent
<1>1. /\ RowOK(i) /\ Tokens(i) \subseteq Tokens(j) \ {Tx(a)} /\ Slots(i) = Slots(j) \ {Unknown}
      /\ \A k \in Slots(i) : Own(i, k) = Own(j, k)
  BY <1>0, AdoptedKeeps
<1>2. Tx(a) \in Tokens(j)
  BY <1>0 DEF Tokens, Unkeyed, Holds
<1>3. CASE j.marker = NoTx
  <2>1. Slots(i) = Slots(j)
    BY <1>0, <1>1, <1>3 DEF Slots, Holds, RowOK, ListOK
  <2> QED BY <1>0, <1>1, <2>1, BehindFewer DEF InOrder
<1>4. CASE j.marker = Unknown
  <2>1. Unknown \in Slots(j) /\ Own(j, Unknown) = j.removals
    BY <1>4 DEF Slots, Holds, Own
  <2>2. Own(j, Unknown) = made[a] \/ (\A m \in Slots(j) : Own(j, m) # made[a])
    <3>1. CASE j.removals = {}
      BY <1>0, <2>1, <3>1
    <3> QED BY <2>1, <3>1
  <2>3. Behind(i, made, Tokens(j) \ {Tx(a)}, Slots(j) \ {Unknown})
    BY <1>0, <1>1, <1>2, <2>1, <2>2, BehindNamed
  <2> QED BY <1>1, <2>3, BehindFewer DEF InOrder
<1> QED BY <1>3, <1>4

-----------------------------------------------------------------------------
(* Retiring a send, and reserving the next.                                *)

\* The send on record, known by its id, learns or forgets its coins.
LEMMA CoinsLearned ==
  ASSUME NEW j, InOrder(j), NEW a \in sent, j.marker = Tx(a),
         NEW i, DOMAIN i = JobFields, i.from \in Pending, i.pin \in {0} \cup sent,
         i.marker = j.marker,
         i.removals \in {{}, made[a]}, i.priors = j.priors, i.coins = j.coins, i.seq = j.seq,
         i.dead = j.dead
  PROVE  InOrder(i)
<1> USE Names, KeyNames
<1>0. RowOK(j) /\ Behind(j, made, Tokens(j), Slots(j)) /\ a \in Sends
  BY DEF InOrder, sent
<1>1. \A k : InPriors(i, k) <=> InPriors(j, k)
  BY DEF InPriors
<1>2. MarkerOK(i)
  BY <1>0 DEF RowOK, MarkerOK, CoinSets, sent
<1>3. RowOK(i)
  BY <1>0, <1>1, <1>2 DEF RowOK, ListOK, CoinsOK, FreshNumbers, DeadOK
<1>4. Tokens(i) = Tokens(j) /\ Slots(i) = Slots(j)
  BY <1>1 DEF Tokens, Slots, Unkeyed, Holds
<1>5. \A k \in Slots(j) : Own(i, k) = Own(j, k)
  BY <1>0 DEF Slots, Own
<1> QED BY <1>0, <1>3, <1>4, <1>5, BehindFewer DEF InOrder

\* Coins of which one is final elsewhere, and that no landed send came from,
\* rule out every send of theirs: one that landed by them would have spent them
\* all.
LEMMA DeathIsFinal ==
  ASSUME ChainOK, NEW coins, (\E c \in coins : AtDepth(c)),
         \A b \in sent : Landed(b) => Parent(b) \notin coins
  PROVE  DeadSet(coins) /\ coins # {}
<1>1. ASSUME NEW b \in sent, made[b] = coins PROVE Doomed(b)
  <2>1. ~Landed(b) /\ b \in Sends
    BY <1>1, ParentIsACoin DEF sent
  <2>2. PICK c \in coins : AtDepth(c)
    OBVIOUS
  <2>3. c \in Coins /\ c \in made[b]
    BY <1>1, <2>1 DEF ChainOK
  <2>4. by[c] # Tx(b)
    BY <2>1, <2>3 DEF ChainOK
  <2> QED BY <2>2, <2>3, <2>4 DEF Doomed, AtDepth
<1> QED BY <1>1 DEF DeadSet

\* A verdict of death on an entry of the books rules out its coins.
LEMMA JudgedDeadAlone ==
  ASSUME ChainOK, NEW coins, NEW id, NEW see, Judged(coins, id, FALSE, see) = "dead"
  PROVE  DeadSet(coins) /\ coins # {}
<1>1. (\E c \in coins : AtDepth(c)) /\ \A b \in sent : Landed(b) => Parent(b) \notin coins
  BY DEF Judged, OutputSeen
<1> QED BY <1>1, DeathIsFinal

\* Appending what is not there leaves a list without repetition.
LEMMA AppendDistinct ==
  ASSUME NEW s \in Seq(Keys), NEW k \in Keys, \A m \in DOMAIN s : s[m] # k,
         \A m, n \in DOMAIN s : s[m] = s[n] => m = n
  PROVE  \A m, n \in DOMAIN Append(s, k) : Append(s, k)[m] = Append(s, k)[n] => m = n
<1>1. /\ Len(s) \in Nat
      /\ DOMAIN s = 1 .. Len(s) /\ DOMAIN Append(s, k) = 1 .. (Len(s) + 1)
      /\ Append(s, k)[Len(s) + 1] = k /\ \A i \in 1 .. Len(s) : Append(s, k)[i] = s[i]
  OBVIOUS
<1> QED BY <1>1

\* The send on record is retired, under its id or under a number no entry had:
\* whoever hid behind it hides behind the same entry by its new name.
LEMMA RetiredInOrder ==
  ASSUME ChainOK, NEW j, InOrder(j), NEW k, NEW coins, NEW proven \in BOOLEAN,
         \/ j.marker = Unknown /\ k = UnnamedKey(j) /\ coins = j.removals
           /\ (proven => DeadSet(coins))
         \/ \E a \in sent : j.marker = Tx(a) /\ k = Tx(a) /\ coins \in {{}, made[a]}
           /\ (proven => Doomed(a))
  PROVE  LET i == Replacement(j, k, coins, proven)
         IN InOrder(i) /\ i.marker = NoTx /\ i.status = j.status /\ i.from = j.from
<1> DEFINE i == Replacement(j, k, coins, proven)
<1> USE Names, KeyNames
<1>0. RowOK(j) /\ Behind(j, made, Tokens(j), Slots(j)) /\ sent \subseteq Sends
      /\ MaxSends \in Nat /\ MaxSends > 0
  BY WarpAssumption DEF InOrder, sent, WarpAssumption
<1>1. /\ DOMAIN j = JobFields /\ j.priors \in Seq(Keys) /\ DOMAIN j.coins = Keys
      /\ j.seq \in Nat /\ j.seq <= Len(j.priors) /\ (j.marker = Unknown => j.seq < MaxSends)
      /\ j.removals \in CoinSets
  BY <1>0 DEF RowOK, ListOK, CoinsOK, MarkerOK, FreshNumbers
<1>2. /\ DOMAIN i = JobFields /\ i.status = j.status /\ i.from = j.from
      /\ i.marker = NoTx /\ i.removals = {}
      /\ i.coins = IF coins = {} THEN j.coins ELSE [j.coins EXCEPT ![k] = coins]
      /\ i.dead = IF proven THEN j.dead \cup {k} ELSE j.dead
      /\ i.priors = IF InPriors(j, k) THEN j.priors ELSE Append(j.priors, k)
      /\ i.seq = (IF k[1] = "unnamed" THEN k[2] ELSE j.seq)
      /\ i.pin \in {0, j.pin}
  BY <1>1 DEF Replacement, JobFields
<1> HIDE DEF i
<1>4. k \in Keys /\ ~InPriors(j, k) /\ coins \in CoinSets /\ j.marker # NoTx
  <2>1. CASE j.marker = Unknown /\ k = UnnamedKey(j) /\ coins = j.removals
    <3>1. j.seq + 1 \in 1 .. MaxSends /\ j.seq + 1 > j.seq /\ j.seq + 1 \in 0 .. MaxSends
      BY <1>0, <1>1, <2>1
    <3> QED BY <1>0, <1>1, <2>1, <3>1 DEF UnnamedKey, RowOK, FreshNumbers
  <2>2. CASE \E a \in sent : j.marker = Tx(a) /\ k = Tx(a) /\ coins \in {{}, made[a]}
    BY <1>0, <2>2 DEF RowOK, ListOK, CoinSets
  <2> QED BY <2>1, <2>2
<1>5. i.priors = Append(j.priors, k)
  BY <1>2, <1>4
<1>6. \A x : InPriors(i, x) <=> x = k \/ InPriors(j, x)
  <2>1. \A x : (\E h \in DOMAIN Append(j.priors, k) : Append(j.priors, k)[h] = x)
                   <=> x = k \/ \E h \in DOMAIN j.priors : j.priors[h] = x
    <3>1. j.priors \in Seq(Keys) /\ k \in Keys
      BY <1>1, <1>4
    <3> QED BY ONLY <3>1, AppendLists, Zenon
  <2> QED BY <2>1, <1>5 DEF InPriors
<1>7. \A x \in Keys : i.coins[x] = IF x = k /\ coins # {} THEN coins ELSE j.coins[x]
  BY <1>1, <1>2, <1>4
<1>8. i.priors \in Seq(Keys) /\ Len(i.priors) = Len(j.priors) + 1
  BY <1>1, <1>4, <1>5, AppendLists
<1>9. ListOK(i)
  <2>1. \A m, n \in DOMAIN i.priors : i.priors[m] = i.priors[n] => m = n
    <3>1. \A m \in DOMAIN j.priors : j.priors[m] # k
      BY <1>4 DEF InPriors
    <3>2. \A m, n \in DOMAIN j.priors : j.priors[m] = j.priors[n] => m = n
      BY <1>0 DEF RowOK, ListOK
    <3> QED BY <1>1, <1>4, <1>5, <3>1, <3>2, AppendDistinct
  <2>2. k # Unknown
    <3>1. j.seq + 1 \in Nat /\ j.seq + 1 # 0
      BY <1>1
    <3>2. Unnamed(j.seq + 1) # Unknown
      BY <3>1 DEF Unknown
    <3> QED BY <1>0, <3>2 DEF UnnamedKey
  <2>3. ~InPriors(i, NoTx)
    <3>1. ~InPriors(j, NoTx)
      BY <1>1 DEF InPriors
    <3> QED BY <3>1, <1>4, <1>6
  <2>4. \A a \in Sends : InPriors(i, Tx(a)) => a \in sent
    <3>1. \A a \in Sends : k = Tx(a) => a \in sent
      <4>1. j.seq + 1 \in Nat
        BY <1>1
      <4> QED BY <1>0, <4>1 DEF UnnamedKey
    <3> QED BY <3>1, <1>0, <1>6 DEF RowOK, ListOK
  <2> QED BY <1>0, <1>2, <1>6, <1>8, <2>1, <2>2, <2>3, <2>4 DEF RowOK, ListOK
<1>10. CoinsOK(i)
  <2>1. DOMAIN i.coins = Keys /\ \A x \in Keys : i.coins[x] \in CoinSets
    BY <1>0, <1>1, <1>2, <1>4, <1>7 DEF RowOK, CoinsOK
  <2>2. ASSUME NEW a \in Sends PROVE i.coins[Tx(a)] \in {{}, made[a]}
    <3>1. k = Tx(a) => coins \in {{}, made[a]}
      <4>1. j.seq + 1 \in Nat
        BY <1>1
      <4> QED BY <1>0, <4>1 DEF UnnamedKey
    <3> QED BY <3>1, <1>0, <1>7 DEF RowOK, CoinsOK
  <2> QED BY <2>1, <2>2 DEF CoinsOK
<1>11. MarkerOK(i)
  BY <1>0, <1>2 DEF MarkerOK, CoinSets
<1>12. CASE j.marker = Unknown /\ k = UnnamedKey(j) /\ coins = j.removals
              /\ (proven => DeadSet(coins))
  <2>1. k = Unnamed(j.seq + 1) /\ j.seq + 1 \in 0 .. MaxSends /\ i.seq = j.seq + 1 /\ k \in Numbers
    BY <1>0, <1>1, <1>2, <1>12 DEF UnnamedKey, Unnamed
  <2>2. \A n \in 0 .. MaxSends : Unnamed(n) = k => n = j.seq + 1
    BY <1>0, <1>1, <2>1 DEF Unnamed
  <2>3. FreshNumbers(i)
    <3>1. ASSUME NEW n \in 1 .. MaxSends, n > i.seq
          PROVE  i.coins[Unnamed(n)] = {} /\ ~InPriors(i, Unnamed(n))
      <4>1. n > j.seq /\ n # j.seq + 1 /\ n \in 0 .. MaxSends
        BY <1>0, <1>1, <2>1, <3>1
      <4>2. Unnamed(n) # k /\ Unnamed(n) \in Keys
        BY <2>2, <4>1
      <4> QED BY <1>0, <1>6, <1>7, <4>1, <4>2, <3>1 DEF RowOK, FreshNumbers
    <3>2. i.seq \in Nat /\ i.seq <= Len(i.priors)
      BY <1>1, <1>8, <2>1
    <3> QED BY <3>1, <3>2 DEF FreshNumbers
  <2>4. DeadOK(i)
    <3>1. \A n \in 0 .. MaxSends : Unnamed(n) \in i.dead =>
             /\ 0 < n /\ n <= i.seq
             /\ InPriors(i, Unnamed(n)) => DeadSet(i.coins[Unnamed(n)])
      <4> TAKE n \in 0 .. MaxSends
      <4> HAVE Unnamed(n) \in i.dead
      <4>1. CASE Unnamed(n) = k
        <5>1. n = j.seq + 1
          BY <2>2, <4>1
        <5>2. CASE proven
          <6>1. coins # {} /\ DeadSet(coins)
            BY <1>12, <5>2 DEF DeadSet
          <6> QED BY <1>1, <1>4, <1>7, <2>1, <4>1, <5>1, <6>1
        <5>3. CASE ~proven
          <6>1. k \in j.dead
            BY <1>2, <4>1, <5>3
          <6>2. n <= j.seq
            BY <1>0, <4>1, <6>1 DEF RowOK, DeadOK
          <6> QED BY <1>1, <5>1, <6>2
        <5> QED BY <5>2, <5>3
      <4>2. CASE Unnamed(n) # k
        <5>1. Unnamed(n) \in j.dead /\ Unnamed(n) \in Keys
          BY <1>2, <4>2
        <5>2. /\ 0 < n /\ n <= j.seq /\ n \in Nat
              /\ InPriors(j, Unnamed(n)) => DeadSet(j.coins[Unnamed(n)])
          BY <1>0, <5>1 DEF RowOK, DeadOK
        <5> QED BY <1>1, <1>6, <1>7, <2>1, <4>2, <5>1, <5>2
      <4> QED BY <4>1, <4>2
    <3>2. \A a \in Sends : Tx(a) \in i.dead => Doomed(a)
      BY <1>0, <1>2, <2>1 DEF RowOK, DeadOK
    <3>3. i.dead \subseteq Keys
      BY <1>0, <1>2, <1>4 DEF RowOK, DeadOK
    <3> QED BY <3>1, <3>2, <3>3 DEF DeadOK
  <2>5. Slots(i) = (Slots(j) \ {Unknown}) \cup {k} /\ k \notin Slots(j) /\ Unknown \in Slots(j)
    <3>1. k # Unknown /\ NoTx \notin Numbers /\ ~InPriors(j, Unknown)
      BY <1>0, <1>9, <1>6 DEF ListOK, RowOK
    <3> QED BY <1>2, <1>4, <1>6, <1>12, <2>1, <3>1 DEF Slots, Holds
  <2>6. Tokens(i) \subseteq Tokens(j)
    <3>1. ASSUME NEW b \in Unkeyed(i) PROVE b \in Unkeyed(j)
      <4>1. Tx(b) # j.marker /\ ~InPriors(j, Tx(b)) /\ b \in sent
        BY <1>0, <1>6, <1>12 DEF Unkeyed, Holds
      <4> QED BY <4>1 DEF Unkeyed, Holds
    <3> QED BY <3>1 DEF Tokens
  <2>7. Behind(i, made, Tokens(j), Slots(i))
    <3>1. \A m \in Slots(j) \ {Unknown} : Own(i, m) = Own(j, m)
      <4>1. \A m \in Slots(j) : m \in Keys /\ m # NoTx /\ m # k
        BY <2>5 DEF Slots
      <4> QED BY <4>1, <1>2, <1>7, <1>12 DEF Own
    <3>2. Own(i, k) = Own(j, Unknown)
      <4>1. j.coins[k] = {}
        <5>1. j.seq + 1 \in 1 .. MaxSends /\ j.seq + 1 > j.seq
          BY <1>0, <1>1, <1>12
        <5> QED BY <5>1, <1>0, <2>1 DEF RowOK, FreshNumbers
      <4> QED BY <4>1, <1>2, <1>4, <1>7, <1>12 DEF Own
    <3> QED BY <1>0, <2>5, <3>1, <3>2, BehindRenamed
  <2>8. Behind(i, made, Tokens(i), Slots(i))
    BY <2>6, <2>7, BehindFewer
  <2>9. RowOK(i)
    BY <1>0, <1>2, <1>9, <1>10, <1>11, <2>3, <2>4 DEF RowOK
  <2> QED BY <2>8, <2>9, <1>2 DEF InOrder, i
<1>13. ASSUME NEW a \in sent, j.marker = Tx(a), k = Tx(a), coins \in {{}, made[a]},
       proven => Doomed(a)
       PROVE  InOrder(i) /\ i.marker = NoTx
  <2>0. a \in Sends /\ k \notin Numbers
    BY <1>0, <1>13
  <2>1. i.seq = j.seq
    BY <1>2, <1>13 DEF Tx
  <2>2. FreshNumbers(i)
    <3>1. ASSUME NEW n \in 1 .. MaxSends, n > i.seq
          PROVE  i.coins[Unnamed(n)] = {} /\ ~InPriors(i, Unnamed(n))
      <4>1. n > j.seq /\ n \in 0 .. MaxSends
        BY <1>0, <1>1, <2>1, <3>1
      <4>2. Unnamed(n) # k /\ Unnamed(n) \in Keys
        BY <2>0, <4>1
      <4> QED BY <1>0, <1>6, <1>7, <4>1, <4>2, <3>1 DEF RowOK, FreshNumbers
    <3>2. i.seq \in Nat /\ i.seq <= Len(i.priors)
      <4>1. Len(j.priors) \in Nat
        BY <1>1
      <4> QED BY <4>1, <1>1, <1>8, <2>1
    <3> QED BY <3>1, <3>2 DEF FreshNumbers
  <2>3. DeadOK(i)
    <3>1. \A n \in 0 .. MaxSends : Unnamed(n) \in i.dead =>
             /\ 0 < n /\ n <= i.seq
             /\ InPriors(i, Unnamed(n)) => DeadSet(i.coins[Unnamed(n)])
      <4> TAKE n \in 0 .. MaxSends
      <4> HAVE Unnamed(n) \in i.dead
      <4>1. Unnamed(n) # k /\ Unnamed(n) \in Keys
        BY <2>0
      <4>2. Unnamed(n) \in j.dead
        BY <1>2, <4>1
      <4> QED BY <1>0, <1>6, <1>7, <2>1, <4>1, <4>2 DEF RowOK, DeadOK
    <3>2. \A b \in Sends : Tx(b) \in i.dead => Doomed(b)
      BY <1>0, <1>2, <1>13, <2>0 DEF RowOK, DeadOK
    <3>3. i.dead \subseteq Keys
      BY <1>0, <1>2, <1>4 DEF RowOK, DeadOK
    <3> QED BY <3>1, <3>2, <3>3 DEF DeadOK
  <2>4. RowOK(i)
    BY <1>0, <1>2, <1>9, <1>10, <1>11, <2>2, <2>3 DEF RowOK
  <2>5. Slots(i) = Slots(j)
    BY <1>2, <1>6, <1>13, <2>0 DEF Slots, Holds
  <2>6. Tokens(i) \subseteq Tokens(j)
    <3>1. ASSUME NEW b \in Unkeyed(i) PROVE b \in Unkeyed(j)
      <4>1. Tx(b) # j.marker /\ ~InPriors(j, Tx(b)) /\ b \in sent
        BY <1>0, <1>6, <1>13 DEF Unkeyed, Holds
      <4> QED BY <4>1 DEF Unkeyed, Holds
    <3> QED BY <3>1 DEF Tokens
  <2>7. \A m \in Slots(j) : Own(i, m) = Own(j, m)
    <3>1. \A m \in Slots(j) : m \in Keys /\ m # NoTx /\ m # k
      BY <2>0 DEF Slots
    <3> QED BY <3>1, <1>2, <1>7, <1>13 DEF Own
  <2> QED BY <1>0, <1>2, <2>4, <2>5, <2>6, <2>7, BehindFewer DEF InOrder
<1> QED BY <1>2, <1>12, <1>13 DEF i

\* A reservation adds a nameless entry and marks what it found dead; nobody
\* hides behind the new entry yet.
LEMMA ReservedInOrder ==
  ASSUME ChainOK, NEW j, InOrder(j), j.marker = NoTx, Len(j.priors) < MaxSends, NEW see,
         NEW lost, lost \subseteq {k \in Keys : InPriors(j, k) /\ j.coins[k] # {}
                                      /\ Judged(j.coins[k], Id(k), FALSE, see) = "dead"},
         NEW i, DOMAIN i = JobFields, i.from = j.from, i.pin = j.pin, i.marker = Unknown,
         i.removals = {}, i.priors = j.priors, i.coins = j.coins, i.seq = j.seq,
         i.dead = j.dead \cup lost
  PROVE  /\ RowOK(i) /\ Blank(i) /\ Tokens(i) \subseteq Tokens(j)
         /\ Behind(i, made, Tokens(i), Slots(i) \ {Unknown})
<1> USE Names, KeyNames
<1>0. RowOK(j) /\ Behind(j, made, Tokens(j), Slots(j)) /\ sent \subseteq Sends
      /\ MaxSends \in Nat /\ MaxSends > 0
  BY WarpAssumption DEF InOrder, sent, WarpAssumption
<1>1. \A k : InPriors(i, k) <=> InPriors(j, k)
  BY DEF InPriors
<1>2. DeadOK(i)
  <2>0. ASSUME NEW k \in lost
        PROVE  InPriors(j, k) /\ DeadSet(j.coins[k]) /\ j.coins[k] # {}
    <3> DEFINE id == Id(k)
    <3>1. InPriors(j, k) /\ Judged(j.coins[k], id, FALSE, see) = "dead"
      OBVIOUS
    <3> HIDE DEF id
    <3> QED BY <3>1, JudgedDeadAlone, ZenonT(60)
  <2>1. \A n \in 0 .. MaxSends : Unnamed(n) \in i.dead =>
             /\ 0 < n /\ n <= i.seq
             /\ InPriors(i, Unnamed(n)) => DeadSet(i.coins[Unnamed(n)])
    <3> TAKE n \in 0 .. MaxSends
    <3> HAVE Unnamed(n) \in i.dead
    <3>1. CASE Unnamed(n) \in j.dead
      BY <1>0, <1>1, <3>1 DEF RowOK, DeadOK
    <3>2. CASE Unnamed(n) \in lost
      <4>1. InPriors(j, Unnamed(n)) /\ DeadSet(j.coins[Unnamed(n)])
        BY <3>2, <2>0
      <4>2. n # 0
        BY <4>1, <1>0 DEF RowOK, ListOK, Unknown
      <4>3. ~(n > j.seq) /\ j.seq \in Nat /\ n \in Nat
        BY <4>1, <4>2, <1>0 DEF RowOK, FreshNumbers
      <4> QED BY <4>1, <4>2, <4>3, <1>1
    <3> QED BY <3>1, <3>2
  <2>2. \A a \in Sends : Tx(a) \in i.dead => Doomed(a)
    <3> TAKE a \in Sends
    <3> HAVE Tx(a) \in i.dead
    <3>1. CASE Tx(a) \in j.dead
      BY <1>0, <3>1 DEF RowOK, DeadOK
    <3>2. CASE Tx(a) \in lost
      <4>1. InPriors(j, Tx(a)) /\ DeadSet(j.coins[Tx(a)]) /\ j.coins[Tx(a)] # {}
        BY <3>2, <2>0
      <4>2. a \in sent /\ j.coins[Tx(a)] = made[a]
        BY <1>0, <4>1 DEF RowOK, ListOK, CoinsOK
      <4> QED BY <4>1, <4>2 DEF DeadSet
    <3> QED BY <3>1, <3>2
  <2>3. i.dead \subseteq Keys
    BY <1>0 DEF RowOK, DeadOK
  <2> QED BY <2>1, <2>2, <2>3 DEF DeadOK
<1>3. MarkerOK(i)
  <2>1. j.seq \in Nat /\ j.seq <= Len(j.priors) /\ Len(j.priors) \in Nat
    BY <1>0 DEF RowOK, FreshNumbers, ListOK
  <2>2. j.seq < MaxSends
    BY <2>1, <1>0
  <2> QED BY <2>2, <1>0 DEF MarkerOK, CoinSets
<1>4. RowOK(i)
  BY <1>0, <1>1, <1>2, <1>3 DEF RowOK, ListOK, CoinsOK, FreshNumbers
<1>5. Slots(i) \ {Unknown} = Slots(j)
  BY <1>0, <1>1 DEF Slots, Holds, RowOK, ListOK
<1>6. Tokens(i) \subseteq Tokens(j)
  BY <1>0, <1>1 DEF Tokens, Unkeyed, Holds
<1>7. \A k \in Slots(j) : Own(i, k) = Own(j, k)
  <2>1. \A k \in Slots(j) : k # NoTx /\ k # Unknown
    BY <1>5 DEF Slots
  <2> QED BY <2>1 DEF Own
<1> QED BY <1>0, <1>4, <1>5, <1>6, <1>7, BehindFewer DEF Blank

-----------------------------------------------------------------------------
(* Entries that take an id.                                                *)

\* A list without repetition in which one entry takes a name of its own.
LEMMA RenamedList ==
  ASSUME NEW s \in Seq(Keys), NEW k, NEW n \in Keys, \A m \in DOMAIN s : s[m] # n,
         \A l, m \in DOMAIN s : s[l] = s[m] => l = m,
         \E m \in DOMAIN s : s[m] = k
  PROVE  LET t == [i \in DOMAIN s |-> IF s[i] = k THEN n ELSE s[i]]
         IN /\ t \in Seq(Keys) /\ Len(t) = Len(s)
            /\ \A l, m \in DOMAIN t : t[l] = t[m] => l = m
            /\ \A x : (\E i \in DOMAIN t : t[i] = x)
                 <=> x = n \/ (x # k /\ \E i \in DOMAIN s : s[i] = x)
<1> DEFINE t == [i \in DOMAIN s |-> IF s[i] = k THEN n ELSE s[i]]
<1>1. Len(s) \in Nat /\ DOMAIN s = 1 .. Len(s) /\ \A i \in DOMAIN s : s[i] \in Keys
  OBVIOUS
<1>2. t \in [1 .. Len(s) -> Keys]
  BY <1>1
<1>3. t \in Seq(Keys)
  BY <1>1, <1>2, SeqDef
<1>4. DOMAIN t = DOMAIN s /\ \A i \in DOMAIN s : t[i] = IF s[i] = k THEN n ELSE s[i]
  BY <1>1
<1> HIDE DEF t
<1>5. Len(t) = Len(s)
  BY <1>1, <1>3, <1>4
<1>6. \A l, m \in DOMAIN t : t[l] = t[m] => l = m
  BY <1>4
<1>7. \A x : (\E i \in DOMAIN t : t[i] = x) <=> x = n \/ (x # k /\ \E i \in DOMAIN s : s[i] = x)
  BY <1>4
<1> QED BY <1>3, <1>5, <1>6, <1>7 DEF t

\* What a number is.
LEMMA NumberedKeys ==
  \A k \in Numbers : /\ k \in Keys /\ Id(k) = 0 /\ \E n \in 0 .. MaxSends : k = Unnamed(n)
<1>1. 0 .. MaxSends \subseteq Nat
  BY WarpAssumption DEF WarpAssumption
<1> QED BY <1>1, Names, KeyNames DEF Numbers

\* A retired entry takes the id of the send it was found to be, in the list, in
\* the recorded coins and among the dead.
LEMMA RekeyedKeeps ==
  ASSUME NEW j, RowOK(j), NEW k \in Numbers, InPriors(j, k), k \notin j.dead,
         NEW a \in sent, ~Holds(j, Tx(a)),
         NEW i, i = Rekeyed(j, k, a, made[a])
  PROVE  /\ RowOK(i) /\ Tokens(i) \subseteq Tokens(j) \ {Tx(a)} /\ Slots(i) = Slots(j) \ {k}
         /\ \A m \in Keys : m # k /\ m # Tx(a) => Own(i, m) = Own(j, m)
         /\ \A x : Holds(i, x) <=> x = Tx(a) \/ (x # k /\ Holds(j, x))
         /\ \A f \in JobFields \ {"priors", "coins", "dead"} : i[f] = j[f]
         /\ i.dead = j.dead /\ InPriors(i, Tx(a)) /\ i.priors # <<>>
<1> USE Names, KeyNames
<1>0. a \in Sends /\ Tx(a) # k /\ k # Tx(a) /\ k \in Keys /\ sent \subseteq Sends
  BY DEF sent
<1>1. ~InPriors(j, Tx(a)) /\ j.marker # Tx(a) /\ j.marker # k
  BY DEF Holds, RowOK, ListOK
<1> DEFINE t == [m \in DOMAIN j.priors |-> IF j.priors[m] = k THEN Tx(a) ELSE j.priors[m]]
<1>2. /\ DOMAIN i = JobFields /\ i.priors = t
      /\ i.coins = [[j.coins EXCEPT ![k] = {}] EXCEPT ![Tx(a)] = made[a]]
      /\ i.dead = j.dead
      /\ \A f \in JobFields \ {"priors", "coins", "dead"} : i[f] = j[f]
  <2>1. DOMAIN j = JobFields
    BY DEF RowOK
  <2>2. i = [j EXCEPT !.priors = t, !.coins = [[@ EXCEPT ![k] = {}] EXCEPT ![Tx(a)] = made[a]],
                      !.dead = @]
    BY <1>0, <1>1 DEF Rekeyed
  <2> HIDE DEF t
  <2> QED BY <2>1, <2>2 DEF JobFields
<1>3. /\ i.marker = j.marker /\ i.removals = j.removals /\ i.seq = j.seq /\ i.pin = j.pin
      /\ i.from = j.from
  BY <1>2 DEF JobFields
<1>4. j.priors \in Seq(Keys) /\ (\A l, m \in DOMAIN j.priors : j.priors[l] = j.priors[m] => l = m)
  BY DEF RowOK, ListOK
<1>5. /\ t \in Seq(Keys) /\ Len(t) = Len(j.priors)
      /\ \A l, m \in DOMAIN t : t[l] = t[m] => l = m
      /\ \A x : (\E m \in DOMAIN t : t[m] = x)
           <=> x = Tx(a) \/ (x # k /\ \E m \in DOMAIN j.priors : j.priors[m] = x)
  BY <1>0, <1>1, <1>4, RenamedList DEF InPriors
<1> HIDE DEF t
<1>6. \A x : InPriors(i, x) <=> x = Tx(a) \/ (x # k /\ InPriors(j, x))
  <2> TAKE x
  <2>1. InPriors(i, x) <=> \E m \in DOMAIN t : t[m] = x
    BY <1>2 DEF InPriors
  <2>2. InPriors(j, x) <=> \E m \in DOMAIN j.priors : j.priors[m] = x
    BY DEF InPriors
  <2> QED BY <1>5, <2>1, <2>2
<1>7. /\ DOMAIN i.coins = Keys
      /\ \A x \in Keys : i.coins[x] = IF x = Tx(a) THEN made[a]
                                     ELSE IF x = k THEN {} ELSE j.coins[x]
  <2>1. DOMAIN j.coins = Keys
    BY DEF RowOK, CoinsOK
  <2> QED BY <1>0, <1>2, <2>1
<1>8. \A x : Holds(i, x) <=> x = Tx(a) \/ (x # k /\ Holds(j, x))
  BY <1>0, <1>1, <1>3, <1>6 DEF Holds
<1>9. ListOK(i)
  <2>1. \A b \in Sends : Tx(b) = Tx(a) => b = a
    BY <1>0
  <2>2. \A b \in Sends : InPriors(i, Tx(b)) => b \in sent
    BY <1>0, <1>6, <2>1 DEF RowOK, ListOK
  <2>3. ~InPriors(i, Unknown) /\ ~InPriors(i, i.marker)
    BY <1>0, <1>1, <1>3, <1>6 DEF RowOK, ListOK
  <2> QED BY <1>2, <1>5, <2>2, <2>3 DEF ListOK
<1>10. CoinsOK(i)
  <2>1. made[a] \in CoinSets /\ {} \in CoinSets
    BY DEF CoinSets
  <2>2. \A b \in Sends : Tx(b) # k
    BY <1>0
  <2> QED BY <1>0, <1>7, <2>1, <2>2 DEF RowOK, CoinsOK
<1>11. FreshNumbers(i)
  <2>1. 1 .. MaxSends \subseteq 0 .. MaxSends
    BY WarpAssumption DEF WarpAssumption
  <2>2. \A n \in 0 .. MaxSends : Unnamed(n) \in Keys /\ Unnamed(n) # Tx(a)
    BY <1>0
  <2> QED BY <1>2, <1>3, <1>5, <1>6, <1>7, <2>1, <2>2 DEF RowOK, FreshNumbers
<1>12. DeadOK(i)
  <2>1. \A n \in 0 .. MaxSends : Unnamed(n) \in Keys /\ Unnamed(n) # Tx(a)
    BY <1>0
  <2> QED BY <1>2, <1>3, <1>6, <1>7, <2>1 DEF RowOK, DeadOK
<1>13. RowOK(i)
  BY <1>2, <1>3, <1>9, <1>10, <1>11, <1>12 DEF RowOK, MarkerOK
<1>14. Tokens(i) \subseteq Tokens(j) \ {Tx(a)}
  <2>1. \A b \in Unkeyed(i) : b \in Unkeyed(j) /\ b # a
    BY <1>0, <1>8 DEF Unkeyed
  <2>2. \A e : Call(e) # Tx(a)
    BY DEF Call, Tx
  <2>3. \A b \in Unkeyed(i) : b \in Sends
    BY <1>0 DEF Unkeyed
  <2> QED BY <1>0, <2>1, <2>2, <2>3 DEF Tokens
<1>15. Slots(i) = Slots(j) \ {k}
  <2>1. Tx(a) \notin Numbers
    BY <1>0
  <2> QED BY <1>8, <2>1 DEF Slots
<1>16. \A m \in Keys : m # k /\ m # Tx(a) => Own(i, m) = Own(j, m)
  BY <1>3, <1>7 DEF Own
<1>17. i.priors # <<>>
  BY <1>6 DEF InPriors
<1> QED BY <1>2, <1>6, <1>8, <1>13, <1>14, <1>15, <1>16, <1>17

\* A retired entry with an id learns its coins.
LEMMA LearnedKeeps ==
  ASSUME NEW j, RowOK(j), NEW a \in sent, InPriors(j, Tx(a)),
         NEW i, i = Rekeyed(j, Tx(a), a, made[a])
  PROVE  /\ RowOK(i) /\ Tokens(i) = Tokens(j) /\ Slots(i) = Slots(j)
         /\ \A m \in Keys : m # Tx(a) => Own(i, m) = Own(j, m)
         /\ \A x : Holds(i, x) <=> Holds(j, x)
         /\ \A f \in JobFields \ {"priors", "coins", "dead"} : i[f] = j[f]
         /\ i.dead = j.dead /\ i.priors = j.priors
<1> USE Names, KeyNames
<1>0. a \in Sends /\ sent \subseteq Sends /\ Tx(a) \in Keys
  BY DEF sent
<1> DEFINE t == [m \in DOMAIN j.priors |-> IF j.priors[m] = Tx(a) THEN Tx(a) ELSE j.priors[m]]
<1>1. t = j.priors
  <2>1. j.priors \in Seq(Keys)
    BY DEF RowOK, ListOK
  <2>2. j.priors = [m \in DOMAIN j.priors |-> j.priors[m]]
    BY <2>1
  <2> QED BY <2>2
<1>2. /\ DOMAIN i = JobFields /\ i.priors = t
      /\ i.coins = [[j.coins EXCEPT ![Tx(a)] = {}] EXCEPT ![Tx(a)] = made[a]]
      /\ i.dead = j.dead
      /\ \A f \in JobFields \ {"priors", "coins", "dead"} : i[f] = j[f]
  <2>1. DOMAIN j = JobFields
    BY DEF RowOK
  <2>2. \A S : (S \ {Tx(a)}) \cup {Tx(a)} = S \cup {Tx(a)}
    OBVIOUS
  <2>3. i = [j EXCEPT !.priors = t, !.coins = [[@ EXCEPT ![Tx(a)] = {}] EXCEPT ![Tx(a)] = made[a]],
                      !.dead = IF Tx(a) \in @ THEN (@ \ {Tx(a)}) \cup {Tx(a)} ELSE @]
    BY DEF Rekeyed
  <2> HIDE DEF t
  <2>4. i.dead = j.dead
    <3>1. i.dead = IF Tx(a) \in j.dead THEN (j.dead \ {Tx(a)}) \cup {Tx(a)} ELSE j.dead
      BY <2>1, <2>3 DEF JobFields
    <3> QED BY <3>1
  <2> QED BY <2>1, <2>3, <2>4 DEF JobFields
<1>3. /\ i.marker = j.marker /\ i.removals = j.removals /\ i.seq = j.seq /\ i.pin = j.pin
      /\ i.from = j.from /\ i.priors = j.priors
  BY <1>1, <1>2 DEF JobFields
<1>6. \A x : InPriors(i, x) <=> InPriors(j, x)
  BY <1>3 DEF InPriors
<1>7. /\ DOMAIN i.coins = Keys
      /\ \A x \in Keys : i.coins[x] = IF x = Tx(a) THEN made[a] ELSE j.coins[x]
  <2>1. DOMAIN j.coins = Keys
    BY DEF RowOK, CoinsOK
  <2> QED BY <1>0, <1>2, <2>1
<1>8. \A x : Holds(i, x) <=> Holds(j, x)
  BY <1>3, <1>6 DEF Holds
<1>10. CoinsOK(i)
  <2>1. made[a] \in CoinSets
    BY DEF CoinSets
  <2> QED BY <1>0, <1>7, <2>1 DEF RowOK, CoinsOK
<1>11. FreshNumbers(i)
  <2>1. 1 .. MaxSends \subseteq 0 .. MaxSends
    BY WarpAssumption DEF WarpAssumption
  <2>2. \A n \in 0 .. MaxSends : Unnamed(n) \in Keys /\ Unnamed(n) # Tx(a)
    BY <1>0
  <2> QED BY <1>2, <1>3, <1>6, <1>7, <2>1, <2>2 DEF RowOK, FreshNumbers
<1>12. DeadOK(i)
  <2>1. \A n \in 0 .. MaxSends : Unnamed(n) \in Keys /\ Unnamed(n) # Tx(a)
    BY <1>0
  <2> QED BY <1>2, <1>3, <1>6, <1>7, <2>1 DEF RowOK, DeadOK
<1>13. RowOK(i)
  BY <1>2, <1>3, <1>6, <1>10, <1>11, <1>12 DEF RowOK, MarkerOK, ListOK
<1>14. Tokens(i) = Tokens(j) /\ Slots(i) = Slots(j)
  BY <1>8 DEF Tokens, Unkeyed, Slots
<1>16. \A m \in Keys : m # Tx(a) => Own(i, m) = Own(j, m)
  BY <1>3, <1>7 DEF Own
<1> QED BY <1>2, <1>3, <1>8, <1>13, <1>14, <1>16

-----------------------------------------------------------------------------
(* A pass over the attempts (_prior_sends_settled), by what it has judged. *)

\* An output's spend is final only once its send is.
OutsOK == /\ out \in [Sends -> {"none", "unspent", "claimed", "swept"}]
          /\ outdeep \in [Sends -> BOOLEAN]
          /\ \A a \in Sends : outdeep[a] => out[a] \in {"claimed", "swept"} /\ Final(a)

\* A send nothing is left of to land or to sweep.
Gone(a) == Doomed(a) \/ (out[a] \in {"claimed", "swept"} /\ outdeep[a])

\* A send without an id was presumed gone.
AnyPresumed(j) == \E n \in 0 .. MaxSends : Unnamed(n) \in j.presumed

\* What lets a pass close an entry: presumed gone, or gone on the chain with
\* every send of its coins.
Cleared(j, k) ==
  \/ k \in j.presumed \/ AnyPresumed(j)
  \/ \E a \in sent : k = Tx(a) /\ Gone(a)
  \/ k \in Numbers /\ Own(j, k) # {} /\ \A a \in sent : made[a] = Own(j, k) => Gone(a)

\* What a pass leaves of the job: it writes only what it learns of attempts.
SameJob(i, j) ==
  /\ i.status = j.status /\ i.from = j.from /\ i.pin = j.pin /\ i.abandoned = j.abandoned
  /\ i.seq = j.seq /\ j.presumed \subseteq i.presumed /\ (i.priors = <<>> <=> j.priors = <<>>)

\* An entry the pass has not come to is as it was when the pass began.
Untouched(j, i, k) ==
  /\ k \in Keys /\ Holds(i, k) /\ (k = j.marker <=> k = i.marker) /\ Own(i, k) = Own(j, k)
  /\ k \in i.dead => k \in j.dead

\* The fields of a pass.
PassFields == {"job", "was", "now", "open", "cut", "named", "live", "sets"}

\* A pass over the row j with the entries of todo ahead of it: its row is in
\* order, it gives no id out twice, and while nothing keeps the job open every
\* entry but those of open is cleared.
PassOK(p, j, todo, open) ==
  /\ DOMAIN p = PassFields /\ p.was = j /\ p.now = j.marker
  /\ InOrder(p.job) /\ SameJob(p.job, j)
  /\ \A k \in todo : Untouched(j, p.job, k)
  /\ \A a \in Sends : Holds(p.job, Tx(a)) => a \in p.named
  /\ \A k \in Slots(p.job) : Own(p.job, k) \in {{}} \cup p.sets
  /\ ~p.open /\ ~p.cut => \A k \in Keys : Holds(p.job, k) => k \in open \/ Cleared(p.job, k)

\* What an edit of the lists leaves alone.
LEMMA SameFields ==
  ASSUME NEW i, NEW j, \A f \in JobFields \ {"priors", "coins", "dead"} : i[f] = j[f]
  PROVE  /\ i.status = j.status /\ i.from = j.from /\ i.pin = j.pin /\ i.abandoned = j.abandoned
         /\ i.seq = j.seq /\ i.presumed = j.presumed /\ i.marker = j.marker
         /\ i.removals = j.removals
  BY DEF JobFields

\* An edit of the row that holds the same entries with the same coins.
LEMMA PassEdited ==
  ASSUME NEW p, NEW j, NEW R, NEW W, PassOK(p, j, R, W),
         NEW q, DOMAIN q = PassFields, q.was = p.was, q.now = p.now, q.open = p.open, q.cut = p.cut,
         q.named = p.named, q.sets = p.sets, InOrder(q.job), SameJob(q.job, j),
         p.job.presumed \subseteq q.job.presumed, q.job.marker = p.job.marker,
         \A x : Holds(q.job, x) <=> Holds(p.job, x),
         \A x \in R \cup Numbers : Own(q.job, x) = Own(p.job, x),
         \A x \in R : x \in q.job.dead => x \in j.dead
  PROVE  PassOK(q, j, R, W)
<1>1. \A k \in R : Untouched(j, q.job, k)
  BY DEF PassOK, Untouched
<1>2. Slots(q.job) = Slots(p.job)
  BY DEF Slots
<1>3. \A k \in Slots(q.job) : Own(q.job, k) \in {{}} \cup q.sets
  BY <1>2 DEF PassOK, Slots
<1>4. \A k : Cleared(p.job, k) => Cleared(q.job, k)
  BY DEF Cleared, AnyPresumed
<1> QED BY <1>1, <1>3, <1>4 DEF PassOK

\* An entry keeps the job open: nothing more is claimed of the pass.
LEMMA PassKept ==
  ASSUME NEW p, NEW j, NEW R, NEW W, PassOK(p, j, R, W), NEW V
  PROVE  PassOK(Keeps(p), j, R, V)
<1> DEFINE q == Keeps(p)
<1>1. /\ DOMAIN q = PassFields /\ q.was = p.was /\ q.now = p.now /\ q.open = TRUE /\ q.cut = p.cut
      /\ q.named = p.named /\ q.sets = p.sets /\ q.job = p.job
  BY DEF Keeps, PassOK, PassFields
<1> HIDE DEF q
<1> QED BY <1>1 DEF PassOK, q

\* An entry is cleared.
LEMMA PassClosed ==
  ASSUME NEW p, NEW j, NEW R, NEW k, PassOK(p, j, R, R \cup {k}), Cleared(p.job, k)
  PROVE  PassOK(p, j, R, R)
  BY DEF PassOK

\* An absent entry is presumed gone.
LEMMA PresumedKeeps ==
  ASSUME NEW p, NEW j, NEW R, NEW W, PassOK(p, j, R, W), NEW k
  PROVE  LET q == [p EXCEPT !.job.presumed = @ \cup {k}]
         IN PassOK(q, j, R, W) /\ k \in q.job.presumed
<1> DEFINE q == [p EXCEPT !.job.presumed = @ \cup {k}]
           i == [p.job EXCEPT !.presumed = @ \cup {k}]
<1>0. RowOK(p.job) /\ Behind(p.job, made, Tokens(p.job), Slots(p.job)) /\ DOMAIN p.job = JobFields
  BY DEF PassOK, InOrder, RowOK
<1>1. /\ DOMAIN q = PassFields /\ q.was = p.was /\ q.now = p.now /\ q.open = p.open /\ q.cut = p.cut
      /\ q.named = p.named /\ q.sets = p.sets /\ q.job = i
  BY DEF PassOK, PassFields
<1>2. /\ DOMAIN i = JobFields /\ i.presumed = p.job.presumed \cup {k}
      /\ i.status = p.job.status /\ i.from = p.job.from /\ i.pin = p.job.pin
      /\ i.abandoned = p.job.abandoned /\ i.marker = p.job.marker /\ i.removals = p.job.removals
      /\ i.priors = p.job.priors /\ i.coins = p.job.coins /\ i.seq = p.job.seq
      /\ i.dead = p.job.dead
  BY <1>0 DEF JobFields
<1> HIDE DEF q, i
<1>3. SameRow(i, p.job)
  BY <1>0, <1>2 DEF SameRow, RowOK
<1>4. /\ InOrder(i) /\ \A x : Own(i, x) = Own(p.job, x) /\ (InPriors(i, x) <=> InPriors(p.job, x))
  BY <1>0, <1>3, SameRowKeeps DEF InOrder
<1>5. SameJob(i, j)
  BY <1>2 DEF PassOK, SameJob
<1>6. \A x : Holds(i, x) <=> Holds(p.job, x)
  BY <1>2, <1>4 DEF Holds
<1>7. \A x \in R : x \in i.dead => x \in j.dead
  BY <1>2 DEF PassOK, Untouched
<1>8. PassOK(q, j, R, W)
  BY <1>1, <1>2, <1>4, <1>5, <1>6, <1>7, PassEdited
<1> QED BY <1>1, <1>2, <1>8 DEF q

\* An entry is listed as proven dead.
LEMMA DeadKeeps ==
  ASSUME NEW p, NEW j, NEW R, NEW W, PassOK(p, j, R, W), NEW k \in Keys, k \notin R,
         \A a \in Sends : k = Tx(a) => Doomed(a),
         \A n \in 0 .. MaxSends : k = Unnamed(n) => 0 < n /\ n <= p.job.seq,
         k \in Numbers /\ InPriors(p.job, k) => DeadSet(p.job.coins[k])
  PROVE  LET q == [p EXCEPT !.job.dead = @ \cup {k}]
         IN PassOK(q, j, R, W)
<1> DEFINE q == [p EXCEPT !.job.dead = @ \cup {k}]
           i == [p.job EXCEPT !.dead = @ \cup {k}]
<1>0. RowOK(p.job) /\ Behind(p.job, made, Tokens(p.job), Slots(p.job)) /\ DOMAIN p.job = JobFields
  BY DEF PassOK, InOrder, RowOK
<1>1. /\ DOMAIN q = PassFields /\ q.was = p.was /\ q.now = p.now /\ q.open = p.open /\ q.cut = p.cut
      /\ q.named = p.named /\ q.sets = p.sets /\ q.job = i
  BY DEF PassOK, PassFields
<1>2. /\ DOMAIN i = JobFields /\ i.presumed = p.job.presumed
      /\ i.status = p.job.status /\ i.from = p.job.from /\ i.pin = p.job.pin
      /\ i.abandoned = p.job.abandoned /\ i.marker = p.job.marker /\ i.removals = p.job.removals
      /\ i.priors = p.job.priors /\ i.coins = p.job.coins /\ i.seq = p.job.seq
      /\ i.dead = p.job.dead \cup {k}
  BY <1>0 DEF JobFields
<1> HIDE DEF q, i
<1>3. \A x : Own(i, x) = Own(p.job, x) /\ (InPriors(i, x) <=> InPriors(p.job, x))
  BY <1>2 DEF Own, InPriors
<1>4. DeadOK(i)
  <2>1. \A n \in 0 .. MaxSends : Unnamed(n) \in i.dead =>
             /\ 0 < n /\ n <= i.seq
             /\ InPriors(i, Unnamed(n)) => DeadSet(i.coins[Unnamed(n)])
    <3> TAKE n \in 0 .. MaxSends
    <3> HAVE Unnamed(n) \in i.dead
    <3>1. CASE Unnamed(n) = k
      BY <1>2, <1>3, <3>1, KeyNames
    <3>2. CASE Unnamed(n) \in p.job.dead
      BY <1>0, <1>2, <1>3, <3>2 DEF RowOK, DeadOK
    <3> QED BY <1>2, <3>1, <3>2
  <2> QED BY <1>0, <1>2, <2>1 DEF RowOK, DeadOK
<1>5. RowOK(i)
  BY <1>0, <1>2, <1>3, <1>4 DEF RowOK, MarkerOK, ListOK, CoinsOK, FreshNumbers
<1>6. \A x : Holds(i, x) <=> Holds(p.job, x)
  BY <1>2, <1>3 DEF Holds
<1>7. Tokens(i) = Tokens(p.job) /\ Slots(i) = Slots(p.job)
  BY <1>6 DEF Tokens, Unkeyed, Slots
<1>8. InOrder(i)
  BY <1>0, <1>3, <1>5, <1>7, BehindFewer DEF InOrder
<1>9. SameJob(i, j)
  BY <1>2 DEF PassOK, SameJob
<1>10. \A x \in R : x \in i.dead => x \in j.dead
  BY <1>2 DEF PassOK, Untouched
<1>11. PassOK(q, j, R, W)
  BY <1>1, <1>2, <1>3, <1>6, <1>8, <1>9, <1>10, PassEdited
<1> QED BY <1>11 DEF q

\* An entry with an id learns its coins.
LEMMA LearnsKeeps ==
  ASSUME NEW p, NEW j, NEW R, NEW W, PassOK(p, j, R, W), NEW b \in sent, Holds(p.job, Tx(b)),
         Tx(b) \notin R, Tx(b) = j.marker <=> Tx(b) = p.job.marker
  PROVE  LET q == Learns(p, Tx(b), made[b])
         IN /\ PassOK(q, j, R, W) /\ q.was = j /\ q.now = j.marker
            /\ \A x : Holds(q.job, x) <=> Holds(p.job, x)
            /\ q.job.seq = p.job.seq
<1> USE Names, KeyNames
<1> DEFINE q == Learns(p, Tx(b), made[b])
<1>0. RowOK(p.job) /\ Behind(p.job, made, Tokens(p.job), Slots(p.job)) /\ DOMAIN p.job = JobFields
      /\ b \in Sends /\ b # 0 /\ Id(Tx(b)) = b /\ Tx(b) \notin Numbers
      /\ p.was = j /\ p.now = j.marker
  BY WarpAssumption DEF PassOK, InOrder, RowOK, sent, Sends, WarpAssumption
<1>1. CASE Tx(b) = p.job.marker
  <2> DEFINE i == [p.job EXCEPT !.removals = made[b]]
  <2>1. q = [p EXCEPT !.job.removals = made[b]]
    BY <1>0, <1>1 DEF Learns
  <2>2. /\ DOMAIN q = PassFields /\ q.was = p.was /\ q.now = p.now /\ q.open = p.open
        /\ q.cut = p.cut
        /\ q.named = p.named /\ q.sets = p.sets /\ q.job = i
    BY <2>1 DEF PassOK, PassFields
  <2>3. /\ DOMAIN i = JobFields /\ i.presumed = p.job.presumed
        /\ i.status = p.job.status /\ i.from = p.job.from /\ i.pin = p.job.pin
        /\ i.abandoned = p.job.abandoned /\ i.marker = p.job.marker /\ i.removals = made[b]
        /\ i.priors = p.job.priors /\ i.coins = p.job.coins /\ i.seq = p.job.seq
        /\ i.dead = p.job.dead
    BY <1>0 DEF JobFields
  <2> HIDE DEF q, i
  <2>4. InOrder(i)
    <3>1. InOrder(p.job) /\ p.job.from \in Pending /\ p.job.pin \in {0} \cup sent
      BY <1>0 DEF InOrder, RowOK
    <3> QED BY <1>1, <2>3, <3>1, CoinsLearned
  <2>5. \A x : Holds(i, x) <=> Holds(p.job, x)
    BY <2>3 DEF Holds, InPriors
  <2>6. \A x \in R \cup Numbers : Own(i, x) = Own(p.job, x)
    BY <1>0, <1>1, <2>3 DEF Own
  <2>7. SameJob(i, j) /\ \A x \in R : x \in i.dead => x \in j.dead
    BY <2>3 DEF PassOK, SameJob, Untouched
  <2>8. PassOK(q, j, R, W)
    BY <2>2, <2>3, <2>4, <2>5, <2>6, <2>7, PassEdited
  <2> QED BY <1>0, <2>2, <2>3, <2>5, <2>8 DEF q
<1>2. CASE Tx(b) # p.job.marker
  <2> DEFINE i == Rekeyed(p.job, Tx(b), b, made[b])
  <2>1. q = [p EXCEPT !.job = i]
    BY <1>0, <1>2 DEF Learns
  <2>2. /\ DOMAIN q = PassFields /\ q.was = p.was /\ q.now = p.now /\ q.open = p.open
        /\ q.cut = p.cut
        /\ q.named = p.named /\ q.sets = p.sets /\ q.job = i
    BY <2>1 DEF PassOK, PassFields
  <2> HIDE DEF q
  <2>3. InPriors(p.job, Tx(b))
    BY <1>2 DEF Holds
  <2>4. /\ RowOK(i) /\ Tokens(i) = Tokens(p.job) /\ Slots(i) = Slots(p.job)
        /\ \A m \in Keys : m # Tx(b) => Own(i, m) = Own(p.job, m)
        /\ \A x : Holds(i, x) <=> Holds(p.job, x)
        /\ \A f \in JobFields \ {"priors", "coins", "dead"} : i[f] = p.job[f]
        /\ i.dead = p.job.dead /\ i.priors = p.job.priors
    BY <1>0, <2>3, LearnedKeeps
  <2> HIDE DEF i
  <2>5. /\ i.status = p.job.status /\ i.from = p.job.from /\ i.pin = p.job.pin
        /\ i.abandoned = p.job.abandoned /\ i.seq = p.job.seq /\ i.presumed = p.job.presumed
        /\ i.marker = p.job.marker
    BY <2>4, SameFields
  <2>6. InOrder(i)
    <3>1. \A m \in Slots(p.job) : Own(i, m) = Own(p.job, m)
      BY <1>0, <2>4 DEF Slots
    <3> QED BY <1>0, <2>4, <3>1, BehindFewer DEF InOrder
  <2>7. SameJob(i, j) /\ \A x \in R : x \in i.dead => x \in j.dead
    BY <2>4, <2>5 DEF PassOK, SameJob, Untouched
  <2>8. \A x \in R \cup Numbers : Own(i, x) = Own(p.job, x)
    BY <1>0, <2>4 DEF PassOK, Untouched
  <2>9. PassOK(q, j, R, W)
    BY <2>2, <2>4, <2>5, <2>6, <2>7, <2>8, PassEdited
  <2> QED BY <1>0, <2>2, <2>4, <2>5, <2>9 DEF q
<1> QED BY <1>1, <1>2

-----------------------------------------------------------------------------
(* The verdicts of a pass.                                                 *)

\* A send that landed and whose output is gone for good settles every send of
\* the same coins.
LEMMA LandedForGood ==
  ASSUME ChainOK, OutsOK, NEW b \in sent, outdeep[b], NEW a \in sent, made[a] = made[b]
  PROVE  Gone(a)
<1>1. a \in Sends /\ b \in Sends /\ made[b] # {}
  BY DEF sent
<1>2. out[b] \in {"claimed", "swept"} /\ Final(b) /\ Landed(b)
  BY <1>1 DEF OutsOK, Final
<1>3. PICK c \in made[b] : TRUE
  BY <1>1
<1>4. c \in Coins /\ by[c] = Tx(b) /\ deep[c]
  BY <1>1, <1>2, <1>3 DEF ChainOK, Final
<1>5. CASE a = b
  BY <1>2, <1>5 DEF Gone
<1>6. CASE a # b
  <2>1. by[c] # Tx(a) /\ Spent(c)
    BY <1>1, <1>4, <1>6, Names DEF Spent
  <2> QED BY <1>3, <1>4, <2>1 DEF Gone, Doomed
<1> QED BY <1>5, <1>6

\* A verdict that closes an entry, of death or of outputs gone for good, does so
\* for every send of the coins it was given on.
LEMMA VerdictSettles ==
  ASSUME ChainOK, OutsOK, Separate, kind = "fund", NEW known \in CoinSets, NEW a, NEW see,
         \/ Judged(known, a, FALSE, see) = "dead"
         \/ /\ Judged(known, a, FALSE, see) = "landed"
            /\ \A b \in sent : Landed(b) /\ Parent(b) \in known => outdeep[b]
  PROVE  known # {} /\ \A b \in sent : made[b] = known => Gone(b)
<1>1. CASE Judged(known, a, FALSE, see) = "dead"
  <2>1. DeadSet(known) /\ known # {}
    BY <1>1, JudgedDeadAlone
  <2> QED BY <2>1 DEF DeadSet, Gone
<1>2. CASE /\ Judged(known, a, FALSE, see) = "landed"
           /\ \A b \in sent : Landed(b) /\ Parent(b) \in known => outdeep[b]
  <2>1. PICK b \in sent : Landed(b) /\ Parent(b) \in known
    BY <1>2 DEF Judged, OutputSeen
  <2>2. outdeep[b]
    BY <1>2, <2>1
  <2>3. known = made[b]
    <3>1. Parent(b) \in made[b] \cap known
      BY <2>1, ParentIsACoin
    <3>2. \E c \in sent : known = made[c]
      BY <3>1 DEF CoinSets
    <3> QED BY <3>1, <3>2 DEF Separate
  <2> QED BY <2>1, <2>2, <2>3, LandedForGood
<1> QED BY <1>1, <1>2

\* An entry absent on this pass is presumed gone, was settled, or keeps the job
\* open.
LEMMA AbsentKeeps ==
  ASSUME NEW q, NEW j, NEW R, NEW m, PassOK(q, j, R, R \cup {m}), NEW k, NEW see,
         k # j.marker, k \notin j.dead, m = k \/ k \in Numbers
  PROVE  PassOK(Absent(q, k, see), j, R, R)
<1>0. q.was = j
  BY DEF PassOK
<1>1. ASSUME NEW i, k \in i.presumed PROVE Cleared(i, m)
  <2>1. CASE m = k
    BY <1>1, <2>1 DEF Cleared
  <2>2. CASE k \in Numbers
    BY <1>1, <2>2, NumberedKeys DEF Cleared, AnyPresumed
  <2> QED BY <2>1, <2>2
<1>2. CASE k \in Settled(j)
  <2>1. k \in j.presumed
    BY <1>0, <1>2 DEF Settled
  <2>2. k \in q.job.presumed
    BY <2>1 DEF PassOK, SameJob
  <2>3. Absent(q, k, see) = q
    BY <1>0, <1>2 DEF Absent
  <2> QED BY <1>1, <2>2, <2>3, PassClosed
<1>3. CASE k \notin Settled(j) /\ see.grace
  <2> DEFINE r == [q EXCEPT !.job.presumed = @ \cup {k}]
  <2>1. Absent(q, k, see) = r
    BY <1>0, <1>3 DEF Absent
  <2>2. PassOK(r, j, R, R \cup {m}) /\ k \in r.job.presumed
    BY PresumedKeeps
  <2> HIDE DEF r
  <2>3. Cleared(r.job, m)
    BY <1>1, <2>2
  <2> QED BY <2>1, <2>2, <2>3, PassClosed
<1>4. CASE k \notin Settled(j) /\ ~see.grace
  <2>1. Absent(q, k, see) = Keeps(q)
    BY <1>0, <1>4 DEF Absent
  <2> QED BY <2>1, PassKept
<1> QED BY <1>2, <1>3, <1>4

\* The verdict on an entry clears it or keeps the job open. m is the entry that
\* stands for it by now: k itself, or the id k has just taken.
LEMMA WeighsKeeps ==
  ASSUME ChainOK, OutsOK, Separate, kind = "fund", NEW see, see.held \subseteq sent,
         NEW j, RowOK(j), NEW p, NEW R, NEW k \in Keys, k \notin R, NEW m \in Keys, m \notin R,
         PassOK(p, j, R, R \cup {m}), Holds(p.job, m), k = j.marker \/ k \notin j.dead,
         m = k => (k = j.marker <=> k = p.job.marker),
         NEW a, NEW coins,
         \/ /\ \E b \in sent : a = b /\ m = Tx(b) /\ coins \in {{}, made[b]}
            /\ \/ m = k
               \/ /\ k \in Numbers /\ ~Holds(p.job, k) /\ coins # {}
                  /\ k # j.marker => InPriors(j, k)
         \/ a = 0 /\ m = k /\ k \in Numbers /\ coins = Own(p.job, k) /\ coins # {}
  PROVE  PassOK(Weighs(p, k, a, coins, see), j, R, R)
<1> USE Names, KeyNames
<1> DEFINE known == Removals(coins, a, see)
           v     == Judged(known, a, FALSE, see)
           q     == IF coins = {} /\ known # {} THEN Learns(p, k, known) ELSE p
           mine  == {b \in sent : Landed(b) /\ Parent(b) \in known}
           named == \E b \in sent : a = b /\ m = Tx(b) /\ coins \in {{}, made[b]}
           bare  == a = 0 /\ m = k /\ k \in Numbers /\ coins = Own(p.job, k) /\ coins # {}
<1>0. /\ RowOK(p.job) /\ p.was = j /\ p.now = j.marker /\ SameJob(p.job, j) /\ sent \subseteq Sends
      /\ \A b \in sent : made[b] # {}
  BY DEF PassOK, InOrder, sent
<1>1. \A b \in sent : named /\ a = b => m = Tx(b) /\ coins \in {{}, made[b]}
        /\ known \in {{}, made[b]}
  BY DEF Removals
<1>2. coins # {} => known = coins
  BY DEF Removals
<1>3. bare => coins \in CoinSets
  BY <1>0, NumberedKeys DEF RowOK, CoinsOK, MarkerOK, Own
<1>4. known \in CoinSets
  BY <1>1, <1>2, <1>3 DEF CoinSets
<1>5. /\ PassOK(q, j, R, R \cup {m}) /\ q.was = j /\ q.now = j.marker
      /\ (\A x : Holds(q.job, x) <=> Holds(p.job, x)) /\ q.job.seq = p.job.seq
      /\ (bare => q = p)
  <2>1. CASE coins = {} /\ known # {}
    <3>1. PICK b \in sent : a = b /\ m = Tx(b) /\ known = made[b]
      BY <1>1, <2>1
    <3>2. m = k
      BY <2>1
    <3> QED BY <2>1, <3>1, <3>2, LearnsKeeps
  <2>2. CASE ~(coins = {} /\ known # {})
    BY <1>0, <2>2
  <2> QED BY <2>1, <2>2
<1> HIDE DEF q
<1>6. ASSUME known # {}, \A b \in sent : made[b] = known => Gone(b)
      PROVE  Cleared(q.job, m)
  <2>1. CASE named
    <3>1. PICK b \in sent : a = b /\ m = Tx(b) /\ known = made[b]
      BY <1>1, <1>6, <2>1
    <3> QED BY <1>6, <3>1 DEF Cleared
  <2>2. CASE bare
    BY <1>2, <1>5, <1>6, <2>2 DEF Cleared
  <2> QED BY <2>1, <2>2
<1>8. CASE v = "orphan" /\ k # p.now
  <2>1. Weighs(p, k, a, coins, see) = Absent(q, k, see)
    BY <1>8 DEF Weighs, q
  <2>2. k # j.marker /\ k \notin j.dead
    BY <1>0, <1>8
  <2>3. m = k \/ k \in Numbers
    OBVIOUS
  <2>4. PassOK(q, j, R, R \cup {m})
    BY <1>5
  <2>5. PassOK(Absent(q, k, see), j, R, R)
    BY <2>2, <2>3, <2>4, AbsentKeeps
  <2> QED BY <2>1, <2>5
<1>9. CASE v = "dead"
  <2>1. DeadSet(known) /\ known # {}
    BY <1>9, JudgedDeadAlone
  <2>2. Cleared(q.job, m)
    BY <1>4, <1>6, <1>9, VerdictSettles
  <2>3. PassOK(q, j, R, R)
    BY <1>5, <2>2, PassClosed
  <2> DEFINE r == [q EXCEPT !.job.dead = @ \cup {k}]
  <2>4. Weighs(p, k, a, coins, see) = IF k = j.marker \/ k \in Settled(j) THEN q ELSE r
    BY <1>0, <1>9 DEF Weighs, q
  <2>5. CASE k # j.marker
    <3>1. \A b \in Sends : k = Tx(b) => Doomed(b)
      <4> SUFFICES ASSUME NEW b \in Sends, k = Tx(b) PROVE Doomed(b)
        OBVIOUS
      <4>1. m = k /\ b \in sent /\ a = b
        BY <1>0
      <4>2. known = made[b]
        BY <1>1, <2>1, <4>1
      <4> QED BY <2>1, <4>1, <4>2 DEF DeadSet
    <3>2. k \in Numbers => InPriors(j, k) \/ InPriors(p.job, k)
      BY <2>5 DEF Holds
    <3>3. k \in Numbers /\ InPriors(q.job, k) => DeadSet(q.job.coins[k])
      <4> SUFFICES ASSUME k \in Numbers, InPriors(q.job, k) PROVE DeadSet(q.job.coins[k])
        OBVIOUS
      <4>1. m = k /\ bare
        <5>1. Holds(p.job, k)
          BY <1>5 DEF Holds
        <5> QED BY <1>0, <5>1
      <4>2. known = Own(q.job, k)
        BY <1>2, <1>5, <4>1
      <4>3. k # q.job.marker
        <5>1. RowOK(q.job)
          BY <1>5 DEF PassOK, InOrder
        <5> QED BY <5>1 DEF RowOK, ListOK
      <4> QED BY <2>1, <4>2, <4>3 DEF Own
    <3>4. \A n \in 0 .. MaxSends : k = Unnamed(n) => 0 < n /\ n <= q.job.seq
      <4> SUFFICES ASSUME NEW n \in 0 .. MaxSends, k = Unnamed(n) PROVE 0 < n /\ n <= j.seq
        BY <1>0, <1>5 DEF SameJob
      <4>1. p.job.seq = j.seq
        BY <1>0 DEF SameJob
      <4>2. PICK i \in {j, p.job} : InPriors(i, k) /\ RowOK(i) /\ i.seq = j.seq
        BY <1>0, <3>2, <4>1
      <4>3. n # 0
        BY <4>2 DEF RowOK, ListOK, Unknown
      <4>4. ~(n > j.seq) /\ j.seq \in Nat /\ n \in Nat
        BY <4>2, <4>3, WarpAssumption DEF RowOK, FreshNumbers, WarpAssumption
      <4> QED BY <4>3, <4>4
    <3>5. PassOK(r, j, R, R)
      BY <2>3, <3>1, <3>3, <3>4, DeadKeeps
    <3> QED BY <2>3, <2>4, <3>5
  <2> QED BY <2>3, <2>4, <2>5
<1>10. CASE v = "landed" /\ \A b \in mine : out[b] # "unspent" /\ outdeep[b]
  <2>1. Weighs(p, k, a, coins, see) = q
    BY <1>10 DEF Weighs, q
  <2>2. \A b \in sent : Landed(b) /\ Parent(b) \in known => outdeep[b]
    BY <1>10
  <2>3. Cleared(q.job, m)
    BY <1>4, <1>6, <1>10, <2>2, VerdictSettles
  <2> QED BY <1>5, <2>1, <2>3, PassClosed
<1>11. CASE /\ ~(v = "orphan" /\ k # p.now) /\ v # "dead"
            /\ ~(v = "landed" /\ \A b \in mine : out[b] # "unspent" /\ outdeep[b])
  <2>1. Weighs(p, k, a, coins, see) = Keeps(q)
    BY <1>11 DEF Weighs, q
  <2> QED BY <1>5, <2>1, PassKept
<1> QED BY <1>8, <1>9, <1>10, <1>11

\* What the history names is a send no entry has the id of, with the coins of
\* the entry, or with coins no entry of the pass has when it knows none.
LEMMA NamedIsAHit ==
  ASSUME Separate, kind = "fund", NEW p, NEW coins \in CoinSets, NEW see, see.held \subseteq sent,
         Named(p, coins, see) # 0
  PROVE  LET a == Named(p, coins, see)
         IN /\ a \in sent /\ a \notin p.named
            /\ coins = made[a] \/ (coins = {} /\ made[a] \notin p.sets)
<1> DEFINE mine == IF coins = {} THEN {} ELSE {coins}
           ids  == {Tx(b) : b \in p.named}
           hits == Hits(see, ids, p.sets \ mine, p.live \ coins, coins)
<1>1. Named(p, coins, see) = Pick(hits, see)
  BY DEF Named
<1>2. hits # {}
  BY <1>1 DEF Pick
<1>3. hits \in SUBSET Sends
  BY DEF Hits, sent
<1>4. Pick(hits, see) \in hits
  BY <1>2, <1>3, PickIsAHit
<1>5. ASSUME NEW a \in hits
      PROVE  /\ a \in sent /\ a \notin p.named
             /\ coins = made[a] \/ (coins = {} /\ made[a] \notin p.sets)
  <2>1. a \in sent /\ Tx(a) \notin ids /\ made[a] \notin p.sets \ mine
        /\ (coins = {} \/ made[a] \cap coins # {})
    BY DEF Hits
  <2>2. a \notin p.named
    BY <2>1
  <2>3. CASE coins = {}
    BY <2>1, <2>2, <2>3
  <2>4. CASE coins # {}
    <3>1. PICK b \in sent : coins = made[b]
      BY <2>4 DEF CoinSets
    <3>2. made[a] = made[b]
      BY <2>1, <2>4, <3>1 DEF Separate
    <3> QED BY <2>1, <2>2, <3>1, <3>2
  <2> QED BY <2>3, <2>4
<1> QED BY <1>1, <1>4, <1>5

\* What every way of taking an id leaves of the pass.
LEMMA PassAdopted ==
  ASSUME NEW p, NEW j, NEW R, NEW k \in Numbers, k \notin R, PassOK(p, j, R \cup {k}, R \cup {k}),
         NEW a \in sent, a \notin p.named,
         NEW q, DOMAIN q = PassFields, q.was = p.was, q.now = p.now, q.open = p.open, q.cut = p.cut,
         q.named = p.named \cup {a}, p.sets \subseteq q.sets,
         InOrder(q.job), SameJob(q.job, j), q.job.presumed = p.job.presumed,
         q.job.dead = p.job.dead,
         \A x : Holds(q.job, x) <=> x = Tx(a) \/ (x # k /\ Holds(p.job, x)),
         \A x \in Keys : x # k /\ x # Tx(a) => Own(q.job, x) = Own(p.job, x),
         q.job.marker = p.job.marker \/ (q.job.marker = Tx(a) /\ p.job.marker = k)
  PROVE  /\ PassOK(q, j, R, R \cup {Tx(a)}) /\ ~Holds(q.job, k) /\ Holds(q.job, Tx(a))
         /\ Tx(a) \notin R
<1> USE Names, KeyNames
<1>0. a \in Sends /\ Tx(a) \in Keys /\ Tx(a) \notin Numbers /\ k \in Keys
      /\ ~Holds(p.job, Tx(a)) /\ \A x \in R : x # k
  BY DEF sent, PassOK
<1>1. Tx(a) \notin R
  BY <1>0 DEF PassOK, Untouched
<1>2. \A x \in R : Untouched(j, q.job, x)
  <2> SUFFICES ASSUME NEW x \in R PROVE Untouched(j, q.job, x)
    OBVIOUS
  <2>1. Untouched(j, p.job, x) /\ x # k /\ x # Tx(a)
    BY <1>0, <1>1 DEF PassOK
  <2>2. k = j.marker <=> k = p.job.marker
    BY DEF PassOK, Untouched
  <2> QED BY <2>1, <2>2 DEF Untouched
<1>3. \A b \in Sends : Holds(q.job, Tx(b)) => b \in q.named
  BY <1>0 DEF PassOK
<1>4. \A x \in Slots(q.job) : x \in Slots(p.job) /\ Own(q.job, x) = Own(p.job, x) /\ x # k
  BY <1>0 DEF Slots
<1>5. \A x \in Slots(q.job) : Own(q.job, x) \in {{}} \cup q.sets
  BY <1>4 DEF PassOK
<1>6. ASSUME ~q.open, ~q.cut, NEW x \in Keys, Holds(q.job, x), x \notin R \cup {Tx(a)}
      PROVE  Cleared(q.job, x)
  <2>1. Holds(p.job, x) /\ x # k /\ x # Tx(a)
    BY <1>6
  <2>2. Cleared(p.job, x)
    BY <1>6, <2>1 DEF PassOK
  <2>3. Own(q.job, x) = Own(p.job, x)
    BY <2>1
  <2> QED BY <2>2, <2>3 DEF Cleared, AnyPresumed
<1>7. PassOK(q, j, R, R \cup {Tx(a)})
  BY <1>2, <1>3, <1>5, <1>6 DEF PassOK
<1> QED BY <1>0, <1>1, <1>7

\* The row once its send on record has an id and coins.
Given(j, a) == [j EXCEPT !.marker = Tx(a), !.removals = made[a]]

\* The send on record takes the id of a send whose coins no entry knows.
LEMMA MarkerAdopted ==
  ASSUME NEW i0, InOrder(i0), i0.marker = Unknown, i0.removals = {}, NEW a \in sent,
         ~Holds(i0, Tx(a)),
         \A m \in Slots(i0) : Own(i0, m) # made[a]
  PROVE  LET i == Given(i0, a)
         IN /\ InOrder(i) /\ i.presumed = i0.presumed /\ i.dead = i0.dead /\ i.marker = Tx(a)
            /\ i.status = i0.status /\ i.from = i0.from /\ i.pin = i0.pin
            /\ i.abandoned = i0.abandoned /\ i.seq = i0.seq /\ i.priors = i0.priors
            /\ \A x : Holds(i, x) <=> x = Tx(a) \/ (x # Unknown /\ Holds(i0, x))
            /\ \A x \in Keys : x # Unknown /\ x # Tx(a) => Own(i, x) = Own(i0, x)
<1> DEFINE i == Given(i0, a)
<1>0. RowOK(i0) /\ DOMAIN i0 = JobFields /\ ~InPriors(i0, Unknown) /\ ~InPriors(i0, Tx(a))
  BY DEF InOrder, RowOK, ListOK, Holds
<1>1. /\ DOMAIN i = JobFields /\ i.presumed = i0.presumed /\ i.dead = i0.dead /\ i.marker = Tx(a)
      /\ i.status = i0.status /\ i.from = i0.from /\ i.pin = i0.pin /\ i.abandoned = i0.abandoned
      /\ i.seq = i0.seq /\ i.priors = i0.priors /\ i.coins = i0.coins /\ i.removals = made[a]
  BY <1>0 DEF JobFields, Given
<1> HIDE DEF i
<1>2. InOrder(i)
  <2>1. i0.from \in Pending /\ i0.pin \in {0} \cup sent
    BY <1>0 DEF RowOK
  <2>2. i.from \in Pending /\ i.pin \in {0} \cup sent /\ i.removals \in {{}, made[a]}
    BY <1>1, <2>1
  <2>3. i0.marker \in {NoTx, Unknown} /\ i0.removals \in {{}, made[a]}
    OBVIOUS
  <2>4. \A k \in Slots(i0) \ {Unknown} : Own(i0, k) # made[a]
    OBVIOUS
  <2> QED BY <1>0, <1>1, <2>2, <2>3, <2>4, AdoptedInOrder
<1>3. \A x : InPriors(i, x) <=> InPriors(i0, x)
  BY <1>1 DEF InPriors
<1>4. \A x : Holds(i, x) <=> x = Tx(a) \/ (x # Unknown /\ Holds(i0, x))
  BY <1>0, <1>1, <1>3 DEF Holds
<1>5. \A x \in Keys : x # Unknown /\ x # Tx(a) => Own(i, x) = Own(i0, x)
  BY <1>1 DEF Own
<1> QED BY <1>1, <1>2, <1>4, <1>5 DEF i

\* The pass once entry k has taken id a, and once its coins are on its books.
Taken(p, k, a) ==
  LET found == [p EXCEPT !.named = @ \cup {a}]
  IN IF k = p.now THEN [found EXCEPT !.job.marker = Tx(a), !.job.removals = made[a]]
     ELSE [found EXCEPT !.job = Rekeyed(@, k, a, made[a])]

Booked(p, k, a) == [Taken(p, k, a) EXCEPT !.live = @ \cup made[a], !.sets = @ \cup {made[a]}]

\* An entry without an id takes the one the history gives it.
LEMMA AdoptKeeps ==
  ASSUME Separate, kind = "fund", NEW see, see.held \subseteq sent, NEW p, NEW j, NEW R,
         NEW k \in Numbers, k \notin R, PassOK(p, j, R \cup {k}, R \cup {k}),
         k = j.marker => Own(j, k) = {}, k # j.marker => k \notin j.dead,
         Named(p, Own(j, k), see) # 0
  PROVE  LET a == Named(p, Own(j, k), see)
         IN /\ a \in sent
            /\ \A q \in {Taken(p, k, a), Booked(p, k, a)} :
                 /\ PassOK(q, j, R, R \cup {Tx(a)})
                 /\ ~Holds(q.job, k) /\ Holds(q.job, Tx(a)) /\ Tx(a) \notin R
<1> USE KeyNames
<1> DEFINE coins == Own(j, k)
           a     == Named(p, coins, see)
           found == [p EXCEPT !.named = @ \cup {a}]
           i     == IF k = j.marker THEN [p.job EXCEPT !.marker = Tx(a), !.removals = made[a]]
                    ELSE Rekeyed(p.job, k, a, made[a])
           adopt == Taken(p, k, a)
           books == Booked(p, k, a)
<1>0. /\ p.was = j /\ p.now = j.marker /\ DOMAIN p = PassFields /\ InOrder(p.job) /\ RowOK(p.job)
      /\ Untouched(j, p.job, k) /\ k \in Keys /\ SameJob(p.job, j)
      /\ Behind(p.job, made, Tokens(p.job), Slots(p.job))
  BY DEF PassOK, InOrder
<1>1. coins = Own(p.job, k) /\ Holds(p.job, k) /\ (k = j.marker <=> k = p.job.marker)
      /\ (k # j.marker => k \notin p.job.dead)
  BY <1>0 DEF Untouched
<1>2. coins \in CoinSets
  BY <1>0, <1>1 DEF Own, RowOK, MarkerOK, CoinsOK
<1>3. a \in sent /\ a \notin p.named /\ (coins = made[a] \/ (coins = {} /\ made[a] \notin p.sets))
  BY <1>2, NamedIsAHit
<1> HIDE DEF a
<1>4. ~Holds(p.job, Tx(a)) /\ a \in Sends /\ made[a] # {}
  BY <1>3 DEF PassOK, sent
<1>5. coins = {} => \A m \in Slots(p.job) : Own(p.job, m) # made[a]
  BY <1>3, <1>4 DEF PassOK
<1>6. /\ InOrder(i) /\ SameJob(i, j) /\ i.presumed = p.job.presumed /\ i.dead = p.job.dead
      /\ \A x : Holds(i, x) <=> x = Tx(a) \/ (x # k /\ Holds(p.job, x))
      /\ \A x \in Keys : x # k /\ x # Tx(a) => Own(i, x) = Own(p.job, x)
      /\ i.marker = p.job.marker \/ (i.marker = Tx(a) /\ p.job.marker = k)
  <2>1. CASE k = j.marker
    <3>1. k = Unknown /\ p.job.marker = Unknown /\ p.job.removals = {} /\ coins = {}
      <4>1. p.job.marker = k
        BY <1>1, <2>1
      <4>2. k = Unknown
        BY <1>0, <4>1 DEF RowOK, MarkerOK, sent
      <4> QED BY <1>1, <2>1, <4>1, <4>2 DEF Own
    <3>2. i = [p.job EXCEPT !.marker = Tx(a), !.removals = made[a]]
      BY <2>1
    <3>3. /\ InOrder(i) /\ i.presumed = p.job.presumed /\ i.dead = p.job.dead /\ i.marker = Tx(a)
          /\ i.status = p.job.status /\ i.from = p.job.from /\ i.pin = p.job.pin
          /\ i.abandoned = p.job.abandoned /\ i.seq = p.job.seq /\ i.priors = p.job.priors
          /\ \A x : Holds(i, x) <=> x = Tx(a) \/ (x # Unknown /\ Holds(p.job, x))
          /\ \A x \in Keys : x # Unknown /\ x # Tx(a) => Own(i, x) = Own(p.job, x)
      <4>1. \A m \in Slots(p.job) : Own(p.job, m) # made[a]
        BY <1>5, <3>1
      <4>2. InOrder(p.job) /\ p.job.marker = Unknown /\ p.job.removals = {} /\ a \in sent
            /\ ~Holds(p.job, Tx(a))
        BY <1>0, <1>3, <1>4, <3>1
      <4> DEFINE e == Given(p.job, a)
      <4>3. /\ InOrder(e) /\ e.presumed = p.job.presumed /\ e.dead = p.job.dead /\ e.marker = Tx(a)
            /\ e.status = p.job.status /\ e.from = p.job.from /\ e.pin = p.job.pin
            /\ e.abandoned = p.job.abandoned /\ e.seq = p.job.seq /\ e.priors = p.job.priors
            /\ \A x : Holds(e, x) <=> x = Tx(a) \/ (x # Unknown /\ Holds(p.job, x))
            /\ \A x \in Keys : x # Unknown /\ x # Tx(a) => Own(e, x) = Own(p.job, x)
        BY <4>1, <4>2, MarkerAdopted
      <4>4. i = e
        BY <3>2 DEF Given
      <4> HIDE DEF i, e
      <4> QED BY <4>3, <4>4
    <3> HIDE DEF i
    <3> QED BY <1>0, <3>1, <3>3 DEF SameJob
  <2>2. CASE k # j.marker
    <3>1. InPriors(p.job, k) /\ k \notin p.job.dead
      BY <1>1, <2>2 DEF Holds
    <3>2. i = Rekeyed(p.job, k, a, made[a])
      BY <2>2
    <3> HIDE DEF i
    <3>3. /\ RowOK(i) /\ Tokens(i) \subseteq Tokens(p.job) \ {Tx(a)}
          /\ Slots(i) = Slots(p.job) \ {k}
          /\ \A m \in Keys : m # k /\ m # Tx(a) => Own(i, m) = Own(p.job, m)
          /\ \A x : Holds(i, x) <=> x = Tx(a) \/ (x # k /\ Holds(p.job, x))
          /\ \A f \in JobFields \ {"priors", "coins", "dead"} : i[f] = p.job[f]
          /\ i.dead = p.job.dead /\ i.priors # <<>>
      BY <1>0, <1>3, <1>4, <3>1, <3>2, RekeyedKeeps
    <3>4. /\ i.status = p.job.status /\ i.from = p.job.from /\ i.pin = p.job.pin
          /\ i.abandoned = p.job.abandoned /\ i.seq = p.job.seq /\ i.presumed = p.job.presumed
          /\ i.marker = p.job.marker
      BY <3>3, SameFields
    <3>5. p.job.priors # <<>>
      BY <3>1 DEF InPriors
    <3>6. SameJob(i, j)
      BY <1>0, <3>3, <3>4, <3>5 DEF SameJob
    <3>7. Behind(i, made, Tokens(p.job) \ {Tx(a)}, Slots(p.job) \ {k})
      <4>1. k \in Slots(p.job) /\ Tx(a) \in Tokens(p.job)
        BY <1>1, <1>3, <1>4 DEF Slots, Tokens, Unkeyed
      <4>2. Own(p.job, k) = made[a] \/ (\A m \in Slots(p.job) : Own(p.job, m) # made[a])
        BY <1>1, <1>3, <1>5
      <4>3. \A m \in Slots(p.job) \ {k} : Own(i, m) = Own(p.job, m)
        BY <1>4, <3>3 DEF Slots
      <4> QED BY <1>0, <1>3, <4>1, <4>2, <4>3, BehindNamed
    <3>8. InOrder(i)
      BY <3>3, <3>7, BehindFewer DEF InOrder
    <3> QED BY <3>3, <3>4, <3>6, <3>8
  <2> QED BY <2>1, <2>2
<1>7. /\ DOMAIN adopt = PassFields /\ adopt.was = p.was /\ adopt.now = p.now /\ adopt.open = p.open
      /\ adopt.cut = p.cut /\ adopt.named = p.named \cup {a} /\ adopt.sets = p.sets
      /\ adopt.job = i
  <2> HIDE DEF i
  <2>1. CASE k = p.now
    <3>1. adopt = [found EXCEPT !.job.marker = Tx(a), !.job.removals = made[a]]
      BY <2>1 DEF Taken
    <3> HIDE DEF adopt
    <3> QED BY <1>0, <2>1, <3>1 DEF PassFields, i
  <2>2. CASE k # p.now
    <3>1. adopt = [found EXCEPT !.job = Rekeyed(p.job, k, a, made[a])]
      BY <1>0, <2>2 DEF PassFields, Taken
    <3> HIDE DEF adopt
    <3> QED BY <1>0, <2>2, <3>1 DEF PassFields, i
  <2> QED BY <2>1, <2>2
<1>8. /\ DOMAIN books = PassFields /\ books.was = p.was /\ books.now = p.now /\ books.open = p.open
      /\ books.cut = p.cut /\ books.named = p.named \cup {a} /\ p.sets \subseteq books.sets
      /\ books.job = i
  <2>1. books = [adopt EXCEPT !.live = @ \cup made[a], !.sets = @ \cup {made[a]}]
    BY DEF Booked
  <2> HIDE DEF adopt, books, i
  <2> QED BY <1>7, <2>1 DEF PassFields
<1> HIDE DEF i, adopt, books
<1>9. ASSUME NEW q \in {adopt, books}
      PROVE  /\ PassOK(q, j, R, R \cup {Tx(a)})
             /\ ~Holds(q.job, k) /\ Holds(q.job, Tx(a)) /\ Tx(a) \notin R
  <2>1. /\ DOMAIN q = PassFields /\ q.was = p.was /\ q.now = p.now /\ q.open = p.open
        /\ q.cut = p.cut /\ q.named = p.named \cup {a} /\ p.sets \subseteq q.sets /\ q.job = i
    BY <1>7, <1>8
  <2>2. /\ InOrder(q.job) /\ SameJob(q.job, j)
        /\ q.job.presumed = p.job.presumed /\ q.job.dead = p.job.dead
        /\ \A x : Holds(q.job, x) <=> x = Tx(a) \/ (x # k /\ Holds(p.job, x))
        /\ \A x \in Keys : x # k /\ x # Tx(a) => Own(q.job, x) = Own(p.job, x)
        /\ q.job.marker = p.job.marker \/ (q.job.marker = Tx(a) /\ p.job.marker = k)
    BY <1>6, <2>1
  <2> QED BY <1>3, <2>1, <2>2, PassAdopted, SMTT(40)
<1> QED BY <1>3, <1>9 DEF a, adopt, books

\* One step of the pass: the entry it comes to is cleared or keeps the job open,
\* and the pass stays in order.
LEMMA JudgesKeeps ==
  ASSUME ChainOK, OutsOK, Separate, kind = "fund", NEW see, see.held \subseteq sent,
         NEW j, RowOK(j), NEW p, NEW R, NEW k \in Keys, k \notin R, Holds(j, k),
         PassOK(p, j, R \cup {k}, R \cup {k})
  PROVE  PassOK(Judges(p, k, see), j, R, R)
<1> USE Names, KeyNames
<1> DEFINE coins == Own(j, k)
           a     == Named(p, coins, see)
           reads == Id(k) = 0 /\ (coins = {} \/ k # p.now)
<1>0. /\ p.was = j /\ p.now = j.marker /\ DOMAIN p = PassFields /\ RowOK(p.job)
      /\ Untouched(j, p.job, k) /\ SameJob(p.job, j)
  BY DEF PassOK, InOrder
<1>1. /\ coins = Own(p.job, k) /\ Holds(p.job, k) /\ (k = j.marker <=> k = p.job.marker)
      /\ k # j.marker => InPriors(j, k)
  BY <1>0 DEF Untouched, Holds
<1>2. PassOK(p, j, R, R \cup {k})
  BY DEF PassOK
<1>3. k \in Numbers \/ \E b \in sent : k = Tx(b) /\ Id(k) = b /\ b # 0 /\ coins \in {{}, made[b]}
  <2>1. CASE k \notin Numbers
    <3>1. PICK b \in Sends : k = Tx(b)
      BY <2>1
    <3>2. b \in sent
      <4>1. CASE k = j.marker
        <5>1. k \notin {NoTx, Unknown}
          BY <3>1
        <5>2. PICK c \in sent : k = Tx(c)
          BY <4>1, <5>1 DEF RowOK, MarkerOK
        <5> QED BY <3>1, <5>2 DEF sent
      <4>2. CASE k # j.marker
        BY <1>1, <3>1, <4>2 DEF RowOK, ListOK
      <4> QED BY <4>1, <4>2
    <3>3. coins \in {{}, made[b]}
      BY <3>1, <3>2 DEF Own, RowOK, MarkerOK, CoinsOK
    <3>4. b # 0 /\ Id(k) = b
      BY <3>1, WarpAssumption DEF Sends, WarpAssumption
    <3> QED BY <3>1, <3>2, <3>3, <3>4
  <2> QED BY <2>1
<1>4. k \in Numbers => Id(k) = 0
  BY NumberedKeys
<1>5. CASE p.cut
  <2>1. Judges(p, k, see) = p
    BY <1>5 DEF Judges
  <2> QED BY <1>2, <1>5, <2>1 DEF PassOK
<1>6. CASE ~p.cut /\ k # p.now /\ k \in p.was.dead
  <2>1. Judges(p, k, see) = p
    BY <1>6 DEF Judges
  <2>2. k \in j.dead /\ InPriors(j, k) /\ k # j.marker
    BY <1>0, <1>1, <1>6
  <2>3. Cleared(p.job, k)
    <3>1. CASE k \in Numbers
      <4>1. DeadSet(j.coins[k])
        <5>1. PICK n \in 0 .. MaxSends : k = Unnamed(n)
          BY <3>1, NumberedKeys
        <5> QED BY <2>2, <5>1 DEF RowOK, DeadOK
      <4>2. j.coins[k] = Own(p.job, k)
        BY <1>1, <2>2 DEF Own
      <4> QED BY <3>1, <4>1, <4>2 DEF Cleared, DeadSet, Gone
    <3>2. CASE k \notin Numbers
      <4>1. PICK b \in sent : k = Tx(b)
        BY <1>3, <3>2
      <4>2. Doomed(b)
        BY <2>2, <4>1 DEF RowOK, DeadOK, sent
      <4> QED BY <4>1, <4>2 DEF Cleared, Gone
    <3> QED BY <3>1, <3>2
  <2> QED BY <1>2, <2>1, <2>3, PassClosed
<1> DEFINE on == ~p.cut /\ ~(k # p.now /\ k \in p.was.dead)
<1>7. CASE on /\ reads /\ see.fail = "history"
  <2> DEFINE q == [p EXCEPT !.cut = TRUE]
  <2>1. Judges(p, k, see) = q
    BY <1>0, <1>7 DEF Judges
  <2>2. /\ DOMAIN q = PassFields /\ q.was = p.was /\ q.now = p.now /\ q.open = p.open
        /\ q.cut = TRUE
        /\ q.named = p.named /\ q.sets = p.sets /\ q.job = p.job
    BY <1>0 DEF PassFields
  <2> HIDE DEF q
  <2> QED BY <1>2, <2>1, <2>2 DEF PassOK
<1>8. on => k = j.marker \/ k \notin j.dead
  BY <1>0
<1>9. CASE on /\ ~reads
  <2>1. Judges(p, k, see) = Weighs(p, k, Id(k), coins, see)
    BY <1>0, <1>9 DEF Judges
  <2>2. CASE k \in Numbers
    <3>1. Id(k) = 0 /\ coins # {} /\ coins = Own(p.job, k)
      BY <1>1, <1>4, <1>9, <2>2
    <3>2. PassOK(Weighs(p, k, 0, coins, see), j, R, R)
      BY <1>1, <1>2, <1>8, <1>9, <2>2, <3>1, WeighsKeeps
    <3> QED BY <2>1, <3>1, <3>2
  <2>3. CASE k \notin Numbers
    <3>1. PICK b \in sent : k = Tx(b) /\ Id(k) = b /\ coins \in {{}, made[b]}
      BY <1>3, <2>3
    <3>2. PassOK(Weighs(p, k, b, coins, see), j, R, R)
      BY <1>1, <1>2, <1>8, <1>9, <3>1, WeighsKeeps
    <3> QED BY <2>1, <3>1, <3>2
  <2> QED BY <2>2, <2>3
<1>10. CASE on /\ reads /\ see.fail # "history" /\ a # 0
  <2>1. k \in Numbers
    BY <1>3, <1>10
  <2> DEFINE q == IF coins = {} THEN Booked(p, k, a) ELSE Taken(p, k, a)
  <2>2. Judges(p, k, see) = Weighs(q, k, a, made[a], see)
    <3>1. CASE coins = {}
      BY <1>0, <1>10, <3>1 DEF Judges, Booked, Taken
    <3>2. CASE coins # {}
      BY <1>0, <1>10, <3>2 DEF Judges, Booked, Taken
    <3> QED BY <3>1, <3>2
  <2>3. (k = j.marker => Own(j, k) = {}) /\ (k # j.marker => k \notin j.dead)
    BY <1>0, <1>8, <1>10
  <2>4. /\ a \in sent
        /\ \A r \in {Taken(p, k, a), Booked(p, k, a)} :
             /\ PassOK(r, j, R, R \cup {Tx(a)})
             /\ ~Holds(r.job, k) /\ Holds(r.job, Tx(a)) /\ Tx(a) \notin R
    BY <1>10, <2>1, <2>3, AdoptKeeps
  <2>5. PassOK(q, j, R, R \cup {Tx(a)}) /\ ~Holds(q.job, k) /\ Holds(q.job, Tx(a)) /\ Tx(a) \notin R
    BY <2>4
  <2> HIDE DEF q, a
  <2>6. /\ Tx(a) \in Keys /\ made[a] # {} /\ Tx(a) # k /\ (k = j.marker \/ k \notin j.dead)
        /\ k # j.marker => InPriors(j, k)
    BY <1>1, <1>8, <1>10, <2>1, <2>4 DEF sent
  <2>7. \E b \in sent : a = b /\ Tx(a) = Tx(b) /\ made[a] \in {{}, made[b]}
    BY <2>4
  <2>8. PassOK(Weighs(q, k, a, made[a], see), j, R, R)
    BY <2>1, <2>5, <2>6, <2>7, WeighsKeeps
  <2> QED BY <2>2, <2>8
<1>11. CASE on /\ reads /\ see.fail # "history" /\ a = 0 /\ coins # {}
  <2>1. k \in Numbers
    BY <1>3, <1>11
  <2>2. Judges(p, k, see) = Weighs(p, k, 0, coins, see)
    BY <1>0, <1>11 DEF Judges
  <2>3. PassOK(Weighs(p, k, 0, coins, see), j, R, R)
    BY <1>1, <1>2, <1>8, <1>11, <2>1, WeighsKeeps
  <2> QED BY <2>2, <2>3
<1>12. CASE on /\ reads /\ see.fail # "history" /\ a = 0 /\ coins = {}
  <2>1. Judges(p, k, see) = IF k = j.marker THEN Keeps(p) ELSE Absent(p, k, see)
    BY <1>0, <1>12 DEF Judges
  <2>2. CASE k = j.marker
    BY <1>2, <2>1, <2>2, PassKept
  <2>3. CASE k # j.marker
    <3>1. k \notin j.dead
      BY <1>8, <1>12, <2>3
    <3>2. PassOK(Absent(p, k, see), j, R, R)
      BY <1>2, <2>3, <3>1, AbsentKeeps
    <3> QED BY <2>1, <2>3, <3>2
  <2> QED BY <2>2, <2>3
<1> QED BY <1>5, <1>6, <1>7, <1>9, <1>10, <1>11, <1>12

-----------------------------------------------------------------------------
(* From the first attempt to the last.                                     *)

\* A pass goes through every entry, each once.
LEMMA AttemptsAreHeld ==
  ASSUME NEW j, RowOK(j)
  PROVE  LET all == Attempts(j)
         IN /\ all \in Seq(Keys) /\ \A m, n \in 1 .. Len(all) : all[m] = all[n] => m = n
            /\ \A x \in Keys : Holds(j, x) <=> \E m \in 1 .. Len(all) : all[m] = x
<1> USE Names, KeyNames
<1>1. j.priors \in Seq(Keys) /\ DOMAIN j.priors = 1 .. Len(j.priors) /\ Len(j.priors) \in Nat
  BY DEF RowOK, ListOK
<1>2. CASE j.marker = NoTx
  <2>1. Attempts(j) = j.priors
    BY <1>2 DEF Attempts
  <2> QED BY <1>1, <1>2, <2>1 DEF RowOK, ListOK, Holds, InPriors
<1>3. CASE j.marker # NoTx
  <2>1. Attempts(j) = Append(j.priors, j.marker)
    BY <1>3 DEF Attempts
  <2>2. j.marker \in Keys
    <3>1. \A a \in sent : Tx(a) \in Keys
      BY DEF sent
    <3> QED BY <1>3, <3>1 DEF RowOK, MarkerOK
  <2>3. \A m \in DOMAIN j.priors : j.priors[m] # j.marker
    BY DEF RowOK, ListOK, InPriors
  <2>4. \A m, n \in DOMAIN j.priors : j.priors[m] = j.priors[n] => m = n
    BY DEF RowOK, ListOK
  <2>5. \A m, n \in DOMAIN Attempts(j) : Attempts(j)[m] = Attempts(j)[n] => m = n
    BY <1>1, <2>1, <2>2, <2>3, <2>4, AppendDistinct
  <2>6. /\ Attempts(j) \in Seq(Keys) /\ Len(Attempts(j)) = Len(j.priors) + 1
        /\ DOMAIN Attempts(j) = 1 .. (Len(j.priors) + 1)
        /\ Attempts(j)[Len(j.priors) + 1] = j.marker
        /\ \A m \in 1 .. Len(j.priors) : Attempts(j)[m] = j.priors[m]
    BY <1>1, <2>1, <2>2
  <2>7. ASSUME NEW x \in Keys
        PROVE  Holds(j, x) <=> \E m \in 1 .. Len(Attempts(j)) : Attempts(j)[m] = x
    <3>1. ASSUME x = j.marker PROVE \E m \in 1 .. Len(Attempts(j)) : Attempts(j)[m] = x
      <4>1. Len(j.priors) + 1 \in 1 .. Len(Attempts(j))
        BY <1>1, <2>6
      <4> QED BY <2>6, <3>1, <4>1
    <3>2. ASSUME InPriors(j, x) PROVE \E m \in 1 .. Len(Attempts(j)) : Attempts(j)[m] = x
      <4>1. PICK m \in 1 .. Len(j.priors) : j.priors[m] = x
        BY <1>1, <3>2 DEF InPriors
      <4>2. m \in 1 .. Len(Attempts(j)) /\ Attempts(j)[m] = x
        BY <1>1, <2>6, <4>1
      <4> QED BY <4>2
    <3>3. ASSUME NEW m \in 1 .. Len(Attempts(j)), Attempts(j)[m] = x PROVE Holds(j, x)
      <4>1. CASE m = Len(j.priors) + 1
        BY <2>6, <3>3, <4>1 DEF Holds
      <4>2. CASE m # Len(j.priors) + 1
        <5>1. m \in 1 .. Len(j.priors)
          BY <1>1, <2>6, <4>2
        <5> QED BY <1>1, <2>6, <3>3, <5>1 DEF Holds, InPriors
      <4> QED BY <4>1, <4>2
    <3> QED BY <3>1, <3>2, <3>3 DEF Holds
  <2> QED BY <2>5, <2>6, <2>7
<1> QED BY <1>2, <1>3

\* A pass opens with every entry ahead of it.
LEMMA OpensInOrder ==
  ASSUME NEW j, InOrder(j), NEW R, R = {k \in Keys : Holds(j, k)}
  PROVE  PassOK(Opens(j), j, R, R)
<1> USE KeyNames
<1> DEFINE all   == Attempts(j)
           books == [k \in Keys |-> Own(j, k)]
           p     == Opens(j)
<1>0. RowOK(j)
  BY DEF InOrder
<1>1. \A x \in Keys : Holds(j, x) <=> \E m \in 1 .. Len(all) : all[m] = x
  BY <1>0, AttemptsAreHeld
<1>2. DOMAIN all = 1 .. Len(all)
  BY <1>0, AttemptsAreHeld
<1>3. /\ DOMAIN p = PassFields /\ p.job = j /\ p.was = j /\ p.now = j.marker
      /\ p.open = FALSE /\ p.cut = FALSE
      /\ p.named = {a \in Sends : \E i \in DOMAIN all : all[i] = Tx(a)}
      /\ p.sets = {books[k] : k \in Keys} \ {{}}
  BY DEF Opens, PassFields
<1> HIDE DEF p
<1>4. \A a \in Sends : Holds(j, Tx(a)) => a \in p.named
  BY <1>1, <1>2, <1>3
<1>5. \A k \in Slots(j) : Own(j, k) \in {{}} \cup p.sets
  <2>1. \A k \in Keys : books[k] = Own(j, k)
    OBVIOUS
  <2>2. \A k \in Slots(j) : k \in Keys
    BY DEF Slots
  <2> HIDE DEF books
  <2> QED BY <1>3, <2>1, <2>2
<1>6. SameJob(j, j) /\ \A k \in R : Untouched(j, j, k)
  BY DEF SameJob, Untouched
<1> QED BY <1>3, <1>4, <1>5, <1>6 DEF PassOK, p

\* The pass by its steps.
LEMMA PassSteps ==
  ASSUME NEW j, NEW see, Len(Attempts(j)) \in Nat
  PROVE  /\ Pass(j, see)[0] = Opens(j)
         /\ \A i \in 1 .. Len(Attempts(j)) :
              Pass(j, see)[i] = Judges(Pass(j, see)[i - 1], Attempts(j)[i], see)
<1> DEFINE n == Len(Attempts(j))
           J(p, i) == Judges(p, Attempts(j)[i], see)
           Good(m, g) == g = [i \in 0 .. m |-> IF i = 0 THEN Opens(j) ELSE J(g[i - 1], i)]
           Bad == {m \in Nat : ~\E g : Good(m, g)}
<1> HIDE DEF J
<1>1. Bad = {}
  <2> SUFFICES ASSUME Bad # {} PROVE FALSE
    OBVIOUS
  <2>1. PICK m \in Bad : \A k \in Bad : m <= k
    <3>1. Bad \in SUBSET Nat
      OBVIOUS
    <3> HIDE DEF Bad
    <3> QED BY <3>1, Least
  <2>2. m # 0
    <3>1. Good(0, [i \in 0 .. 0 |-> Opens(j)])
      OBVIOUS
    <3> QED BY <3>1
  <2>3. m - 1 \in Nat /\ m - 1 \notin Bad
    BY <2>1, <2>2
  <2>4. PICK g : Good(m - 1, g)
    BY <2>3
  <2> DEFINE h == [i \in 0 .. m |-> IF i = m THEN J(g[m - 1], m) ELSE g[i]]
  <2>5. Good(m, h)
    <3>1. ASSUME NEW i \in 0 .. m
          PROVE  h[i] = IF i = 0 THEN Opens(j) ELSE J(h[i - 1], i)
      <4>1. CASE i = m
        <5>1. h[m - 1] = g[m - 1] /\ h[m] = J(g[m - 1], m)
          BY <2>2, <2>3
        <5> QED BY <2>2, <4>1, <5>1
      <4>2. CASE i # m
        <5>1. i \in 0 .. m - 1 /\ m \in Nat
          BY <2>1, <4>2
        <5>2. g[i] = IF i = 0 THEN Opens(j) ELSE J(g[i - 1], i)
          BY <2>4, <5>1
        <5>3. h[i] = g[i] /\ (i # 0 => h[i - 1] = g[i - 1])
          BY <4>2, <5>1
        <5> QED BY <5>2, <5>3
      <4> QED BY <4>1, <4>2
    <3>2. h = [i \in 0 .. m |-> h[i]]
      OBVIOUS
    <3> HIDE DEF h
    <3> QED BY <3>1, <3>2
  <2> QED BY <2>1, <2>5
<1>2. PICK g : Good(n, g)
  BY <1>1
<1>3. Pass(j, see) = [i \in 0 .. n |-> IF i = 0 THEN Opens(j)
                                       ELSE Judges(Pass(j, see)[i - 1], Attempts(j)[i], see)]
  BY <1>2 DEF Pass, J
<1> DEFINE f == Pass(j, see)
<1> HIDE DEF f, n
<1>4. f = [i \in 0 .. n |-> IF i = 0 THEN Opens(j) ELSE Judges(f[i - 1], Attempts(j)[i], see)]
  BY <1>3 DEF f
<1>5. n \in Nat
  BY DEF n
<1>6. f[0] = Opens(j) /\ \A i \in 1 .. n : f[i] = Judges(f[i - 1], Attempts(j)[i], see)
  BY <1>4, <1>5
<1> QED BY <1>6 DEF f, n

\* The whole pass, by induction on the attempts it has judged: the first it
\* would go wrong at is none.
LEMMA PassKeeps ==
  ASSUME ChainOK, OutsOK, Separate, kind = "fund", NEW see, see.held \subseteq sent,
         NEW j, InOrder(j)
  PROVE  PassOK(Pass(j, see)[Len(Attempts(j))], j, {}, {})
<1> DEFINE all  == Attempts(j)
           n    == Len(all)
           R(i) == {all[m] : m \in i + 1 .. n}
           ok(i) == PassOK(Pass(j, see)[i], j, R(i), R(i))
           bad  == {i \in 0 .. n : ~ok(i)}
<1>0. RowOK(j)
  BY DEF InOrder
<1>1. /\ all \in Seq(Keys) /\ \A l, m \in 1 .. n : all[l] = all[m] => l = m
      /\ \A x \in Keys : Holds(j, x) <=> \E m \in 1 .. n : all[m] = x
  BY <1>0, AttemptsAreHeld
<1> HIDE DEF all
<1>2. n \in Nat /\ \A m \in 1 .. n : all[m] \in Keys
  BY <1>1
<1>3. ok(0)
  <2>1. R(0) = {k \in Keys : Holds(j, k)}
    BY <1>1, <1>2
  <2>2. Pass(j, see)[0] = Opens(j)
    BY <1>2, PassSteps DEF all
  <2> QED BY <2>1, <2>2, OpensInOrder
<1>4. ASSUME NEW i \in 1 .. n, ok(i - 1) PROVE ok(i)
  <2> DEFINE k == all[i]
             p == Pass(j, see)[i - 1]
  <2>1. k \in Keys /\ k \notin R(i) /\ Holds(j, k)
    BY <1>1, <1>2
  <2>2. R(i - 1) = R(i) \cup {k}
    <3>1. \A m : m \in i - 1 + 1 .. n <=> m \in i + 1 .. n \/ m = i
      BY <1>2
    <3> QED BY <3>1
  <2>3. PassOK(p, j, R(i) \cup {k}, R(i) \cup {k})
    BY <1>4, <2>2
  <2>4. Pass(j, see)[i] = Judges(p, k, see)
    BY <1>2, PassSteps DEF all
  <2> HIDE DEF k, p, R
  <2> QED BY <1>0, <2>1, <2>3, <2>4, JudgesKeeps
<1>5. bad = {}
  <2> SUFFICES ASSUME bad # {} PROVE FALSE
    OBVIOUS
  <2>1. PICK i \in bad : \A l \in bad : i <= l
    <3>1. bad \in SUBSET Nat
      BY <1>2
    <3> HIDE DEF bad
    <3> QED BY <3>1, Least
  <2>2. i # 0 /\ i \in 0 .. n
    BY <1>3, <2>1
  <2>3. i \in 1 .. n /\ i - 1 \in 0 .. n /\ ~(i <= i - 1)
    BY <1>2, <2>2
  <2>4. ok(i - 1)
    BY <2>1, <2>3
  <2> QED BY <1>4, <2>1, <2>3, <2>4
<1>6. ok(n)
  <2>1. n \in 0 .. n
    BY <1>2
  <2> HIDE DEF ok, n
  <2> QED BY <1>5, <2>1
<1>7. R(n) = {}
  BY <1>2
<1> QED BY <1>6, <1>7 DEF all

\* A job is settled when it never replaced a send, or when every entry it holds
\* by the end of the pass is cleared; either way its row is in order.
LEMMA SettlesKeeps ==
  ASSUME ChainOK, OutsOK, Separate, kind = "fund", NEW see, see.held \subseteq sent,
         NEW j, InOrder(j)
  PROVE  LET s == Settles(j, see)
         IN /\ InOrder(s.job) /\ SameJob(s.job, j)
            /\ s.settled => \/ s.job.priors = <<>> /\ s.job = j
                            \/ \A k \in Keys : Holds(s.job, k) => Cleared(s.job, k)
<1> DEFINE done == Pass(j, see)[Len(Attempts(j))]
<1>1. PassOK(done, j, {}, {})
  BY PassKeeps
<1> HIDE DEF done
<1>2. InOrder(done.job) /\ SameJob(done.job, j)
  BY <1>1 DEF PassOK
<1>3. ~done.open /\ ~done.cut => \A k \in Keys : Holds(done.job, k) => Cleared(done.job, k)
  BY <1>1 DEF PassOK
<1>4. SameJob(j, j)
  BY DEF SameJob
<1>5. CASE j.priors = <<>>
  BY <1>4, <1>5 DEF Settles
<1>6. CASE j.priors # <<>> /\ (see.fail = "outputs" \/ Unspent # {})
  BY <1>4, <1>6 DEF Settles
<1>7. CASE j.priors # <<>> /\ ~(see.fail = "outputs" \/ Unspent # {})
  <2>1. Settles(j, see) = [job |-> done.job, settled |-> ~done.open /\ ~done.cut]
    BY <1>7 DEF Settles, done
  <2>2. Settles(j, see).job = done.job
    BY <2>1
  <2>3. Settles(j, see).settled = (~done.open /\ ~done.cut)
    BY <2>1
  <2>4. CASE Settles(j, see).settled
    <3>1. ~done.open /\ ~done.cut
      BY <2>3, <2>4
    <3> QED BY <1>2, <1>3, <2>2, <3>1
  <2>5. CASE ~Settles(j, see).settled
    BY <1>2, <2>2, <2>5
  <2> QED BY <2>4, <2>5
<1> QED BY <1>5, <1>6, <1>7

-----------------------------------------------------------------------------
(* What the other steps leave of a row.                                    *)

\* What no step takes back: a send and its coins, and a death that is final.
Grows ==
  /\ sent \subseteq sent' /\ \A a \in sent : made'[a] = made[a]
  /\ \A a \in Sends : made[a] \in {{}, made'[a]}
  /\ \A a \in Sends : Doomed(a) => Doomed(a)'
  /\ \A S \in CoinSets : DeadSet(S) => DeadSet(S)'

\* A row stays one, whatever is made and buried.
LEMMA RowGrows ==
  ASSUME Grows, NEW i, RowOK(i)
  PROVE  RowOK(i)'
<1> USE DEF Grows
<1>1. CoinSets \subseteq CoinSets'
  BY DEF CoinSets
<1>2. sent \subseteq Sends
  BY DEF sent
<1>3. MarkerOK(i)'
  <2>1. i.marker \in {NoTx, Unknown} \cup {Tx(a) : a \in sent'}
    BY DEF RowOK, MarkerOK
  <2>2. \A a \in sent' : i.marker = Tx(a) => i.removals \in {{}, made'[a]}
    <3> SUFFICES ASSUME NEW a \in sent', i.marker = Tx(a) PROVE i.removals \in {{}, made'[a]}
      OBVIOUS
    <3>1. a \in Sends /\ Tx(a) \notin {NoTx, Unknown}
      BY Names DEF sent
    <3>2. PICK b \in sent : Tx(a) = Tx(b)
      BY <3>1 DEF RowOK, MarkerOK
    <3>3. a = b
      BY <1>2, <3>1, <3>2, Names
    <3> QED BY <3>2, <3>3 DEF RowOK, MarkerOK
  <2> QED BY <1>1, <2>1, <2>2 DEF RowOK, MarkerOK
<1>4. ListOK(i)'
  BY DEF RowOK, ListOK, InPriors
<1>5. CoinsOK(i)'
  BY <1>1 DEF RowOK, CoinsOK
<1>6. DeadOK(i)'
  <2>1. \A n \in 0 .. MaxSends : i.coins[Unnamed(n)] \in CoinSets
    BY KeyNames DEF RowOK, CoinsOK
  <2>2. \A n \in 0 .. MaxSends : InPriors(i, Unnamed(n))' <=> InPriors(i, Unnamed(n))
    BY DEF InPriors
  <2> QED BY <2>1, <2>2 DEF RowOK, DeadOK
<1>7. FreshNumbers(i)'
  BY DEF RowOK, FreshNumbers, InPriors
<1> QED BY <1>3, <1>4, <1>5, <1>6, <1>7 DEF RowOK

\* While no send is made it stays in order as well.
LEMMA OrderStays ==
  ASSUME Grows, made' = made, late' = late, NEW i, InOrder(i)
  PROVE  InOrder(i)'
<1>1. RowOK(i)'
  BY RowGrows DEF InOrder
<1>2. sent' = sent
  BY DEF sent
<1>3. Tokens(i)' = Tokens(i) /\ Slots(i)' = Slots(i)
  BY <1>2 DEF Tokens, Unkeyed, Slots, Holds, InPriors
<1> QED BY <1>1, <1>3 DEF InOrder

\* A step that leaves the chain alone takes nothing back,
LEMMA StillGrows ==
  ASSUME UNCHANGED <<chainVars, made>>
  PROVE  Grows /\ sent' = sent
<1>1. made' = made /\ by' = by /\ deep' = deep
  BY DEF chainVars
<1>2. sent' = sent
  BY <1>1 DEF sent
<1>3. \A a \in Sends : Doomed(a)' <=> Doomed(a)
  BY <1>1 DEF Doomed, Spent
<1>4. \A S : DeadSet(S) => DeadSet(S)'
  BY <1>1, <1>2 DEF DeadSet, AtDepth, Doomed, Spent
<1> QED BY <1>1, <1>2, <1>3, <1>4 DEF Grows

\* and neither does one of the chain,
LEMMA WorldGrows ==
  ASSUME ChainOK, World
  PROVE  Grows /\ sent' = sent
<1>1. /\ ChainOK' /\ made' = made /\ sent' = sent
      /\ \A a \in Sends : Doomed(a) => Doomed(a)'
  BY WorldKeeps
<1>2. \A c \in Coins : deep[c] => deep'[c]
  <2>1. deep' = deep \/ \E S : deep' = With(deep, S, TRUE)
    BY DEF World, Lands, BurySend, UndoSend, SpendsOut, BuryOut, UndoOut, TakesCoin, BuryTake,
           UndoTake, Chain
  <2> QED BY <2>1 DEF With, ChainOK
<1>3. ASSUME NEW S \in CoinSets, DeadSet(S) PROVE DeadSet(S)'
  <2>1. PICK c \in S : AtDepth(c)
    BY <1>3 DEF DeadSet
  <2>2. c \in Coins
    BY <2>1 DEF CoinSets, ChainOK, sent
  <2>3. AtDepth(c)'
    BY <1>1, <1>2, <2>1, <2>2 DEF AtDepth, ChainOK
  <2>4. \A b \in sent' : made'[b] = S => Doomed(b)'
    BY <1>1, <1>3 DEF DeadSet, sent
  <2> QED BY <2>1, <2>3, <2>4 DEF DeadSet
<1> QED BY <1>1, <1>3 DEF Grows

\* nor one that makes a send, which is numbered next.
LEMMA CallGrows ==
  ASSUME ChainOK, Numbered, kind \in {"fund", "burn"}, NEW excluded,
         Calls(NextSend, excluded), UNCHANGED <<chainVars, kind>>, Cardinality(sent) < MaxSends
  PROVE  /\ Grows /\ NextSend \in Sends /\ NextSend \notin sent /\ sent' = sent \cup {NextSend}
         /\ Cardinality(sent') = NextSend
<1>1. PICK S \in SUBSET Coins :
        /\ Cardinality(S) \in Inputs[kind] /\ \A c \in S : ~Spent(c)
        /\ made' = [made EXCEPT ![NextSend] = S]
  BY DEF Calls
<1>2. S # {}
  BY <1>1, FS_EmptySet, WarpAssumption DEF WarpAssumption
<1> DEFINE m == Cardinality(sent)
<1>3. m \in Nat /\ m <= MaxSends /\ sent = 1 .. m /\ NextSend = m + 1 /\ MaxSends \in Nat \ {0}
  BY Counted, WarpAssumption DEF WarpAssumption, NextSend
<1>4. by' = by /\ deep' = deep
  BY DEF chainVars
<1>5. NextSend \in Sends /\ NextSend \notin sent
  BY <1>3 DEF Sends
<1>6. \A a \in Sends : made'[a] = IF a = NextSend THEN S ELSE made[a]
  BY <1>1 DEF ChainOK
<1>7. sent' = sent \cup {NextSend}
  BY <1>2, <1>5, <1>6 DEF sent
<1>8. sent' = 1 .. (m + 1)
  BY <1>3, <1>7
<1>9. Cardinality(sent') = NextSend
  BY <1>3, <1>8, FS_Interval
<1>10. /\ \A a \in sent : made'[a] = made[a]
       /\ \A a \in Sends : made[a] \in {{}, made'[a]}
  BY <1>5, <1>6 DEF sent
<1>11. \A a \in Sends : Doomed(a) => Doomed(a)'
  <2> SUFFICES ASSUME NEW a \in Sends, Doomed(a) PROVE Doomed(a)'
    OBVIOUS
  <2>1. a \in sent
    BY DEF Doomed, sent
  <2> QED BY <1>4, <1>10, <2>1 DEF Doomed, Spent
<1>12. ASSUME NEW T \in CoinSets, DeadSet(T) PROVE DeadSet(T)'
  <2>1. PICK c \in T : AtDepth(c)
    BY <1>12 DEF DeadSet
  <2>2. AtDepth(c)' /\ T # S
    BY <1>1, <1>4, <2>1 DEF AtDepth, Spent
  <2>3. \A b \in sent' : made'[b] = T => b \in sent /\ made[b] = T /\ b \in Sends
    BY <1>6, <1>7, <1>10, <2>2 DEF sent
  <2>4. \A b \in sent' : made'[b] = T => Doomed(b)'
    BY <1>11, <1>12, <2>3 DEF DeadSet
  <2> QED BY <2>1, <2>2, <2>4 DEF DeadSet
<1> HIDE DEF m
<1> QED BY <1>5, <1>7, <1>9, <1>10, <1>11, <1>12 DEF Grows

\* No output is there at first.
LEMMA OutsInit == Init => OutsOK
  BY DEF Init, OutsOK

\* The chain buries an output's spend only over a final send.
LEMMA WorldKeepsOuts ==
  ASSUME ChainOK, OutsOK, World
  PROVE  OutsOK'
<1> DEFINE Vals == {"none", "unspent", "claimed", "swept"}
<1>0. /\ out \in [Sends -> Vals] /\ outdeep \in [Sends -> BOOLEAN] /\ deep \in [Coins -> BOOLEAN]
      /\ \A a \in Sends : outdeep[a] => out[a] \in {"claimed", "swept"}
           /\ \A c \in made[a] : deep[c]
      /\ made' = made /\ \A a \in Sends : \A c \in made[a] : c \in Coins
  BY WorldKeeps DEF OutsOK, ChainOK, Final
<1>1. \A c \in Coins : deep[c] => deep'[c]
  <2>1. deep' = deep \/ \E S : deep' = With(deep, S, TRUE)
    BY DEF World, Lands, BurySend, UndoSend, SpendsOut, BuryOut, UndoOut, TakesCoin, BuryTake,
           UndoTake, Chain
  <2> QED BY <1>0, <2>1 DEF With
<1>2. \A a \in Sends : outdeep[a] => \A c \in made[a] : deep'[c]
  BY <1>0, <1>1
<1>3. CASE out' = out /\ outdeep' = outdeep
  BY <1>0, <1>2, <1>3 DEF OutsOK, Final, Landed
<1>4. ASSUME NEW a \in Sends, ~outdeep[a], NEW v \in Vals, out' = With(out, {a}, v),
      outdeep' = outdeep
      PROVE  OutsOK'
  <2>1. out' \in [Sends -> Vals] /\ \A b \in Sends : b # a => out'[b] = out[b]
    BY <1>0, <1>4 DEF With
  <2> QED BY <1>0, <1>2, <1>4, <2>1 DEF OutsOK, Final, Landed
<1>5. ASSUME NEW a \in Sends, Lands(a) PROVE OutsOK'
  <2>1. a \in sent /\ (\A c \in made[a] : ~Spent(c)) /\ made[a] # {}
    BY <1>5 DEF Lands, CanLand, sent
  <2>2. ~Landed(a)
    BY <2>1, Names DEF ChainOK, Spent
  <2>3. ~outdeep[a]
    BY <1>0, <2>2 DEF Landed
  <2>4. out' = With(out, {a}, "unspent") /\ outdeep' = outdeep
    BY <1>5 DEF Lands, Chain
  <2> QED BY <1>4, <2>3, <2>4
<1>6. ASSUME NEW a \in Sends, UndoSend(a) PROVE OutsOK'
  <2>1. ~outdeep[a]
    BY <1>6 DEF UndoSend, OutsOK
  <2>2. out' = With(out, {a}, "none") /\ outdeep' = outdeep
    BY <1>6 DEF UndoSend, Chain
  <2> QED BY <1>4, <2>1, <2>2
<1>7. ASSUME NEW a \in Sends, SpendsOut(a) PROVE OutsOK'
  <2>1. ~outdeep[a]
    BY <1>0, <1>7 DEF SpendsOut
  <2>2. PICK v \in Vals : out' = With(out, {a}, v) /\ outdeep' = outdeep
    BY <1>7 DEF SpendsOut, Chain
  <2> QED BY <1>4, <2>1, <2>2
<1>8. ASSUME NEW a \in Sends, UndoOut(a) PROVE OutsOK'
  <2>1. ~outdeep[a] /\ out' = With(out, {a}, "unspent") /\ outdeep' = outdeep
    BY <1>8 DEF UndoOut, Chain
  <2> QED BY <1>4, <2>1
<1>9. ASSUME NEW a \in Sends, BuryOut(a) PROVE OutsOK'
  <2>1. /\ out[a] \in {"claimed", "swept"} /\ \A c \in made[a] : deep[c]
        /\ out' = out /\ outdeep' = With(outdeep, {a}, TRUE) /\ deep' = deep
    BY <1>9 DEF BuryOut, Chain, Final
  <2>2. outdeep' \in [Sends -> BOOLEAN] /\ \A b \in Sends : b # a => outdeep'[b] = outdeep[b]
    BY <1>0, <2>1 DEF With
  <2> QED BY <1>0, <1>2, <2>1, <2>2 DEF OutsOK, Final, Landed
<1>10. ASSUME NEW a \in Sends, BurySend(a) PROVE OutsOK'
  BY <1>3, <1>10 DEF BurySend, Chain
<1>11. ASSUME NEW c \in Coins, TakesCoin(c) \/ BuryTake(c) \/ UndoTake(c) PROVE OutsOK'
  BY <1>3, <1>11 DEF TakesCoin, BuryTake, UndoTake, Chain
<1> QED BY <1>5, <1>6, <1>7, <1>8, <1>9, <1>10, <1>11 DEF World

\* A step that leaves the chain alone keeps its outputs.
LEMMA QuietKeepsOuts ==
  ASSUME ChainOK, OutsOK, UNCHANGED chainVars, \A a \in sent : made'[a] = made[a]
  PROVE  OutsOK'
<1>1. out' = out /\ outdeep' = outdeep /\ deep' = deep
  BY DEF chainVars
<1>2. \A a \in Sends : outdeep[a] => made'[a] = made[a]
  BY DEF OutsOK, Final, ChainOK
<1> QED BY <1>1, <1>2 DEF OutsOK, Final, Landed

-----------------------------------------------------------------------------
(* Ticks.                                                                  *)

\* The row and the send RPC: a reservation adds an entry that nobody hides
\* behind, for the send it may make, and a refusal puts back a row in order.
RpcOK ==
  /\ rpc \in {"idle", "reserved", "made"}
  /\ rpc = "idle" => Behind(job, made, Tokens(job), Slots(job))
  /\ rpc = "reserved" =>
       /\ Blank(job) /\ Behind(job, made, Tokens(job), Slots(job) \ {Unknown})
       /\ InOrder(before)
  /\ rpc = "made" =>
       LET n == Cardinality(sent)
       IN /\ Blank(job) /\ n \in sent /\ ~InPriors(job, Tx(n))
          /\ Behind(job, made, Tokens(job) \ {Tx(n)}, Slots(job) \ {Unknown})

\* The rows, the one on disk and the one a refusal puts back.
RowsOK == RowOK(job) /\ RpcOK

\* A row in order is written while no call is out.
LEMMA RowWritten ==
  ASSUME rpc' = "idle", UNCHANGED <<chainVars, made>>, late' = late,
         NEW i, job' = i, InOrder(i)
  PROVE  RowsOK'
<1>1. \A j : InOrder(j) => InOrder(j)'
  <2>1. Grows /\ made' = made
    BY StillGrows
  <2> QED BY <2>1, OrderStays
<1>2. InOrder(job)'
  BY <1>1
<1>3. RowOK(job)' /\ Behind(job, made, Tokens(job), Slots(job))'
  BY <1>2 DEF InOrder
<1> QED BY <1>3 DEF RowsOK, RpcOK

\* One that differs in nothing the ledger reads.
LEMMA RowRewritten ==
  ASSUME rpc' = "idle", UNCHANGED <<chainVars, made>>, late' = late,
         NEW j, InOrder(j), NEW i, job' = i, SameRow(i, j)
  PROVE  RowsOK'
<1>1. InOrder(i)
  BY SameRowKeeps DEF InOrder
<1> QED BY <1>1, RowWritten

\* Counting a poll is such a change.
LEMMA PolledIsSame ==
  ASSUME NEW j, InOrder(j)
  PROVE  SameRow(Polled(j), j) /\ InOrder(Polled(j)) /\ Polled(j).from = j.from
<1>1. RowOK(j) /\ DOMAIN j = JobFields
  BY DEF InOrder, RowOK
<1>2. SameRow(Polled(j), j) /\ Polled(j).from = j.from
  BY <1>1 DEF Polled, SameRow, JobFields, RowOK
<1> QED BY <1>1, <1>2, SameRowKeeps DEF InOrder

\* A tick that stays writes the row it was given.
LEMMA StaysInOrder ==
  ASSUME rpc = "idle", NEW j, InOrder(j), Stays(j)
  PROVE  RowsOK'
<1>1. InOrder(Polled(j))
  BY PolledIsSame
<1>2. job' = Polled(j) /\ UNCHANGED <<chainVars, made>> /\ rpc' = "idle" /\ late' = late
  BY DEF Stays, rpcVars
<1> QED BY <1>1, <1>2, RowWritten

\* The send on record takes the id of a send no entry lists.
LEMMA AdoptsInOrder ==
  ASSUME NEW j, InOrder(j), j.marker \in {NoTx, Unknown}, NEW a \in sent, ~InPriors(j, Tx(a)),
         \A k \in Keys : j.coins[k] # made[a], j.removals \in {{}, made[a]}
  PROVE  InOrder(Adopts(j, a))
<1> DEFINE i == Adopts(j, a)
<1>1. RowOK(j) /\ DOMAIN j = JobFields /\ j.from \in Pending /\ j.pin \in {0} \cup sent
  BY DEF InOrder, RowOK
<1>2. /\ DOMAIN i = JobFields /\ i.from = j.from /\ i.pin \in {a, j.pin} /\ i.marker = Tx(a)
      /\ i.removals = j.removals /\ i.priors = j.priors /\ i.coins = j.coins /\ i.seq = j.seq
      /\ i.dead = j.dead
  BY <1>1 DEF Adopts, JobFields
<1> HIDE DEF i
<1>3. i.from \in Pending /\ i.pin \in {0} \cup sent /\ i.removals \in {{}, made[a]}
  BY <1>1, <1>2
<1>4. \A k \in Slots(j) \ {Unknown} : Own(j, k) # made[a]
  <2> SUFFICES ASSUME NEW k \in Slots(j) \ {Unknown} PROVE Own(j, k) # made[a]
    OBVIOUS
  <2>1. k \in Keys /\ k # j.marker
    BY KeyNames DEF Slots
  <2> QED BY <2>1 DEF Own
<1> QED BY <1>2, <1>3, <1>4, AdoptedInOrder DEF i

\* A row without a send on record reserves the next.
LEMMA ReservesInOrder ==
  ASSUME ChainOK, InOrder(job), rpc = "idle", NEW j, InOrder(j), j.marker = NoTx,
         NEW see, Reserves(j, see)
  PROVE  RowsOK'
<1> DEFINE lost == {k \in Keys \ Settled(j) :
                      /\ InPriors(j, k) /\ j.coins[k] # {}
                      /\ Judged(j.coins[k], Id(k), FALSE, see) = "dead"}
           dead == j.dead \cup lost
           i    == [j EXCEPT !.marker = Unknown, !.dead = dead,
                             !.exclude = IF lost = {} THEN @
                                         ELSE Exclusions(j.coins, dead \cup j.presumed)]
<1>1. /\ Len(j.priors) < MaxSends /\ job' = i /\ rpc' = "reserved" /\ before' = job
      /\ UNCHANGED <<chainVars, made>> /\ late' = late
  BY DEF Reserves
<1>2. RowOK(j) /\ DOMAIN j = JobFields /\ j.removals = {}
  BY DEF InOrder, RowOK, MarkerOK
<1>3. lost \subseteq {k \in Keys : InPriors(j, k) /\ j.coins[k] # {}
                                   /\ Judged(j.coins[k], Id(k), FALSE, see) = "dead"}
  OBVIOUS
<1> HIDE DEF lost
<1>4. /\ DOMAIN i = JobFields /\ i.from = j.from /\ i.pin = j.pin /\ i.marker = Unknown
      /\ i.removals = {} /\ i.priors = j.priors /\ i.coins = j.coins /\ i.seq = j.seq
      /\ i.dead = j.dead \cup lost
  BY <1>2 DEF JobFields
<1> HIDE DEF i
<1>5. /\ RowOK(i) /\ Blank(i) /\ Behind(i, made, Tokens(i), Slots(i) \ {Unknown})
  BY <1>1, <1>3, <1>4, ReservedInOrder
<1>6. Grows /\ sent' = sent /\ made' = made
  BY <1>1, StillGrows
<1>7. PICK b : b = job
  OBVIOUS
<1>8. InOrder(b)'
  BY <1>1, <1>6, <1>7, OrderStays
<1>9. InOrder(before)'
  BY <1>1, <1>7, <1>8
<1>10. PICK r : r = i
  OBVIOUS
<1>11. RowOK(r)'
  BY <1>5, <1>6, <1>10, RowGrows
<1>12. Tokens(r)' = Tokens(r) /\ Slots(r)' = Slots(r) /\ Blank(r)'
  BY <1>1, <1>5, <1>6, <1>10 DEF Tokens, Unkeyed, Slots, Holds, InPriors, Blank
<1>13. Behind(r, made, Tokens(r), Slots(r) \ {Unknown})'
  BY <1>5, <1>6, <1>10, <1>12
<1>14. RowOK(job)' /\ Blank(job)' /\ Behind(job, made, Tokens(job), Slots(job) \ {Unknown})'
  BY <1>1, <1>10, <1>11, <1>12, <1>13
<1> QED BY <1>1, <1>9, <1>14 DEF RowsOK, RpcOK

\* A tick that may send again puts it off, adopts what the history shows or
\* reserves.
LEMMA SendsAgainInOrder ==
  ASSUME ChainOK, InOrder(job), rpc = "idle", NEW j, InOrder(j), j.marker = NoTx,
         NEW see, see.held \subseteq sent, SendsAgain(j, see)
  PROVE  RowsOK'
<1> DEFINE a == Existing(j, {}, see)
<1>1. CASE Stays(job)
  BY <1>1, StaysInOrder
<1>2. CASE Reserves(j, see)
  BY <1>2, ReservesInOrder
<1>3. CASE a # 0 /\ Stays(Adopts(j, a))
  <2>1. j.priors \in Seq(Keys) /\ j.removals = {}
    BY DEF InOrder, RowOK, ListOK, MarkerOK
  <2>2. a \in sent /\ ~InPriors(j, Tx(a)) /\ \A k \in Keys : j.coins[k] # made[a]
    BY <1>3, <2>1, ExistingIsAHit
  <2> HIDE DEF a
  <2>3. InOrder(Adopts(j, a))
    BY <2>1, <2>2, AdoptsInOrder
  <2> QED BY <1>3, <2>3, StaysInOrder
<1> QED BY <1>1, <1>2, <1>3 DEF SendsAgain

\* A verdict of death on the send on record rules out its coins.
LEMMA JudgedDeadOfJob ==
  ASSUME ChainOK, NEW coins, NEW id, NEW see, Judged(coins, id, Unique(job), see) = "dead"
  PROVE  DeadSet(coins) /\ coins # {}
<1>1. (\E c \in coins : AtDepth(c)) /\ \A b \in sent : Landed(b) => Parent(b) \notin coins
  BY DEF Judged, OutputSeen
<1> QED BY <1>1, DeathIsFinal

\* The coins gathered for the send on record are its own.
LEMMA RecordedCoins ==
  ASSUME RowOK(job), Id(job.marker) # 0, NEW see
  PROVE  LET a == Id(job.marker)
             coins == Removals(job.removals, a, see)
         IN a \in sent /\ job.marker = Tx(a) /\ coins \in {{}, made[a]}
<1> DEFINE a == Id(job.marker)
<1>1. job.marker \notin {NoTx, Unknown}
  BY Names DEF Id, NoTx, Unknown, Unnamed
<1>2. PICK b \in sent : job.marker = Tx(b)
  BY <1>1 DEF RowOK, MarkerOK
<1>3. a = b
  BY <1>2, Names DEF sent
<1> HIDE DEF a
<1>4. job.removals \in {{}, made[a]}
  BY <1>2, <1>3 DEF RowOK, MarkerOK
<1>5. Removals(job.removals, a, see) \in {{}, made[a]}
  BY <1>4 DEF Removals
<1> QED BY <1>2, <1>3, <1>5 DEF a

\* The send the history gives for one on record that the daemon never named is
\* that one, or has its coins: so the entry may take its id.
LEMMA NamedIsOurs ==
  ASSUME WarpInv, Separate, InOrder(job), job.marker = Unknown, NEW see, see.held \subseteq sent,
         Existing(job, job.removals, see) # 0
  PROVE  InOrder(Adopts(job, Existing(job, job.removals, see)))
<1> DEFINE a == Existing(job, job.removals, see)
<1>1. RowOK(job) /\ job.priors \in Seq(Keys) /\ job.removals \in CoinSets
  BY DEF InOrder, RowOK, ListOK, MarkerOK
<1>2. /\ a \in sent /\ ~InPriors(job, Tx(a)) /\ \A k \in Keys : job.coins[k] # made[a]
      /\ job.removals = {} \/ made[a] \cap job.removals # {}
  BY <1>1, ExistingIsAHit
<1> HIDE DEF a
<1>3. job.removals \in {{}, made[a]}
  <2>1. CASE kind = "fund"
    BY <1>1, <1>2, <2>1 DEF Separate, CoinSets
  <2>2. CASE kind = "burn"
    <3>1. a \in Stray(job)
      BY <1>2 DEF Stray, OnBooks
    <3> QED BY <2>2, <3>1 DEF WarpInv, BurnInv, BookOK, OneOpen
  <2> QED BY <2>1, <2>2 DEF WarpInv
<1>4. InOrder(Adopts(job, a))
  BY <1>2, <1>3, AdoptsInOrder
<1> QED BY <1>4 DEF a

\* A tick leaves the rows in order, whatever state the job is in and whatever
\* its pass meets.
LEMMA TickInOrder ==
  ASSUME WarpInv, OutsOK, Separate, RowsOK, Tick
  PROVE  RowsOK'
<1> USE Names
<1>0. ChainOK /\ rpc = "idle" /\ InOrder(job) /\ RowOK(job) /\ DOMAIN job = JobFields
        /\ job.from \in Pending
      /\ job.pin \in {0} \cup sent /\ sent \subseteq Sends
  <2>1. rpc = "idle"
    BY DEF Tick, Expire, Ticking
  <2> QED BY <2>1 DEF RowsOK, RpcOK, InOrder, RowOK, WarpInv, sent
<1>1. CASE Expire
  <2> DEFINE j == [job EXCEPT !.from = job.status]
             i == [j EXCEPT !.status = "FAILED", !.polls = 0]
  <2>1. job' = i /\ job.status \in Pending /\ UNCHANGED <<chainVars, made>> /\ rpc' = "idle"
          /\ late' = late
    BY <1>0, <1>1 DEF Expire, Moves, rpcVars
  <2>2. SameRow(i, job)
    BY <1>0, <2>1 DEF SameRow, JobFields
  <2> HIDE DEF i
  <2> QED BY <1>0, <2>1, <2>2, RowRewritten
<1>2. ASSUME NEW see, see.held \subseteq sent, TickArrived(see) PROVE RowsOK'
  <2>1. PICK a \in Arrived(see) :
          Moves([job EXCEPT !.pin = a], IF kind = "fund" THEN "CLAIM_FUNDED" ELSE "BURNING")
    BY <1>2 DEF TickArrived
  <2>2. a \in Unspent
    BY <2>1 DEF Arrived
  <2>3. a \in sent
    BY <2>2 DEF Unspent
  <2> DEFINE i == [[job EXCEPT !.pin = a] EXCEPT
                     !.status = IF kind = "fund" THEN "CLAIM_FUNDED" ELSE "BURNING", !.polls = 0]
  <2>4. job' = i /\ UNCHANGED <<chainVars, made>> /\ rpc' = "idle" /\ late' = late
    BY <1>0, <2>1 DEF Moves, rpcVars
  <2>5. SameRow(i, job)
    BY <1>0, <2>3 DEF SameRow, JobFields
  <2> HIDE DEF i
  <2> QED BY <1>0, <2>4, <2>5, RowRewritten
<1>3. ASSUME NEW see, see.held \subseteq sent, TickUnsent(see) PROVE RowsOK'
  BY <1>0, <1>3, SendsAgainInOrder DEF TickUnsent
<1>4. ASSUME NEW see, see.held \subseteq sent, TickUnnamed(see) PROVE RowsOK'
  <2>0. job.marker = Unknown
    BY <1>4 DEF TickUnnamed
  <2>1. CASE Stays(job)
    BY <1>0, <2>1, StaysInOrder
  <2> DEFINE a == Existing(job, job.removals, see)
             v == Judged(job.removals, 0, Unique(job), see)
             i == Replacement(job, UnnamedKey(job), job.removals, TRUE)
  <2>2. CASE a # 0 /\ Stays(Adopts(job, a))
    <3>1. InOrder(Adopts(job, a))
      BY <1>0, <1>4, <2>0, <2>2, NamedIsOurs
    <3> QED BY <1>0, <2>2, <3>1, StaysInOrder
  <2>3. CASE v = "dead" /\ SendsAgain(i, see)
    <3>1. DeadSet(job.removals)
      BY <1>0, <2>3, JudgedDeadOfJob
    <3>2. InOrder(i) /\ i.marker = NoTx
      BY <1>0, <2>0, <3>1, RetiredInOrder
    <3> HIDE DEF i
    <3> QED BY <1>0, <1>4, <2>3, <3>2, SendsAgainInOrder
  <2> QED BY <1>4, <2>1, <2>2, <2>3 DEF TickUnnamed
<1>5. ASSUME NEW see, see.held \subseteq sent, TickRecorded(see) PROVE RowsOK'
  <2> DEFINE a     == Id(job.marker)
             coins == Removals(job.removals, a, see)
             v     == Judged(coins, a, Unique(job), see)
             i     == Replacement(job, job.marker, coins, TRUE)
             l     == [job EXCEPT !.removals = coins]
  <2>1. a \in sent /\ job.marker = Tx(a) /\ coins \in {{}, made[a]}
    BY <1>0, <1>5, RecordedCoins DEF TickRecorded
  <2>2. \/ v = "dead" /\ SendsAgain(i, see)
        \/ Stays(l)
    BY <1>5 DEF TickRecorded
  <2>3. CASE v = "dead" /\ SendsAgain(i, see)
    <3>1. DeadSet(coins) /\ coins # {}
      BY <1>0, <2>3, JudgedDeadOfJob
    <3> HIDE DEF coins, a
    <3>2. Doomed(a)
      BY <2>1, <3>1 DEF DeadSet
    <3>3. InOrder(i) /\ i.marker = NoTx
      BY <1>0, <2>1, <3>2, RetiredInOrder
    <3> HIDE DEF i
    <3> QED BY <1>0, <1>5, <2>3, <3>3, SendsAgainInOrder
  <2>4. CASE Stays(l)
    <3> HIDE DEF coins, a
    <3>1. /\ DOMAIN l = JobFields /\ l.from \in Pending /\ l.pin \in {0} \cup sent
          /\ l.marker = job.marker
          /\ l.removals \in {{}, made[a]} /\ l.priors = job.priors /\ l.coins = job.coins
          /\ l.seq = job.seq /\ l.dead = job.dead
      BY <1>0, <2>1 DEF JobFields
    <3> HIDE DEF l
    <3>2. InOrder(l)
      BY <1>0, <2>1, <3>1, CoinsLearned
    <3> QED BY <1>0, <2>4, <3>2, StaysInOrder
  <2> QED BY <2>2, <2>3, <2>4
<1>6. ASSUME NEW see, TickFunded(see) PROVE RowsOK'
  <2>1. CASE Stays(job)
    BY <1>0, <2>1, StaysInOrder
  <2>2. CASE Moves(job, "CLAIMING")
    <3> DEFINE i == [job EXCEPT !.status = "CLAIMING", !.polls = 0]
    <3>1. job' = i /\ UNCHANGED <<chainVars, made>> /\ rpc' = "idle" /\ late' = late
      BY <1>0, <2>2 DEF Moves, rpcVars
    <3>2. SameRow(i, job)
      BY <1>0 DEF SameRow, JobFields
    <3> HIDE DEF i
    <3> QED BY <1>0, <3>1, <3>2, RowRewritten
  <2> QED BY <1>6, <2>1, <2>2 DEF TickFunded
<1>7. ASSUME NEW see, see.held \subseteq sent, TickClaiming(see) PROVE RowsOK'
  <2>1. kind = "fund"
    BY <1>7 DEF TickClaiming, WarpInv, BurnInv, BookOK, BookShape, Closed
  <2> DEFINE s == Settles(job, see)
  <2>2. InOrder(s.job)
    BY <1>0, <1>7, <2>1, SettlesKeeps
  <2> HIDE DEF s
  <2>3. \/ Moves(s.job, "COMPLETED") \/ Stays(s.job) \/ Stays(job)
        \/ \E a \in Unspent : Pushes(a)
        \/ job' = Polled(job) /\ UNCHANGED <<chainVars, made, sweep_pushed, kind, rpcVars>>
    BY <1>7 DEF TickClaiming, s
  <2>4. CASE Moves(s.job, "COMPLETED")
    <3> DEFINE i == [s.job EXCEPT !.status = "COMPLETED", !.polls = 0]
    <3>1. job' = i /\ UNCHANGED <<chainVars, made>> /\ rpc' = "idle" /\ late' = late
      BY <1>0, <2>4 DEF Moves, rpcVars
    <3>2. SameRow(i, s.job)
      <4>1. DOMAIN s.job = JobFields /\ s.job.from \in Pending /\ s.job.pin \in {0} \cup sent
        BY <2>2 DEF InOrder, RowOK
      <4> QED BY <4>1 DEF SameRow, JobFields
    <3> HIDE DEF i
    <3> QED BY <2>2, <3>1, <3>2, RowRewritten
  <2>5. CASE Stays(s.job)
    BY <1>0, <2>2, <2>5, StaysInOrder
  <2>6. CASE Stays(job)
    BY <1>0, <2>6, StaysInOrder
  <2>7. CASE \/ \E a \in Unspent : Pushes(a)
             \/ job' = Polled(job) /\ UNCHANGED <<chainVars, made, sweep_pushed, kind, rpcVars>>
    <3>1. job' = Polled(job) /\ UNCHANGED <<chainVars, made>> /\ rpc' = "idle" /\ late' = late
      BY <1>0, <2>7 DEF Pushes, rpcVars
    <3> QED BY <1>0, <3>1, PolledIsSame, RowWritten
  <2> QED BY <2>3, <2>4, <2>5, <2>6, <2>7
<1>8. CASE ~Expire
  <2>1. PICK see \in PassesIf(Sending \/ job.priors # <<>>) :
          \/ TickArrived(see) \/ TickUnsent(see) \/ TickUnnamed(see)
          \/ TickRecorded(see) \/ TickFunded(see) \/ TickClaiming(see)
    BY <1>8 DEF Tick
  <2>2. see.held \subseteq sent
    <3>1. CASE Sending \/ job.priors # <<>>
      BY <2>1, <3>1 DEF PassesIf, Passes
    <3>2. CASE ~(Sending \/ job.priors # <<>>)
      BY <2>1, <3>2 DEF PassesIf
    <3> QED BY <3>1, <3>2
  <2> QED BY <2>1, <2>2, <1>2, <1>3, <1>4, <1>5, <1>6, <1>7
<1> QED BY <1>1, <1>8

-----------------------------------------------------------------------------
(* The operator and the chain.                                             *)

\* An operator's retry lets go of the send on record: it is retired, dead or
\* not, and stays on the books.
LEMMA ReleasedInOrder ==
  ASSUME ChainOK, InOrder(job), NEW see
  PROVE  InOrder(Released(see)) /\ Released(see).from = job.from
<1> USE Names
<1> DEFINE a       == Id(job.marker)
           coins   == Removals(job.removals, a, see)
           v       == Judged(coins, a, Unique(job), see)
           key     == IF job.marker = Unknown THEN UnnamedKey(job) ELSE job.marker
           known   == job.marker # Unknown \/ coins # {}
           proven  == known /\ v = "dead"
           i(b)    == Replacement(job, key, coins, b)
<1>0. RowOK(job)
  BY DEF InOrder
<1>1. CASE Released(see) = job
  BY <1>1
<1>2. CASE Released(see) # job
  <2>1. job.marker # NoTx /\ Released(see) = i(proven)
    BY <1>2 DEF Released
  <2>2. IF proven THEN i(proven) = i(TRUE) ELSE i(proven) = i(FALSE)
    <3>1. CASE proven
      <4>1. i(proven) = i(TRUE)
        BY <3>1, ZenonT(60) DEF Replacement
      <4> QED BY <3>1, <4>1
    <3>2. CASE ~proven
      <4>1. i(proven) = i(FALSE)
        BY <3>2, ZenonT(60) DEF Replacement
      <4> QED BY <3>2, <4>1
    <3> QED BY <3>1, <3>2
  <2>3. proven => DeadSet(coins) /\ coins # {}
    <3> SUFFICES ASSUME v = "dead" PROVE DeadSet(coins) /\ coins # {}
      OBVIOUS
    <3> QED BY JudgedDeadOfJob
  <2>4. CASE job.marker = Unknown
    <3>1. a = 0 /\ coins = job.removals /\ key = UnnamedKey(job)
      BY <2>4 DEF Removals
    <3> HIDE DEF a, coins, key, known, v
    <3>2. CASE proven
      <4>1. InOrder(i(TRUE)) /\ i(TRUE).from = job.from
        BY <2>3, <2>4, <3>1, <3>2, RetiredInOrder, ZenonT(60)
      <4> QED BY <2>1, <2>2, <3>2, <4>1
    <3>3. CASE ~proven
      <4>1. InOrder(i(FALSE)) /\ i(FALSE).from = job.from
        BY <2>4, <3>1, RetiredInOrder
      <4> QED BY <2>1, <2>2, <3>3, <4>1
    <3> QED BY <3>2, <3>3
  <2>5. CASE job.marker # Unknown
    <3>0. a # 0
      <4>1. PICK b \in sent : job.marker = Tx(b)
        BY <1>0, <2>1, <2>5 DEF RowOK, MarkerOK
      <4>2. b \in Sends /\ b # 0
        BY WarpAssumption DEF sent, Sends, WarpAssumption
      <4> QED BY <4>1, <4>2
    <3>1. a \in sent /\ job.marker = Tx(a) /\ coins \in {{}, made[a]}
      BY <1>0, <3>0, RecordedCoins
    <3>2. key = job.marker
      BY <2>5
    <3> HIDE DEF a, coins, key, known, v
    <3>3. CASE proven
      <4>1. Doomed(a)
        BY <2>3, <3>1, <3>3 DEF DeadSet
      <4>2. InOrder(i(TRUE)) /\ i(TRUE).from = job.from
        BY <3>1, <3>2, <4>1, RetiredInOrder, ZenonT(60)
      <4> QED BY <2>1, <2>2, <3>3, <4>2
    <3>4. CASE ~proven
      <4>1. InOrder(i(FALSE)) /\ i(FALSE).from = job.from
        BY <3>1, <3>2, RetiredInOrder
      <4> QED BY <2>1, <2>2, <3>4, <4>1
    <3> QED BY <3>3, <3>4
  <2> QED BY <2>4, <2>5
<1> QED BY <1>1, <1>2

\* What the operator does leaves the rows in order.
LEMMA OperatorInOrder ==
  ASSUME WarpInv, OutsOK, Separate, RowsOK, Operator
  PROVE  RowsOK'
<1>0. ChainOK /\ rpc = "idle" /\ InOrder(job) /\ RowOK(job) /\ DOMAIN job = JobFields
        /\ job.from \in Pending
      /\ job.pin \in {0} \cup sent /\ sent \subseteq Sends
  <2>1. rpc = "idle"
    BY DEF Operator, Retry, SweepPushes, SweepEnds, Abandon
  <2> QED BY <2>1 DEF RowsOK, RpcOK, InOrder, RowOK, WarpInv, sent
<1>1. ASSUME NEW j, InOrder(j), NEW s, NEW i, i = [j EXCEPT !.status = s], Rewrites(i)
      PROVE  RowsOK'
  <2>1. job' = i /\ UNCHANGED <<chainVars, made>> /\ rpc' = "idle" /\ late' = late
    BY <1>0, <1>1 DEF Rewrites, rpcVars
  <2>2. SameRow(i, j)
    <3>1. DOMAIN j = JobFields /\ j.from \in Pending /\ j.pin \in {0} \cup sent
      BY <1>1 DEF InOrder, RowOK
    <3> QED BY <1>1, <3>1 DEF SameRow, JobFields
  <2> QED BY <1>1, <2>1, <2>2, RowRewritten
<1>2. CASE Retry
  <2>1. PICK see \in PassesIf(job.from = Starting /\ job.marker # NoTx) :
          Rewrites([IF job.from = Starting THEN Released(see) ELSE job
                    EXCEPT !.status = job.from])
    BY <1>2 DEF Retry
  <2> DEFINE j == IF job.from = Starting THEN Released(see) ELSE job
  <2>2. InOrder(j)
    BY <1>0, ReleasedInOrder
  <2>3. Rewrites([j EXCEPT !.status = job.from])
    BY <2>1
  <2> HIDE DEF j
  <2> QED BY <1>1, <2>2, <2>3
<1>3. CASE SweepPushes
  <2>1. PICK a \in Unspent : job' = [job EXCEPT !.pin = IF @ = 0 THEN a ELSE @]
    BY <1>3 DEF SweepPushes
  <2> DEFINE i == [job EXCEPT !.pin = IF @ = 0 THEN a ELSE @]
  <2>2. job' = i /\ UNCHANGED <<chainVars, made>> /\ rpc' = "idle" /\ late' = late
    BY <1>0, <1>3, <2>1 DEF SweepPushes, rpcVars
  <2>3. SameRow(i, job)
    BY <1>0, <2>1 DEF SameRow, JobFields, Unspent
  <2> HIDE DEF i
  <2> QED BY <1>0, <2>2, <2>3, RowRewritten
<1>4. CASE SweepEnds
  <2>1. PICK see \in PassesIf(job.priors # <<>>) :
          LET unfunded == job.marker = NoTx /\ job.pin = 0
              gone     == job.pin # 0 /\ Landed(job.pin) /\ see.fail # "coins"
              s        == Settles(job, see)
              closes   == (unfunded \/ gone \/ job.priors # <<>>) /\ s.settled
          IN Rewrites(IF closes THEN [s.job EXCEPT !.status =
                                        IF Claimed THEN "COMPLETED" ELSE "CANCELLED"]
                      ELSE s.job)
    BY <1>4 DEF SweepEnds
  <2>2. see.held \subseteq sent /\ kind = "fund"
    <3>1. CASE job.priors # <<>>
      BY <1>4, <2>1, <3>1 DEF PassesIf, Passes, SweepEnds
    <3>2. CASE ~(job.priors # <<>>)
      BY <1>4, <2>1, <3>2 DEF PassesIf, SweepEnds
    <3> QED BY <3>1, <3>2
  <2> DEFINE s == Settles(job, see)
  <2>3. InOrder(s.job)
    BY <1>0, <2>2, SettlesKeeps
  <2>4. (\E z : Rewrites([s.job EXCEPT !.status = z])) \/ Rewrites(s.job)
    BY <2>1
  <2> HIDE DEF s
  <2>5. CASE Rewrites(s.job)
    <3>1. job' = s.job /\ UNCHANGED <<chainVars, made>> /\ rpc' = "idle" /\ late' = late
      BY <1>0, <2>5 DEF Rewrites, rpcVars
    <3> QED BY <2>3, <3>1, RowWritten
  <2> QED BY <1>1, <2>3, <2>4, <2>5
<1>5. CASE Abandon
  <2> DEFINE i == [job EXCEPT !.abandoned = TRUE,
                              !.status = IF Claimed THEN "COMPLETED" ELSE "CANCELLED"]
  <2>1. job' = i /\ UNCHANGED <<chainVars, made>> /\ rpc' = "idle" /\ late' = late
    BY <1>0, <1>5 DEF Abandon, Rewrites, rpcVars
  <2>2. SameRow(i, job)
    BY <1>0 DEF SameRow, JobFields
  <2> HIDE DEF i
  <2> QED BY <1>0, <2>1, <2>2, RowRewritten
<1> QED BY <1>2, <1>3, <1>4, <1>5 DEF Operator

\* So does what happens on the chain,
LEMMA WorldInOrder ==
  ASSUME WarpInv, RowsOK, World
  PROVE  RowsOK'
<1>1. /\ Grows /\ sent' = sent /\ made' = made /\ job' = job /\ rpc' = rpc /\ late' = late
      /\ before' = before
  BY WorldKeeps, WorldGrows DEF WarpInv, rpcVars
<1>2. (\A i : RowOK(i) => RowOK(i)') /\ \A i : InOrder(i) => InOrder(i)'
  BY <1>1, RowGrows, OrderStays
<1>3. RowOK(job)' /\ (InOrder(before) => InOrder(before)')
  <2>1. RowOK(job)'
    BY <1>1, <1>2 DEF RowsOK
  <2>2. InOrder(before) => InOrder(before)'
    BY <1>1, <1>2
  <2> QED BY <2>1, <2>2
<1>4. Tokens(job)' = Tokens(job) /\ Slots(job)' = Slots(job) /\ (Blank(job)' <=> Blank(job))
      /\ \A a : InPriors(job, Tx(a))' <=> InPriors(job, Tx(a))
  BY <1>1 DEF Tokens, Unkeyed, Slots, Holds, InPriors, Blank
<1>5. \A T, K : Behind(job, made, T, K) => Behind(job, made, T, K)'
  BY <1>1
<1> QED BY <1>1, <1>3, <1>4, <1>5 DEF RowsOK, RpcOK

\* and a step of something else.
LEMMA IdleKeepsRows ==
  ASSUME RowsOK, UNCHANGED vars
  PROVE  RowsOK'
<1>1. /\ sent' = sent /\ made' = made /\ job' = job /\ rpc' = rpc /\ late' = late
      /\ before' = before /\ UNCHANGED <<chainVars, made>>
  BY DEF vars, rpcVars, sent
<1>2. (\A i : RowOK(i) => RowOK(i)') /\ \A i : InOrder(i) => InOrder(i)'
  BY <1>1, StillGrows, RowGrows, OrderStays
<1>3. RowOK(job)' /\ (InOrder(before) => InOrder(before)')
  <2>1. RowOK(job)'
    BY <1>1, <1>2 DEF RowsOK
  <2>2. InOrder(before) => InOrder(before)'
    BY <1>1, <1>2
  <2> QED BY <2>1, <2>2
<1>4. Tokens(job)' = Tokens(job) /\ Slots(job)' = Slots(job) /\ (Blank(job)' <=> Blank(job))
      /\ \A a : InPriors(job, Tx(a))' <=> InPriors(job, Tx(a))
  BY <1>1 DEF Tokens, Unkeyed, Slots, Holds, InPriors, Blank
<1> QED BY <1>1, <1>3, <1>4 DEF RowsOK, RpcOK

-----------------------------------------------------------------------------
(* The send RPC and the calls given up on.                                 *)

\* Every send, every call that may still run and the reservation have a number.
Room == IsFiniteSet(late)
        /\ Cardinality(sent) + Cardinality(late) + (IF rpc = "reserved" THEN 1 ELSE 0) <= MaxSends

\* The ledger of a job.
LedgerInv == OutsOK /\ Room /\ (Separate => RowsOK)

\* There is a number for the send a call makes.
LEMMA RoomForOne ==
  ASSUME WarpInv, Room, rpc = "reserved" \/ late # {}
  PROVE  Cardinality(sent) < MaxSends
<1>1. Cardinality(sent) \in Nat /\ Cardinality(late) \in Nat /\ MaxSends \in Nat
  BY Counted, FS_CardinalityType, WarpAssumption DEF WarpInv, Room, WarpAssumption
<1>2. late # {} => Cardinality(late) # 0
  BY FS_EmptySet DEF Room
<1> QED BY <1>1, <1>2 DEF Room

\* A send is not on the books before it is made.
LEMMA NextIsUnkeyed ==
  ASSUME NEW r, RowOK(r), NEW n \in Sends, n \notin sent
  PROVE  ~Holds(r, Tx(n)) /\ Tx(n) \notin Tokens(r) /\ \A e : Call(e) # Tx(n)
<1> USE Names
<1>1. \A e : Call(e) # Tx(n)
  BY DEF Call, Tx
<1>2. \A a \in sent : Tx(a) # Tx(n)
  BY DEF sent
<1>3. ~Holds(r, Tx(n))
  BY <1>2 DEF Holds, RowOK, MarkerOK, ListOK
<1> QED BY <1>1, <1>2, <1>3 DEF Tokens, Unkeyed

\* A call makes its send, behind the entry it reserved.
LEMMA SendInOrder ==
  ASSUME WarpInv, Room, RowsOK, WalletSends
  PROVE  RowsOK'
<1>0. PICK n : n = NextSend
  OBVIOUS
<1>1. /\ rpc = "reserved" /\ Calls(n, job.exclude) /\ rpc' = "made" /\ job' = job /\ late' = late
      /\ UNCHANGED <<chainVars, kind>>
  BY <1>0 DEF WalletSends
<1>2. Cardinality(sent) < MaxSends
  BY <1>1, RoomForOne
<1>3. /\ Grows /\ n \in Sends /\ n \notin sent /\ sent' = sent \cup {n} /\ Cardinality(sent') = n
  BY <1>0, <1>1, <1>2, CallGrows DEF WarpInv
<1>4. PICK r : r = job
  OBVIOUS
<1>5. RowOK(r) /\ Blank(r) /\ Behind(r, made, Tokens(r), Slots(r) \ {Unknown})
  BY <1>1, <1>4 DEF RowsOK, RpcOK
<1>6. RowOK(r)'
  BY <1>3, <1>5, RowGrows
<1>7. ~Holds(r, Tx(n)) /\ Tx(n) \notin Tokens(r)
  BY <1>3, <1>5, NextIsUnkeyed
<1>8. Slots(r)' = Slots(r) /\ Blank(r)' /\ Tokens(r)' = Tokens(r) \cup {Tx(n)}
      /\ ~InPriors(r, Tx(n))'
  <2>1. Unkeyed(r)' = Unkeyed(r) \cup {n}
    BY <1>3, <1>7 DEF Unkeyed, Holds, InPriors
  <2>2. Tokens(r)' = Tokens(r) \cup {Tx(n)}
    BY <1>1, <2>1 DEF Tokens
  <2>3. Slots(r)' = Slots(r) /\ Blank(r)'
    BY <1>5 DEF Slots, Holds, InPriors, Blank
  <2>4. ~InPriors(r, Tx(n))'
    BY <1>7 DEF Holds, InPriors
  <2> QED BY <2>2, <2>3, <2>4
<1>9. PICK later : later = made'
  OBVIOUS
<1>10. \A a \in Sends : made[a] # {} => later[a] = made[a]
  BY <1>3, <1>9 DEF Grows, sent
<1>11. Behind(r, later, Tokens(r), Slots(r) \ {Unknown})
  BY <1>5, <1>10, BehindLater
<1>12. Tokens(r)' \ {Tx(n)} = Tokens(r)
  BY <1>7, <1>8
<1>13. Behind(r, made, Tokens(r) \ {Tx(n)}, Slots(r) \ {Unknown})'
  BY <1>8, <1>9, <1>11, <1>12
<1>14. RowOK(job)' /\ Blank(job)' /\ ~InPriors(job, Tx(n))'
       /\ Behind(job, made, Tokens(job) \ {Tx(n)}, Slots(job) \ {Unknown})'
  BY <1>1, <1>4, <1>6, <1>8, <1>13
<1> QED BY <1>1, <1>3, <1>14 DEF RowsOK, RpcOK

\* A call given up on makes its send, behind the entry the call had.
LEMMA LateBehind ==
  ASSUME Grows, NEW n \in Sends, n \notin sent, sent' = sent \cup {n}, NEW e \in late,
         late' = late \ {e},
         NEW r, RowOK(r), NEW K, Behind(r, made, Tokens(r), K)
  PROVE  Behind(r, made, Tokens(r), K)'
<1>1. ~Holds(r, Tx(n)) /\ Tx(n) \notin Tokens(r)
  BY NextIsUnkeyed
<1>2. Call(e) \in Tokens(r) /\ \A a, f : Call(f) # Tx(a) /\ (Call(f) = Call(e) => f = e)
  BY DEF Tokens, Call, Tx
<1>3. Behind(r, made, (Tokens(r) \ {Call(e)}) \cup {Tx(n)}, K)
  BY <1>1, <1>2, BehindMade
<1>4. Tokens(r)' = (Tokens(r) \ {Call(e)}) \cup {Tx(n)}
  <2>1. Unkeyed(r)' = Unkeyed(r) \cup {n}
    BY <1>1 DEF Unkeyed, Holds, InPriors
  <2>2. \A a \in Unkeyed(r) : Call(e) # Tx(a)
    BY <1>2
  <2>3. {Call(f) : f \in late'} = {Call(f) : f \in late} \ {Call(e)}
    BY <1>2
  <2> QED BY <1>2, <2>1, <2>3 DEF Tokens
<1>5. PICK later : later = made'
  OBVIOUS
<1>6. \A a \in Sends : made[a] # {} => later[a] = made[a]
  BY <1>5 DEF Grows, sent
<1>7. Behind(r, later, (Tokens(r) \ {Call(e)}) \cup {Tx(n)}, K)
  BY <1>3, <1>6, BehindLater
<1> QED BY <1>4, <1>5, <1>7

\* The rows stay in order when it does.
LEMMA LateInOrder ==
  ASSUME WarpInv, Room, RowsOK, RunsLate
  PROVE  RowsOK'
<1> DEFINE n == NextSend
<1>1. PICK e \in late : /\ Calls(n, e) /\ late' = late \ {e} /\ rpc # "made"
                        /\ UNCHANGED <<chainVars, kind>>
                        /\ job' = job /\ rpc' = rpc /\ before' = before
  BY DEF RunsLate
<1>2. Cardinality(sent) < MaxSends
  BY <1>1, RoomForOne
<1>3. /\ Grows /\ n \in Sends /\ n \notin sent /\ sent' = sent \cup {n}
  BY <1>1, <1>2, CallGrows DEF WarpInv
<1> HIDE DEF n
<1>4. PICK r : r = job
  OBVIOUS
<1>5. RowOK(r) /\ RowOK(r)' /\ Slots(r)' = Slots(r) /\ (Blank(r)' <=> Blank(r))
  BY <1>3, <1>4, RowGrows DEF RowsOK, Slots, Holds, InPriors, Blank
<1>6. ASSUME NEW K, Behind(r, made, Tokens(r), K) PROVE Behind(r, made, Tokens(r), K)'
  BY <1>1, <1>3, <1>5, <1>6, LateBehind
<1>7. CASE rpc = "idle"
  <2>1. Behind(r, made, Tokens(r), Slots(r))
    BY <1>4, <1>7 DEF RowsOK, RpcOK
  <2>2. PICK K : K = Slots(r)
    OBVIOUS
  <2>3. Behind(r, made, Tokens(r), K)'
    BY <1>6, <2>1, <2>2
  <2>4. K = Slots(r)'
    BY <1>5, <2>2
  <2>5. Behind(r, made, Tokens(r), Slots(r))'
    BY <2>3, <2>4
  <2>6. RowOK(job)' /\ Behind(job, made, Tokens(job), Slots(job))'
    BY <1>1, <1>4, <1>5, <2>5
  <2> QED BY <1>1, <1>7, <2>6 DEF RowsOK, RpcOK
<1>8. CASE rpc = "reserved"
  <2>1. Blank(r) /\ Behind(r, made, Tokens(r), Slots(r) \ {Unknown}) /\ InOrder(before)
    BY <1>4, <1>8 DEF RowsOK, RpcOK
  <2>2. PICK K : K = Slots(r) \ {Unknown}
    OBVIOUS
  <2>3. Behind(r, made, Tokens(r), K)'
    BY <1>6, <2>1, <2>2
  <2>4. K = Slots(r)' \ {Unknown}
    BY <1>5, <2>2
  <2>5. Behind(r, made, Tokens(r), Slots(r) \ {Unknown})'
    BY <2>3, <2>4
  <2>6. RowOK(job)' /\ Blank(job)' /\ Behind(job, made, Tokens(job), Slots(job) \ {Unknown})'
    BY <1>1, <1>4, <1>5, <2>1, <2>5
  <2>7. InOrder(before)'
    <3>1. PICK b : b = before
      OBVIOUS
    <3>2. RowOK(b) /\ RowOK(b)' /\ Slots(b)' = Slots(b) /\ Behind(b, made, Tokens(b), Slots(b))
      BY <1>3, <2>1, <3>1, RowGrows DEF InOrder, Slots, Holds, InPriors
    <3>3. PICK L : L = Slots(b)
      OBVIOUS
    <3>4. Behind(b, made, Tokens(b), L)'
      BY <1>1, <1>3, <3>2, <3>3, LateBehind
    <3>5. L = Slots(b)'
      BY <3>2, <3>3
    <3>6. Behind(b, made, Tokens(b), Slots(b))'
      BY <3>4, <3>5
    <3>7. InOrder(b)'
      BY <3>2, <3>6 DEF InOrder
    <3> QED BY <1>1, <3>1, <3>7
  <2> QED BY <1>1, <1>8, <2>6, <2>7 DEF RowsOK, RpcOK
<1> QED BY <1>1, <1>7, <1>8 DEF RowsOK, RpcOK

\* The answer names the send on record, lists its coins, or leaves it the
\* nameless entry that hides it.
LEMMA AnswerInOrder ==
  ASSUME WarpInv, RowsOK, Answered
  PROVE  RowsOK'
<1> USE Names, KeyNames
<1> DEFINE n == Cardinality(sent)
<1>1. PICK id \in {Tx(n), Unknown}, cs \in {made[n], {}} :
        job' = [Polled(job) EXCEPT !.marker = id, !.removals = cs, !.exclude = {},
                                   !.pin = IF kind = "burn" /\ cs # {} THEN n ELSE @]
  BY DEF Answered
<1>2. rpc = "made" /\ rpc' = "idle" /\ late' = late /\ UNCHANGED <<chainVars, made>>
  BY DEF Answered
<1>3. /\ RowOK(job) /\ Blank(job) /\ n \in sent /\ ~InPriors(job, Tx(n))
      /\ Behind(job, made, Tokens(job) \ {Tx(n)}, Slots(job) \ {Unknown})
  BY <1>2 DEF RowsOK, RpcOK
<1> HIDE DEF n
<1> DEFINE i == [Polled(job) EXCEPT !.marker = id, !.removals = cs, !.exclude = {},
                                    !.pin = IF kind = "burn" /\ cs # {} THEN n ELSE @]
<1>4. /\ DOMAIN job = JobFields /\ job.from \in Pending /\ job.pin \in {0} \cup sent
      /\ job.marker = Unknown /\ job.removals = {} /\ n \in Sends
  BY <1>3 DEF RowOK, Blank, sent
<1>5. /\ DOMAIN i = JobFields /\ i.from = job.from /\ i.pin \in {n, job.pin} /\ i.marker = id
      /\ i.removals = cs /\ i.priors = job.priors /\ i.coins = job.coins /\ i.seq = job.seq
      /\ i.dead = job.dead
  BY <1>4 DEF Polled, JobFields
<1> HIDE DEF i
<1>6. i.from \in Pending /\ i.pin \in {0} \cup sent /\ i.removals \in {{}, made[n]}
  BY <1>3, <1>4, <1>5
<1>7. \A k : InPriors(i, k) <=> InPriors(job, k)
  BY <1>5 DEF InPriors
<1>8. CASE id = Tx(n)
  <2>1. /\ RowOK(i) /\ Tokens(i) \subseteq Tokens(job) \ {Tx(n)}
        /\ Slots(i) = Slots(job) \ {Unknown}
        /\ \A k \in Slots(i) : Own(i, k) = Own(job, k)
    BY <1>3, <1>4, <1>5, <1>6, <1>8, AdoptedKeeps
  <2>2. InOrder(i)
    BY <1>3, <2>1, BehindFewer DEF InOrder
  <2> QED BY <1>1, <1>2, <2>2, RowWritten DEF i
<1>9. CASE id = Unknown
  <2>1. MarkerOK(i)
    <3>1. i.marker = Unknown /\ i.removals \in CoinSets /\ i.seq < MaxSends
      BY <1>3, <1>4, <1>5, <1>6, <1>9 DEF RowOK, MarkerOK, CoinSets
    <3>2. Unknown # NoTx /\ \A a \in sent : Unknown # Tx(a)
      BY DEF sent
    <3> QED BY <3>1, <3>2 DEF MarkerOK
  <2>2. RowOK(i)
    BY <1>3, <1>4, <1>5, <1>6, <1>7, <1>9, <2>1
       DEF RowOK, ListOK, CoinsOK, FreshNumbers, DeadOK
  <2>3. Tokens(i) = Tokens(job) /\ Slots(i) = Slots(job) /\ Unknown \in Slots(job)
    BY <1>4, <1>5, <1>7, <1>9 DEF Tokens, Unkeyed, Slots, Holds
  <2> DEFINE T == Tokens(job) \ {Tx(n)}
             K == Slots(job) \ {Unknown}
  <2>4. \A m \in K : Own(i, m) = Own(job, m)
    BY <1>4, <1>5, <1>9 DEF Own
  <2>5. Fits(i, made, Tx(n), Unknown)
    BY <1>4, <1>5, <1>6, <1>9 DEF Fits, Own
  <2>6. Behind(i, made, T \cup {Tx(n)}, K \cup {Unknown})
    <3>1. Behind(job, made, T, K) /\ Tx(n) \notin T /\ Unknown \notin K
      BY <1>3
    <3> HIDE DEF T, K
    <3> QED BY <2>4, <2>5, <3>1, BehindOneMore
  <2>7. Behind(i, made, Tokens(i), Slots(i))
    <3>1. Tokens(i) \subseteq T \cup {Tx(n)} /\ K \cup {Unknown} = Slots(i)
      BY <2>3
    <3> HIDE DEF T, K
    <3> QED BY <2>6, <3>1, BehindFewer
  <2>8. InOrder(i)
    BY <2>2, <2>7 DEF InOrder
  <2> QED BY <1>1, <1>2, <2>8, RowWritten DEF i
<1> QED BY <1>8, <1>9

\* A refusal puts the row back: the send was not made.
LEMMA RefusalInOrder ==
  ASSUME RowsOK, Refused
  PROVE  RowsOK'
<1>1. /\ rpc = "reserved" /\ rpc' = "idle" /\ job' = Polled(before) /\ late' = late
      /\ UNCHANGED <<chainVars, made>>
  BY DEF Refused
<1>2. InOrder(Polled(before))
  BY <1>1, PolledIsSame DEF RowsOK, RpcOK
<1> QED BY <1>1, <1>2, RowWritten

\* A call given up on stays behind the entry it reserved, and so does the send
\* it made.
LEMMA GivingUpInOrder ==
  ASSUME RowsOK, NoAnswer \/ Crash
  PROVE  RowsOK'
<1> USE Names, KeyNames
<1>1. /\ rpc # "idle" /\ rpc' = "idle" /\ job' \in {job, Polled(job)}
      /\ late' \in {late, IF rpc = "reserved" THEN late \cup {job.exclude} ELSE late}
      /\ UNCHANGED <<chainVars, made>>
  BY DEF NoAnswer, Crash, GivesUp, LeftRecorded
<1>2. RowOK(job) /\ Blank(job) /\ Unknown \in Slots(job) /\ Own(job, Unknown) = {}
  BY <1>1 DEF RowsOK, RpcOK, Blank, Slots, Holds, Own
<1>3. PICK r : r = job'
  OBVIOUS
<1>4. SameRow(r, job)
  <2>1. DOMAIN job = JobFields /\ job.from \in Pending /\ job.pin \in {0} \cup sent
    BY <1>2 DEF RowOK
  <2> QED BY <1>1, <1>3, <2>1 DEF SameRow, Polled, JobFields
<1>5. /\ RowOK(r) /\ Tokens(r) = Tokens(job) /\ Slots(r) = Slots(job)
      /\ \A k : Own(r, k) = Own(job, k)
  BY <1>2, <1>4, SameRowKeeps
<1>6. sent' = sent /\ made' = made /\ Grows
  BY <1>1, StillGrows
<1>7. RowOK(r)' /\ Slots(r)' = Slots(r)
  BY <1>5, <1>6, RowGrows DEF Slots, Holds, InPriors
<1> DEFINE K == Slots(job) \ {Unknown}
<1>8. PICK U, x0 : /\ Behind(job, made, U, K) /\ x0 \notin U /\ Tokens(r)' \subseteq U \cup {x0}
  <2>1. Unkeyed(r)' = Unkeyed(r) /\ Unkeyed(r) = Unkeyed(job)
    BY <1>4, <1>6 DEF Unkeyed, Holds, InPriors, SameRow
  <2>2. CASE rpc = "made"
    <3>1. Tokens(r)' = Tokens(job)
      BY <1>1, <2>1, <2>2 DEF Tokens
    <3> DEFINE n == Cardinality(sent)
    <3>2. Behind(job, made, Tokens(job) \ {Tx(n)}, K)
      BY <2>2 DEF RowsOK, RpcOK
    <3> HIDE DEF n, K
    <3> QED BY <3>1, <3>2
  <2>3. CASE rpc = "reserved"
    <3>1. Behind(job, made, Tokens(job), K)
      BY <2>3 DEF RowsOK, RpcOK
    <3>2. Tokens(r)' \subseteq Tokens(job) \cup {Call(job.exclude)}
      BY <1>1, <2>1, <2>3 DEF Tokens
    <3>3. Behind(job, made, Tokens(job) \ {Call(job.exclude)}, K)
      <4> HIDE DEF K
      <4> QED BY <3>1, BehindFewer
    <3> HIDE DEF K
    <3> QED BY <3>2, <3>3
  <2> QED BY <1>1, <2>2, <2>3 DEF RowsOK, RpcOK
<1>9. Behind(r, made, U \cup {x0}, K \cup {Unknown})
  <2>1. Fits(r, made, x0, Unknown)
    BY <1>2, <1>5 DEF Fits
  <2>2. Unknown \notin K
    OBVIOUS
  <2> HIDE DEF K
  <2> QED BY <1>5, <1>8, <2>1, <2>2, BehindOneMore
<1>10. Behind(r, made, Tokens(r)', Slots(r))
  <2>1. K \cup {Unknown} = Slots(r)
    BY <1>2, <1>5
  <2>2. PICK V : V = Tokens(r)'
    OBVIOUS
  <2>3. Behind(r, made, V, Slots(r))
    <3> HIDE DEF K
    <3> QED BY <1>8, <1>9, <2>1, <2>2, BehindFewer
  <2> QED BY <2>2, <2>3
<1>11. Behind(r, made, Tokens(r), Slots(r))'
  BY <1>6, <1>7, <1>10
<1>12. RowOK(job)' /\ Behind(job, made, Tokens(job), Slots(job))'
  BY <1>3, <1>7, <1>11
<1> QED BY <1>1, <1>12 DEF RowsOK, RpcOK

-----------------------------------------------------------------------------
(* The ledger of every reachable state.                                    *)

\* The steps of the job and of its operator leave the chain alone, and reserve only
\* while a number is left for the send.
LEMMA JobStepsReserve ==
  ASSUME Tick \/ Operator
  PROVE  /\ UNCHANGED <<chainVars, made, kind>> /\ late' = late
         /\ rpc' = "reserved" =>
              rpc = "reserved" \/ Cardinality(sent) + Cardinality(late) < MaxSends
<1> DEFINE Fine == /\ UNCHANGED <<chainVars, made, kind>> /\ late' = late
                   /\ rpc' = "reserved" => \/ rpc = "reserved"
                                           \/ Cardinality(sent) + Cardinality(late) < MaxSends
<1>1. ASSUME NEW j, Stays(j) PROVE Fine
  BY <1>1 DEF Stays, rpcVars
<1>2. ASSUME NEW j, NEW s, Moves(j, s) PROVE Fine
  BY <1>2 DEF Moves, rpcVars
<1>3. ASSUME NEW j, NEW see, SendsAgain(j, see) PROVE Fine
  <2>1. CASE Reserves(j, see)
    BY <2>1 DEF Reserves
  <2> QED BY <1>1, <1>3, <2>1 DEF SendsAgain
<1>4. CASE Expire
  BY <1>2, <1>4 DEF Expire
<1>5. ASSUME NEW see, \/ TickArrived(see) \/ TickUnsent(see) \/ TickUnnamed(see)
                      \/ TickRecorded(see) \/ TickFunded(see)
      PROVE  Fine
  BY <1>1, <1>2, <1>3, <1>5 DEF TickArrived, TickUnsent, TickUnnamed, TickRecorded, TickFunded
<1>6. ASSUME NEW see, TickClaiming(see) PROVE Fine
  <2>1. CASE UNCHANGED <<chainVars, made, kind, rpcVars>>
    BY <2>1 DEF rpcVars
  <2> QED BY <1>1, <1>2, <1>6, <2>1 DEF TickClaiming, Pushes
<1>7. CASE Tick
  BY <1>4, <1>5, <1>6, <1>7 DEF Tick
<1>8. CASE Operator
  <2>1. UNCHANGED <<chainVars, made, kind, rpcVars>>
    BY <1>8 DEF Operator, Retry, SweepPushes, SweepEnds, Abandon, Rewrites
  <2> QED BY <2>1 DEF rpcVars
<1> QED BY <1>7, <1>8

\* A send is reserved only while a number is left for it and for every call that
\* may still run.
LEMMA RoomStep ==
  ASSUME WarpInv, Room, [Next]_vars
  PROVE  Room'
<1>0. /\ ChainOK /\ Numbered /\ kind \in {"fund", "burn"} /\ IsFiniteSet(late)
      /\ Cardinality(sent) \in Nat /\ Cardinality(late) \in Nat /\ MaxSends \in Nat
      /\ Cardinality(sent) + Cardinality(late) + (IF rpc = "reserved" THEN 1 ELSE 0) <= MaxSends
  BY Counted, FS_CardinalityType, WarpAssumption DEF WarpInv, Room, WarpAssumption
<1>1. CASE Tick \/ Operator
  <2>1. sent' = sent
    BY <1>1, JobStepsReserve DEF sent
  <2> QED BY <1>0, <1>1, <2>1, JobStepsReserve DEF Room
<1>2. CASE WalletSends
  <2>1. /\ rpc = "reserved" /\ rpc' = "made" /\ late' = late
        /\ Calls(NextSend, job.exclude) /\ UNCHANGED <<chainVars, kind>>
    BY <1>2 DEF WalletSends
  <2>2. Cardinality(sent) < MaxSends
    BY <2>1, RoomForOne
  <2>3. Cardinality(sent') = NextSend
    BY <1>0, <2>1, <2>2, CallGrows
  <2> QED BY <1>0, <2>1, <2>3 DEF Room, NextSend
<1>3. CASE RunsLate
  <2>1. PICK e \in late : /\ Calls(NextSend, e) /\ late' = late \ {e} /\ rpc' = rpc
                          /\ UNCHANGED <<chainVars, kind>>
    BY <1>3 DEF RunsLate
  <2>2. Cardinality(sent) < MaxSends
    BY <2>1, RoomForOne
  <2>3. Cardinality(sent') = NextSend
    BY <1>0, <2>1, <2>2, CallGrows
  <2>4. IsFiniteSet(late') /\ Cardinality(late') = Cardinality(late) - 1
    BY <1>0, <2>1, FS_RemoveElement
  <2> QED BY <1>0, <2>1, <2>3, <2>4 DEF Room, NextSend
<1>4. CASE Answered \/ Refused
  <2>1. rpc' = "idle" /\ late' = late /\ made' = made
    BY <1>4 DEF Answered, Refused
  <2>2. sent' = sent
    BY <2>1 DEF sent
  <2> QED BY <1>0, <2>1, <2>2 DEF Room
<1>5. CASE NoAnswer \/ Crash
  <2>1. /\ rpc' = "idle" /\ made' = made
        /\ late' \in {late, IF rpc = "reserved" THEN late \cup {job.exclude} ELSE late}
    BY <1>5 DEF NoAnswer, Crash, GivesUp
  <2>2. sent' = sent
    BY <2>1 DEF sent
  <2>3. CASE late' = late
    BY <1>0, <2>1, <2>2, <2>3 DEF Room
  <2>4. CASE late' # late
    <3>1. rpc = "reserved" /\ late' = late \cup {job.exclude} /\ job.exclude \notin late
      BY <2>1, <2>4
    <3>2. IsFiniteSet(late') /\ Cardinality(late') = Cardinality(late) + 1
      BY <1>0, <3>1, FS_AddElement
    <3> QED BY <1>0, <2>1, <2>2, <3>1, <3>2 DEF Room
  <2> QED BY <2>3, <2>4
<1>6. CASE World
  <2>1. sent' = sent /\ rpc' = rpc /\ late' = late
    BY <1>0, <1>6, WorldKeeps DEF rpcVars
  <2> QED BY <2>1 DEF Room
<1>7. CASE UNCHANGED vars
  <2>1. sent' = sent /\ rpc' = rpc /\ late' = late
    BY <1>7 DEF vars, rpcVars, sent
  <2> QED BY <2>1 DEF Room
<1> QED BY <1>1, <1>2, <1>3, <1>4, <1>5, <1>6, <1>7 DEF Next, RpcEnds

\* No step takes back a send, its coins or a final death, and only the chain's
\* move the chain.
LEMMA StepGrows ==
  ASSUME WarpInv, Room, [Next]_vars
  PROVE  Grows /\ kind' = kind /\ (UNCHANGED chainVars \/ World)
<1>0. ChainOK /\ Numbered /\ kind \in {"fund", "burn"}
  BY DEF WarpInv
<1>1. kind' = kind
  BY ChainStep
<1>2. CASE WalletSends
  <2>1. rpc = "reserved" /\ Calls(NextSend, job.exclude) /\ UNCHANGED <<chainVars, kind>>
    BY <1>2 DEF WalletSends
  <2>2. Cardinality(sent) < MaxSends
    BY <2>1, RoomForOne
  <2> QED BY <1>0, <2>1, <2>2, CallGrows
<1>3. CASE RunsLate
  <2>1. PICK e \in late : Calls(NextSend, e) /\ UNCHANGED <<chainVars, kind>>
    BY <1>3 DEF RunsLate
  <2>2. Cardinality(sent) < MaxSends
    BY <2>1, RoomForOne
  <2> QED BY <1>0, <2>1, <2>2, CallGrows
<1>4. CASE World
  BY <1>0, <1>1, <1>4, WorldGrows
<1>5. CASE UNCHANGED <<chainVars, made>>
  BY <1>1, <1>5, StillGrows
<1>6. CASE Tick \/ Operator
  BY <1>5, <1>6, JobStepsReserve
<1>7. CASE RpcEnds \/ Crash
  BY <1>5, <1>7 DEF RpcEnds, Crash, Answered, Refused, NoAnswer
<1>8. CASE UNCHANGED vars
  BY <1>5, <1>8 DEF vars
<1> QED BY <1>2, <1>3, <1>4, <1>6, <1>7, <1>8 DEF Next

\* Every step keeps the ledger.
LEMMA LedgerStep ==
  ASSUME WarpInv, LedgerInv, [Next]_vars
  PROVE  LedgerInv'
<1>0. ChainOK /\ OutsOK /\ Room
  BY DEF WarpInv, LedgerInv
<1>1. Grows /\ kind' = kind /\ (UNCHANGED chainVars \/ World)
  BY <1>0, StepGrows
<1>2. OutsOK'
  BY <1>0, <1>1, WorldKeepsOuts, QuietKeepsOuts DEF Grows
<1>3. Room'
  BY <1>0, RoomStep
<1>4. ASSUME Separate' PROVE RowsOK'
  <2>1. Separate
    <3> SUFFICES ASSUME kind = "fund", NEW a \in sent, NEW b \in sent, made[a] \cap made[b] # {}
                 PROVE  made[a] = made[b]
      BY DEF Separate
    <3>1. a \in sent' /\ b \in sent' /\ made'[a] = made[a] /\ made'[b] = made[b]
      BY <1>1 DEF Grows
    <3> QED BY <1>1, <1>4, <3>1 DEF Separate
  <2>2. RowsOK
    BY <2>1 DEF LedgerInv
  <2> QED BY <1>0, <2>1, <2>2, TickInOrder, OperatorInOrder, WorldInOrder, IdleKeepsRows,
             SendInOrder,
             LateInOrder, AnswerInOrder, RefusalInOrder, GivingUpInOrder DEF Next, RpcEnds
<1> QED BY <1>2, <1>3, <1>4 DEF LedgerInv

\* A new job has an empty one.
LEMMA LedgerInit == Init => LedgerInv
<1> SUFFICES ASSUME Init PROVE LedgerInv
  OBVIOUS
<1> USE Names, KeyNames
<1>1. /\ made = [a \in Sends |-> {}] /\ late = {} /\ rpc = "idle" /\ job = NewJob
      /\ kind \in {"fund", "burn"}
  BY DEF Init
<1>2. sent = {}
  BY <1>1 DEF sent
<1>3. Room
  BY <1>1, <1>2, FS_EmptySet, WarpAssumption DEF Room, WarpAssumption
<1>4. /\ DOMAIN job = JobFields /\ job.from \in Pending /\ job.marker = NoTx /\ job.removals = {}
      /\ job.priors = <<>> /\ job.coins = [k \in Keys |-> {}] /\ job.seq = 0 /\ job.dead = {}
      /\ job.pin = 0
  BY <1>1 DEF NewJob, JobFields, Starting, Pending
<1>5. \A k : ~InPriors(job, k)
  BY <1>4 DEF InPriors
<1>6. \A n \in 1 .. MaxSends : Unnamed(n) \in Keys
  <2>1. \A n \in 1 .. MaxSends : n \in 0 .. MaxSends
    BY WarpAssumption DEF WarpAssumption
  <2> QED BY <2>1
<1>7. RowOK(job)
  <2>1. MarkerOK(job)
    BY <1>2, <1>4 DEF MarkerOK, CoinSets
  <2>2. ListOK(job)
    BY <1>4, <1>5 DEF ListOK
  <2>3. CoinsOK(job)
    BY <1>4 DEF CoinsOK, CoinSets
  <2>4. FreshNumbers(job)
    BY <1>4, <1>5, <1>6 DEF FreshNumbers
  <2>5. DeadOK(job)
    BY <1>4 DEF DeadOK
  <2> QED BY <1>4, <2>1, <2>2, <2>3, <2>4, <2>5 DEF RowOK
<1>8. Tokens(job) = {} /\ Slots(job) = {}
  <2>1. NoTx \notin Numbers
    OBVIOUS
  <2> QED BY <1>1, <1>2, <1>4, <1>5, <2>1 DEF Tokens, Unkeyed, Slots, Holds
<1>9. Behind(job, made, {}, {})
  <2>1. [x \in {} |-> x] \in [{} -> {}]
    OBVIOUS
  <2> QED BY <2>1 DEF Behind
<1> QED BY <1>1, <1>3, <1>7, <1>8, <1>9, OutsInit DEF LedgerInv, RowsOK, RpcOK

\* The ledger of a job holds in every reachable state, for any number of sends,
\* coins and polls: there is a number for every send, and, as long as two
\* fundings that share a coin spend the same coins, every send the books do not
\* name and every call that may still run has an entry to itself, one that knows
\* no coins or that send's own, through every retirement, identification and
\* reservation.
THEOREM LedgerInvariant == Spec => [](WarpInv /\ LedgerInv)
<1>1. Init => WarpInv /\ LedgerInv
  BY WarpInit, LedgerInit
<1>2. WarpInv /\ LedgerInv /\ [Next]_vars => (WarpInv /\ LedgerInv)'
  BY WarpStep, LedgerStep
<1> QED BY <1>1, <1>2, PTL DEF Spec

-----------------------------------------------------------------------------
(* What the books promise.                                                 *)

\* Whatever the send RPC is at, the books have an entry for every send.
LEMMA RowsAreInOrder ==
  ASSUME RowsOK
  PROVE  InOrder(job)
<1>1. RowOK(job) /\ rpc \in {"idle", "reserved", "made"}
  BY DEF RowsOK, RpcOK
<1>2. CASE rpc = "idle"
  BY <1>2 DEF RowsOK, RpcOK, InOrder
<1>3. CASE rpc = "reserved"
  <2>1. Behind(job, made, Tokens(job), Slots(job) \ {Unknown})
    BY <1>3 DEF RowsOK, RpcOK
  <2> QED BY <1>1, <2>1, BehindFewer DEF InOrder
<1>4. CASE rpc = "made"
  <2>1. PICK n : n = Cardinality(sent)
    OBVIOUS
  <2>2. /\ Blank(job) /\ n \in sent
        /\ Behind(job, made, Tokens(job) \ {Tx(n)}, Slots(job) \ {Unknown})
    BY <1>4, <2>1 DEF RowsOK, RpcOK
  <2>3. Own(job, Unknown) = {} /\ Unknown \in Numbers
    BY <2>2, KeyNames DEF Blank, Own
  <2>4. Fits(job, made, Tx(n), Unknown)
    BY <2>3 DEF Fits
  <2>5. Behind(job, made, (Tokens(job) \ {Tx(n)}) \cup {Tx(n)},
               (Slots(job) \ {Unknown}) \cup {Unknown})
    BY <2>2, <2>4, BehindOneMore
  <2>6. (Slots(job) \ {Unknown}) \cup {Unknown} = Slots(job)
    BY <2>2, <2>3 DEF Blank, Slots, Holds
  <2> QED BY <1>1, <2>5, <2>6, BehindFewer DEF InOrder
<1> QED BY <1>1, <1>2, <1>3, <1>4

\* There are finitely many numbers.
LEMMA FewNumbers == IsFiniteSet(Numbers)
<1> DEFINE f == [k \in Numbers |-> k[2]]
<1>1. MaxSends \in Nat
  BY WarpAssumption DEF WarpAssumption
<1>2. f \in [Numbers -> 0 .. MaxSends] /\ \A x, y \in Numbers : f[x] = f[y] => x = y
  BY DEF Numbers, Unnamed
<1>3. f \in Injection(Numbers, 0 .. MaxSends)
  BY <1>2 DEF Injection, IsInjective
<1>4. IsFiniteSet(0 .. MaxSends)
  BY <1>1, FS_Interval
<1> QED BY <1>3, <1>4, FS_Injection

\* What is listed as proven dead can never land, as long as two fundings that
\* share a coin spend the same coins (judge, _mark_attempts_dead,
\* _refresh_exclusions).
THEOREM DeadStaysDead == Spec => [](Separate => DeadIsDead)
<1>1. WarpInv /\ LedgerInv => (Separate => DeadIsDead)
  <2> SUFFICES ASSUME WarpInv, LedgerInv, Separate, NEW k \in job.dead, InPriors(job, k)
               PROVE  \/ Id(k) # 0 /\ Doomed(Id(k))
                      \/ \E c \in job.coins[k] : Spent(c) /\ deep[c]
    BY DEF DeadIsDead
  <2>1. DeadOK(job)
    BY DEF LedgerInv, RowsOK, RowOK
  <2>2. k \in Keys
    BY <2>1 DEF DeadOK
  <2>3. CASE \E n \in 0 .. MaxSends : k = Unnamed(n)
    <3>1. DeadSet(job.coins[k])
      BY <2>1, <2>3 DEF DeadOK
    <3> QED BY <3>1 DEF DeadSet, AtDepth
  <2>4. CASE \E a \in Sends : k = Tx(a)
    <3>1. PICK a \in Sends : k = Tx(a)
      BY <2>4
    <3>2. Doomed(a) /\ Id(k) = a /\ a # 0
      BY <2>1, <3>1, Names DEF DeadOK, Sends
    <3> QED BY <3>2
  <2> QED BY <2>2, <2>3, <2>4 DEF Keys
<1> QED BY <1>1, LedgerInvariant, PTL

\* An entry proven dead stands for no send that can land.
LEMMA DeadStandsForNone ==
  ASSUME RowOK(job), NEW a \in sent, NEW k \in Slots(job), Fits(job, made, Tx(a), k), k \in job.dead
  PROVE  Doomed(a)
<1>1. PICK n \in 0 .. MaxSends : k = Unnamed(n)
  BY DEF Slots, Numbers
<1>2. 0 < n /\ (InPriors(job, k) => DeadSet(job.coins[k]))
  BY <1>1 DEF RowOK, DeadOK
<1>3. k # job.marker
  <2>1. n \in Nat /\ 0 \in Nat /\ n # 0
    BY <1>2, WarpAssumption DEF WarpAssumption
  <2>2. k # NoTx /\ k # Unknown /\ \A b \in Sends : k # Tx(b)
    BY <1>1, <2>1, Names DEF Unknown
  <2> QED BY <2>2 DEF RowOK, MarkerOK, sent
<1>4. InPriors(job, k) /\ Own(job, k) = job.coins[k]
  BY <1>3 DEF Slots, Holds, Own
<1>5. DeadSet(job.coins[k])
  BY <1>2, <1>4
<1>6. job.coins[k] # {}
  BY <1>5 DEF DeadSet
<1>7. made[a] = job.coins[k]
  <2>1. PICK b \in Sends : Tx(a) = Tx(b) /\ made[b] = Own(job, k)
    BY <1>4, <1>6 DEF Fits
  <2> QED BY <1>4, <2>1, Names DEF sent
<1> QED BY <1>5, <1>7 DEF DeadSet

\* While the job is open every send that may still land is on its books, under
\* its id or behind an entry of its own that has none, as long as two fundings
\* that share a coin spend the same coins (_send_reserved, _replacement_patch,
\* _persist_identified_attempt).
THEOREM SendsAreOnTheBooks == Spec => [](Separate => EverySendOnTheBooks)
<1>1. WarpInv /\ LedgerInv => (Separate => EverySendOnTheBooks)
  <2> DEFINE keys     == {job.marker} \cup {job.priors[i] : i \in DOMAIN job.priors}
             nameless == {k \in keys \ job.dead : k[1] = "unnamed"}
             missing  == {a \in sent : ~Doomed(a) /\ Tx(a) \notin keys}
  <2> SUFFICES ASSUME WarpInv, LedgerInv, Separate
               PROVE  Cardinality(missing) <= Cardinality(nameless)
    BY DEF EverySendOnTheBooks
  <2>1. InOrder(job)
    BY RowsAreInOrder DEF LedgerInv
  <2>2. RowOK(job) /\ Behind(job, made, Tokens(job), Slots(job))
    BY <2>1 DEF InOrder
  <2>3. \A k : k \in keys <=> Holds(job, k)
    BY DEF Holds, InPriors
  <2> HIDE DEF keys
  <2>4. \A k \in Slots(job) : k \notin job.dead => k \in nameless
    BY <2>3 DEF Slots, Numbers, Unnamed
  <2>5. nameless \subseteq Numbers
    <3>1. \A k \in keys : k \in Keys \cup {NoTx}
      BY <2>2, <2>3, KeyNames DEF Holds, RowOK, MarkerOK, ListOK, InPriors, sent
    <3>2. \A k \in Keys \cup {NoTx} : k[1] = "unnamed" => k \in Numbers
      BY DEF Keys, NoTx, Tx, Unnamed, Numbers
    <3> QED BY <3>1, <3>2
  <2>6. IsFiniteSet(nameless)
    BY <2>5, FewNumbers, FS_Subset
  <2>7. PICK g \in [Tokens(job) -> Slots(job)] :
               /\ \A x, y \in Tokens(job) : g[x] = g[y] => x = y
               /\ \A x \in Tokens(job) : Fits(job, made, x, g[x])
    BY <2>2 DEF Behind
  <2>8. \A a \in missing : a \in sent /\ ~Doomed(a) /\ Tx(a) \in Tokens(job)
    BY <2>3 DEF Tokens, Unkeyed
  <2>9. \A a \in missing : g[Tx(a)] \in nameless
    <3> SUFFICES ASSUME NEW a \in missing PROVE g[Tx(a)] \in nameless
      OBVIOUS
    <3>1. g[Tx(a)] \in Slots(job) /\ Fits(job, made, Tx(a), g[Tx(a)])
      BY <2>7, <2>8
    <3> QED BY <2>2, <2>4, <2>8, <3>1, DeadStandsForNone
  <2> DEFINE h == [a \in missing |-> g[Tx(a)]]
  <2>10. h \in [missing -> nameless] /\ \A a, b \in missing : h[a] = h[b] => a = b
    <3>1. \A a, b \in missing : g[Tx(a)] = g[Tx(b)] => a = b
      BY <2>7, <2>8, Names DEF sent
    <3> QED BY <2>9, <3>1
  <2> HIDE DEF h, missing, nameless
  <2>11. h \in Injection(missing, nameless)
    BY <2>10 DEF Injection, IsInjective
  <2> QED BY <2>6, <2>11, FS_Injection
<1> QED BY <1>1, LedgerInvariant, PTL

-----------------------------------------------------------------------------
(* The end of a job.                                                       *)

\* What a refusal puts back is open.
Reopens == rpc = "reserved" => before.status \notin Closed

\* A reservation is made by an open job.
LEMMA TickReopens ==
  ASSUME Tick
  PROVE  Reopens'
<1>0. rpc = "idle" /\ job.status \notin Closed
  BY DEF Tick, Expire, Ticking, Pending, Closed
<1>1. ASSUME NEW j, Stays(j) PROVE rpc' = "idle"
  BY <1>0, <1>1 DEF Stays, rpcVars
<1>2. ASSUME NEW j, NEW s, Moves(j, s) PROVE rpc' = "idle"
  BY <1>0, <1>2 DEF Moves, rpcVars
<1>3. ASSUME NEW j, NEW see, SendsAgain(j, see) PROVE rpc' = "idle" \/ before' = job
  BY <1>1, <1>3 DEF SendsAgain, Reserves
<1>4. CASE Expire
  BY <1>2, <1>4 DEF Expire, Reopens
<1>5. ASSUME NEW see, \/ TickArrived(see) \/ TickUnsent(see) \/ TickUnnamed(see)
                      \/ TickRecorded(see) \/ TickFunded(see)
      PROVE  rpc' = "idle" \/ before' = job
  BY <1>1, <1>2, <1>3, <1>5 DEF TickArrived, TickUnsent, TickUnnamed, TickRecorded, TickFunded
<1>6. ASSUME NEW see, TickClaiming(see) PROVE rpc' = "idle"
  <2>1. CASE UNCHANGED <<chainVars, made, sweep_pushed, kind, rpcVars>>
    BY <1>0, <2>1 DEF rpcVars
  <2>2. ASSUME NEW a, Pushes(a) PROVE rpc' = "idle"
    BY <1>0, <2>2 DEF Pushes, rpcVars
  <2> QED BY <1>1, <1>2, <1>6, <2>1, <2>2 DEF TickClaiming
<1> QED BY <1>0, <1>4, <1>5, <1>6 DEF Tick, Reopens

\* What a refusal puts back stays what the reservation kept.
LEMMA ReopensStep ==
  ASSUME Reopens, [Next]_vars
  PROVE  Reopens'
<1>1. CASE rpc' = rpc /\ before' = before
  BY <1>1 DEF Reopens
<1>2. CASE Operator
  BY <1>1, <1>2 DEF Operator, Retry, SweepPushes, SweepEnds, Abandon, Rewrites, rpcVars
<1>3. CASE World
  BY <1>1, <1>3 DEF World, Lands, TakesCoin, BurySend, BuryTake, UndoSend, UndoTake, SpendsOut,
                    BuryOut, UndoOut, Chain, rpcVars
<1>4. CASE WalletSends \/ RpcEnds \/ Crash
  BY <1>4 DEF WalletSends, RpcEnds, Crash, Answered, Refused, NoAnswer, GivesUp, Reopens
<1>5. CASE RunsLate \/ UNCHANGED vars
  BY <1>1, <1>5 DEF RunsLate, vars, rpcVars
<1> QED BY <1>2, <1>3, <1>4, <1>5, TickReopens DEF Next

\* There is no reservation at first.
LEMMA ReopensInit == Init => Reopens
BY DEF Init, Reopens

\* The end of a job with the row i leaves the send a behind: it was not ruled
\* out, not presumed gone, and has not been swept, for good when the row j had
\* replaced one.
LeftBehind(j, i, a) ==
  /\ ~Doomed(a) /\ Tx(a) \notin i.presumed /\ ~(\E k \in i.presumed : k[1] = "unnamed")
  /\ ~(out[a] \in {"claimed", "swept"} /\ (j.priors # <<>> => outdeep[a]))

\* When all that the books hold is cleared no send is left behind.
LEMMA AllClearedLeavesNone ==
  ASSUME NEW j, NEW i, InOrder(i), \A k \in Keys : Holds(i, k) => Cleared(i, k), NEW a \in sent
  PROVE  ~LeftBehind(j, i, a)
<1> USE Names, KeyNames
<1>0. a \in Sends
  BY DEF sent
<1>1. CASE Gone(a)
  BY <1>1 DEF Gone, LeftBehind
<1>2. CASE AnyPresumed(i)
  BY <1>2 DEF AnyPresumed, LeftBehind, Unnamed
<1>3. CASE Holds(i, Tx(a))
  <2>1. Cleared(i, Tx(a)) /\ Tx(a) \notin Numbers
    BY <1>0, <1>3
  <2>2. \A b \in sent : Tx(a) = Tx(b) => a = b
    BY <1>0 DEF sent
  <2> QED BY <1>1, <1>2, <2>1, <2>2 DEF Cleared, LeftBehind
<1>4. CASE ~Holds(i, Tx(a))
  <2>1. Tx(a) \in Tokens(i)
    BY <1>4 DEF Tokens, Unkeyed
  <2>2. PICK k \in Slots(i) : Fits(i, made, Tx(a), k)
    BY <2>1 DEF InOrder, Behind
  <2>3. k \in Numbers /\ k \in Keys /\ Cleared(i, k) /\ \A b \in Sends : k # Tx(b)
    BY <2>2 DEF Slots
  <2>4. CASE k \in i.presumed
    BY <2>3, <2>4 DEF Numbers, Unnamed, LeftBehind
  <2>5. CASE Own(i, k) # {} /\ \A b \in sent : made[b] = Own(i, k) => Gone(b)
    <3>1. PICK b \in Sends : Tx(a) = Tx(b) /\ made[b] = Own(i, k)
      BY <2>2, <2>5 DEF Fits
    <3> QED BY <1>0, <1>1, <2>5, <3>1
  <2> QED BY <1>2, <2>3, <2>4, <2>5 DEF Cleared, sent
<1> QED BY <1>3, <1>4

\* A job that never replaced a send has at most one.
LEMMA NeverReplaced ==
  ASSUME NEW j, InOrder(j), j.priors = <<>>
  PROVE  (\A a, b \in sent : a = b) /\ (j.marker = NoTx => sent = {})
<1> USE Names, KeyNames
<1>0. \A k : ~InPriors(j, k)
  BY DEF InPriors
<1>1. PICK g \in [Tokens(j) -> Slots(j)] : \A x, y \in Tokens(j) : g[x] = g[y] => x = y
  BY DEF InOrder, Behind
<1>2. j.marker \in {NoTx, Unknown} \cup {Tx(a) : a \in sent}
  BY DEF InOrder, RowOK, MarkerOK
<1>3. \A a \in sent : a \in Sends /\ (j.marker = Tx(a) \/ Tx(a) \in Tokens(j))
  BY <1>0 DEF Tokens, Unkeyed, Holds, sent
<1>4. \A k \in Slots(j) : k = j.marker /\ k \in Numbers
  BY <1>0 DEF Slots, Holds
<1>5. \A a, b \in sent : Tx(a) \in Tokens(j) /\ Tx(b) \in Tokens(j) => a = b
  <2> SUFFICES ASSUME NEW a \in sent, NEW b \in sent, Tx(a) \in Tokens(j), Tx(b) \in Tokens(j)
               PROVE  a = b
    OBVIOUS
  <2>1. g[Tx(a)] = j.marker /\ g[Tx(b)] = j.marker
    BY <1>4
  <2>2. Tx(a) = Tx(b)
    BY <1>1, <2>1
  <2> QED BY <1>3, <2>2
<1>6. \A a \in sent : Tx(a) \in Tokens(j) => j.marker = Unknown
  <2> SUFFICES ASSUME NEW a \in sent, Tx(a) \in Tokens(j) PROVE j.marker = Unknown
    OBVIOUS
  <2>1. j.marker \in Numbers
    BY <1>4
  <2> QED BY <1>2, <1>3, <2>1
<1> QED BY <1>3, <1>5, <1>6

\* A settled job leaves no send behind.
LEMMA SettledLeavesNone ==
  ASSUME WarpInv, OutsOK, Separate, kind = "fund", InOrder(job), NEW see, see.held \subseteq sent,
         Settles(job, see).settled,
         \/ Claimed
         \/ Unspent = {} /\ (job.priors = <<>> => \/ job.marker = NoTx
                                                  \/ job.pin # 0 /\ Landed(job.pin)),
         NEW a \in sent
  PROVE  ~LeftBehind(job, Settles(job, see).job, a)
<1> DEFINE s == Settles(job, see)
<1>1. /\ InOrder(s.job) /\ SameJob(s.job, job)
      /\ \/ s.job.priors = <<>> /\ s.job = job
         \/ \A k \in Keys : Holds(s.job, k) => Cleared(s.job, k)
  BY SettlesKeeps DEF WarpInv
<1> HIDE DEF s
<1>2. CASE \A k \in Keys : Holds(s.job, k) => Cleared(s.job, k)
  BY <1>1, <1>2, AllClearedLeavesNone DEF s
<1>3. CASE job.priors = <<>>
  <2>1. (\A b, c \in sent : b = c) /\ (job.marker = NoTx => sent = {})
    BY <1>3, NeverReplaced
  <2>2. job.pin \in {0} \cup sent
    BY DEF InOrder, RowOK
  <2>3. a = job.pin \/ job.pin = 0
    BY <2>1, <2>2
  <2>4. out[a] \in {"claimed", "swept"}
    <3>1. CASE Claimed
      BY <2>3, <3>1 DEF Claimed
    <3>2. CASE Unspent = {} /\ job.pin # 0 /\ Landed(job.pin)
      <4>1. a = job.pin /\ out[a] # "none" /\ out[a] # "unspent"
        BY <2>3, <3>2 DEF Landed, Unspent
      <4> QED BY <4>1 DEF OutsOK, sent
    <3> QED BY <1>3, <2>1, <3>1, <3>2
  <2> QED BY <1>3, <2>4 DEF LeftBehind
<1> QED BY <1>1, <1>2, <1>3

\* A job closes by completing, by a sweep that finds nothing left, or by being
\* abandoned.
LEMMA ClosesAt ==
  ASSUME WarpInv, LedgerInv, Reopens, RowOK(job), rpc = "reserved" => DOMAIN before = JobFields,
         [Next]_vars, job.status \notin Closed, job'.status \in Closed
  PROVE  \/ \E see : see.held \subseteq sent /\ TickClaiming(see) /\ rpc = "idle"
         \/ SweepEnds \/ Abandon
<1>0. DOMAIN job = JobFields /\ job.from \in Pending
  BY DEF RowOK
<1>1. \A s \in Pending \cup {"FAILED", "BURNING"} : s \notin Closed
  BY DEF Pending, Closed
<1>2. ASSUME NEW j, DOMAIN j = JobFields, j.status = job.status, Stays(j) PROVE FALSE
  BY <1>2 DEF Stays, Polled, JobFields
<1>3. ASSUME NEW j, DOMAIN j = JobFields, NEW s \in Pending \cup {"FAILED", "BURNING"}, Moves(j, s)
      PROVE FALSE
  BY <1>1, <1>3 DEF Moves, JobFields
<1>4. ASSUME NEW j, DOMAIN j = JobFields, j.status = job.status, NEW see, SendsAgain(j, see)
      PROVE  FALSE
  <2>1. CASE Reserves(j, see)
    <3>1. job'.status = j.status
      BY <1>4, <2>1 DEF Reserves, JobFields
    <3> QED BY <1>4, <3>1
  <2>2. ASSUME NEW a, Stays(Adopts(j, a)) PROVE FALSE
    <3>1. DOMAIN Adopts(j, a) = JobFields /\ Adopts(j, a).status = job.status
      BY <1>4 DEF Adopts, JobFields
    <3> QED BY <1>2, <2>2, <3>1
  <2> QED BY <1>0, <1>2, <1>4, <2>1, <2>2 DEF SendsAgain
<1>5. ASSUME NEW k, NEW coins, NEW proven
      PROVE  /\ DOMAIN Replacement(job, k, coins, proven) = JobFields
             /\ Replacement(job, k, coins, proven).status = job.status
  BY <1>0 DEF Replacement, JobFields
<1>6. CASE Tick
  <2>1. ~Expire
    <3> SUFFICES ASSUME Expire PROVE FALSE
      OBVIOUS
    <3> DEFINE j == [job EXCEPT !.from = job.status]
    <3>1. DOMAIN j = JobFields /\ Moves(j, "FAILED")
      BY <1>0 DEF Expire
    <3> HIDE DEF j
    <3> QED BY <1>3, <3>1
  <2>2. PICK see \in PassesIf(Sending \/ job.priors # <<>>) :
          \/ TickArrived(see) \/ TickUnsent(see) \/ TickUnnamed(see)
          \/ TickRecorded(see) \/ TickFunded(see) \/ TickClaiming(see)
    BY <1>6, <2>1 DEF Tick
  <2>3. ~TickArrived(see)
    <3> SUFFICES ASSUME NEW a, Moves([job EXCEPT !.pin = a],
                                     IF kind = "fund" THEN "CLAIM_FUNDED" ELSE "BURNING")
                 PROVE FALSE
      BY DEF TickArrived
    <3> DEFINE j == [job EXCEPT !.pin = a]
               s == IF kind = "fund" THEN "CLAIM_FUNDED" ELSE "BURNING"
    <3>1. DOMAIN j = JobFields /\ Moves(j, s) /\ s \in Pending \cup {"FAILED", "BURNING"}
      BY <1>0 DEF Pending
    <3> HIDE DEF j, s
    <3> QED BY <1>3, <3>1
  <2>4. ~TickUnsent(see)
    BY <1>0, <1>4 DEF TickUnsent
  <2>5. ~TickUnnamed(see)
    <3> SUFFICES ASSUME TickUnnamed(see) PROVE FALSE
      OBVIOUS
    <3>1. \/ Stays(job)
          \/ \E a : Stays(Adopts(job, a))
          \/ \E k, coins : SendsAgain(Replacement(job, k, coins, TRUE), see)
      BY DEF TickUnnamed
    <3>2. ASSUME NEW a, Stays(Adopts(job, a)) PROVE FALSE
      <4>1. DOMAIN Adopts(job, a) = JobFields /\ Adopts(job, a).status = job.status
        BY <1>0 DEF Adopts, JobFields
      <4> QED BY <1>2, <3>2, <4>1
    <3> QED BY <1>0, <1>2, <1>4, <1>5, <3>1, <3>2
  <2>6. ~TickRecorded(see)
    <3> SUFFICES ASSUME TickRecorded(see) PROVE FALSE
      OBVIOUS
    <3>1. \/ \E coins : Stays([job EXCEPT !.removals = coins])
          \/ \E k, coins : SendsAgain(Replacement(job, k, coins, TRUE), see)
      BY DEF TickRecorded
    <3>2. ASSUME NEW coins, Stays([job EXCEPT !.removals = coins]) PROVE FALSE
      <4> DEFINE j == [job EXCEPT !.removals = coins]
      <4>1. DOMAIN j = JobFields /\ j.status = job.status /\ Stays(j)
        BY <1>0, <3>2 DEF JobFields
      <4> HIDE DEF j
      <4> QED BY <1>2, <4>1
    <3> QED BY <1>4, <1>5, <3>1, <3>2
  <2>7. ~TickFunded(see)
    <3>1. "CLAIMING" \in Pending
      BY DEF Pending
    <3> QED BY <1>0, <1>2, <1>3, <3>1 DEF TickFunded
  <2>8. see.held \subseteq sent
    BY <2>2 DEF PassesIf, Passes
  <2>9. rpc = "idle"
    BY <1>6 DEF Tick, Expire, Ticking
  <2> QED BY <2>2, <2>3, <2>4, <2>5, <2>6, <2>7, <2>8, <2>9
<1>7. ~(WalletSends \/ Crash \/ RunsLate \/ World \/ UNCHANGED vars)
  <2>1. \A b, d, o, od : ~Chain(b, d, o, od)
    BY DEF Chain
  <2>2. ~World
    BY <2>1 DEF World, Lands, TakesCoin, BurySend, BuryTake, UndoSend, UndoTake, SpendsOut,
                    BuryOut, UndoOut
  <2> QED BY <2>2 DEF WalletSends, Crash, RunsLate, vars
<1>8. ~RpcEnds
  <2>1. ~Answered
    <3> SUFFICES ASSUME Answered PROVE FALSE
      OBVIOUS
    <3>1. PICK id, coins, pin : job' = [Polled(job) EXCEPT !.marker = id, !.removals = coins,
                                                           !.exclude = {}, !.pin = pin]
      BY DEF Answered
    <3>2. job'.status = job.status
      BY <1>0, <3>1 DEF Polled, JobFields
    <3> QED BY <3>2
  <2>2. ~Refused
    <3> SUFFICES ASSUME Refused PROVE FALSE
      OBVIOUS
    <3>1. job'.status = before.status
      BY DEF Refused, Polled, JobFields
    <3> QED BY <3>1 DEF Refused, Reopens
  <2>3. ~NoAnswer
    BY <1>0 DEF NoAnswer, LeftRecorded, Polled, JobFields
  <2> QED BY <2>1, <2>2, <2>3 DEF RpcEnds
<1>9. ~Retry
  <2> SUFFICES ASSUME Retry PROVE FALSE
    OBVIOUS
  <2>1. PICK see : job' = [IF job.from = Starting THEN Released(see) ELSE job
                                EXCEPT !.status = job.from]
    BY DEF Retry, Rewrites
  <2>2. DOMAIN Released(see) = JobFields
    BY <1>0, <1>5 DEF Released
  <2>3. job'.status = job.from
    BY <1>0, <2>1, <2>2 DEF JobFields
  <2> QED BY <1>0, <1>1, <2>3
<1>10. ~SweepPushes
  BY <1>0 DEF SweepPushes, JobFields
<1> QED BY <1>6, <1>7, <1>8, <1>9, <1>10 DEF Next, Operator

\* A job that closes without being abandoned leaves none behind.
LEMMA ClosingLeavesNone ==
  ASSUME WarpInv, LedgerInv, Reopens, Separate, [Next]_vars,
         job.status \notin Closed, job'.status \in Closed, ~job'.abandoned
  PROVE  \A a \in sent : Accounted(a)
<1>0. /\ OutsOK /\ RowsOK /\ RowOK(job) /\ DOMAIN job = JobFields
      /\ rpc = "reserved" => DOMAIN before = JobFields
  BY DEF LedgerInv, RowsOK, RpcOK, InOrder, RowOK
<1>1. ASSUME NEW i, job'.presumed = i.presumed, NEW a, ~LeftBehind(job, i, a) PROVE Accounted(a)
  BY <1>1 DEF LeftBehind, Accounted, Presumed
<1>2. InOrder(job)
  BY <1>0, RowsAreInOrder
<1>3. ASSUME NEW see, see.held \subseteq sent, TickClaiming(see)
      PROVE  \A a \in sent : Accounted(a)
  <2> DEFINE s == Settles(job, see)
  <2>1. kind = "fund" /\ job.status = "CLAIMING"
    BY <1>3 DEF TickClaiming, WarpInv, BurnInv, BookOK, BookShape, Closed
  <2>2. InOrder(s.job) /\ SameJob(s.job, job)
    BY <1>0, <1>2, <1>3, <2>1, SettlesKeeps DEF WarpInv
  <2>3. /\ DOMAIN s.job = JobFields /\ s.job.status \notin Closed
    BY <2>1, <2>2 DEF InOrder, RowOK, SameJob, Closed
  <2>4. \/ Claimed /\ s.settled /\ Moves(s.job, "COMPLETED")
        \/ Stays(s.job) \/ Stays(job) \/ job' = Polled(job)
    BY <1>3 DEF TickClaiming, Pushes, s
  <2> HIDE DEF s
  <2>5. ~Stays(s.job) /\ ~Stays(job) /\ job' # Polled(job)
    BY <1>0, <2>3 DEF Stays, Polled, JobFields
  <2>6. Claimed /\ s.settled /\ Moves(s.job, "COMPLETED")
    BY <2>4, <2>5
  <2>7. job'.presumed = s.job.presumed
    BY <2>3, <2>6 DEF Moves, JobFields
  <2>8. \A a \in sent : ~LeftBehind(job, s.job, a)
    BY <1>0, <1>2, <1>3, <2>1, <2>6, SettledLeavesNone DEF s
  <2> QED BY <1>1, <2>7, <2>8
<1>4. CASE SweepEnds
  <2>1. PICK see \in PassesIf(job.priors # <<>>) :
          LET unfunded == job.marker = NoTx /\ job.pin = 0
              gone     == job.pin # 0 /\ Landed(job.pin) /\ see.fail # "coins"
              s        == Settles(job, see)
              closes   == (unfunded \/ gone \/ job.priors # <<>>) /\ s.settled
          IN job' = IF closes THEN [s.job EXCEPT !.status =
                                     IF Claimed THEN "COMPLETED" ELSE "CANCELLED"]
                    ELSE s.job
    BY <1>4 DEF SweepEnds, Rewrites
  <2> DEFINE s == Settles(job, see)
             open == \/ job.marker = NoTx /\ job.pin = 0
                     \/ job.pin # 0 /\ Landed(job.pin) /\ see.fail # "coins"
                     \/ job.priors # <<>>
  <2>2. kind = "fund" /\ see.held \subseteq sent /\ Unspent = {}
    BY <1>4 DEF SweepEnds, PassesIf, Passes
  <2>3. InOrder(s.job) /\ SameJob(s.job, job)
    BY <1>0, <1>2, <2>2, SettlesKeeps DEF WarpInv
  <2>4. DOMAIN s.job = JobFields /\ s.job.status \notin Closed
    BY <2>3 DEF InOrder, RowOK, SameJob
  <2>5. /\ open /\ s.settled
        /\ job' = [s.job EXCEPT !.status = IF Claimed THEN "COMPLETED" ELSE "CANCELLED"]
    BY <2>1, <2>4
  <2> HIDE DEF s
  <2>6. job'.presumed = s.job.presumed
    BY <2>4, <2>5 DEF JobFields
  <2>7. \A a \in sent : ~LeftBehind(job, s.job, a)
    BY <1>0, <1>2, <2>2, <2>5, SettledLeavesNone DEF s
  <2> QED BY <1>1, <2>6, <2>7
<1>5. ~Abandon
  BY <1>0 DEF Abandon, Rewrites, JobFields
<1> QED BY <1>0, <1>3, <1>4, <1>5, ClosesAt

\* A job that closes without being abandoned leaves no send that can land or has
\* its coin at the key, but for those presumed gone, as long as two fundings
\* that share a coin spend the same coins (_prior_sends_settled, _sweep_job,
\* _h_claiming).
THEOREM ClosesWithNothingLeft == Spec => ([]Separate => ClosedWithNothingLeft)
<1>1. Init => WarpInv /\ LedgerInv /\ Reopens
  BY WarpInit, LedgerInit, ReopensInit
<1>2. WarpInv /\ LedgerInv /\ Reopens /\ [Next]_vars => (WarpInv /\ LedgerInv /\ Reopens)'
  BY WarpStep, LedgerStep, ReopensStep
<1>3. WarpInv /\ LedgerInv /\ Reopens /\ Separate /\ [Next]_vars =>
        [job.status \notin Closed /\ job'.status \in Closed /\ ~job'.abandoned
           => \A a \in sent : Accounted(a)]_vars
  BY ClosingLeavesNone
<1> QED BY <1>1, <1>2, <1>3, PTL DEF Spec, ClosedWithNothingLeft

\* Fundings of one coin each.
OneCoin == kind = "fund" => \A a \in sent : \E c : made[a] = {c}

\* A funding of one coin is made by every call.
LEMMA OneCoinStep ==
  ASSUME Inputs["fund"] = {1}, OneCoin, [Next]_vars
  PROVE  OneCoin'
<1>1. CASE UNCHANGED <<made, kind>>
  BY <1>1 DEF OneCoin, sent
<1>2. ASSUME NEW n, NEW e, Calls(n, e), kind' = kind PROVE OneCoin'
  <2>1. PICK S \in SUBSET Coins : Cardinality(S) \in Inputs[kind] /\ made' = [made EXCEPT ![n] = S]
    BY <1>2 DEF Calls
  <2>2. kind = "fund" => \E c : S = {c}
    <3>1. IsFiniteSet(S)
      BY FS_Subset, WarpAssumption DEF WarpAssumption
    <3> QED BY <2>1, <3>1, FS_Singleton
  <2>3. \A a \in sent' : made'[a] = S \/ (a \in sent /\ made'[a] = made[a])
    <3> SUFFICES ASSUME NEW a \in Sends, made'[a] # {}, made'[a] # S
                 PROVE  made[a] # {} /\ made'[a] = made[a]
      BY DEF sent
    <3> QED BY <2>1
  <2> QED BY <1>2, <2>2, <2>3 DEF OneCoin
<1>3. CASE Tick \/ Operator
  BY <1>1, <1>3, JobStepsReserve
<1>4. CASE World
  BY <1>1, <1>4 DEF World, Lands, TakesCoin, BurySend, BuryTake, UndoSend, UndoTake, SpendsOut,
                    BuryOut, UndoOut, Chain
<1>5. CASE WalletSends \/ RunsLate
  BY <1>2, <1>5 DEF WalletSends, RunsLate
<1>6. CASE RpcEnds \/ Crash \/ UNCHANGED vars
  BY <1>1, <1>6 DEF RpcEnds, Crash, Answered, Refused, NoAnswer, vars
<1> QED BY <1>3, <1>4, <1>5, <1>6 DEF Next

\* Then two fundings that share a coin share their only one.
LEMMA OneCoinApart == Inputs["fund"] = {1} => (Spec => []Separate)
<1> SUFFICES ASSUME Inputs["fund"] = {1} PROVE Spec => []Separate
  OBVIOUS
<1>1. Init => OneCoin
  BY DEF Init, OneCoin, sent
<1>2. OneCoin /\ [Next]_vars => OneCoin'
  BY OneCoinStep
<1>3. OneCoin => Separate
  BY DEF OneCoin, Separate
<1> QED BY <1>1, <1>2, <1>3, PTL DEF Spec

\* Where the wallet funds a claim with one coin, the promises hold without any
\* other condition.
THEOREM OneCoinPromises ==
  Inputs["fund"] = {1} => (Spec => []DeadIsDead /\ []EverySendOnTheBooks /\ ClosedWithNothingLeft)
<1> SUFFICES ASSUME Inputs["fund"] = {1}
             PROVE  Spec => []DeadIsDead /\ []EverySendOnTheBooks /\ ClosedWithNothingLeft
  OBVIOUS
<1>1. Spec => []Separate
  BY OneCoinApart
<1> QED BY <1>1, DeadStaysDead, SendsAreOnTheBooks, ClosesWithNothingLeft, PTL
=============================================================================
