------------------------- MODULE CancelIntent_proofs -------------------------
(***************************************************************************)
(* The intent file, for any number of offers and of restarts.              *)
(*                                                                         *)
(* IntentInv says what memory and disk owe each other: a running process   *)
(* knows every order on file that is not over, a process that is not       *)
(* running does nothing, and whatever is taken for an accepted cancel, in  *)
(* State, in a tag or in an answer, was accepted.                          *)
(***************************************************************************)
EXTENDS CancelIntentProps, TLAPS

\* The offers the wallet has cancelled, is cancelling, or saw filled.
under_way == {o \in Offers : trade[o] \notin {"absent", "open"}}

OrdersAreKnown ==
  up => \A o \in Offers : file[o] # "none" /\ o \notin is_over => intent[o] # "none"

\* Nothing is tracked, or asked to be cancelled, before it was posted.
posted == {o \in Offers : trade[o] # "absent"}

OnlyPosted ==
  /\ \A o \in Offers : tracked[o] # "untracked" => o \in posted
  /\ asked \subseteq posted /\ sending \subseteq posted

AcceptedIsUnderWay ==
  /\ \A o \in Offers :
       /\ file[o] = "submitted" => o \in under_way
       /\ intent[o] = "submitted" => o \in under_way
       /\ tracked[o] = "cancel_pending" => o \in under_way
  /\ accepted \subseteq under_way /\ recancelled \subseteq under_way

DownIsIdle ==
  ~up => stop = "no" /\ ~cancel_all_inflight /\ sweep = "idle" /\ sending = {}
         /\ asked = {}

IntentInv ==
  /\ IntentTypeOK
  /\ OrdersAreKnown
  /\ OnlyPosted
  /\ AcceptedIsUnderWay
  /\ DownIsIdle
  /\ resolved \subseteq is_over

\* What write_cancel_intent may do to the file: leave it, or write no more than
\* it was given; and all of it, unless the disk fills up.
LEMMA Written ==
  ASSUME file \in [Offers -> Tags], on_disk \in [Offers -> Tags],
         intent' \in [Offers -> Tags], write_cancel_intent(intent')
  PROVE  /\ file' \in [Offers -> Tags] /\ on_disk' \in [Offers -> Tags]
         /\ \/ file' = file
            \/ \A o \in Offers : file'[o] # "none" => intent'[o] # "none"
         /\ \A o \in Offers : file'[o] = "submitted" =>
              file[o] = "submitted" \/ intent'[o] = "submitted"
         /\ ~full => file' = file \/ file' = intent'
<1>0. Nothing \in [Offers -> Tags] /\ \A o \in Offers : Nothing[o] = "none"
  BY DEF Nothing, Tags
<1>1. CASE UNCHANGED <<file, on_disk>>
  BY <1>1
<1>2. CASE intent' = Nothing /\ file' \in {Nothing, file} /\ on_disk' = intent'
  BY <1>0, <1>2
<1>3. CASE file' = intent' /\ on_disk' = intent'
  BY <1>3
<1>4. CASE full /\ file' \in CutShort(intent') /\ on_disk' = intent'
  BY <1>4 DEF CutShort
<1> QED
  BY <1>1, <1>2, <1>3, <1>4 DEF write_cancel_intent

\* Striking and submitting, pointwise.
LEMMA Tagged ==
  ASSUME NEW tags \in [Offers -> Tags], NEW S, NEW R
  PROVE  /\ submit(tags, S) \in [Offers -> Tags]
         /\ strike(submit(tags, S), R) \in [Offers -> Tags]
         /\ \A o \in Offers :
              /\ tags[o] # "none" => submit(tags, S)[o] # "none"
              /\ submit(tags, S)[o] = "submitted" => tags[o] = "submitted" \/ o \in S
              /\ tags[o] # "none" /\ o \notin R
                   => strike(submit(tags, S), R)[o] # "none"
              /\ strike(submit(tags, S), R)[o] = "submitted"
                   => tags[o] = "submitted" \/ o \in S
BY DEF submit, strike, Tags

LEMMA IntentInitInv == IntentInit => IntentInv
<1> SUFFICES ASSUME IntentInit PROVE IntentInv
  OBVIOUS
<1>1. IntentTypeOK
  <2>1. up \in BOOLEAN /\ cancel_all_inflight \in BOOLEAN
    BY DEF IntentInit
  <2>2. crashes \in 0 .. MaxCrashes
    BY IntentAssumption DEF IntentInit
  <2> QED
    BY <2>1, <2>2 DEF IntentInit, IntentTypeOK, Nothing, Tags, Trades, Entries
<1>2. /\ OrdersAreKnown /\ OnlyPosted /\ AcceptedIsUnderWay
      /\ resolved \subseteq is_over
  BY DEF IntentInit, OrdersAreKnown, OnlyPosted, AcceptedIsUnderWay, Nothing
<1>3. DownIsIdle
  BY DEF IntentInit, DownIsIdle
<1> QED
  BY <1>1, <1>2, <1>3 DEF IntentInv

LEMMA IntentStep == IntentInv /\ [IntentNext]_vars => IntentInv'
<1> SUFFICES ASSUME IntentInv, [IntentNext]_vars PROVE IntentInv'
  OBVIOUS
<1> USE IntentAssumption DEF IntentInv
<1>s. CASE UNCHANGED vars
  BY <1>s DEF vars, wallet, book, others, sweepVars, IntentTypeOK, OrdersAreKnown,
    OnlyPosted, posted, AcceptedIsUnderWay, DownIsIdle, is_over, under_way
<1>1. CASE Crash
  <2>1. up' \in BOOLEAN /\ cancel_all_inflight' \in BOOLEAN
    BY <1>1 DEF Crash, Gone
  <2>2. UNCHANGED <<wallet, file>> /\ crashes' \in 0 .. MaxCrashes
    BY <1>1 DEF Crash, IntentTypeOK
  <2>3. IntentTypeOK'
    BY <1>1, <2>1, <2>2 DEF Crash, Gone, wallet, IntentTypeOK, Nothing, Tags, Entries
  <2>4. /\ OrdersAreKnown' /\ OnlyPosted' /\ AcceptedIsUnderWay' /\ DownIsIdle'
        /\ (resolved \subseteq is_over)'
    BY <1>1, <2>2 DEF Crash, Gone, wallet, OrdersAreKnown, OnlyPosted,
      AcceptedIsUnderWay, DownIsIdle, Nothing, under_way
  <2> QED
    BY <2>3, <2>4
<1>2. CASE Exit
  <2>1. up' \in BOOLEAN /\ cancel_all_inflight' \in BOOLEAN
    BY <1>2 DEF Exit, Gone
  <2>2. UNCHANGED <<wallet, file>> /\ crashes' \in 0 .. MaxCrashes
    BY <1>2 DEF Exit, IntentTypeOK
  <2>3. IntentTypeOK'
    BY <1>2, <2>1, <2>2 DEF Exit, Gone, wallet, IntentTypeOK, Nothing, Tags, Entries
  <2>4. /\ OrdersAreKnown' /\ OnlyPosted' /\ AcceptedIsUnderWay' /\ DownIsIdle'
        /\ (resolved \subseteq is_over)'
    BY <1>2, <2>2 DEF Exit, Gone, wallet, OrdersAreKnown, OnlyPosted,
      AcceptedIsUnderWay, DownIsIdle, Nothing, under_way
  <2> QED
    BY <2>3, <2>4
<1>3. CASE Boot
  BY <1>3 DEF Boot, wallet, others, sweepVars, IntentTypeOK, OrdersAreKnown,
    OnlyPosted, posted, AcceptedIsUnderWay, DownIsIdle, is_over, under_way, Tags,
    Entries, Trades
<1>4. CASE CancelAll \/ StopOrders
  <2> DEFINE S == {o \in Offers : tracked[o] # "untracked"}
  <2>1. WriteAhead /\ UNCHANGED <<wallet, up, tracked, asked, accepted, sweepVars,
                       crashes>>
    BY <1>4 DEF CancelAll, StopOrders
  <2>2. /\ intent' \in [Offers -> Tags]
        /\ \A o \in Offers : intent[o] # "none" => intent'[o] # "none"
        /\ \A o \in Offers : intent'[o] = "submitted" => intent[o] = "submitted"
    BY <2>1 DEF WriteAhead, emplace_ordered, IntentTypeOK, Tags
  <2>3. write_cancel_intent(intent')
    BY <2>1 DEF WriteAhead
  <2>4. IntentTypeOK'
    BY <1>4, <2>1, <2>2, <2>3, Written DEF CancelAll, StopOrders, wallet, sweepVars,
      IntentTypeOK
  <2>5. DownIsIdle'
    BY <1>4, <2>1 DEF CancelAll, StopOrders, sweepVars, DownIsIdle
  <2>6. OrdersAreKnown'
    BY <2>1, <2>2, <2>3, Written DEF wallet, OrdersAreKnown, is_over, IntentTypeOK
  <2>7. AcceptedIsUnderWay'
    BY <2>1, <2>2, <2>3, Written DEF wallet, sweepVars, AcceptedIsUnderWay, under_way,
      IntentTypeOK
  <2>8. (resolved \subseteq is_over)' /\ OnlyPosted'
    BY <2>1 DEF wallet, sweepVars, is_over, OnlyPosted, posted
  <2> QED
    BY <2>4, <2>5, <2>6, <2>7, <2>8
<1>5. CASE CancelAllEnds
  <2>1. PICK pending \in SUBSET in_state("cancel_pending") :
          intent' = submit(intent, accepted \cup pending)
    BY <1>5 DEF CancelAllEnds
  <2>2. accepted \cup pending \subseteq under_way
    BY DEF AcceptedIsUnderWay, in_state
  <2>3. /\ intent' \in [Offers -> Tags]
        /\ \A o \in Offers : intent[o] # "none" => intent'[o] # "none"
        /\ \A o \in Offers : intent'[o] = "submitted" => o \in under_way
    BY <2>1, <2>2, Tagged DEF IntentTypeOK, AcceptedIsUnderWay
  <2>4. write_cancel_intent(intent')
    BY <1>5 DEF CancelAllEnds
  <2>5. IntentTypeOK'
    BY <1>5, <2>3, <2>4, Written DEF CancelAllEnds, wallet, sweepVars, IntentTypeOK
  <2>6. DownIsIdle' /\ OnlyPosted' /\ (resolved \subseteq is_over)'
    BY <1>5 DEF CancelAllEnds, sweepVars, wallet, DownIsIdle, is_over, OnlyPosted,
      posted
  <2>7. OrdersAreKnown'
    BY <1>5, <2>3, <2>4, Written DEF CancelAllEnds, wallet, OrdersAreKnown, is_over,
      IntentTypeOK
  <2>8. AcceptedIsUnderWay'
    BY <1>5, <2>3, <2>4, Written DEF CancelAllEnds, wallet, sweepVars,
      AcceptedIsUnderWay, under_way, IntentTypeOK
  <2> QED
    BY <2>5, <2>6, <2>7, <2>8
<1>6. CASE StopRecords
  <2>1. PICK pending \in SUBSET in_state("cancel_pending"), seen \in SUBSET is_over :
          intent' = strike(submit(intent, accepted \cup pending \cup seen),
                           {o \in seen : trade[o] = "confirmed"})
    BY <1>6 DEF StopRecords
  <2>2. accepted \cup pending \cup seen \subseteq under_way
    BY DEF AcceptedIsUnderWay, in_state, is_over, under_way
  <2>3. /\ intent' \in [Offers -> Tags]
        /\ \A o \in Offers : intent[o] # "none" /\ o \notin is_over
                                => intent'[o] # "none"
        /\ \A o \in Offers : intent'[o] = "submitted" => o \in under_way
    BY <2>1, <2>2, Tagged DEF IntentTypeOK, AcceptedIsUnderWay
  <2>4. write_cancel_intent(intent')
    BY <1>6 DEF StopRecords
  <2>5. IntentTypeOK'
    BY <1>6, <2>3, <2>4, Written DEF StopRecords, wallet, sweepVars, IntentTypeOK
  <2>6. DownIsIdle' /\ OnlyPosted' /\ (resolved \subseteq is_over)'
    BY <1>6 DEF StopRecords, sweepVars, wallet, DownIsIdle, is_over, OnlyPosted,
      posted
  <2>7. OrdersAreKnown'
    BY <1>6, <2>3, <2>4, Written DEF StopRecords, wallet, OrdersAreKnown, is_over,
      IntentTypeOK
  <2>8. AcceptedIsUnderWay'
    BY <1>6, <2>3, <2>4, Written DEF StopRecords, wallet, sweepVars,
      AcceptedIsUnderWay, under_way, IntentTypeOK
  <2> QED
    BY <2>5, <2>6, <2>7, <2>8
<1>7. CASE SweepEnd
  <2>1. intent' = strike(submit(intent, recancelled), resolved)
    BY <1>7 DEF SweepEnd
  <2>3. /\ intent' \in [Offers -> Tags]
        /\ \A o \in Offers : intent[o] # "none" /\ o \notin is_over
                                => intent'[o] # "none"
        /\ \A o \in Offers : intent'[o] = "submitted" => o \in under_way
    BY <2>1, Tagged DEF IntentTypeOK, AcceptedIsUnderWay
  <2>4. write_cancel_intent(intent')
    BY <1>7 DEF SweepEnd
  <2>5. IntentTypeOK'
    BY <1>7, <2>3, <2>4, Written DEF SweepEnd, wallet, others, IntentTypeOK
  <2>6. DownIsIdle' /\ OnlyPosted' /\ (resolved \subseteq is_over)'
    BY <1>7 DEF SweepEnd, others, wallet, DownIsIdle, is_over, OnlyPosted, posted
  <2>7. OrdersAreKnown'
    BY <1>7, <2>3, <2>4, Written DEF SweepEnd, wallet, OrdersAreKnown, is_over,
      IntentTypeOK
  <2>8. AcceptedIsUnderWay'
    BY <1>7, <2>3, <2>4, Written DEF SweepEnd, wallet, others, AcceptedIsUnderWay,
      under_way, IntentTypeOK
  <2> QED
    BY <2>5, <2>6, <2>7, <2>8
<1>t. CASE CancelAllThrows
  <2>1. cancel_all_inflight' \in BOOLEAN /\ up' \in BOOLEAN
    BY <1>t DEF CancelAllThrows, IntentTypeOK
  <2> QED
    BY <1>t, <2>1 DEF CancelAllThrows, wallet, book, sweepVars, IntentTypeOK,
      OrdersAreKnown, OnlyPosted, posted, AcceptedIsUnderWay, DownIsIdle, is_over,
      under_way
<1>8. CASE ClaimStop \/ SweepBegin \/ SweepProbed
  BY <1>8 DEF ClaimStop, SweepBegin, SweepProbed, wallet, book, others, sweepVars,
    IntentTypeOK, OrdersAreKnown, OnlyPosted, posted, AcceptedIsUnderWay,
    DownIsIdle, is_over, under_way,
    listed
<1>9. ASSUME NEW o \in Offers, Post(o) PROVE IntentInv'
  BY <1>9 DEF Post, book, others, sweepVars, IntentTypeOK, OrdersAreKnown,
    OnlyPosted, posted, AcceptedIsUnderWay, DownIsIdle, is_over, under_way, Trades,
    Entries
<1>10. ASSUME NEW o \in Offers, Take(o) \/ CancelLands(o) \/ CancelArrives(o)
       PROVE IntentInv'
  <2>1. /\ trade' \in [Offers -> Trades] /\ late' \in SUBSET Offers
        /\ is_over \subseteq is_over' /\ under_way \subseteq under_way'
        /\ posted \subseteq posted'
        /\ UNCHANGED <<book, up, tracked, others, sweepVars, crashes>>
    BY <1>10 DEF Take, CancelLands, CancelArrives, WalletSets, IntentTypeOK, Trades,
      is_over, under_way, posted
  <2> QED
    BY <2>1 DEF book, others, sweepVars, IntentTypeOK, OrdersAreKnown, OnlyPosted,
      AcceptedIsUnderWay, DownIsIdle
<1>11. ASSUME NEW o \in Offers, Detect(o) \/ Ask(o) \/ Answer(o) PROVE IntentInv'
  <2>0. up
    BY <1>11 DEF Detect, Ask, Answer, another_cancel, DownIsIdle
  <2>1. /\ UNCHANGED <<trade, book, up, cancel_all_inflight, stop, sweepVars,
                       crashes>>
        /\ late' \in SUBSET Offers
    BY <1>11 DEF Detect, Ask, Answer, Request, wallet, others, IntentTypeOK
  <2>2. /\ tracked' \in [Offers -> Entries] /\ asked' \in SUBSET posted
        /\ accepted' \in SUBSET under_way
        /\ \A p \in Offers :
             /\ tracked'[p] # "untracked" => p \in posted
             /\ tracked'[p] = "cancel_pending" => p \in under_way
    BY <1>11 DEF Detect, Ask, Answer, mark_cancel_pending, others, IntentTypeOK,
      OnlyPosted, AcceptedIsUnderWay, posted, under_way, is_over, Entries
  <2> QED
    BY <2>0, <2>1, <2>2 DEF book, sweepVars, IntentTypeOK, OrdersAreKnown,
      OnlyPosted, AcceptedIsUnderWay, DownIsIdle, posted, under_way, is_over
<1>12. ASSUME NEW o \in Offers, Probe(o) PROVE IntentInv'
  BY <1>12 DEF Probe, Verdict, NoVerdict, readopt, wallet, book, others, sweepVars,
    IntentTypeOK, OrdersAreKnown, OnlyPosted, posted, AcceptedIsUnderWay,
    DownIsIdle, is_over, under_way,
    Entries, Trades
<1>13. ASSUME NEW o \in Offers, PassOver(o) \/ Recancel(o) \/ Recancelled(o)
       PROVE IntentInv'
  <2>1. /\ UNCHANGED <<trade, book, up, others, sweep, todo, resolved, crashes>>
        /\ late' \in SUBSET Offers /\ to_cancel' \in SUBSET Offers
        /\ up
    BY <1>13 DEF PassOver, Recancel, Recancelled, Request, wallet, IntentTypeOK,
      DownIsIdle
  <2>2. /\ tracked' \in [Offers -> Entries] /\ sending' \in SUBSET posted
        /\ recancelled' \in SUBSET under_way
        /\ \A p \in Offers :
             /\ tracked'[p] # "untracked" => p \in posted
             /\ tracked'[p] = "cancel_pending" => p \in under_way
    BY <1>13 DEF PassOver, Recancel, Recancelled, mark_cancel_pending, IntentTypeOK,
      OnlyPosted, AcceptedIsUnderWay, posted, under_way, Entries
  <2> QED
    BY <2>1, <2>2 DEF book, others, IntentTypeOK, OrdersAreKnown, OnlyPosted,
      AcceptedIsUnderWay, DownIsIdle, posted, under_way, is_over
<1> QED
  BY <1>s, <1>1, <1>2, <1>3, <1>4, <1>5, <1>6, <1>7, <1>8, <1>9, <1>10, <1>11, <1>12,
    <1>13, <1>t DEF IntentNext

\* IntentInv holds in every run, whatever the disk and the wallet do.
THEOREM IntentInvariant == IntentSpec => []IntentInv
<1> QED
  BY IntentInitInv, IntentStep, PTL DEF IntentSpec

\* Every variable of the intent file and its users keeps its type.
THEOREM IntentTypeCorrect == IntentSpec => []IntentTypeOK
<1>1. IntentInv => IntentTypeOK
  BY DEF IntentInv
<1> QED
  BY <1>1, IntentInvariant, PTL

\* A tag never makes a boot quieter than the wallet's acceptance justifies, with
\* a disk that fills up too.
THEOREM QuietTags == IntentSpec => []QuietOnlyIfAccepted
<1>1. IntentInv => QuietOnlyIfAccepted
  BY DEF IntentInv, AcceptedIsUnderWay, under_way, QuietOnlyIfAccepted
<1> QED
  BY <1>1, IntentInvariant, PTL

\* The five actions that change the set: none takes the tag from an order that is
\* not over, or strikes it out.
LEMMA OrdersAndTagsStand ==
  ASSUME IntentInv,
         CancelAll \/ StopOrders \/ CancelAllEnds \/ StopRecords \/ SweepEnd
  PROVE  /\ up /\ UNCHANGED <<trade, up, crashes>>
         /\ intent' \in [Offers -> Tags] /\ write_cancel_intent(intent')
         /\ \A o \in Offers : o \notin is_over =>
              /\ intent[o] # "none" => intent'[o] # "none"
              /\ intent[o] = "submitted" => intent'[o] = "submitted"
<1> USE DEF IntentInv
<1>1. CASE CancelAll \/ StopOrders
  <2>1. up /\ UNCHANGED <<trade, up, crashes>> /\ write_cancel_intent(intent')
    BY <1>1 DEF CancelAll, StopOrders, WriteAhead, wallet, DownIsIdle
  <2> QED
    BY <1>1, <2>1 DEF CancelAll, StopOrders, WriteAhead, emplace_ordered,
      IntentTypeOK, Tags
<1>2. CASE CancelAllEnds
  <2>1. PICK pending : intent' = submit(intent, accepted \cup pending)
    BY <1>2 DEF CancelAllEnds
  <2>2. up /\ UNCHANGED <<trade, up, crashes>> /\ write_cancel_intent(intent')
    BY <1>2 DEF CancelAllEnds, wallet, DownIsIdle
  <2> QED
    BY <2>1, <2>2 DEF submit, IntentTypeOK, Tags
<1>3. CASE StopRecords
  <2>1. PICK pending \in SUBSET in_state("cancel_pending"), seen \in SUBSET is_over :
          intent' = strike(submit(intent, accepted \cup pending \cup seen),
                           {o \in seen : trade[o] = "confirmed"})
    BY <1>3 DEF StopRecords
  <2>2. up /\ UNCHANGED <<trade, up, crashes>> /\ write_cancel_intent(intent')
    BY <1>3 DEF StopRecords, wallet, DownIsIdle
  <2> QED
    BY <2>1, <2>2 DEF submit, strike, IntentTypeOK, Tags
<1>4. CASE SweepEnd
  <2>1. up /\ UNCHANGED <<trade, up, crashes>> /\ write_cancel_intent(intent')
    BY <1>4 DEF SweepEnd, wallet, DownIsIdle
  <2> QED
    BY <1>4, <2>1 DEF SweepEnd, submit, strike, IntentTypeOK, Tags
<1> QED
  BY <1>1, <1>2, <1>3, <1>4

\* Every other step leaves the file alone, and closes no offer's cancel again.
LEMMA FileStands ==
  ASSUME IntentInv, [IntentNext]_vars,
         ~(CancelAll \/ StopOrders \/ CancelAllEnds \/ StopRecords \/ SweepEnd)
  PROVE  /\ UNCHANGED file /\ is_over \subseteq is_over'
         /\ under_way \subseteq under_way'
         /\ ~up' \/ (~up /\ intent' = file) \/ UNCHANGED <<intent, up>>
         /\ crashes' \in {crashes, crashes + 1}
         /\ \A o \in Offers : trade'[o] = "pending_cancel" =>
              trade[o] \in {"open", "pending_cancel"}
<1> USE DEF IntentInv
<1>1. CASE Crash \/ Exit
  BY <1>1 DEF Crash, Exit, Gone, wallet, is_over, under_way
<1>2. CASE Boot
  BY <1>2 DEF Boot, wallet, is_over, under_way
<1>3. CASE \/ ClaimStop \/ CancelAllThrows \/ SweepBegin \/ SweepProbed
           \/ UNCHANGED vars
  BY <1>3 DEF ClaimStop, CancelAllThrows, SweepBegin, SweepProbed, vars, wallet, book,
    is_over, under_way
<1>4. ASSUME NEW o \in Offers,
             \/ Detect(o) \/ Ask(o) \/ Answer(o) \/ Probe(o) \/ PassOver(o)
             \/ Recancel(o) \/ Recancelled(o)
      PROVE  UNCHANGED <<trade, file, intent, up, crashes>>
  BY <1>4 DEF Detect, Ask, Answer, Probe, PassOver, Recancel, Recancelled, wallet,
    book
<1>5. ASSUME NEW o \in Offers,
             Post(o) \/ Take(o) \/ CancelLands(o) \/ CancelArrives(o)
      PROVE  /\ UNCHANGED <<file, intent, up, crashes>> /\ is_over \subseteq is_over'
             /\ under_way \subseteq under_way'
             /\ \A p \in Offers : trade'[p] = "pending_cancel" =>
                  trade[p] \in {"open", "pending_cancel"}
  BY <1>5 DEF Post, Take, CancelLands, CancelArrives, WalletSets, book, is_over,
    under_way, IntentTypeOK
<1> QED
  BY <1>1, <1>2, <1>3, <1>4, <1>5 DEF IntentNext, is_over, under_way

\* One step of the system is a step of CancelOrders, or leaves it alone.
LEMMA StepImplementsOrders ==
  ASSUME IntentInv, [IntentNext]_vars
  PROVE  [Orders!Order \/ Orders!Close]_<<listed(file), IF full THEN Offers ELSE is_over>>
<1> USE DEF IntentInv
<1>1. CASE CancelAll \/ StopOrders \/ CancelAllEnds \/ StopRecords \/ SweepEnd
  <2>1. \A o \in Offers : ~full /\ file[o] # "none" /\ o \notin is_over => file'[o] # "none"
    BY <1>1, OrdersAndTagsStand, Written DEF IntentTypeOK, OrdersAreKnown
  <2>2. is_over' = is_over /\ full' = full
    BY <1>1, OrdersAndTagsStand DEF is_over, full
  <2>3. ~full => listed(file) \ listed(file') \subseteq is_over
    BY <2>1 DEF listed
  <2>4. listed(file) \subseteq Offers
    BY DEF listed
  <2> QED
    BY <2>2, <2>3, <2>4 DEF listed, Orders!Order
<1>2. CASE ~(CancelAll \/ StopOrders \/ CancelAllEnds \/ StopRecords \/ SweepEnd)
  <2>1. is_over \subseteq is_over' /\ is_over' \subseteq Offers /\ listed(file)' = listed(file)
    BY <1>2, FileStands DEF listed, is_over
  <2>2. full => full'
    BY <1>2, FileStands, IntentAssumption DEF full, IntentTypeOK
  <2> QED
    BY <2>1, <2>2 DEF Orders!Close
<1> QED
  BY <1>1, <1>2

\* While its spend is under way, an order tagged Submitted on file is tagged so in
\* memory: what is written next cannot take the tag back.
TagsAreKnown ==
  up => \A o \in Offers : file[o] = "submitted" /\ trade[o] = "pending_cancel"
                             => intent[o] = "submitted"

LEMMA TagsStep ==
  ASSUME IntentInv, TagsAreKnown, [IntentNext]_vars
  PROVE  TagsAreKnown'
<1> USE DEF IntentInv
<1>1. CASE CancelAll \/ StopOrders \/ CancelAllEnds \/ StopRecords \/ SweepEnd
  BY <1>1, OrdersAndTagsStand, Written DEF IntentTypeOK, TagsAreKnown, is_over
<1>2. CASE ~(CancelAll \/ StopOrders \/ CancelAllEnds \/ StopRecords \/ SweepEnd)
  BY <1>2, FileStands DEF TagsAreKnown, AcceptedIsUnderWay, under_way
<1> QED
  BY <1>1, <1>2

LEMMA TagStands ==
  ASSUME ~full, IntentInv, TagsAreKnown, [IntentNext]_vars,
         NEW o \in Offers, file[o] = "submitted", trade[o] = "pending_cancel"
  PROVE  file'[o] = "submitted"
<1> USE DEF IntentInv
<1>1. CASE CancelAll \/ StopOrders \/ CancelAllEnds \/ StopRecords \/ SweepEnd
  BY <1>1, OrdersAndTagsStand, Written DEF IntentTypeOK, TagsAreKnown, is_over
<1>2. CASE ~(CancelAll \/ StopOrders \/ CancelAllEnds \/ StopRecords \/ SweepEnd)
  BY <1>2, FileStands
<1> QED
  BY <1>1, <1>2

\* Until a write may be cut short unseen, an order on file stands through every
\* crash and restart until the wallet calls the offer over.
THEOREM OrdersAreKept == IntentSpec => OrdersStand
<1>1. IntentInit => Orders!OrdersInit
  <2>1. IntentInit => ~full
    BY IntentAssumption DEF IntentInit, full
  <2> QED
    BY <2>1 DEF IntentInit, Orders!OrdersInit, listed, is_over, Nothing
<1>2. IntentInv /\ [IntentNext]_vars
        => [Orders!Order \/ Orders!Close]_<<listed(file), IF full THEN Offers ELSE is_over>>
  BY StepImplementsOrders
<1> QED
  BY <1>1, <1>2, IntentInvariant, PTL DEF IntentSpec, OrdersStand, Orders!OrdersSpec

\* Until a write may be cut short unseen, no order takes the tag back from a cancel
\* that is under way.
THEOREM TagsAreKept == IntentSpec => NeverDowngraded
<1>1. IntentInit => TagsAreKnown
  BY DEF IntentInit, TagsAreKnown, Nothing
<1>2. IntentInv /\ TagsAreKnown /\ [IntentNext]_vars => TagsAreKnown'
  BY TagsStep
<1>3. IntentInv /\ TagsAreKnown /\ [IntentNext]_vars
        => [\A o \in Offers : ~full /\ file[o] = "submitted" /\ trade[o] = "pending_cancel"
                                => file'[o] = "submitted"]_vars
  BY TagStands
<1> QED
  BY <1>1, <1>2, <1>3, IntentInvariant, PTL DEF IntentSpec, NeverDowngraded
=============================================================================
