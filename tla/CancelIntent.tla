---------------------------- MODULE CancelIntent ----------------------------
(***************************************************************************)
(* The durable half of a cancel: which offers were ordered dead, kept in   *)
(* data/uncancelled.txt across crashes and restarts.  A stop and an        *)
(* operator's Cancel All write it ahead of their first cancel; every       *)
(* heartbeat Engine::sweep_cancel_intent asks the wallet about the offers  *)
(* in it, cancels again what still rests, and strikes out what is over.    *)
(*                                                                         *)
(* Of the other two cancels this module keeps what meets the file and the  *)
(* sweep: the order, the requests, the answers, the tags.  The retry       *)
(* ladder between them is CancelLadder, the wallet's calls ShutdownCancel. *)
(***************************************************************************)
EXTENDS Naturals

CONSTANTS
  Offers,
  MaxCrashes, \* bound: how often the process dies or is restarted
  FullFrom    \* how often it was before the disk may fill up during a write

ASSUME IntentAssumption == MaxCrashes \in Nat /\ FullFrom \in Nat \ {0}

VARIABLES
  \* ----- the wallet -----
  trade,      \* its status for an offer
  late,       \* cancels it has received and not come to
  \* ----- the disk -----
  file,       \* the intent file's tag for an offer, or "none"
  \* ----- the process -----
  up,
  tracked,    \* State's entry for an offer
  intent,     \* cancel_intent_
  on_disk,    \* cancel_intent_on_disk_
  cancel_all_inflight, \* an operator's Cancel All is under way
  stop,       \* graceful_cancel_active_, and how far the stop has come
  asked,      \* offers those two have asked the wallet to cancel
  accepted,   \* and the ones it said yes to
  \* ----- its sweep -----
  sweep, todo, resolved, to_cancel, sending, recancelled,
  \* ----- bound -----
  crashes

wallet    == <<trade, late>>
book      == <<intent, on_disk, file>>
others    == <<cancel_all_inflight, stop, asked, accepted>>
sweepVars == <<sweep, todo, resolved, to_cancel, sending, recancelled>>
vars      == <<wallet, book, up, tracked, others, sweepVars, crashes>>

Tags    == {"none", "ordered", "submitted"}
Trades  == {"absent", "open", "pending_cancel", "cancelled", "confirmed"}
Entries == {"untracked", "live", "cancel_pending"}

Nothing  == [o \in Offers |-> "none"]
listed(tags)       == {o \in Offers : tags[o] # "none"}
is_over            == {o \in Offers : trade[o] \in {"cancelled", "confirmed"}}
in_state(entry)    == {o \in Offers : tracked[o] = entry}
submit(tags, S)    == [o \in Offers |-> IF o \in S THEN "submitted" ELSE tags[o]]
strike(tags, S)    == [o \in Offers |-> IF o \in S THEN "none" ELSE tags[o]]

mark_cancel_pending(S) ==
  [o \in Offers |-> IF o \in S /\ tracked[o] # "untracked" THEN "cancel_pending"
                    ELSE tracked[o]]

IntentInit ==
  /\ trade = [o \in Offers |-> "absent"] /\ late = {}
  /\ file = Nothing /\ intent = Nothing /\ on_disk = Nothing
  /\ up = TRUE /\ tracked = [o \in Offers |-> "untracked"]
  /\ cancel_all_inflight = FALSE /\ stop = "no" /\ asked = {} /\ accepted = {}
  /\ sweep = "idle" /\ todo = {} /\ resolved = {} /\ to_cancel = {}
  /\ sending = {} /\ recancelled = {}
  /\ crashes = 0

-----------------------------------------------------------------------------
\* The file.

full == crashes >= FullFrom

\* The temporary file was cut short and renamed over the last one all the same:
\* lines are missing, and one may have lost its tag.
CutShort(ids) ==
  {f \in [Offers -> Tags] : \A o \in Offers :
     f[o] = ids[o] \/ f[o] = "none" \/ (ids[o] # "none" /\ f[o] = "ordered")}

\* write_cancel_intent: an unchanged set is not written, an empty one removes
\* the file, and a failure to open, rename or remove leaves the file as it was.
\* Only the remove's error is not looked at.
write_cancel_intent(ids) ==
  \/ ids = on_disk /\ UNCHANGED <<file, on_disk>>
  \/ /\ ids # on_disk /\ ids = Nothing
     /\ file' \in {Nothing, file} /\ on_disk' = ids
  \/ /\ ids # on_disk /\ ids # Nothing
     /\ \/ UNCHANGED <<file, on_disk>>
        \/ file' = ids /\ on_disk' = ids
        \/ full /\ file' \in CutShort(ids) /\ on_disk' = ids

-----------------------------------------------------------------------------
\* The wallet, and the rest of the engine's life.

Post(o) ==
  /\ up /\ stop = "no" /\ ~cancel_all_inflight /\ sweep = "idle"
  /\ trade[o] = "absent"
  /\ trade' = [trade EXCEPT ![o] = "open"]
  /\ tracked' = [tracked EXCEPT ![o] = "live"]
  /\ UNCHANGED <<late, book, up, others, sweepVars, crashes>>

WalletSets(o, from, to) ==
  /\ trade[o] \in from
  /\ trade' = [trade EXCEPT ![o] = to]
  /\ UNCHANGED <<book, up, tracked, others, sweepVars, crashes>>

Take(o)        == WalletSets(o, {"open", "pending_cancel"}, "confirmed")
                  /\ UNCHANGED late
CancelLands(o) == WalletSets(o, {"pending_cancel"}, "cancelled")
                  /\ UNCHANGED late

\* The wallet comes to a cancel: it builds the spend, or closes its own record
\* when the cancel is a local one, or refuses.
CancelArrives(o) ==
  /\ o \in late /\ late' = late \ {o}
  /\ \/ WalletSets(o, {"open"}, "pending_cancel")
     \/ WalletSets(o, {"open"}, "cancelled")
     \/ WalletSets(o, {trade[o]}, trade[o])

\* A cancel request leaves for the wallet, and may not get there.
Request(o) == late' \in {late, late \cup {o}}

\* detect_fills polls an offer: a cancelling one is flagged, one that is over
\* leaves State.
Detect(o) ==
  /\ up /\ sweep = "idle" /\ tracked[o] # "untracked"
  /\ \/ trade[o] = "pending_cancel" /\ tracked' = mark_cancel_pending({o})
     \/ o \in is_over /\ tracked' = [tracked EXCEPT ![o] = "untracked"]
  /\ UNCHANGED <<wallet, book, up, others, sweepVars, crashes>>

\* All that was in memory is gone.
Gone ==
  /\ up' = FALSE /\ tracked' = [o \in Offers |-> "untracked"]
  /\ intent' = Nothing /\ on_disk' = Nothing
  /\ cancel_all_inflight' = FALSE /\ stop' = "no" /\ asked' = {} /\ accepted' = {}
  /\ sweep' = "idle" /\ todo' = {} /\ resolved' = {} /\ to_cancel' = {}
  /\ sending' = {} /\ recancelled' = {}

Crash ==
  /\ up /\ crashes < MaxCrashes
  /\ crashes' = crashes + 1
  /\ Gone
  /\ UNCHANGED <<wallet, file>>

\* load_cancel_intent, then the restore of the book: an offer the database or
\* the wallet knows comes back into State, flagged if its cancel was accepted.
Boot ==
  /\ ~up /\ up' = TRUE
  /\ intent' = file /\ on_disk' = file
  /\ tracked' \in [Offers -> Entries]
  /\ \A o \in Offers :
       /\ trade[o] = "absent" => tracked'[o] = "untracked"
       /\ trade[o] = "open" => tracked'[o] # "cancel_pending"
  /\ UNCHANGED <<wallet, file, others, sweepVars, crashes>>

-----------------------------------------------------------------------------
\* The two cancels that order offers dead.

\* Mutant: every order is written down afresh.
DowngradeOrder(S) == [o \in Offers |-> IF o \in S THEN "ordered" ELSE intent[o]]

\* Mutant: this process's book replaces the set.
ReplaceOrders(S) == [o \in Offers |-> IF o \in S THEN "ordered" ELSE "none"]

\* emplace: an id that is in the set keeps its tag.
emplace_ordered(S) ==
  [o \in Offers |-> IF o \in S /\ intent[o] = "none" THEN "ordered" ELSE intent[o]]

WriteAhead ==
  /\ intent' = emplace_ordered({o \in Offers : tracked[o] # "untracked"})
  /\ write_cancel_intent(intent')

\* check_cancel_all_flag, from the poll loop: never inside a heartbeat.
CancelAll ==
  /\ up /\ stop = "no" /\ ~cancel_all_inflight /\ sweep = "idle"
  /\ cancel_all_inflight' = TRUE
  /\ WriteAhead
  /\ UNCHANGED <<wallet, up, tracked, stop, asked, accepted, sweepVars, crashes>>

\* shutdown claims the book at once, by signal from inside a heartbeat too ...
ClaimStop ==
  /\ up /\ stop = "no" /\ crashes < MaxCrashes
  /\ stop' = "claimed" /\ crashes' = crashes + 1
  /\ UNCHANGED <<wallet, book, up, tracked, cancel_all_inflight, asked, accepted,
                 sweepVars>>

\* ... and orders it dead when no Cancel All is under way.
StopOrders ==
  /\ stop = "claimed" /\ ~cancel_all_inflight
  /\ stop' = "cancelling"
  /\ WriteAhead
  /\ UNCHANGED <<wallet, up, tracked, cancel_all_inflight, asked, accepted,
                 sweepVars, crashes>>

another_cancel == cancel_all_inflight \/ stop = "cancelling"

\* One call at a time; a sweep is a call for each offer of the book.
Ask(o) ==
  /\ another_cancel /\ tracked[o] = "live" /\ asked = {}
  /\ asked' = {o}
  /\ Request(o)
  /\ UNCHANGED <<trade, book, up, tracked, cancel_all_inflight, stop, accepted,
                 sweepVars, crashes>>

\* Its answer: yes, once the wallet has the cancel; or a refusal, or nothing.
Answer(o) ==
  /\ o \in asked /\ asked' = asked \ {o}
  /\ \/ /\ o \notin late /\ trade[o] # "open"
        /\ accepted' = accepted \cup {o} /\ tracked' = mark_cancel_pending({o})
     \/ UNCHANGED <<accepted, tracked>>
  /\ UNCHANGED <<wallet, book, up, cancel_all_inflight, stop, sweepVars, crashes>>

\* What the wallet accepted, or was found cancelling already, is Submitted.
CancelAllEnds ==
  /\ cancel_all_inflight /\ asked = {}
  /\ \E pending \in SUBSET in_state("cancel_pending") :
       intent' = submit(intent, accepted \cup pending)
  /\ write_cancel_intent(intent')
  /\ cancel_all_inflight' = FALSE /\ accepted' = {}
  /\ UNCHANGED <<wallet, up, tracked, stop, asked, sweepVars, crashes>>

\* It ends with an exception: the flag is cleared, what it sent stands, and the
\* ids accepted so far keep the tag they have.
CancelAllThrows ==
  /\ cancel_all_inflight /\ asked = {}
  /\ cancel_all_inflight' = FALSE /\ accepted' = {}
  /\ UNCHANGED <<wallet, book, up, tracked, stop, asked, sweepVars, crashes>>

\* A stop also knows what its re-checks found: dead is Submitted, since only the
\* sweep may strike an order out, and filled is struck out here.
StopRecords ==
  /\ stop = "cancelling" /\ asked = {}
  /\ \E pending \in SUBSET in_state("cancel_pending") :
     \E seen \in SUBSET is_over :
       intent' = strike(submit(intent, accepted \cup pending \cup seen),
                        {o \in seen : trade[o] = "confirmed"})
  /\ write_cancel_intent(intent')
  /\ stop' = "recorded" /\ accepted' = {}
  /\ UNCHANGED <<wallet, up, tracked, cancel_all_inflight, asked, sweepVars, crashes>>

Exit ==
  /\ stop = "recorded"
  /\ Gone
  /\ UNCHANGED <<wallet, file, crashes>>

-----------------------------------------------------------------------------
\* sweep_cancel_intent, one pass in every heartbeat.

\* Declines to run beside another cancel, and looks only here.
SweepBegin ==
  /\ up /\ sweep = "idle" /\ intent # Nothing
  /\ stop = "no" /\ ~cancel_all_inflight
  /\ sweep' = "probing" /\ todo' = listed(intent)
  /\ UNCHANGED <<wallet, book, up, tracked, others, resolved, to_cancel, sending,
                 recancelled, crashes>>

\* Mutant: whatever is not over is taken for cancelling.
FlaggedReadopt(o) == [tracked EXCEPT ![o] = "cancel_pending"]

readopt(o) == IF tracked[o] = "untracked" THEN [tracked EXCEPT ![o] = "live"]
              ELSE tracked

\* Mutant: no answer is taken for a terminal one.
SilenceIsOver(o) ==
  resolved' = resolved \cup {o} /\ UNCHANGED <<tracked, to_cancel>>

\* recheck_terminal got no verdict: the id keeps its place.
NoVerdict(o) == UNCHANGED <<tracked, resolved, to_cancel>>

\* recheck_terminal: over; alive, to be cancelled again unless State has its
\* cancel in flight; or cancelling, which it flags in State.
Verdict(o) ==
  \/ /\ o \in is_over
     /\ resolved' = resolved \cup {o}
     /\ tracked' = IF trade[o] = "confirmed" THEN readopt(o) ELSE tracked
     /\ UNCHANGED to_cancel
  \/ /\ trade[o] = "open"
     /\ tracked' = readopt(o)
     /\ to_cancel' = IF tracked[o] = "cancel_pending" THEN to_cancel
                     ELSE to_cancel \cup {o}
     /\ UNCHANGED resolved
  \/ /\ trade[o] = "pending_cancel"
     /\ tracked' = [tracked EXCEPT ![o] = "cancel_pending"]
     /\ UNCHANGED <<resolved, to_cancel>>

Probe(o) ==
  /\ sweep = "probing" /\ o \in todo
  /\ \/ Verdict(o) /\ todo' = todo \ {o}
     \* An answer that says nothing; or a transport failure, which ends the pass.
     \/ NoVerdict(o) /\ todo' \in {todo \ {o}, {}}
  /\ UNCHANGED <<wallet, book, up, others, sweep, sending, recancelled, crashes>>

\* The re-cancels begin, or are put off when the last probe failed.
SweepProbed ==
  /\ sweep = "probing" /\ todo = {}
  /\ sweep' = "cancelling"
  /\ to_cancel' \in {to_cancel, {}}
  /\ UNCHANGED <<wallet, book, up, tracked, others, todo, resolved, sending,
                 recancelled, crashes>>

\* cancel_ids comes to an offer: gone from State or cancelling there, it is
\* passed over.
PassOver(o) ==
  /\ sweep = "cancelling" /\ sending = {} /\ o \in to_cancel
  /\ tracked[o] # "live"
  /\ to_cancel' = to_cancel \ {o}
  /\ UNCHANGED <<wallet, book, up, tracked, others, sweep, todo, resolved, sending,
                 recancelled, crashes>>

Recancel(o) ==
  /\ sweep = "cancelling" /\ sending = {} /\ o \in to_cancel
  /\ tracked[o] = "live"
  /\ sending' = {o} /\ to_cancel' = to_cancel \ {o}
  /\ Request(o)
  /\ UNCHANGED <<trade, book, up, tracked, others, sweep, todo, resolved, recancelled,
                 crashes>>

Recancelled(o) ==
  /\ o \in sending /\ sending' = {}
  /\ \/ /\ o \notin late /\ trade[o] # "open"
        /\ recancelled' = recancelled \cup {o} /\ tracked' = mark_cancel_pending({o})
     \/ UNCHANGED <<recancelled, tracked>>
  /\ UNCHANGED <<wallet, book, up, others, sweep, todo, resolved, to_cancel, crashes>>

\* Re-cancelled ids stay in the set as Submitted, resolved ones leave it, and
\* the file is written, or removed when nothing is left.
SweepEnd ==
  /\ sweep = "cancelling" /\ to_cancel = {} /\ sending = {}
  /\ intent' = strike(submit(intent, recancelled), resolved)
  /\ write_cancel_intent(intent')
  /\ sweep' = "idle" /\ resolved' = {} /\ recancelled' = {}
  /\ UNCHANGED <<wallet, up, tracked, others, todo, to_cancel, sending, crashes>>

-----------------------------------------------------------------------------
IntentNext ==
  \/ Crash \/ Boot \/ CancelAll \/ ClaimStop \/ StopOrders \/ CancelAllEnds
  \/ CancelAllThrows \/ StopRecords \/ Exit \/ SweepBegin \/ SweepProbed \/ SweepEnd
  \/ \E o \in Offers :
       \/ Post(o) \/ Take(o) \/ CancelLands(o) \/ CancelArrives(o) \/ Detect(o)
       \/ Ask(o) \/ Answer(o) \/ Probe(o) \/ PassOver(o) \/ Recancel(o)
       \/ Recancelled(o)

IntentSpec == IntentInit /\ [][IntentNext]_vars

\* The poll loop goes round, calls return, a dead process is started again, and
\* the wallet comes to its requests.  Strongly fair: the other cancels make a
\* bounded number of attempts (StopEnds of ShutdownCancel), the operator does not press
\* Cancel All before every heartbeat, the wallet is not down at every probe, and
\* a cancel sent again and again gets there and is accepted.  An accepted cancel
\* confirms.
FairIntent ==
  /\ IntentSpec
  /\ WF_vars(Boot) /\ WF_vars(StopOrders) /\ WF_vars(Exit)
  /\ SF_vars(CancelAllEnds \/ CancelAllThrows) /\ SF_vars(StopRecords)
  /\ SF_vars(SweepBegin) /\ WF_vars(SweepProbed) /\ WF_vars(SweepEnd)
  /\ SF_vars(SweepProbed /\ to_cancel # {} /\ to_cancel' = to_cancel)
  /\ \A o \in Offers :
       /\ WF_vars(Answer(o)) /\ WF_vars(PassOver(o)) /\ WF_vars(Recancelled(o))
       /\ WF_vars(Probe(o)) /\ SF_vars(Probe(o) /\ Verdict(o) /\ todo' = todo \ {o})
       /\ WF_vars(Recancel(o)) /\ SF_vars(Recancel(o) /\ o \in late')
       /\ WF_vars(CancelArrives(o))
       /\ SF_vars(CancelArrives(o) /\ trade'[o] # "open")
       /\ WF_vars(CancelLands(o))
=============================================================================
