--------------------------- MODULE WarpSendProps ---------------------------
(* What the sends of a warp job promise.                                   *)
EXTENDS WarpSend

\* A send whose coin another spend took for good never lands.
Doomed(a) == \E c \in made[a] : Spent(c) /\ by[c] # Tx(a) /\ deep[c]

\* An unwrap burns at most once: a cat_spend is made again only when the chain
\* has proven the one before it dead, so that no two burn CATs of a job are ever
\* on the forward-only burn puzzle (_judge_recorded_send, _release_recorded_send).
OneBurn == kind = "burn" => Cardinality({a \in sent : Landed(a)}) =< 1

\* What is listed as proven dead can never land, whatever is reorganised, surfaces
\* or is identified later (judge, _mark_attempts_dead, _refresh_exclusions).
DeadIsDead == \A k \in job.dead : InPriors(job, k) =>
  \/ Id(k) # 0 /\ Doomed(Id(k))
  \/ \E c \in job.coins[k] : Spent(c) /\ deep[c]

\* While the job is open every send that may still land is on its books: under
\* its own id, or behind one of as many entries that have none (_send_reserved,
\* _replacement_patch, _persist_identified_attempt).
EverySendOnTheBooks ==
  LET keys     == {job.marker} \cup {job.priors[i] : i \in DOMAIN job.priors}
      nameless == {k \in keys \ job.dead : k[1] = "unnamed"}
      missing  == {a \in sent : ~Doomed(a) /\ Tx(a) \notin keys}
  IN job.status \notin Closed => Cardinality(missing) =< Cardinality(nameless)

Presumed(a) == Tx(a) \in job'.presumed \/ \E k \in job'.presumed : k[1] = "unnamed"
Accounted(a) ==
  \/ Doomed(a) \/ Presumed(a)
  \/ out[a] \in {"claimed", "swept"} /\ (job.priors # <<>> => outdeep[a])

\* A funding job that closes without being abandoned leaves no XCH behind: no
\* send of it can land any more or has its coin unspent at the key, and once a
\* send was replaced that is final; but for the sends presumed gone.
\* (_prior_sends_settled, _sweep_job, _h_claiming)
ClosedWithNothingLeft ==
  [][job.status \notin Closed /\ job'.status \in Closed /\ ~job'.abandoned
       => \A a \in sent : Accounted(a)]_vars
=============================================================================
