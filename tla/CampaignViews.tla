---------------------------- MODULE CampaignViews ----------------------------
(***************************************************************************)
(* What an operator sees of a campaign while its customers are called: the *)
(* queue, which puts every session in a bucket, and the metrics, which two *)
(* statements count.  Recovery is the store they read.                     *)
(*                                                                         *)
(* The queue is one statement, so it is a function of the state.  The      *)
(* metrics are a request of their own, and other requests run between its  *)
(* two counts.  Of the counts, those kept are the ones that no later state *)
(* lowers.                                                                 *)
(***************************************************************************)
EXTENDS Recovery, FiniteSetsExt

\* A campaign is loaded row by row: what is counted is finite.
ASSUME ViewsAssumption == IsFiniteSet(Sessions)

VARIABLES
  metrics  \* the metrics request: which statement it has done, and its counts

viewVars == <<now, row, audit, plink, req, served, acked, metrics>>

Contacted == Cardinality({s \in Sessions : row[s].status # "pending"})
Recovered == Cardinality({s \in Sessions : row[s].status = "recovered"})
LinksSent == Cardinality({s \in Sessions : row[s].link # Null})

NoMetrics == [at |-> "idle", contacted |-> 0, recovered |-> 0, links |-> 0]

ViewInit == Init /\ metrics = NoMetrics

(***************************************************************************)
(* GET /campaigns/{id}/queue.                                              *)
(***************************************************************************)
Bucket(s) ==
  IF EligibleNow(s) THEN "due_now" ELSE IF StillContactable(s) THEN "on_hold" ELSE "closed"

(***************************************************************************)
(* GET /campaigns/{id}/metrics.                                            *)
(***************************************************************************)
CountRows ==
  /\ metrics.at = "idle"
  /\ metrics' = [at |-> "rows",
                 contacted |-> Contacted, recovered |-> Recovered, links |-> LinksSent]
  /\ UNCHANGED <<now, row, audit, plink, req, served, acked>>

CapturedRows == MapThenSumSet(LAMBDA s : audit[s]["payment_captured"], Sessions)

CountCaptured ==
  /\ metrics.at = "rows"
  /\ metrics' = NoMetrics
  /\ UNCHANGED <<now, row, audit, plink, req, served, acked>>

(***************************************************************************)
(* Composition.                                                            *)
(***************************************************************************)
Store == Next /\ UNCHANGED metrics

ViewNext == Store \/ CountRows \/ CountCaptured

ViewSpec == ViewInit /\ [][ViewNext]_viewVars

(***************************************************************************)
(* Properties.                                                             *)
(***************************************************************************)
\* Whoever the queue shows as finished with, a call under way aside, is never
\* called again nor offered again, whatever requests are still under way and
\* however the timer is moved by hand.
ClosedForGood ==
  [][\A s \in Sessions :
       Bucket(s) = "closed" /\ row[s].status # "active"
         => Bucket(s)' = "closed" /\ row'[s].status # "active"]_viewVars

\* The counts of a report may come from two moments, but none of them is more than
\* the truth at the second: what it confirms was recovered, and stays so.
NeverOverstated ==
  metrics.at = "rows" =>
    /\ metrics.contacted <= Contacted
    /\ metrics.recovered <= Recovered /\ CapturedRows <= Recovered
    /\ metrics.links <= LinksSent
=============================================================================
