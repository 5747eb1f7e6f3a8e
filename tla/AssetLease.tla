----------------------------- MODULE AssetLease -----------------------------
(***************************************************************************)
(* What the analysis queue promises, without claims, leases, receipts or   *)
(* processes of its own: every job runs through its life once, an asset is *)
(* lent to one live job at a time, and a cancelled job is silent for good. *)
(*                                                                         *)
(* One recovery settles any number of jobs, so a step moves any set of     *)
(* jobs, each along one edge of its life.                                  *)
(***************************************************************************)
CONSTANTS Job, Asset, NoAsset

VARIABLES
  phase,   \* where each job is in its life
  place,   \* the asset it was requested for
  busy     \* jobs on whose behalf some process is alive

Phase == {"unborn", "waiting", "working", "stopping", "succeeded", "failed", "cancelled"}
Live  == {"waiting", "working", "stopping"}

\* The edges of a job's life (docs/WEB_ANALYSIS.md, section 5).
Edge == {<<"unborn", "waiting">>, <<"waiting", "working">>, <<"waiting", "cancelled">>,
         <<"working", "stopping">>, <<"working", "succeeded">>, <<"working", "failed">>,
         <<"stopping", "cancelled">>}

Exclusive ==
  \A j, k \in Job : phase[j] \in Live /\ phase[k] \in Live /\ place[j] = place[k] => j = k

Silent == \A j \in busy : phase[j] \notin {"unborn", "waiting", "cancelled"}

Init ==
  /\ phase = [j \in Job |-> "unborn"]
  /\ place = [j \in Job |-> NoAsset]
  /\ busy  = {}

Next ==
  /\ phase' \in [Job -> Phase]
  /\ place' \in [Job -> Asset \union {NoAsset}]
  /\ \A j \in Job :
       /\ phase'[j] # phase[j] => <<phase[j], phase'[j]>> \in Edge
       /\ place'[j] # place[j] => phase[j] = "unborn" /\ phase'[j] = "waiting"
  /\ busy' \in SUBSET Job
  /\ Exclusive'
  /\ Silent'

Spec == Init /\ [][Next]_<<phase, place, busy>>
=============================================================================
