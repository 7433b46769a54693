-------------------------------- MODULE FFNet --------------------------------
(***************************************************************************)
(* The ff_net service as a whole: the build pipeline (NetBuild) and the    *)
(* merge decisions (NetMerge) on the same request threads and over the     *)
(* same table ff_net_building.  A build writes back every column of every  *)
(* row it read, my_net_id among them; an approval changes my_net_id alone. *)
(***************************************************************************)
EXTENDS Integers, FiniteSets

CONSTANTS
  Threads, Reports, TokenRank, NetIds, GroupLimit,
  MaxFaults, MayDie, MayDelete, MayDrop

VARIABLES
  reports, building, history, candidates,   \* the four tables
  run, req,                                 \* the locals of the threads
  clock, asked, faults                      \* see NetBuild and NetMerge

Build == INSTANCE NetBuild
Merge == INSTANCE NetMerge WITH FirstNets <- Build!EmptyTable

buildOnly == <<reports, history, run, clock>>
mergeOnly == <<candidates, req, asked>>
vars == <<reports, building, history, candidates, run, req, clock, asked, faults>>

ASSUME ServiceConstants ==
  Reports \subseteq Build!Report /\ NetIds \subseteq Nat /\ GroupLimit \in Nat

\* A thread executes one request at a time (waitress hands it the next one when
\* the response is sent).
Free(t) == Build!Resting(t) /\ Merge!Idle(t)

Init == Build!Init /\ Merge!MergeInit

\* Requests on ff_net_report are one statement each.
ReportRequest ==
  /\ \E rep \in Reports : Build!PutReport(rep) \/ Build!DeleteReport(rep)
  /\ UNCHANGED mergeOnly

BuildRequest(t) == Free(t) /\ Build!ReadBuilding(t) /\ UNCHANGED mergeOnly
MergeRequest(t) == Free(t) /\ Merge!Accept(t) /\ UNCHANGED buildOnly

BuildWork(t) == (Build!BuildStep(t) \/ Build!AbortRun(t)) /\ UNCHANGED mergeOnly
MergeWork(t) == (Merge!Step(t) \/ Merge!Abort(t)) /\ UNCHANGED buildOnly

DropTable == Build!DropNets /\ UNCHANGED mergeOnly

Next ==
  \/ ReportRequest
  \/ \E t \in Threads :
       BuildRequest(t) \/ MergeRequest(t) \/ BuildWork(t) \/ MergeWork(t)
  \/ DropTable

Spec == Init /\ [][Next]_vars

------------------------------------------------------------------------------
\* Properties.

AllFree == \A t \in Threads : Free(t)

\* a and b are joined by a chain of the given pairs.
Chained(a, b, pairs) ==
  \A S \in SUBSET (NetIds \cup DOMAIN building) :
    (a \in S /\ \A p \in pairs : p[1] \in S <=> p[2] \in S) => b \in S

SameGroup(m, n) == building[m].my = building[n].my

\* Between requests the groups of ff_net_building are those the commander made,
\* whatever was built before and after: the transitive closure of the approved
\* pairs (MERGE_PIPELINE_REFERENCE.md, 5.3), when no request died half-way and no
\* table was dropped.
GroupsMatchDecisions ==
  AllFree /\ faults = 0 =>
    LET approved == {p \in DOMAIN candidates : candidates[p] = "approved"}
    IN  \A m, n \in DOMAIN building : SameGroup(m, n) <=> Chained(m, n, approved)

\* views.py: nothing is ever merged automatically.  Two nets share a group only
\* when pairs a commander approved join them, even if a request died half-way.
NothingMergedUnasked ==
  \A m, n \in DOMAIN building : SameGroup(m, n) => Chained(m, n, asked)

\* The module comment of net_merging_service.py: deciding is the only way
\* my_net_id changes after a net is first built.
OnlyDecisionsRegroup ==
  [][\A n \in DOMAIN building \cap DOMAIN building' :
       building'[n].my # building[n].my =>
         \E t \in Threads : Merge!At(t, "move")]_building
==============================================================================
