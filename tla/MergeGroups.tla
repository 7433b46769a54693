----------------------------- MODULE MergeGroups -----------------------------
(***************************************************************************)
(* What net merging promises, as net_merging_service.py and                *)
(* MERGE_PIPELINE_REFERENCE.md state it: an alert is raised for a pair of  *)
(* nets in different groups, a commander decides it once, and approving it *)
(* makes one group of the two, at once and for good.  There are no tables, *)
(* no group numbers and no statements here.                                *)
(***************************************************************************)
EXTENDS Integers

CONSTANT Nets     \* the net_ids

VARIABLES
  group,      \* net -> the set of nets merged with it
  verdict     \* pair -> "pending", "approved" or "rejected"

groupVars == <<group, verdict>>

NetPairs == {p \in Nets \X Nets : p[1] < p[2]}

Init ==
  /\ group = [n \in Nets |-> {n}]
  /\ verdict = [p \in {} |-> p]

Record(p, v) ==
  verdict' = [q \in DOMAIN verdict \cup {p} |-> IF q = p THEN v ELSE verdict[q]]

Pending(p) == p \in DOMAIN verdict /\ verdict[p] = "pending"

Propose(p) ==
  /\ p \notin DOMAIN verdict
  /\ group[p[1]] # group[p[2]]
  /\ Record(p, "pending")
  /\ UNCHANGED group

Reject(p) ==
  /\ Pending(p)
  /\ Record(p, "rejected")
  /\ UNCHANGED group

Approve(p) ==
  /\ Pending(p)
  /\ Record(p, "approved")
  /\ LET merged == group[p[1]] \cup group[p[2]]
     IN  group' = [n \in Nets |-> IF n \in merged THEN merged ELSE group[n]]

Next == \E p \in NetPairs : Propose(p) \/ Reject(p) \/ Approve(p)

Spec == Init /\ [][Next]_groupVars

------------------------------------------------------------------------------

\* The groups are the transitive closure of the approved pairs: a set of nets
\* that no approved pair leaves holds the whole group of each of its nets, and
\* each group is such a set (MERGE_PIPELINE_REFERENCE.md, 5.3).
GroupsAreClosure ==
  LET approved == {p \in DOMAIN verdict : verdict[p] = "approved"}
      closed(S) == \A p \in approved : p[1] \in S <=> p[2] \in S
  IN  \A n \in Nets :
        /\ n \in group[n] /\ closed(group[n])
        /\ \A S \in SUBSET Nets : n \in S /\ closed(S) => group[n] \subseteq S
==============================================================================
