--------------------------- MODULE MergeGroupsProofs ---------------------------
(***************************************************************************)
(* The promise of MergeGroups for every set of nets and any order of       *)
(* proposals and decisions: the groups are the transitive closure of the   *)
(* approved pairs.                                                         *)
(***************************************************************************)
EXTENDS MergeGroups, TLAPS

Approved == {p \in DOMAIN verdict : verdict[p] = "approved"}

\* No pair of E leaves S.
Closed(S, E) == \A p \in E : p[1] \in S <=> p[2] \in S

GroupsOk ==
  /\ group \in [Nets -> SUBSET Nets]
  /\ \A n \in Nets : n \in group[n]
  /\ \A n \in Nets : Closed(group[n], Approved)
  /\ \A n \in Nets : \A S \in SUBSET Nets :
       n \in S /\ Closed(S, Approved) => group[n] \subseteq S

\* Inductive only with the groups a partition: a net has the group of every
\* member of it, so that replacing a group replaces it for all of them.
Partition == \A m, n \in Nets : m \in group[n] => group[m] = group[n]

GroupsInv == GroupsOk /\ Partition

\* Recording a verdict other than an approval for a pair that was not approved
\* leaves the approved pairs as they are; an approval adds its pair.
LEMMA RecordApproved ==
  ASSUME NEW p, NEW v, Record(p, v),
         p \in DOMAIN verdict => verdict[p] = "pending"
  PROVE  Approved' = IF v = "approved" THEN Approved \cup {p} ELSE Approved
BY DEF Record, Approved

\* At first every net is a group of its own and nothing is approved.
LEMMA GroupsInit == Init => GroupsInv
<1> SUFFICES ASSUME Init PROVE GroupsInv
    OBVIOUS
<1>1. Approved = {}
      BY DEF Init, Approved
<1> QED
    BY <1>1 DEF Init, GroupsInv, GroupsOk, Partition, Closed

\* A step that changes neither the groups nor the approved pairs.
LEMMA NothingRegrouped ==
  ASSUME GroupsInv, group' = group, Approved' = Approved
  PROVE  GroupsInv'
BY DEF GroupsInv, GroupsOk, Partition

\* Approving the pair of two groups: their union is closed under the pair too,
\* and any closed set around one of them has to hold the other.
LEMMA ApprovalRegroups ==
  ASSUME GroupsInv, NEW p \in NetPairs, Approve(p)
  PROVE  GroupsInv'
<1> DEFINE merged == group[p[1]] \cup group[p[2]]
<1>0. /\ p[1] \in Nets /\ p[2] \in Nets
      /\ group \in [Nets -> SUBSET Nets]
      BY DEF NetPairs, GroupsInv, GroupsOk
<1>1. Approved' = Approved \cup {p}
      BY RecordApproved DEF Approve, Pending
<1>2. group' = [n \in Nets |-> IF n \in merged THEN merged ELSE group[n]]
      BY DEF Approve
<1>3. /\ merged \subseteq Nets
      /\ p[1] \in merged /\ p[2] \in merged
      BY <1>0 DEF GroupsInv, GroupsOk
\* A net outside the union has a group disjoint from it.
<1>4. ASSUME NEW n \in Nets, n \notin merged PROVE group[n] \cap merged = {}
  <2>1. ASSUME NEW m \in group[n] \cap merged PROVE FALSE
    <3>1. group[m] = group[n] /\ m \in Nets
          BY <1>0, <2>1 DEF GroupsInv, Partition
    <3>2. group[m] = group[p[1]] \/ group[m] = group[p[2]]
          BY <1>0, <2>1, <3>1 DEF GroupsInv, Partition
    <3>3. n \in group[n]
          BY DEF GroupsInv, GroupsOk
    <3> QED
        BY <1>4, <3>1, <3>2, <3>3
  <2> QED
      BY <2>1
<1>5. Closed(merged, Approved')
  <2>1. Closed(group[p[1]], Approved) /\ Closed(group[p[2]], Approved)
        BY <1>0 DEF GroupsInv, GroupsOk
  <2> QED
      BY <1>1, <1>3, <2>1 DEF Closed
<1>6. ASSUME NEW n \in Nets, n \notin merged PROVE Closed(group[n], Approved')
  <2>1. Closed(group[n], Approved)
        BY DEF GroupsInv, GroupsOk
  <2>2. p[1] \notin group[n] /\ p[2] \notin group[n]
        BY <1>3, <1>4, <1>6
  <2> QED
      BY <1>1, <2>1, <2>2 DEF Closed
\* Minimality.
<1>7. ASSUME NEW n \in Nets, NEW S \in SUBSET Nets, n \in S, Closed(S, Approved')
      PROVE  group'[n] \subseteq S
  <2>1. Closed(S, Approved) /\ (p[1] \in S <=> p[2] \in S)
        BY <1>1, <1>7 DEF Closed
  <2>2. group[n] \subseteq S
        BY <1>7, <2>1 DEF GroupsInv, GroupsOk
  <2>3. CASE n \notin merged
        BY <1>2, <2>2, <2>3
  <2>4. CASE n \in merged
    <3>1. \E q \in {p[1], p[2]} : q \in group[n]
      <4>1. group[n] = group[p[1]] \/ group[n] = group[p[2]]
            BY <1>0, <2>4 DEF GroupsInv, Partition
      <4> QED
          BY <1>0, <4>1 DEF GroupsInv, GroupsOk
    <3>2. p[1] \in S /\ p[2] \in S
          BY <2>1, <2>2, <3>1
    <3>3. group[p[1]] \subseteq S /\ group[p[2]] \subseteq S
          BY <1>0, <2>1, <3>2 DEF GroupsInv, GroupsOk
    <3> QED
        BY <1>2, <2>4, <3>3
  <2> QED
      BY <2>3, <2>4
<1>8. GroupsOk'
  <2>1. group' \in [Nets -> SUBSET Nets]
        BY <1>0, <1>2, <1>3
  <2>2. \A n \in Nets : n \in group'[n]
        BY <1>2 DEF GroupsInv, GroupsOk
  <2>3. \A n \in Nets : Closed(group'[n], Approved')
        BY <1>2, <1>5, <1>6
  <2> QED
      BY <1>7, <2>1, <2>2, <2>3 DEF GroupsOk
<1>9. Partition'
  <2>1. ASSUME NEW m \in Nets, NEW n \in Nets, m \in group'[n]
        PROVE  group'[m] = group'[n]
    <3>1. CASE n \in merged
          BY <1>2, <2>1, <3>1
    <3>2. CASE n \notin merged
      <4>1. m \in group[n] /\ m \notin merged
            BY <1>2, <1>4, <2>1, <3>2
      <4>2. group[m] = group[n]
            BY <4>1 DEF GroupsInv, Partition
      <4> QED
          BY <1>2, <3>2, <4>1, <4>2
    <3> QED
        BY <3>1, <3>2
  <2> QED
      BY <2>1 DEF Partition
<1> QED
    BY <1>8, <1>9 DEF GroupsInv

\* Every proposal and decision keeps the invariant.
LEMMA GroupsStep == GroupsInv /\ [Next]_groupVars => GroupsInv'
<1> SUFFICES ASSUME GroupsInv, [Next]_groupVars PROVE GroupsInv'
    OBVIOUS
<1>1. ASSUME NEW p \in NetPairs, Propose(p) PROVE GroupsInv'
  <2>1. Approved' = Approved
        BY <1>1, RecordApproved DEF Propose
  <2> QED
      BY <1>1, <2>1, NothingRegrouped DEF Propose
<1>2. ASSUME NEW p \in NetPairs, Reject(p) PROVE GroupsInv'
  <2>1. Approved' = Approved
        BY <1>2, RecordApproved DEF Reject, Pending
  <2> QED
      BY <1>2, <2>1, NothingRegrouped DEF Reject
<1>3. ASSUME NEW p \in NetPairs, Approve(p) PROVE GroupsInv'
      BY <1>3, ApprovalRegroups
<1>4. CASE UNCHANGED groupVars
      BY <1>4, NothingRegrouped DEF groupVars, Approved
<1> QED
    BY <1>1, <1>2, <1>3, <1>4 DEF Next

\* Approving pairs one at a time, each time making one group of two, yields the
\* transitive closure of the approved pairs, however many nets there are and in
\* whatever order the commander decides (MERGE_PIPELINE_REFERENCE.md, 5.3).
THEOREM GroupsAreAlwaysClosure == Spec => []GroupsAreClosure
<1>1. GroupsInv => GroupsAreClosure
      BY DEF GroupsInv, GroupsOk, GroupsAreClosure, Closed, Approved
<1> QED
    BY GroupsInit, GroupsStep, <1>1, PTL DEF Spec
==============================================================================
