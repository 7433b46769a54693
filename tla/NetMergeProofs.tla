---------------------------- MODULE NetMergeProofs -----------------------------
(***************************************************************************)
(* What holds of merging for every number of threads, nets and dead        *)
(* requests, with ff_net_building dropped or not: the types, that nothing  *)
(* is merged that no commander approved, and that approvals only lower a   *)
(* net's my_net_id.  And what holds with one request at a time, none of    *)
(* which dies: approvals hold, the queue is complete, and the statements   *)
(* implement MergeGroups.                                                  *)
(***************************************************************************)
EXTENDS NetMerge, FiniteSetTheorems, TLAPS

Nets == DOMAIN FirstNets

------------------------------------------------------------------------------
\* Types.

\* TypeOK is not inductive: that a moved row gets a my_net_id, and that a
\* decided key is a pair, follows from the step the request has reached.
Deciding == {"reject", "rowA", "rowB", "mark", "find", "move"}

PairChosen == \A t \in Threads : req[t].pc \in Deciding => req[t].pair \in Pairs

GroupsChosen ==
  \A t \in Threads : req[t].pc \in {"find", "move"} =>
    req[t].survivor \in Nat /\ req[t].absorbed \in Nat

TypeInv == TypeOK /\ PairChosen /\ GroupsChosen

\* The table without rows has every row type.
LEMMA EmptyTableType ==
  ASSUME NEW R
  PROVE  DOMAIN EmptyTable = {} /\ EmptyTable \in [DOMAIN EmptyTable -> R]
<1>1. DOMAIN EmptyTable = {} /\ EmptyTable = [k \in {} |-> k]
      BY DEF EmptyTable
<1> QED
    BY <1>1

\* The locals of an idle thread are of type Request, at no step of a decision.
LEMMA NoReqType == NoReq \in Request /\ NoReq.pc = "idle"
BY DEF NoReq, Request, Steps, Null

\* One thread's new locals leave those of the others alone.
LEMMA GotoKeepsType ==
  ASSUME req \in [Threads -> Request], NEW t \in Threads,
         NEW locals \in Request, Goto(t, locals)
  PROVE  /\ req' \in [Threads -> Request]
         /\ req'[t] = locals
         /\ \A u \in Threads : u # t => req'[u] = req[u]
BY DEF Goto

\* So the facts about the chosen pair and groups hold when they hold of the new
\* locals of the thread that moved.
LEMMA GotoKeepsChoice ==
  ASSUME req \in [Threads -> Request], PairChosen, GroupsChosen,
         NEW t \in Threads, NEW locals \in Request, Goto(t, locals),
         locals.pc \in Deciding => locals.pair \in Pairs,
         locals.pc \in {"find", "move"} =>
           locals.survivor \in Nat /\ locals.absorbed \in Nat
  PROVE  req' \in [Threads -> Request] /\ PairChosen' /\ GroupsChosen'
BY GotoKeepsType DEF PairChosen, GroupsChosen

\* The matcher proposes pairs of the nets it is given.
LEMMA ProposedArePairs ==
  ASSUME NEW nets, DOMAIN nets \subseteq NetIds
  PROVE  ProposePairs(nets) \subseteq Pairs
BY DEF ProposePairs, Pairs

\* The initial tables and locals have their types: the rows are those of
\* FirstNets, no candidate is recorded, every thread is idle.
LEMMA TypeInit == Init => TypeInv
<1> SUFFICES ASSUME Init PROVE TypeInv
    OBVIOUS
<1> USE FirstNetsAreNets, BoundsAreNumbers DEF Init, MergeInit
<1>1. building \in [DOMAIN building -> NetRow] /\ DOMAIN building = DOMAIN FirstNets
      OBVIOUS
<1>2. /\ DOMAIN candidates \subseteq Pairs
      /\ candidates \in [DOMAIN candidates -> {"pending", "approved", "rejected"}]
      BY EmptyTableType
<1>3. req \in [Threads -> Request] /\ \A t \in Threads : req[t].pc = "idle"
      BY NoReqType
<1>4. asked \subseteq Pairs /\ faults \in 0..MaxFaults
      OBVIOUS
<1>5. PairChosen /\ GroupsChosen
      BY <1>3 DEF PairChosen, GroupsChosen, Deciding
<1> QED
    BY <1>1, <1>2, <1>3, <1>4, <1>5 DEF TypeInv, TypeOK

\* Every statement, arrival, death and drop keeps the types.
LEMMA TypeStep == TypeInv /\ [Next]_mergeVars => TypeInv'
<1> SUFFICES ASSUME TypeInv, [Next]_mergeVars PROVE TypeInv'
    OBVIOUS
<1> USE DEF TypeInv
<1> DEFINE Tables(b, c) ==
      /\ DOMAIN b \subseteq DOMAIN FirstNets
      /\ b \in [DOMAIN b -> NetRow]
      /\ DOMAIN c \subseteq Pairs
      /\ c \in [DOMAIN c -> {"pending", "approved", "rejected"}]
      Locals == req \in [Threads -> Request] /\ PairChosen /\ GroupsChosen
<1>0. Tables(building, candidates) /\ Locals
      BY DEF TypeOK
<1>q. SUFFICES Tables(building', candidates') /\ Locals'
                 /\ asked' \subseteq Pairs /\ faults' \in 0..MaxFaults
      BY DEF TypeOK
<1>d. DOMAIN building \subseteq NetIds
      BY <1>0, FirstNetsAreNets
\* The status of a pair may be recorded whatever its row was.
<1>s. ASSUME NEW p \in Pairs, NEW status \in {"pending", "approved", "rejected"},
             SetStatus(p, status), building' = building
      PROVE  Tables(building', candidates')
  <2>1. /\ DOMAIN candidates' = DOMAIN candidates \cup {p}
        /\ candidates' \in [DOMAIN candidates' -> {"pending", "approved", "rejected"}]
        BY <1>0, <1>s DEF SetStatus, Insert
  <2> QED
      BY <1>0, <1>s, <2>1
<1>f. ASSUME NEW t \in Threads, Finish(t) PROVE Locals'
      BY <1>0, <1>f, NoReqType, GotoKeepsChoice DEF Finish, Deciding
<1>1. ASSUME NEW t \in Threads, ReadNets(t) PROVE <1>q!1
  <2> DEFINE new == [NoReq EXCEPT
                       !.pc = IF building = EmptyTable THEN "list" ELSE "pairs",
                       !.fresh = ProposePairs(building)]
  <2>1. new \in Request /\ new.pc \in {"list", "pairs"}
        BY <1>d, NoReqType, ProposedArePairs DEF Request, Steps, NoReq, Null
  <2>2. Locals'
        BY <1>0, <1>1, <2>1, GotoKeepsChoice DEF ReadNets, Deciding
  <2> QED
      BY <1>0, <1>1, <2>2 DEF ReadNets, TypeOK
<1>2. ASSUME NEW t \in Threads, ReadPairs(t) PROVE <1>q!1
  <2> DEFINE new == [req[t] EXCEPT !.pc = "insert", !.fresh = @ \ DOMAIN candidates]
  <2>1. new \in Request /\ new.pc = "insert"
        BY <1>0 DEF Request, Steps
  <2>2. Locals'
        BY <1>0, <1>2, <2>1, GotoKeepsChoice DEF ReadPairs, Deciding
  <2> QED
      BY <1>0, <1>2, <2>2 DEF ReadPairs, TypeOK
<1>3. ASSUME NEW t \in Threads, InsertCandidate(t) PROVE <1>q!1
  <2>1. PICK p \in req[t].fresh :
          /\ SetStatus(p, "pending")
          /\ Goto(t, [req[t] EXCEPT !.fresh = @ \ {p}])
        BY <1>3 DEF InsertCandidate
  <2> DEFINE new == [req[t] EXCEPT !.fresh = @ \ {p}]
  <2>2. p \in Pairs
        BY <1>0 DEF Request
  <2>3. new \in Request /\ new.pc = "insert"
        BY <1>0, <1>3 DEF Request, InsertCandidate, At
  <2>4. Locals'
        BY <1>0, <2>1, <2>3, GotoKeepsChoice DEF Deciding
  <2>5. Tables(building', candidates')
        BY <1>3, <1>s, <2>1, <2>2 DEF InsertCandidate
  <2> QED
      BY <1>3, <2>4, <2>5 DEF InsertCandidate, TypeOK
<1>4. ASSUME NEW t \in Threads, ListPending(t) PROVE <1>q!1
      BY <1>0, <1>4, <1>f DEF ListPending, TypeOK
<1>5. ASSUME NEW t \in Threads, NEW p \in Pairs, NEW decision \in {"approve", "reject"},
             Decide(t, p, decision)
      PROVE  <1>q!1
  <2> DEFINE new == [NoReq EXCEPT
                       !.pc = IF decision = "approve" THEN "rowA" ELSE "reject",
                       !.pair = p]
  <2>1. new \in Request /\ new.pc \in {"rowA", "reject"} /\ new.pair = p
        BY NoReqType DEF Request, Steps, NoReq
  <2>2. Locals'
        BY <1>0, <1>5, <2>1, GotoKeepsChoice DEF Decide
  <2> QED
      BY <1>0, <1>5, <2>2 DEF Decide, TypeOK
<1>6. ASSUME NEW t \in Threads, Reject(t) PROVE <1>q!1
  <2>1. req[t].pair \in Pairs
        BY <1>0, <1>6 DEF Reject, At, PairChosen, Deciding
  <2>2. Tables(building', candidates')
        BY <1>6, <1>s, <2>1 DEF Reject
  <2> QED
      BY <1>6, <1>f, <2>2 DEF Reject, TypeOK
<1>7. ASSUME NEW t \in Threads, ReadRowA(t) PROVE <1>q!1
  <2> DEFINE new == [req[t] EXCEPT
                       !.pc = "rowB",
                       !.myA = Current(building, req[t].pair[1], BlankRow).my]
  <2>1. Current(building, req[t].pair[1], BlankRow).my \in Nat \cup {Null}
        BY <1>0 DEF Current, BlankRow, NetRow
  <2>2. req[t].pair \in Pairs
        BY <1>0, <1>7 DEF ReadRowA, At, PairChosen, Deciding
  <2>3. new \in Request /\ new.pc = "rowB" /\ new.pair = req[t].pair
        BY <1>0, <2>1 DEF Request, Steps
  <2>4. Locals'
        BY <1>0, <1>7, <2>2, <2>3, GotoKeepsChoice DEF ReadRowA
  <2> QED
      BY <1>0, <1>7, <2>4 DEF ReadRowA, TypeOK
<1>8. ASSUME NEW t \in Threads, ReadRowB(t) PROVE <1>q!1
  <2> DEFINE a == req[t].myA
             b == Current(building, req[t].pair[2], BlankRow).my
             new == [req[t] EXCEPT !.pc = "find",
                                   !.survivor = IF a < b THEN a ELSE b,
                                   !.absorbed = IF a < b THEN b ELSE a]
             same == [req[t] EXCEPT !.pc = "mark"]
  <2>1. a \in Nat \cup {Null} /\ b \in Nat \cup {Null}
        BY <1>0 DEF Current, BlankRow, NetRow, Request
  <2>2. req[t].pair \in Pairs
        BY <1>0, <1>8 DEF ReadRowB, At, PairChosen, Deciding
  <2>3. CASE a = Null \/ b = Null
    <3>1. Finish(t)
          BY <1>8, <2>3 DEF ReadRowB
    <3> QED
        BY <1>0, <1>8, <1>f, <3>1 DEF ReadRowB, TypeOK
  <2>4. CASE a # Null /\ b # Null /\ a = b
    <3>1. same \in Request /\ same.pc = "mark" /\ same.pair = req[t].pair
          BY <1>0 DEF Request, Steps
    <3>2. Goto(t, same)
          BY <1>8, <2>4 DEF ReadRowB
    <3>3. Locals'
          BY <1>0, <2>2, <3>1, <3>2, GotoKeepsChoice
    <3> QED
        BY <1>0, <1>8, <3>3 DEF ReadRowB, TypeOK
  <2>5. CASE a # Null /\ b # Null /\ a # b
    <3>0. a \in Nat /\ b \in Nat /\ req[t] \in Request
          BY <1>0, <2>1, <2>5
    <3>1. /\ new \in Request /\ new.pc = "find" /\ new.pair = req[t].pair
          /\ new.survivor \in Nat /\ new.absorbed \in Nat
      <4> HIDE DEF a, b
      <4> QED
          BY <3>0 DEF Request, Steps
    <3>2. Goto(t, new)
          BY <1>8, <2>5 DEF ReadRowB
    <3>3. Locals'
          BY <1>0, <2>2, <3>1, <3>2, GotoKeepsChoice
    <3> QED
        BY <1>0, <1>8, <3>3 DEF ReadRowB, TypeOK
  <2> QED
      BY <2>3, <2>4, <2>5
<1>9. ASSUME NEW t \in Threads, FindAbsorbed(t) PROVE <1>q!1
  <2>1. PICK rows \in SUBSET GroupRows(req[t].absorbed) :
          Goto(t, [req[t] EXCEPT !.pc = "move", !.found = rows, !.todo = rows])
        BY <1>9 DEF FindAbsorbed
  <2> DEFINE new == [req[t] EXCEPT !.pc = "move", !.found = rows, !.todo = rows]
  <2>2. rows \subseteq DOMAIN FirstNets
        BY <1>0 DEF GroupRows
  <2>3. /\ new \in Request /\ new.pc = "move" /\ new.pair = req[t].pair
        /\ new.survivor = req[t].survivor /\ new.absorbed = req[t].absorbed
        BY <1>0, <2>2 DEF Request, Steps
  <2>4. /\ req[t].pair \in Pairs
        /\ req[t].survivor \in Nat /\ req[t].absorbed \in Nat
        BY <1>0, <1>9 DEF FindAbsorbed, At, PairChosen, GroupsChosen, Deciding
  <2>5. Locals'
        BY <1>0, <2>1, <2>3, <2>4, GotoKeepsChoice
  <2> QED
      BY <1>0, <1>9, <2>5 DEF FindAbsorbed, TypeOK
<1>10. ASSUME NEW t \in Threads, MoveNet(t) PROVE <1>q!1
  <2> DEFINE row(n) == [Current(building, n, BlankRow) EXCEPT !.my = req[t].survivor]
  <2>1. PICK n \in req[t].todo :
          /\ building' = Insert(building, n, row(n))
          /\ Goto(t, [req[t] EXCEPT !.todo = @ \ {n}])
        BY <1>10 DEF MoveNet
  <2> DEFINE new == [req[t] EXCEPT !.todo = @ \ {n}]
  <2>2. n \in DOMAIN FirstNets
        BY <1>0 DEF Request
  <2>3. /\ req[t].pair \in Pairs
        /\ req[t].survivor \in Nat /\ req[t].absorbed \in Nat
        BY <1>0, <1>10 DEF MoveNet, At, PairChosen, GroupsChosen, Deciding
  <2>4. row(n) \in NetRow
        BY <1>0, <2>3 DEF Current, BlankRow, NetRow, Null
  <2>5. /\ DOMAIN building' = DOMAIN building \cup {n}
        /\ building' \in [DOMAIN building' -> NetRow]
        BY <1>0, <2>1, <2>4 DEF Insert
  <2>6. /\ new \in Request /\ new.pair = req[t].pair
        /\ new.survivor = req[t].survivor /\ new.absorbed = req[t].absorbed
        BY <1>0 DEF Request
  <2>7. Locals'
        BY <1>0, <2>1, <2>3, <2>6, GotoKeepsChoice
  <2> QED
      BY <1>0, <1>10, <2>2, <2>5, <2>7 DEF MoveNet, TypeOK
<1>11. ASSUME NEW t \in Threads, MarkApproved(t) PROVE <1>q!1
  <2>1. req[t].pair \in Pairs
        BY <1>0, <1>11 DEF MarkApproved, At, PairChosen, Deciding
  <2>2. Tables(building', candidates')
        BY <1>11, <1>s, <2>1 DEF MarkApproved
  <2> QED
      BY <1>11, <1>f, <2>2 DEF MarkApproved, TypeOK
<1>12. ASSUME NEW t \in Threads, Abort(t) PROVE <1>q!1
      BY <1>0, <1>12, <1>f, BoundsAreNumbers DEF Abort, TypeOK
<1>13. CASE DropBuilding
  <2>0. faults' \in 0..MaxFaults
        BY <1>13, BoundsAreNumbers DEF DropBuilding, TypeOK
  <2>1. Tables(building', candidates')
        BY <1>0, <1>13, EmptyTableType DEF DropBuilding
  <2> QED
      BY <1>0, <1>13, <2>0, <2>1 DEF DropBuilding, TypeOK, PairChosen, GroupsChosen
<1>14. CASE UNCHANGED mergeVars
      BY <1>0, <1>14 DEF mergeVars, TypeOK, PairChosen, GroupsChosen
<1> QED
    BY <1>1, <1>2, <1>3, <1>4, <1>5, <1>6, <1>7, <1>8, <1>9, <1>10, <1>11,
       <1>12, <1>13, <1>14 DEF Next, Accept, Step, Detect, Approve

\* Every variable keeps the type the code gives it.
THEOREM TypesHold == Spec => []TypeOK
<1>1. TypeInv => TypeOK
      BY DEF TypeInv
<1> QED
    BY TypeInit, TypeStep, <1>1, PTL DEF Spec

------------------------------------------------------------------------------
\* Nothing is merged unasked.

\* m and n are on the same side of every set that no pair of E leaves.
Joined(m, n, E) ==
  \A S \in SUBSET Nets :
    (\A p \in E : p[1] \in S <=> p[2] \in S) => (m \in S <=> n \in S)

\* Approvals join n to the net that was built with my_net_id "my".
BelongsTo(n, my, E) == \E m \in Nets : FirstNets[m].my = my /\ Joined(n, m, E)

\* Approvals join the nets that were built with the two my_net_ids.
SameOrigin(my1, my2, E) ==
  \E m, n \in Nets :
    FirstNets[m].my = my1 /\ FirstNets[n].my = my2 /\ Joined(m, n, E)

\* Every stored my_net_id is that of a net joined to the row.
RowsBelong == \A n \in DOMAIN building : BelongsTo(n, building[n].my, asked)

\* And so is every my_net_id a request holds in its locals, however old: row_a's
\* group was read at "rowA", the survivor and the absorbed group come from the
\* two nets of an approved pair, the rows found were in the absorbed group.
LocalsBelong(t) ==
  /\ req[t].pc \in {"rowA", "rowB", "find", "move"} => req[t].pair \in asked
  /\ req[t].pc = "rowB" /\ req[t].myA # Null =>
       BelongsTo(req[t].pair[1], req[t].myA, asked)
  /\ req[t].pc \in {"find", "move"} =>
       SameOrigin(req[t].survivor, req[t].absorbed, asked)
  /\ req[t].pc = "move" =>
       \A n \in req[t].todo : BelongsTo(n, req[t].absorbed, asked)

MergeInv == RowsBelong /\ \A t \in Threads : LocalsBelong(t)

\* Joined is an equivalence, holds of every pair of E and grows with E.
LEMMA JoinedIsEquivalence ==
  ASSUME NEW E
  PROVE  /\ \A m : Joined(m, m, E)
         /\ \A m, n : Joined(m, n, E) => Joined(n, m, E)
         /\ \A m, n, o : Joined(m, n, E) /\ Joined(n, o, E) => Joined(m, o, E)
BY DEF Joined

\* A pair of E joins its nets.
LEMMA PairsAreJoined ==
  ASSUME NEW E, NEW p \in E
  PROVE  Joined(p[1], p[2], E)
BY DEF Joined

\* More pairs join no fewer nets.
LEMMA JoinedGrows ==
  ASSUME NEW E, NEW F, E \subseteq F, NEW m, NEW n, Joined(m, n, E)
  PROVE  Joined(m, n, F)
BY DEF Joined

\* So do the two relations to my_net_ids.
LEMMA BelongingGrows ==
  ASSUME NEW E, NEW F, E \subseteq F
  PROVE  /\ \A n, my : BelongsTo(n, my, E) => BelongsTo(n, my, F)
         /\ \A my1, my2 : SameOrigin(my1, my2, E) => SameOrigin(my1, my2, F)
BY JoinedGrows DEF BelongsTo, SameOrigin

\* A net that belongs to one of two my_net_ids of the same origin belongs to the
\* other: the net built with a my_net_id is unique.
LEMMA BelongingMoves ==
  ASSUME NEW E, NEW n, NEW my1, NEW my2,
         BelongsTo(n, my2, E), SameOrigin(my1, my2, E)
  PROVE  BelongsTo(n, my1, E)
<1>1. PICK k \in Nets : FirstNets[k].my = my2 /\ Joined(n, k, E)
      BY DEF BelongsTo
<1>2. PICK i \in Nets, j \in Nets :
        FirstNets[i].my = my1 /\ FirstNets[j].my = my2 /\ Joined(i, j, E)
      BY DEF SameOrigin
<1>3. j = k
      BY <1>1, <1>2, FirstGroupsAreSingle DEF Nets
<1>4. Joined(n, i, E)
      BY <1>1, <1>2, <1>3, JoinedIsEquivalence
<1> QED
    BY <1>2, <1>4 DEF BelongsTo

\* Two joined nets have my_net_ids of the same origin.
LEMMA OriginOfJoined ==
  ASSUME NEW E, NEW m, NEW n, NEW my1, NEW my2, Joined(m, n, E),
         BelongsTo(m, my1, E), BelongsTo(n, my2, E)
  PROVE  SameOrigin(my1, my2, E) /\ SameOrigin(my2, my1, E)
<1>1. PICK i \in Nets : FirstNets[i].my = my1 /\ Joined(m, i, E)
      BY DEF BelongsTo
<1>2. PICK j \in Nets : FirstNets[j].my = my2 /\ Joined(n, j, E)
      BY DEF BelongsTo
<1>3. Joined(i, j, E) /\ Joined(j, i, E)
      BY <1>1, <1>2, JoinedIsEquivalence
<1> QED
    BY <1>1, <1>2, <1>3 DEF SameOrigin

\* At first every net belongs to its own my_net_id.
LEMMA MergeInvInit == Init => MergeInv
<1> SUFFICES ASSUME Init PROVE MergeInv
    OBVIOUS
<1>1. RowsBelong
      BY JoinedIsEquivalence DEF Init, RowsBelong, BelongsTo, Nets
<1>2. \A t \in Threads : LocalsBelong(t)
      BY DEF Init, MergeInit, NoReq, LocalsBelong
<1> QED
    BY <1>1, <1>2 DEF MergeInv

\* The facts about a request outlive what other requests do.
LEMMA LocalsOutlive ==
  ASSUME NEW u \in Threads, LocalsBelong(u), req'[u] = req[u], asked \subseteq asked'
  PROVE  LocalsBelong(u)'
BY BelongingGrows DEF LocalsBelong

\* A statement of thread t that changes no row keeps the invariant when it holds
\* of the new locals of t.
LEMMA ReadKeepsMergeInv ==
  ASSUME TypeInv, MergeInv, NEW t \in Threads, NEW locals,
         Goto(t, locals), building' = building, asked \subseteq asked',
         req'[t] = locals => LocalsBelong(t)'
  PROVE  MergeInv'
<1>1. req'[t] = locals /\ \A u \in Threads : u # t => req'[u] = req[u]
      BY DEF Goto, TypeInv, TypeOK
<1>2. RowsBelong'
      BY BelongingGrows DEF MergeInv, RowsBelong
<1>3. \A u \in Threads : LocalsBelong(u)'
      BY <1>1, LocalsOutlive DEF MergeInv
<1> QED
    BY <1>2, <1>3 DEF MergeInv

\* The end of a request keeps the invariant.
LEMMA FinishKeepsMergeInv ==
  ASSUME TypeInv, MergeInv, NEW t \in Threads,
         Finish(t), building' = building, asked' = asked
  PROVE  MergeInv'
<1>1. req'[t] = NoReq => LocalsBelong(t)'
      BY NoReqType DEF LocalsBelong
<1> QED
    BY <1>1, NoReqType, ReadKeepsMergeInv DEF Finish

\* Every statement, arrival, death and drop keeps the invariant.
LEMMA MergeInvStep == TypeInv /\ MergeInv /\ [Next]_mergeVars => MergeInv'
<1> SUFFICES ASSUME TypeInv, MergeInv, [Next]_mergeVars PROVE MergeInv'
    OBVIOUS
<1>0. /\ DOMAIN building \subseteq Nets
      /\ building \in [DOMAIN building -> NetRow]
      /\ req \in [Threads -> Request]
      BY DEF TypeInv, TypeOK, Nets
<1>m. \A t \in Threads : LocalsBelong(t)
      BY DEF MergeInv
<1>1. ASSUME NEW t \in Threads, ReadNets(t) PROVE MergeInv'
  <2> DEFINE new == [NoReq EXCEPT
                       !.pc = IF building = EmptyTable THEN "list" ELSE "pairs",
                       !.fresh = ProposePairs(building)]
  <2>1. new.pc \in {"list", "pairs"}
        BY DEF NoReq
  <2>2. req'[t] = new => LocalsBelong(t)'
        BY <2>1 DEF LocalsBelong
  <2> QED
      BY <1>1, <2>2, ReadKeepsMergeInv DEF ReadNets
<1>2. ASSUME NEW t \in Threads, ReadPairs(t) PROVE MergeInv'
  <2> DEFINE new == [req[t] EXCEPT !.pc = "insert", !.fresh = @ \ DOMAIN candidates]
  <2>1. new.pc = "insert"
        BY <1>0 DEF Request
  <2>2. req'[t] = new => LocalsBelong(t)'
        BY <2>1 DEF LocalsBelong
  <2> QED
      BY <1>2, <2>2, ReadKeepsMergeInv DEF ReadPairs
<1>3. ASSUME NEW t \in Threads, InsertCandidate(t) PROVE MergeInv'
  <2>1. PICK p \in req[t].fresh : Goto(t, [req[t] EXCEPT !.fresh = @ \ {p}])
        BY <1>3 DEF InsertCandidate
  <2> DEFINE new == [req[t] EXCEPT !.fresh = @ \ {p}]
  <2>2. new.pc = "insert"
        BY <1>0, <1>3 DEF Request, InsertCandidate, At
  <2>3. req'[t] = new => LocalsBelong(t)'
        BY <2>2 DEF LocalsBelong
  <2> QED
      BY <1>3, <2>1, <2>3, ReadKeepsMergeInv DEF InsertCandidate
<1>4. ASSUME NEW t \in Threads, ListPending(t) PROVE MergeInv'
      BY <1>4, FinishKeepsMergeInv DEF ListPending
<1>5. ASSUME NEW t \in Threads, NEW p \in Pairs, NEW decision \in {"approve", "reject"},
             Decide(t, p, decision)
      PROVE  MergeInv'
  <2> DEFINE new == [NoReq EXCEPT
                       !.pc = IF decision = "approve" THEN "rowA" ELSE "reject",
                       !.pair = p]
  <2>1. /\ new.pair = p
        /\ new.pc = IF decision = "approve" THEN "rowA" ELSE "reject"
        BY DEF NoReq
  <2>2. decision = "approve" => p \in asked'
        BY <1>5 DEF Decide
  <2>3. req'[t] = new => LocalsBelong(t)'
        BY <2>1, <2>2 DEF LocalsBelong
  <2>4. asked \subseteq asked'
        BY <1>5 DEF Decide
  <2> QED
      BY <1>5, <2>3, <2>4, ReadKeepsMergeInv DEF Decide
<1>6. ASSUME NEW t \in Threads, Reject(t) PROVE MergeInv'
      BY <1>6, FinishKeepsMergeInv DEF Reject
\* row_a's my_net_id is the one its row belongs to.
<1>7. ASSUME NEW t \in Threads, ReadRowA(t) PROVE MergeInv'
  <2> DEFINE a == req[t].pair[1]
             my == Current(building, a, BlankRow).my
             new == [req[t] EXCEPT !.pc = "rowB", !.myA = my]
  <2>1. new.pc = "rowB" /\ new.pair = req[t].pair /\ new.myA = my
        BY <1>0 DEF Request
  <2>2. req[t].pair \in asked
        BY <1>7, <1>m DEF ReadRowA, At, LocalsBelong
  <2>3. my # Null => BelongsTo(a, my, asked)
        BY DEF MergeInv, RowsBelong, Current, BlankRow
  <2>4. asked' = asked
        BY <1>7 DEF ReadRowA
  <2>5. req'[t] = new => LocalsBelong(t)'
        BY <2>1, <2>2, <2>3, <2>4 DEF LocalsBelong
  <2> QED
      BY <1>7, <2>4, <2>5, ReadKeepsMergeInv DEF ReadRowA
\* The pair is approved, so the groups of its two rows have one origin, although
\* they were read at different times.
<1>8. ASSUME NEW t \in Threads, ReadRowB(t) PROVE MergeInv'
  <2> DEFINE a == req[t].myA
             b == Current(building, req[t].pair[2], BlankRow).my
             new == [req[t] EXCEPT !.pc = "find",
                                   !.survivor = IF a < b THEN a ELSE b,
                                   !.absorbed = IF a < b THEN b ELSE a]
             same == [req[t] EXCEPT !.pc = "mark"]
  <2>0. asked' = asked /\ building' = building
        BY <1>8 DEF ReadRowB
  <2>1. CASE a = Null \/ b = Null
    <3>1. Finish(t)
          BY <1>8, <2>1 DEF ReadRowB
    <3> QED
        BY <2>0, <3>1, FinishKeepsMergeInv
  <2>2. CASE a # Null /\ b # Null /\ a = b
    <3>1. Goto(t, same)
          BY <1>8, <2>2 DEF ReadRowB
    <3>2. same.pc = "mark"
          BY <1>0 DEF Request
    <3>3. req'[t] = same => LocalsBelong(t)'
          BY <3>2 DEF LocalsBelong
    <3> QED
        BY <2>0, <3>1, <3>3, ReadKeepsMergeInv
  <2>3. CASE a # Null /\ b # Null /\ a # b
    <3>1. Goto(t, new)
          BY <1>8, <2>3 DEF ReadRowB
    <3>2. /\ new.pc = "find" /\ new.pair = req[t].pair
          /\ new.survivor = IF a < b THEN a ELSE b
          /\ new.absorbed = IF a < b THEN b ELSE a
          BY <1>0 DEF Request
    <3>3. req[t].pair \in asked /\ BelongsTo(req[t].pair[1], a, asked)
          BY <1>8, <1>m, <2>3 DEF ReadRowB, At, LocalsBelong
    <3>4. BelongsTo(req[t].pair[2], b, asked)
          BY <2>3 DEF MergeInv, RowsBelong, Current, BlankRow
    <3>5. SameOrigin(a, b, asked) /\ SameOrigin(b, a, asked)
          BY <3>3, <3>4, PairsAreJoined, OriginOfJoined
    <3>6. SameOrigin(new.survivor, new.absorbed, asked)
          BY <3>2, <3>5
    <3>7. req'[t] = new => LocalsBelong(t)'
          BY <2>0, <3>2, <3>3, <3>6 DEF LocalsBelong
    <3> QED
        BY <2>0, <3>1, <3>7, ReadKeepsMergeInv
  <2> QED
      BY <2>1, <2>2, <2>3
\* Every row found carries the absorbed my_net_id, so it belongs to it.
<1>9. ASSUME NEW t \in Threads, FindAbsorbed(t) PROVE MergeInv'
  <2>1. PICK rows \in SUBSET GroupRows(req[t].absorbed) :
          Goto(t, [req[t] EXCEPT !.pc = "move", !.found = rows, !.todo = rows])
        BY <1>9 DEF FindAbsorbed
  <2> DEFINE new == [req[t] EXCEPT !.pc = "move", !.found = rows, !.todo = rows]
  <2>2. /\ new.pc = "move" /\ new.pair = req[t].pair /\ new.todo = rows
        /\ new.survivor = req[t].survivor /\ new.absorbed = req[t].absorbed
        BY <1>0 DEF Request
  <2>3. \A n \in rows : BelongsTo(n, req[t].absorbed, asked)
        BY DEF GroupRows, MergeInv, RowsBelong
  <2>4. req[t].pair \in asked /\ SameOrigin(req[t].survivor, req[t].absorbed, asked)
        BY <1>9, <1>m DEF FindAbsorbed, At, LocalsBelong
  <2>5. asked' = asked
        BY <1>9 DEF FindAbsorbed
  <2>6. req'[t] = new => LocalsBelong(t)'
        BY <2>2, <2>3, <2>4, <2>5 DEF LocalsBelong
  <2> QED
      BY <1>9, <2>1, <2>5, <2>6, ReadKeepsMergeInv DEF FindAbsorbed
\* A moved row belonged to the absorbed group when it was found; whatever its row
\* says by now, it belongs to the survivor too.
<1>10. ASSUME NEW t \in Threads, MoveNet(t) PROVE MergeInv'
  <2> DEFINE row(n) == [Current(building, n, BlankRow) EXCEPT !.my = req[t].survivor]
  <2>1. PICK n \in req[t].todo :
          /\ building' = Insert(building, n, row(n))
          /\ Goto(t, [req[t] EXCEPT !.todo = @ \ {n}])
        BY <1>10 DEF MoveNet
  <2> DEFINE new == [req[t] EXCEPT !.todo = @ \ {n}]
  <2>2. asked' = asked /\ req[t].pc = "move"
        BY <1>10 DEF MoveNet, At
  <2>3. /\ req[t].pair \in asked
        /\ SameOrigin(req[t].survivor, req[t].absorbed, asked)
        /\ \A k \in req[t].todo : BelongsTo(k, req[t].absorbed, asked)
        BY <1>m, <2>2 DEF LocalsBelong
  <2>4. BelongsTo(n, req[t].survivor, asked)
        BY <2>3, BelongingMoves
  <2>5. row(n).my = req[t].survivor
        BY <1>0 DEF Current, BlankRow, NetRow
  <2>6. RowsBelong'
    <3>1. /\ DOMAIN building' = DOMAIN building \cup {n}
          /\ building'[n].my = req[t].survivor
          /\ \A k \in DOMAIN building : k # n => building'[k] = building[k]
          BY <2>1, <2>5 DEF Insert
    <3> QED
        BY <2>2, <2>4, <3>1 DEF MergeInv, RowsBelong
  <2>7. /\ new.pc = "move" /\ new.pair = req[t].pair /\ new.todo \subseteq req[t].todo
        /\ new.survivor = req[t].survivor /\ new.absorbed = req[t].absorbed
        BY <1>0, <2>2 DEF Request
  <2>8. req'[t] = new /\ \A u \in Threads : u # t => req'[u] = req[u]
        BY <1>0, <2>1 DEF Goto
  <2>9. LocalsBelong(t)'
        BY <2>2, <2>3, <2>7, <2>8 DEF LocalsBelong
  <2>10. \A u \in Threads : u # t => LocalsBelong(u)'
        BY <1>m, <2>2, <2>8, LocalsOutlive
  <2> QED
      BY <2>6, <2>9, <2>10 DEF MergeInv
<1>11. ASSUME NEW t \in Threads, MarkApproved(t) PROVE MergeInv'
      BY <1>11, FinishKeepsMergeInv DEF MarkApproved
<1>12. ASSUME NEW t \in Threads, Abort(t) PROVE MergeInv'
      BY <1>12, FinishKeepsMergeInv DEF Abort
<1>13. CASE DropBuilding
  <2>1. RowsBelong'
        BY <1>13 DEF DropBuilding, RowsBelong, EmptyTable
  <2>2. \A t \in Threads : LocalsBelong(t)'
        BY <1>13, <1>m, LocalsOutlive DEF DropBuilding
  <2> QED
      BY <2>1, <2>2 DEF MergeInv
<1>14. CASE UNCHANGED mergeVars
      BY <1>14 DEF mergeVars, MergeInv, RowsBelong, LocalsBelong
<1> QED
    BY <1>1, <1>2, <1>3, <1>4, <1>5, <1>6, <1>7, <1>8, <1>9, <1>10, <1>11,
       <1>12, <1>13, <1>14 DEF Next, Accept, Step, Detect, Approve

\* Two rows with one my_net_id belong to the net built with it, and so are joined.
LEMMA MergeInvSuffices == MergeInv => NoUnaskedMerge
<1> SUFFICES ASSUME MergeInv, NEW m \in DOMAIN building, NEW n \in DOMAIN building,
                    building[m].my = building[n].my
             PROVE  Linked(m, n, asked)
    BY DEF NoUnaskedMerge
<1>1. PICK i \in Nets : FirstNets[i].my = building[m].my /\ Joined(m, i, asked)
      BY DEF MergeInv, RowsBelong, BelongsTo
<1>2. PICK j \in Nets : FirstNets[j].my = building[n].my /\ Joined(n, j, asked)
      BY DEF MergeInv, RowsBelong, BelongsTo
<1>3. i = j
      BY <1>1, <1>2, FirstGroupsAreSingle DEF Nets
<1>4. Joined(m, n, asked)
      BY <1>1, <1>2, <1>3, JoinedIsEquivalence
<1> QED
    BY <1>4 DEF Joined, Linked, Nets

\* Nothing is ever merged on its own, whatever requests race or die and whenever
\* ff_net_building is dropped: nets with one my_net_id are joined by pairs whose
\* approval passed the checks of apply_decision.
THEOREM NothingMergesUnasked == Spec => []NoUnaskedMerge
<1>1. Spec => []TypeInv
      BY TypeInit, TypeStep, PTL DEF Spec
<1> QED
    BY <1>1, MergeInvInit, MergeInvStep, MergeInvSuffices, PTL DEF Spec

------------------------------------------------------------------------------
\* Approvals only lower my_net_ids.

\* A net's my_net_id is at most the one it was built with, and a request that is
\* to move it holds no higher one.
SurvivorsAreLow ==
  \A t \in Threads :
    /\ req[t].pc \in {"find", "move"} => req[t].survivor < req[t].absorbed
    /\ req[t].pc = "move" =>
         \A n \in req[t].todo : req[t].absorbed <= FirstNets[n].my

BirthInv == NeverAboveBirth /\ SurvivorsAreLow

\* Requests begin with no group to move, and every row as it was built.
LEMMA BirthInvInit == Init => BirthInv
<1> SUFFICES ASSUME Init PROVE BirthInv
    OBVIOUS
<1>1. NeverAboveBirth
      BY FirstNetsAreNets DEF Init, NeverAboveBirth, NetRow
<1>2. SurvivorsAreLow
      BY DEF Init, MergeInit, NoReq, SurvivorsAreLow
<1> QED
    BY <1>1, <1>2 DEF BirthInv

\* A statement that changes no row, after which its request is not about to move
\* rows, keeps the invariant.
LEMMA ReadKeepsBirthInv ==
  ASSUME TypeInv, BirthInv, NEW t \in Threads, NEW locals, Goto(t, locals),
         building' = building, locals.pc \notin {"find", "move"}
  PROVE  BirthInv'
<1>1. req'[t] = locals /\ \A u \in Threads : u # t => req'[u] = req[u]
      BY DEF Goto, TypeInv, TypeOK
<1>2. SurvivorsAreLow'
      BY <1>1 DEF BirthInv, SurvivorsAreLow
<1> QED
    BY <1>2 DEF BirthInv, NeverAboveBirth

\* The end of a request is such a statement.
LEMMA FinishKeepsBirthInv ==
  ASSUME TypeInv, BirthInv, NEW t \in Threads, Finish(t), building' = building
  PROVE  BirthInv'
BY NoReqType, ReadKeepsBirthInv DEF Finish

\* Every statement, arrival, death and drop keeps the invariant.
LEMMA BirthInvStep == TypeInv /\ BirthInv /\ [Next]_mergeVars => BirthInv'
<1> SUFFICES ASSUME TypeInv, BirthInv, [Next]_mergeVars PROVE BirthInv'
    OBVIOUS
<1>0. /\ DOMAIN building \subseteq DOMAIN FirstNets
      /\ building \in [DOMAIN building -> NetRow]
      /\ req \in [Threads -> Request]
      BY DEF TypeInv, TypeOK
<1>b. NeverAboveBirth /\ SurvivorsAreLow
      BY DEF BirthInv
<1>1. ASSUME NEW t \in Threads, ReadNets(t) PROVE BirthInv'
  <2> DEFINE new == [NoReq EXCEPT
                       !.pc = IF building = EmptyTable THEN "list" ELSE "pairs",
                       !.fresh = ProposePairs(building)]
  <2>1. new.pc \notin {"find", "move"}
        BY DEF NoReq
  <2> QED
      BY <1>1, <2>1, ReadKeepsBirthInv DEF ReadNets
<1>2. ASSUME NEW t \in Threads, ReadPairs(t) PROVE BirthInv'
  <2> DEFINE new == [req[t] EXCEPT !.pc = "insert", !.fresh = @ \ DOMAIN candidates]
  <2>1. new.pc \notin {"find", "move"}
        BY <1>0 DEF Request
  <2> QED
      BY <1>2, <2>1, ReadKeepsBirthInv DEF ReadPairs
<1>3. ASSUME NEW t \in Threads, InsertCandidate(t) PROVE BirthInv'
  <2>1. PICK p \in req[t].fresh : Goto(t, [req[t] EXCEPT !.fresh = @ \ {p}])
        BY <1>3 DEF InsertCandidate
  <2> DEFINE new == [req[t] EXCEPT !.fresh = @ \ {p}]
  <2>2. new.pc \notin {"find", "move"}
        BY <1>0, <1>3 DEF Request, InsertCandidate, At
  <2> QED
      BY <1>3, <2>1, <2>2, ReadKeepsBirthInv DEF InsertCandidate
<1>4. ASSUME NEW t \in Threads, ListPending(t) PROVE BirthInv'
      BY <1>4, FinishKeepsBirthInv DEF ListPending
<1>5. ASSUME NEW t \in Threads, NEW p \in Pairs, NEW decision \in {"approve", "reject"},
             Decide(t, p, decision)
      PROVE  BirthInv'
  <2> DEFINE new == [NoReq EXCEPT
                       !.pc = IF decision = "approve" THEN "rowA" ELSE "reject",
                       !.pair = p]
  <2>1. new.pc \notin {"find", "move"}
        BY DEF NoReq
  <2> QED
      BY <1>5, <2>1, ReadKeepsBirthInv DEF Decide
<1>6. ASSUME NEW t \in Threads, Reject(t) PROVE BirthInv'
      BY <1>6, FinishKeepsBirthInv DEF Reject
<1>7. ASSUME NEW t \in Threads, ReadRowA(t) PROVE BirthInv'
  <2> DEFINE new == [req[t] EXCEPT
                       !.pc = "rowB",
                       !.myA = Current(building, req[t].pair[1], BlankRow).my]
  <2>1. new.pc \notin {"find", "move"}
        BY <1>0 DEF Request
  <2> QED
      BY <1>7, <2>1, ReadKeepsBirthInv DEF ReadRowA
\* Of two different groups the lower one survives.
<1>8. ASSUME NEW t \in Threads, ReadRowB(t) PROVE BirthInv'
  <2> DEFINE a == req[t].myA
             b == Current(building, req[t].pair[2], BlankRow).my
             new == [req[t] EXCEPT !.pc = "find",
                                   !.survivor = IF a < b THEN a ELSE b,
                                   !.absorbed = IF a < b THEN b ELSE a]
             same == [req[t] EXCEPT !.pc = "mark"]
  <2>0. building' = building
        BY <1>8 DEF ReadRowB
  <2>1. CASE a = Null \/ b = Null
    <3>1. Finish(t)
          BY <1>8, <2>1 DEF ReadRowB
    <3> QED
        BY <2>0, <3>1, FinishKeepsBirthInv
  <2>2. CASE a # Null /\ b # Null /\ a = b
    <3>1. Goto(t, same)
          BY <1>8, <2>2 DEF ReadRowB
    <3>2. same.pc \notin {"find", "move"}
          BY <1>0 DEF Request
    <3> QED
        BY <2>0, <3>1, <3>2, ReadKeepsBirthInv
  <2>3. CASE a # Null /\ b # Null /\ a # b
    <3>1. Goto(t, new)
          BY <1>8, <2>3 DEF ReadRowB
    <3>2. a \in Int /\ b \in Int
          BY <1>0 DEF Current, BlankRow, NetRow, Request, Null
    <3>3. new.pc = "find" /\ new.survivor < new.absorbed
          BY <1>0, <2>3, <3>2 DEF Request
    <3>4. req'[t] = new /\ \A u \in Threads : u # t => req'[u] = req[u]
          BY <1>0, <3>1 DEF Goto
    <3>5. SurvivorsAreLow'
          BY <1>b, <3>3, <3>4 DEF SurvivorsAreLow
    <3> QED
        BY <1>b, <2>0, <3>5 DEF BirthInv, NeverAboveBirth
  <2> QED
      BY <2>1, <2>2, <2>3
\* The rows found carry the absorbed my_net_id, which is at most the one each was
\* built with.
<1>9. ASSUME NEW t \in Threads, FindAbsorbed(t) PROVE BirthInv'
  <2>1. PICK rows \in SUBSET GroupRows(req[t].absorbed) :
          Goto(t, [req[t] EXCEPT !.pc = "move", !.found = rows, !.todo = rows])
        BY <1>9 DEF FindAbsorbed
  <2> DEFINE new == [req[t] EXCEPT !.pc = "move", !.found = rows, !.todo = rows]
  <2>2. /\ new.pc = "move" /\ new.todo = rows
        /\ new.survivor = req[t].survivor /\ new.absorbed = req[t].absorbed
        BY <1>0 DEF Request
  <2>3. \A n \in rows : req[t].absorbed <= FirstNets[n].my
        BY <1>b DEF GroupRows, NeverAboveBirth
  <2>4. req[t].survivor < req[t].absorbed
        BY <1>9, <1>b DEF FindAbsorbed, At, SurvivorsAreLow
  <2>5. req'[t] = new /\ \A u \in Threads : u # t => req'[u] = req[u]
        BY <1>0, <2>1 DEF Goto
  <2>6. SurvivorsAreLow'
        BY <1>b, <2>2, <2>3, <2>4, <2>5 DEF SurvivorsAreLow
  <2> QED
      BY <1>9, <1>b, <2>6 DEF FindAbsorbed, BirthInv, NeverAboveBirth
<1>10. ASSUME NEW t \in Threads, MoveNet(t) PROVE BirthInv'
  <2> DEFINE row(n) == [Current(building, n, BlankRow) EXCEPT !.my = req[t].survivor]
  <2>1. PICK n \in req[t].todo :
          /\ building' = Insert(building, n, row(n))
          /\ Goto(t, [req[t] EXCEPT !.todo = @ \ {n}])
        BY <1>10 DEF MoveNet
  <2> DEFINE new == [req[t] EXCEPT !.todo = @ \ {n}]
  <2>2. req[t].pc = "move"
        BY <1>10 DEF MoveNet, At
  <2>3. /\ req[t].survivor < req[t].absorbed
        /\ \A k \in req[t].todo : req[t].absorbed <= FirstNets[k].my
        BY <1>b, <2>2 DEF SurvivorsAreLow
  <2>4. row(n).my = req[t].survivor
        BY <1>0 DEF Current, BlankRow, NetRow
  <2>5. /\ DOMAIN building' = DOMAIN building \cup {n}
        /\ building'[n].my = req[t].survivor
        /\ \A k \in DOMAIN building : k # n => building'[k] = building[k]
        BY <2>1, <2>4 DEF Insert
  <2>6. /\ n \in DOMAIN FirstNets
        /\ req[t].survivor \in Int /\ req[t].absorbed \in Int
        /\ FirstNets[n].my \in Int
        BY <1>0, FirstNetsAreNets DEF Request, NetRow, Null
  <2>7. req[t].survivor <= FirstNets[n].my
        BY <2>3, <2>6
  <2>8. NeverAboveBirth'
        BY <1>b, <2>5, <2>7 DEF NeverAboveBirth
  <2>9. /\ new.pc = "move" /\ new.todo \subseteq req[t].todo
        /\ new.survivor = req[t].survivor /\ new.absorbed = req[t].absorbed
        BY <1>0, <2>2 DEF Request
  <2>10. req'[t] = new /\ \A u \in Threads : u # t => req'[u] = req[u]
        BY <1>0, <2>1 DEF Goto
  <2>11. SurvivorsAreLow'
        BY <1>b, <2>3, <2>9, <2>10 DEF SurvivorsAreLow
  <2> QED
      BY <2>8, <2>11 DEF BirthInv
<1>11. ASSUME NEW t \in Threads, MarkApproved(t) PROVE BirthInv'
      BY <1>11, FinishKeepsBirthInv DEF MarkApproved
<1>12. ASSUME NEW t \in Threads, Abort(t) PROVE BirthInv'
      BY <1>12, FinishKeepsBirthInv DEF Abort
<1>13. CASE DropBuilding
      BY <1>13, <1>b DEF DropBuilding, BirthInv, NeverAboveBirth, SurvivorsAreLow, EmptyTable
<1>14. CASE UNCHANGED mergeVars
      BY <1>14, <1>b DEF mergeVars, BirthInv, NeverAboveBirth, SurvivorsAreLow
<1> QED
    BY <1>1, <1>2, <1>3, <1>4, <1>5, <1>6, <1>7, <1>8, <1>9, <1>10, <1>11,
       <1>12, <1>13, <1>14 DEF Next, Accept, Step, Detect, Approve

\* However approvals race, a net never carries a my_net_id above the one it was
\* built with: apply_decision folds the higher group into the lower one.
THEOREM GroupsOnlyFold == Spec => []NeverAboveBirth
<1>1. Spec => []TypeInv
      BY TypeInit, TypeStep, PTL DEF Spec
<1>2. BirthInv => NeverAboveBirth
      BY DEF BirthInv
<1> QED
    BY <1>1, <1>2, BirthInvInit, BirthInvStep, PTL DEF Spec

------------------------------------------------------------------------------
\* One request at a time.

\* No request dies and no table is dropped, and no group is above the LIMIT of its query.
Undisturbed == MaxFaults = 0 /\ IsFiniteSet(Nets) /\ Cardinality(Nets) <= GroupLimit

\* The group number of net n while thread t works: a row that is being moved still counts
\* as one of the absorbed group.
Number(t, n) ==
  IF At(t, "move") /\ n \in req[t].found THEN req[t].absorbed ELSE building[n].my

\* The tables between two statements: no net is lost, only nets are paired, and the nets
\* of every approved pair are in one group.
Approvals(t) ==
  /\ DOMAIN building = Nets
  /\ \A p \in DOMAIN candidates : p[1] \in Nets /\ p[2] \in Nets
  /\ \A p \in DOMAIN candidates :
       candidates[p] = "approved" => Number(t, p[1]) = Number(t, p[2])

\* What a detection has left to insert is what matches and is not recorded yet.
Detecting(t) ==
  /\ At(t, "pairs") => req[t].fresh = ProposePairs(building)
  /\ At(t, "insert") => req[t].fresh = ProposePairs(building) \ DOMAIN candidates
  /\ At(t, "list") => ProposePairs(building) = {}

\* What an approval has read is what the tables hold.
Approving(t) ==
  LET pair == req[t].pair
      a    == building[pair[1]].my
      b    == building[pair[2]].my
  IN  /\ req[t].pc \in Deciding =>
           pair \in DOMAIN candidates /\ candidates[pair] = "pending"
      /\ At(t, "rowB") => req[t].myA = a
      /\ At(t, "mark") => a = b
      /\ At(t, "find") => a # b /\ {req[t].survivor, req[t].absorbed} = {a, b}
      /\ At(t, "move") =>
           /\ req[t].survivor # req[t].absorbed
           /\ {req[t].survivor, req[t].absorbed} = {Number(t, pair[1]), Number(t, pair[2])}

\* The rows of the absorbed group are the rows found that are still to be moved.
Moved(t) ==
  At(t, "move") =>
    /\ req[t].todo \subseteq req[t].found
    /\ \A n \in Nets :
         building[n].my = IF n \in req[t].todo THEN req[t].absorbed
                          ELSE IF n \in req[t].found THEN req[t].survivor
                          ELSE Number(t, n)
    /\ \A n \in Nets \ req[t].found : building[n].my # req[t].absorbed

Serial(t) == Approvals(t) /\ Detecting(t) /\ Approving(t) /\ Moved(t)

\* Nothing is recorded and nothing is under way.
LEMMA SerialStart == ASSUME NEW t, Threads = {t} PROVE Init => Serial(t)
BY DEF Init, MergeInit, Serial, Approvals, Detecting, Approving, Moved, At, NoReq, Nets,
       EmptyTable, Deciding

\* An idle thread holds nothing to keep.
LEMMA IdleKeepsSerial ==
  ASSUME NEW t, req'[t].pc = "idle", Approvals(t)'
  PROVE  Serial(t)'
BY DEF Serial, Detecting, Approving, Moved, At, Deciding

\* A statement that changes no table, before or after which no row is being moved.
LEMMA ReadKeepsApprovals ==
  ASSUME NEW t, Approvals(t), ~At(t, "move"), ~At(t, "move")',
         UNCHANGED <<building, candidates>>
  PROVE  Approvals(t)'
BY DEF Approvals, Number

\* Recording an undecided pair.
LEMMA RecordKeepsApprovals ==
  ASSUME NEW t, Approvals(t), ~At(t, "move"), ~At(t, "move")', building' = building,
         NEW p, p[1] \in Nets, p[2] \in Nets, NEW status, SetStatus(p, status),
         status = "approved" => building[p[1]].my = building[p[2]].my
  PROVE  Approvals(t)'
BY DEF Approvals, Number, SetStatus, Insert

\* Every statement of the only thread keeps it.
LEMMA SerialStep ==
  ASSUME NEW t, Threads = {t}, Undisturbed, TypeInv, Serial(t), [Next]_mergeVars
  PROVE  Serial(t)'
<1>0. /\ DOMAIN building = Nets /\ building \in [Nets -> NetRow]
      /\ req \in [Threads -> Request] /\ req[t] \in Request
      BY DEF TypeInv, TypeOK, Serial, Approvals
<1>a. Approvals(t) /\ Detecting(t) /\ Approving(t) /\ Moved(t)
      BY DEF Serial
<1>p. \A p \in DOMAIN candidates : p[1] \in Nets /\ p[2] \in Nets
      BY DEF Serial, Approvals
<1>g. \A locals : Goto(t, locals) => req'[t] = locals
      BY <1>0 DEF Goto
<1>f. Finish(t) => req'[t].pc = "idle" /\ ~At(t, "move")'
      BY <1>g DEF Finish, NoReq, At
<1>1. CASE ReadNets(t)
  <2> DEFINE new == [NoReq EXCEPT
                       !.pc = IF building = EmptyTable THEN "list" ELSE "pairs",
                       !.fresh = ProposePairs(building)]
  <2>1. req'[t] = new /\ UNCHANGED <<building, candidates>> /\ ~At(t, "move")
        BY <1>1, <1>g DEF ReadNets, Idle, At
  <2>2. /\ new.pc = (IF building = EmptyTable THEN "list" ELSE "pairs")
        /\ new.fresh = ProposePairs(building)
        BY DEF NoReq
  <2>3. building = EmptyTable => ProposePairs(building) = {}
        BY DEF EmptyTable, ProposePairs
  <2> HIDE DEF new
  <2>4. Approvals(t)'
        BY <1>a, <2>1, <2>2, ReadKeepsApprovals DEF At
  <2>5. Detecting(t)' /\ Approving(t)' /\ Moved(t)'
        BY <2>1, <2>2, <2>3 DEF Detecting, Approving, Moved, At, Deciding
  <2> QED
      BY <2>4, <2>5 DEF Serial
<1>2. CASE ReadPairs(t)
  <2> DEFINE new == [req[t] EXCEPT !.pc = "insert", !.fresh = @ \ DOMAIN candidates]
  <2>1. req'[t] = new /\ UNCHANGED <<building, candidates>> /\ At(t, "pairs")
        BY <1>2, <1>g DEF ReadPairs
  <2>2. new.pc = "insert" /\ new.fresh = req[t].fresh \ DOMAIN candidates
        BY <1>0 DEF Request
  <2>3. req[t].fresh = ProposePairs(building)
        BY <1>a, <2>1 DEF Detecting
  <2> HIDE DEF new
  <2>4. Approvals(t)'
        BY <1>a, <2>1, <2>2, ReadKeepsApprovals DEF At
  <2>5. Detecting(t)' /\ Approving(t)' /\ Moved(t)'
        BY <2>1, <2>2, <2>3 DEF Detecting, Approving, Moved, At, Deciding
  <2> QED
      BY <2>4, <2>5 DEF Serial
<1>3. CASE InsertCandidate(t)
  <2>1. PICK p \in req[t].fresh :
          /\ SetStatus(p, "pending")
          /\ Goto(t, [req[t] EXCEPT !.fresh = @ \ {p}])
        BY <1>3 DEF InsertCandidate
  <2> DEFINE new == [req[t] EXCEPT !.fresh = @ \ {p}]
  <2>2. req'[t] = new /\ building' = building /\ At(t, "insert")
        BY <1>3, <1>g, <2>1 DEF InsertCandidate
  <2>3. new.pc = "insert" /\ new.fresh = req[t].fresh \ {p}
        BY <1>0, <2>2 DEF Request, At
  <2>4. req[t].fresh = ProposePairs(building) \ DOMAIN candidates
        BY <1>a, <2>2 DEF Detecting
  <2>5. p[1] \in Nets /\ p[2] \in Nets /\ DOMAIN candidates' = DOMAIN candidates \cup {p}
        BY <1>0, <2>1, <2>4 DEF ProposePairs, SetStatus, Insert
  <2> HIDE DEF new
  <2>6. Approvals(t)'
        BY <1>a, <2>1, <2>2, <2>3, <2>5, RecordKeepsApprovals DEF At
  <2>7. Detecting(t)' /\ Approving(t)' /\ Moved(t)'
        BY <2>2, <2>3, <2>4, <2>5 DEF Detecting, Approving, Moved, At, Deciding
  <2> QED
      BY <2>6, <2>7 DEF Serial
<1>4. CASE ListPending(t)
  <2>1. ~At(t, "move") /\ UNCHANGED <<building, candidates>> /\ Finish(t)
        BY <1>4 DEF ListPending, At
  <2> QED
      BY <1>a, <1>f, <2>1, ReadKeepsApprovals, IdleKeepsSerial
<1>5. ASSUME NEW p \in Pairs, NEW decision \in {"approve", "reject"}, Decide(t, p, decision)
      PROVE  Serial(t)'
  <2> DEFINE new == [NoReq EXCEPT
                       !.pc = IF decision = "approve" THEN "rowA" ELSE "reject",
                       !.pair = p]
  <2>1. /\ req'[t] = new /\ UNCHANGED <<building, candidates>> /\ ~At(t, "move")
        /\ p \in DOMAIN candidates /\ candidates[p] = "pending"
        BY <1>5, <1>g DEF Decide, Idle, At
  <2>2. new.pc \in {"rowA", "reject"} /\ new.pair = p
        BY DEF NoReq
  <2> HIDE DEF new
  <2>3. Approvals(t)'
        BY <1>a, <2>1, <2>2, ReadKeepsApprovals DEF At
  <2>4. Detecting(t)' /\ Approving(t)' /\ Moved(t)'
        BY <2>1, <2>2 DEF Detecting, Approving, Moved, At, Deciding
  <2> QED
      BY <2>3, <2>4 DEF Serial
<1>6. CASE Reject(t)
  <2>1. /\ At(t, "reject") /\ SetStatus(req[t].pair, "rejected") /\ Finish(t)
        /\ building' = building
        BY <1>6 DEF Reject
  <2>2. req[t].pair \in DOMAIN candidates
        BY <1>a, <2>1 DEF Approving, At, Deciding
  <2>3. ~At(t, "move")
        BY <2>1 DEF At
  <2>4. Approvals(t)'
        BY <1>a, <1>f, <1>p, <2>1, <2>2, <2>3, RecordKeepsApprovals
  <2> QED
      BY <1>f, <2>1, <2>4, IdleKeepsSerial
<1>7. CASE ReadRowA(t)
  <2> DEFINE new == [req[t] EXCEPT
                       !.pc = "rowB",
                       !.myA = Current(building, req[t].pair[1], BlankRow).my]
  <2>1. req'[t] = new /\ UNCHANGED <<building, candidates>> /\ At(t, "rowA")
        BY <1>7, <1>g DEF ReadRowA
  <2>2. req[t].pair \in DOMAIN candidates /\ candidates[req[t].pair] = "pending"
        BY <1>a, <2>1 DEF Approving, At, Deciding
  <2>3. new.pc = "rowB" /\ new.pair = req[t].pair /\ new.myA = building[req[t].pair[1]].my
        BY <1>0, <1>p, <2>2 DEF Request, Current
  <2> HIDE DEF new
  <2>4. Approvals(t)'
        BY <1>a, <2>1, <2>3, ReadKeepsApprovals DEF At
  <2>5. Detecting(t)' /\ Approving(t)' /\ Moved(t)'
        BY <2>1, <2>2, <2>3 DEF Detecting, Approving, Moved, At, Deciding
  <2> QED
      BY <2>4, <2>5 DEF Serial
<1>8. CASE ReadRowB(t)
  <2> DEFINE pair == req[t].pair
             a == req[t].myA
             b == Current(building, pair[2], BlankRow).my
             new == [req[t] EXCEPT !.pc = "find",
                                   !.survivor = IF a < b THEN a ELSE b,
                                   !.absorbed = IF a < b THEN b ELSE a]
             same == [req[t] EXCEPT !.pc = "mark"]
  <2>1. UNCHANGED <<building, candidates>> /\ At(t, "rowB")
        BY <1>8 DEF ReadRowB
  <2>2. pair \in DOMAIN candidates /\ candidates[pair] = "pending"
        BY <1>a, <2>1 DEF Approving, At, Deciding
  <2>3. a = building[pair[1]].my /\ b = building[pair[2]].my /\ a \in Nat /\ b \in Nat
    <3>1. a = building[pair[1]].my
          BY <1>a, <2>1 DEF Approving
    <3>2. b = building[pair[2]].my
          BY <1>0, <1>p, <2>2 DEF Current
    <3> QED
        BY <1>0, <1>p, <2>2, <3>1, <3>2 DEF NetRow
  <2>4. a # Null /\ b # Null
        BY <2>3 DEF Null
  <2>5. CASE a = b
    <3>1. req'[t] = same
          BY <1>8, <1>g, <2>4, <2>5 DEF ReadRowB
    <3>2. same.pc = "mark" /\ same.pair = pair
          BY <1>0 DEF Request
    <3> HIDE DEF same
    <3>3. Approvals(t)'
          BY <1>a, <2>1, <3>1, <3>2, ReadKeepsApprovals DEF At
    <3>4. Detecting(t)' /\ Approving(t)' /\ Moved(t)'
          BY <2>1, <2>2, <2>3, <2>5, <3>1, <3>2 DEF Detecting, Approving, Moved, At, Deciding
    <3> QED
        BY <3>3, <3>4 DEF Serial
  <2>6. CASE a # b
    <3>1. req'[t] = new
          BY <1>8, <1>g, <2>4, <2>6 DEF ReadRowB
    <3>2. /\ new.pc = "find" /\ new.pair = pair
          /\ {new.survivor, new.absorbed} = {a, b}
          BY <1>0 DEF Request
    <3> HIDE DEF new
    <3>3. Approvals(t)'
          BY <1>a, <2>1, <3>1, <3>2, ReadKeepsApprovals DEF At
    <3>4. Approving(t)'
          BY <2>1, <2>2, <2>3, <2>6, <3>1, <3>2 DEF Approving, At, Deciding
    <3>5. Detecting(t)' /\ Moved(t)'
          BY <3>1, <3>2 DEF Detecting, Moved, At
    <3> QED
        BY <3>3, <3>4, <3>5 DEF Serial
  <2> QED
      BY <2>5, <2>6
<1>9. CASE FindAbsorbed(t)
  <2> DEFINE group == GroupRows(req[t].absorbed)
             size == Cardinality(group)
  <2>0. group \subseteq Nets
        BY <1>0 DEF GroupRows
  <2>1. PICK rows \in SUBSET group :
          /\ Cardinality(rows) = IF size <= GroupLimit THEN size ELSE GroupLimit
          /\ Goto(t, [req[t] EXCEPT !.pc = "move", !.found = rows, !.todo = rows])
        BY <1>9 DEF FindAbsorbed
  <2>2. rows = group
    <3> HIDE DEF group
    <3>1. IsFiniteSet(group) /\ size \in Nat /\ size <= Cardinality(Nets)
          BY <2>0, FS_Subset, FS_CardinalityType DEF Undisturbed
    <3>2. size <= GroupLimit
          BY <3>1, FS_CardinalityType, BoundsAreNumbers DEF Undisturbed
    <3>3. Cardinality(rows) = size
          BY <2>1, <3>2
    <3> QED
        BY <2>1, <3>1, <3>3, FS_Subset
  <2> DEFINE new == [req[t] EXCEPT !.pc = "move", !.found = rows, !.todo = rows]
  <2>3. req'[t] = new /\ UNCHANGED <<building, candidates>> /\ At(t, "find")
        BY <1>9, <1>g, <2>1 DEF FindAbsorbed
  <2>4. /\ new.pc = "move" /\ new.pair = req[t].pair /\ new.found = group /\ new.todo = group
        /\ new.survivor = req[t].survivor /\ new.absorbed = req[t].absorbed
        BY <1>0, <2>2 DEF Request
  <2> HIDE DEF new
  <2>5. \A n \in Nets : n \in group <=> building[n].my = req[t].absorbed
        BY <1>0 DEF GroupRows
  <2> HIDE DEF group
  <2>6. \A n \in Nets : Number(t, n)' = building[n].my /\ Number(t, n) = building[n].my
        BY <2>3, <2>4, <2>5 DEF Number, At
  <2>7. Approvals(t)'
        BY <1>a, <2>3, <2>6 DEF Approvals
  <2>8. /\ req[t].pair \in DOMAIN candidates /\ candidates[req[t].pair] = "pending"
        /\ building[req[t].pair[1]].my # building[req[t].pair[2]].my
        /\ {req[t].survivor, req[t].absorbed} =
             {building[req[t].pair[1]].my, building[req[t].pair[2]].my}
        BY <1>a, <2>3 DEF Approving, At, Deciding
  <2>9. req[t].pair[1] \in Nets /\ req[t].pair[2] \in Nets
        BY <1>p, <2>8
  <2>10. Approving(t)'
         BY <2>3, <2>4, <2>6, <2>8, <2>9 DEF Approving, At, Deciding
  <2>11. Moved(t)'
         BY <2>3, <2>4, <2>5, <2>6 DEF Moved
  <2>12. Detecting(t)'
         BY <2>3, <2>4 DEF Detecting, At
  <2> QED
      BY <2>7, <2>10, <2>11, <2>12 DEF Serial
<1>10. CASE MoveNet(t)
  <2> DEFINE row(n) == [Current(building, n, BlankRow) EXCEPT !.my = req[t].survivor]
  <2>1. PICK n \in req[t].todo :
          /\ building' = Insert(building, n, row(n))
          /\ Goto(t, [req[t] EXCEPT !.todo = @ \ {n}])
        BY <1>10 DEF MoveNet
  <2> DEFINE new == [req[t] EXCEPT !.todo = @ \ {n}]
  <2>2. req'[t] = new /\ candidates' = candidates /\ At(t, "move")
        BY <1>10, <1>g, <2>1 DEF MoveNet
  <2>3. /\ new.pc = "move" /\ new.pair = req[t].pair /\ new.found = req[t].found
        /\ new.todo = req[t].todo \ {n}
        /\ new.survivor = req[t].survivor /\ new.absorbed = req[t].absorbed
        BY <1>0, <2>2 DEF Request, At
  <2> HIDE DEF new
  <2>4. n \in req[t].found /\ n \in Nets
    <3>1. req[t].todo \subseteq req[t].found /\ req[t].todo \subseteq Nets
          BY <1>0, <1>a, <2>2 DEF Moved, Request, Nets
    <3> QED
        BY <3>1
  <2>5. /\ DOMAIN building' = Nets /\ building'[n].my = req[t].survivor
        /\ \A k \in Nets \ {n} : building'[k] = building[k]
    <3>1. row(n) = [building[n] EXCEPT !.my = req[t].survivor] /\ building[n] \in NetRow
          BY <1>0, <2>4 DEF Current
    <3>2. row(n).my = req[t].survivor
          BY <3>1 DEF NetRow
    <3> QED
        BY <1>0, <2>1, <2>4, <3>2 DEF Insert
  <2>6. \A k \in Nets : Number(t, k)' = Number(t, k)
        BY <2>2, <2>3, <2>4, <2>5 DEF Number, At
  <2>7. Approvals(t)'
        BY <1>a, <2>2, <2>5, <2>6 DEF Approvals
  <2>8. Detecting(t)'
        BY <2>2, <2>3 DEF Detecting, At
  <2>9. req[t].pair \in DOMAIN candidates
        BY <1>a, <2>2 DEF Approving, At, Deciding
  <2>10. Approving(t)'
    <3>1. /\ candidates[req[t].pair] = "pending"
          /\ req[t].survivor # req[t].absorbed
          /\ {req[t].survivor, req[t].absorbed} =
               {Number(t, req[t].pair[1]), Number(t, req[t].pair[2])}
          BY <1>a, <2>2 DEF Approving, At, Deciding
    <3> QED
        BY <1>p, <2>2, <2>3, <2>6, <2>9, <3>1 DEF Approving, At, Deciding
  <2>11. Moved(t)'
    <3>1. /\ req[t].todo \subseteq req[t].found
          /\ \A k \in Nets :
               building[k].my = IF k \in req[t].todo THEN req[t].absorbed
                                ELSE IF k \in req[t].found THEN req[t].survivor
                                ELSE Number(t, k)
          /\ \A k \in Nets \ req[t].found : building[k].my # req[t].absorbed
          BY <1>a, <2>2 DEF Moved
    <3>2. \A k \in Nets :
            building'[k].my = IF k \in req'[t].todo THEN req'[t].absorbed
                              ELSE IF k \in req'[t].found THEN req'[t].survivor
                              ELSE Number(t, k)'
          BY <2>2, <2>3, <2>4, <2>5, <2>6, <3>1
    <3>3. \A k \in Nets \ req'[t].found : building'[k].my # req'[t].absorbed
          BY <2>2, <2>3, <2>4, <2>5, <3>1
    <3> QED
        BY <2>2, <2>3, <3>1, <3>2, <3>3 DEF Moved
  <2> QED
      BY <2>7, <2>8, <2>10, <2>11 DEF Serial
<1>11. CASE MarkApproved(t)
  <2> DEFINE pair == req[t].pair
  <2>1. /\ At(t, "mark") \/ (At(t, "move") /\ req[t].todo = {})
        /\ SetStatus(pair, "approved") /\ Finish(t) /\ building' = building
        BY <1>11 DEF MarkApproved
  <2>2. pair \in DOMAIN candidates
        BY <1>a, <2>1 DEF Approving, At, Deciding
  <2>3. CASE At(t, "mark")
    <3>1. building[pair[1]].my = building[pair[2]].my /\ ~At(t, "move")
          BY <1>a, <2>3 DEF Approving, At
    <3>2. Approvals(t)'
          BY <1>a, <1>f, <1>p, <2>1, <2>2, <3>1, RecordKeepsApprovals
    <3> QED
        BY <1>f, <2>1, <3>2, IdleKeepsSerial
  <2>4. CASE At(t, "move") /\ req[t].todo = {}
    <3>1. \A n \in Nets : Number(t, n)' = building[n].my
          BY <1>f, <2>1 DEF Number
    <3>2. \A n \in Nets :
            /\ n \in req[t].found => building[n].my = req[t].survivor
            /\ n \in req[t].found => Number(t, n) = req[t].absorbed
            /\ n \notin req[t].found => Number(t, n) = building[n].my
            /\ n \notin req[t].found => building[n].my # req[t].absorbed
          BY <1>a, <2>4 DEF Moved, Number
    <3>3. \A m, n \in Nets : Number(t, m) = Number(t, n) => building[m].my = building[n].my
          BY <3>2
    <3>4. building[pair[1]].my = building[pair[2]].my
      <4>1. /\ req[t].survivor # req[t].absorbed
            /\ {req[t].survivor, req[t].absorbed} = {Number(t, pair[1]), Number(t, pair[2])}
            BY <1>a, <2>4 DEF Approving
      <4> QED
          BY <1>p, <2>2, <3>2, <4>1
    <3>5. /\ DOMAIN candidates' = DOMAIN candidates
          /\ \A p \in DOMAIN candidates : p # pair => candidates'[p] = candidates[p]
          BY <2>1, <2>2 DEF SetStatus, Insert
    <3>6. Approvals(t)'
      <4>1. \A p \in DOMAIN candidates : candidates'[p] = "approved" =>
              building[p[1]].my = building[p[2]].my
            BY <1>a, <1>p, <3>3, <3>4, <3>5 DEF Approvals
      <4> QED
          BY <1>0, <1>p, <2>1, <3>1, <3>5, <4>1 DEF Approvals
    <3> QED
        BY <1>f, <2>1, <3>6, IdleKeepsSerial
  <2> QED
      BY <2>1, <2>3, <2>4
<1>12. ~Abort(t) /\ ~DropBuilding
       BY DEF Abort, DropBuilding, Undisturbed, TypeInv, TypeOK
<1>13. CASE UNCHANGED mergeVars
       BY <1>a, <1>13 DEF mergeVars, Serial, Approvals, Detecting, Approving, Moved, Number, At
<1> QED
    BY <1>1, <1>2, <1>3, <1>4, <1>5, <1>6, <1>7, <1>8, <1>9, <1>10, <1>11,
       <1>12, <1>13 DEF Next, Accept, Step, Detect, Approve

\* The types and what the only thread keeps hold together.
LEMMA SerialHolds ==
  ASSUME NEW t, Threads = {t}, Undisturbed
  PROVE  Spec => [](TypeInv /\ Serial(t))
<1>1. Init => TypeInv /\ Serial(t)
      BY TypeInit, SerialStart
<1>2. TypeInv /\ Serial(t) /\ [Next]_mergeVars => (TypeInv /\ Serial(t))'
      BY TypeStep, SerialStep
<1> QED
    BY <1>1, <1>2, PTL DEF Spec

\* With one request at a time, none of which dies, the nets of every approved pair are in
\* one group whenever no request is under way: an approval moves the whole of the absorbed
\* group, and no later one takes its nets apart.
THEOREM ApprovalsHold ==
  ASSUME NEW t, Threads = {t}, Undisturbed
  PROVE  Spec => []ApprovedTogether
<1>1. Serial(t) => ApprovedTogether
      BY DEF Serial, Approvals, Number, ApprovedTogether, Quiet, Idle, At, EveryApprovalHolds
<1>2. Spec => [](TypeInv /\ Serial(t))
      BY SerialHolds
<1> QED
    BY <1>1, <1>2, PTL

\* The request that lists the queue has recorded every pair that matches.
THEOREM QueueIsAlwaysComplete ==
  ASSUME NEW u, Threads = {u}, Undisturbed
  PROVE  Spec => QueueIsComplete
<1>1. Serial(u) /\ [Next]_mergeVars =>
        [\A t \in Threads : ListPending(t) =>
           ProposePairs(building) \subseteq DOMAIN candidates]_mergeVars
  <2> SUFFICES ASSUME Serial(u), ListPending(u)
               PROVE  ProposePairs(building) \subseteq DOMAIN candidates
      OBVIOUS
  <2>1. /\ At(u, "insert") => req[u].fresh = ProposePairs(building) \ DOMAIN candidates
        /\ At(u, "list") => ProposePairs(building) = {}
        BY DEF Serial, Detecting
  <2> QED
      BY <2>1 DEF ListPending
<1>2. Spec => [](TypeInv /\ Serial(u))
      BY SerialHolds
<1> QED
    BY <1>1, <1>2, PTL DEF Spec, QueueIsComplete

------------------------------------------------------------------------------
\* The promise of MergeGroups.

\* With one thread, a net counts as one of the group that is being moved when that thread
\* has found it.
LEMMA GroupNumberIs ==
  ASSUME NEW t, Threads = {t}
  PROVE  /\ \A n : GroupNumber(n) = Number(t, n)
         /\ \A n : GroupNumber(n)' = Number(t, n)'
<1>1. \A n : Moving(n) = IF At(t, "move") /\ n \in req[t].found THEN {t} ELSE {}
      BY DEF Moving
<1>2. \A n : Moving(n)' = IF At(t, "move")' /\ n \in req'[t].found THEN {t} ELSE {}
      BY DEF Moving
<1> QED
    BY <1>1, <1>2 DEF GroupNumber, Number

\* The net n is with is numbered as n is.
LEMMA MergedWithIs ==
  ASSUME NEW t, Threads = {t}
  PROVE  /\ MergedWith = [n \in Nets |-> {m \in Nets : Number(t, m) = Number(t, n)}]
         /\ MergedWith' = [n \in Nets |-> {m \in Nets : Number(t, m)' = Number(t, n)'}]
BY GroupNumberIs DEF MergedWith, Nets

\* At first every net is alone.
LEMMA GroupsStart ==
  ASSUME NEW t, Threads = {t}
  PROVE  Init => Groups!Init
<1> SUFFICES ASSUME Init PROVE Groups!Init
    OBVIOUS
<1>1. \A n \in Nets : Number(t, n) = FirstNets[n].my
      BY DEF Init, MergeInit, NoReq, Number, At
<1>2. \A m, n \in Nets : Number(t, m) = Number(t, n) <=> m = n
      BY <1>1, FirstGroupsAreSingle DEF Nets
<1>3. MergedWith = [n \in Nets |-> {n}]
      BY <1>2, MergedWithIs
<1>4. candidates = [p \in {} |-> p]
      BY DEF Init, MergeInit, EmptyTable
<1> QED
    BY <1>3, <1>4 DEF Groups!Init, Nets

\* Every statement of the only thread leaves groups and verdicts alone, or is one step of
\* the promise: an INSERT proposes its pair, the recording of a decision takes it.
LEMMA StepImplements ==
  ASSUME NEW t, Threads = {t}, Undisturbed, TypeInv, Serial(t), Serial(t)', [Next]_mergeVars
  PROVE  [Groups!Next]_<<MergedWith, candidates>>
<1>0. /\ DOMAIN building = Nets /\ req \in [Threads -> Request] /\ req[t] \in Request
      BY DEF TypeInv, TypeOK, Serial, Approvals
<1>a. Approvals(t) /\ Detecting(t) /\ Approving(t) /\ Moved(t)
      BY DEF Serial
<1>g. \A locals : Goto(t, locals) => req'[t] = locals
      BY <1>0 DEF Goto
<1>f. Finish(t) => ~At(t, "move")'
      BY <1>g DEF Finish, NoReq, At
<1>m. /\ MergedWith = [n \in Nets |-> {m \in Nets : Number(t, m) = Number(t, n)}]
      /\ MergedWith' = [n \in Nets |-> {m \in Nets : Number(t, m)' = Number(t, n)'}]
      BY MergedWithIs
<1>p. \A p \in DOMAIN candidates : p[1] \in Nets /\ p[2] \in Nets
      BY <1>a DEF Approvals
<1>s. ASSUME \A n \in Nets : Number(t, n)' = Number(t, n) PROVE MergedWith' = MergedWith
      BY <1>m, <1>s
<1>n. ~At(t, "move") => \A n : Number(t, n) = building[n].my
      BY DEF Number
<1>o. ~At(t, "move")' => \A n : Number(t, n)' = building'[n].my
      BY DEF Number
<1>r. ASSUME NEW p, NEW status, SetStatus(p, status) PROVE Groups!Record(p, status)
      BY <1>r DEF SetStatus, Insert, Groups!Record
<1>1. CASE ReadNets(t) \/ ReadPairs(t) \/ ListPending(t)
  <2>1. UNCHANGED <<building, candidates>> /\ ~At(t, "move") /\ ~At(t, "move")'
        BY <1>0, <1>1, <1>f, <1>g DEF ReadNets, ReadPairs, ListPending, Idle, At, Request, NoReq
  <2> QED
      BY <1>n, <1>o, <1>s, <2>1
<1>2. CASE InsertCandidate(t)
  <2>1. PICK p \in req[t].fresh :
          /\ SetStatus(p, "pending")
          /\ Goto(t, [req[t] EXCEPT !.fresh = @ \ {p}])
        BY <1>2 DEF InsertCandidate
  <2>2. building' = building /\ At(t, "insert") /\ At(t, "insert")'
        BY <1>0, <1>2, <1>g, <2>1 DEF InsertCandidate, At, Request
  <2>3. ~At(t, "move") /\ ~At(t, "move")'
        BY <2>2 DEF At
  <2>4. p \in ProposePairs(building) /\ p \notin DOMAIN candidates
        BY <1>a, <2>2 DEF Detecting
  <2>5. /\ p \in Nets \X Nets /\ p[1] < p[2] /\ building[p[1]].my # building[p[2]].my
        BY <1>0, <2>4 DEF ProposePairs
  <2>6. MergedWith' = MergedWith
        BY <1>n, <1>o, <1>s, <2>2, <2>3
  <2>7. MergedWith[p[1]] # MergedWith[p[2]]
    <3>1. p[1] \in MergedWith[p[1]] /\ p[1] \notin MergedWith[p[2]]
          BY <1>m, <1>n, <2>3, <2>5
    <3> QED
        BY <3>1
  <2>8. Groups!Propose(p) /\ p \in Groups!NetPairs
        BY <1>r, <2>1, <2>4, <2>5, <2>6, <2>7 DEF Groups!Propose, Groups!NetPairs, Nets
  <2> QED
      BY <2>8 DEF Groups!Next
<1>3. ASSUME NEW p \in Pairs, NEW decision \in {"approve", "reject"}, Decide(t, p, decision)
      PROVE  [Groups!Next]_<<MergedWith, candidates>>
  <2>1. UNCHANGED <<building, candidates>> /\ ~At(t, "move") /\ ~At(t, "move")'
        BY <1>3, <1>g DEF Decide, Idle, At, NoReq
  <2> QED
      BY <1>n, <1>o, <1>s, <2>1
<1>d. ASSUME req[t].pc \in Deciding
      PROVE  /\ Groups!Pending(req[t].pair) /\ req[t].pair \in Groups!NetPairs
             /\ req[t].pair[1] \in Nets /\ req[t].pair[2] \in Nets
  <2>1. req[t].pair \in DOMAIN candidates /\ candidates[req[t].pair] = "pending"
        BY <1>a, <1>d DEF Approving
  <2>2. req[t].pair \in Pairs
        BY <1>d DEF TypeInv, PairChosen
  <2> QED
      BY <1>p, <2>1, <2>2 DEF Groups!Pending, Groups!NetPairs, Pairs, Nets
<1>4. CASE Reject(t)
  <2>1. /\ At(t, "reject") /\ SetStatus(req[t].pair, "rejected") /\ ~At(t, "move")'
        /\ building' = building
        BY <1>4, <1>f DEF Reject
  <2>2. ~At(t, "move") /\ req[t].pc \in Deciding
        BY <2>1 DEF At, Deciding
  <2>3. MergedWith' = MergedWith
        BY <1>n, <1>o, <1>s, <2>1, <2>2
  <2>4. Groups!Reject(req[t].pair)
        BY <1>d, <1>r, <2>1, <2>2, <2>3 DEF Groups!Reject
  <2> QED
      BY <1>d, <2>2, <2>4 DEF Groups!Next
<1>5. CASE ReadRowA(t) \/ ReadRowB(t)
  <2>1. UNCHANGED <<building, candidates>> /\ ~At(t, "move")
        BY <1>5 DEF ReadRowA, ReadRowB, At
  <2>2. ~At(t, "move")'
    <3>1. CASE ReadRowA(t)
          BY <1>0, <1>g, <3>1 DEF ReadRowA, At, Request
    <3>2. CASE ReadRowB(t)
          BY <1>0, <1>f, <1>g, <3>2 DEF ReadRowB, At, Request
    <3> QED
        BY <1>5, <3>1, <3>2
  <2> QED
      BY <1>n, <1>o, <1>s, <2>1, <2>2
\* The rows found are those of the absorbed group.
<1>6. CASE FindAbsorbed(t)
  <2>1. PICK rows \in SUBSET GroupRows(req[t].absorbed) :
          Goto(t, [req[t] EXCEPT !.pc = "move", !.found = rows, !.todo = rows])
        BY <1>6 DEF FindAbsorbed
  <2>2. /\ req'[t].pc = "move" /\ req'[t].found = rows /\ req'[t].absorbed = req[t].absorbed
        /\ UNCHANGED <<building, candidates>> /\ ~At(t, "move")
        BY <1>0, <1>6, <1>g, <2>1 DEF FindAbsorbed, At, Request
  <2>3. \A n \in rows : building[n].my = req[t].absorbed
        BY DEF GroupRows
  <2>4. \A n \in Nets : Number(t, n)' = Number(t, n)
        BY <2>2, <2>3 DEF Number, At
  <2> QED
      BY <1>s, <2>2, <2>4
<1>7. CASE MoveNet(t)
  <2>1. PICK n \in req[t].todo :
          /\ building' = Insert(building, n,
                           [Current(building, n, BlankRow) EXCEPT !.my = req[t].survivor])
          /\ Goto(t, [req[t] EXCEPT !.todo = @ \ {n}])
        BY <1>7 DEF MoveNet
  <2>2. /\ At(t, "move") /\ At(t, "move")' /\ candidates' = candidates
        /\ req'[t].found = req[t].found /\ req'[t].absorbed = req[t].absorbed
        BY <1>0, <1>7, <1>g, <2>1 DEF MoveNet, At, Request
  <2>3. n \in req[t].found
    <3>1. req[t].todo \subseteq req[t].found
          BY <1>a, <2>2 DEF Moved
    <3> QED
        BY <3>1
  <2>4. \A k \in Nets \ {n} : building'[k] = building[k]
        BY <1>0, <2>1 DEF Insert
  <2>5. \A k \in Nets : Number(t, k)' = Number(t, k)
        BY <2>2, <2>3, <2>4 DEF Number
  <2> QED
      BY <1>s, <2>2, <2>5
<1>8. CASE MarkApproved(t)
  <2> DEFINE pair == req[t].pair
             merged == MergedWith[pair[1]] \cup MergedWith[pair[2]]
  <2>1. /\ At(t, "mark") \/ (At(t, "move") /\ req[t].todo = {})
        /\ SetStatus(pair, "approved") /\ ~At(t, "move")' /\ building' = building
        BY <1>8, <1>f DEF MarkApproved
  <2>2. /\ Groups!Pending(pair) /\ pair \in Groups!NetPairs
        /\ pair[1] \in Nets /\ pair[2] \in Nets
        BY <1>d, <2>1 DEF At, Deciding
  <2>3. \A n \in Nets : Number(t, n)' = building[n].my
        BY <1>o, <2>1
  <2>4. MergedWith' = [n \in Nets |-> IF n \in merged THEN merged ELSE MergedWith[n]]
    <3>1. CASE At(t, "mark")
      <4>1. ~At(t, "move") /\ building[pair[1]].my = building[pair[2]].my
            BY <1>a, <3>1 DEF Approving, At
      <4>2. MergedWith = [n \in Nets |-> {m \in Nets : building[m].my = building[n].my}]
            BY <1>m, <1>n, <4>1
      <4>3. MergedWith' = [n \in Nets |-> {m \in Nets : building[m].my = building[n].my}]
            BY <1>m, <2>3
      <4> QED
          BY <2>2, <4>1, <4>2, <4>3
    <3>2. CASE At(t, "move") /\ req[t].todo = {}
      <4> DEFINE s == req[t].survivor
                 a == req[t].absorbed
                 num(n) == Number(t, n)
      <4>1. s # a /\ {s, a} = {num(pair[1]), num(pair[2])}
            BY <1>a, <3>2 DEF Approving
      <4>2. \A n \in Nets : Number(t, n)' = IF num(n) = a THEN s ELSE num(n)
        <5>1. \A n \in Nets :
                /\ n \in req[t].found => building[n].my = s /\ num(n) = a
                /\ n \notin req[t].found => num(n) = building[n].my /\ building[n].my # a
              BY <1>a, <3>2 DEF Moved, Number
        <5> QED
            BY <2>3, <5>1
      <4> HIDE DEF num
      <4>3. \A n \in Nets : MergedWith[n] = {m \in Nets : num(m) = num(n)}
            BY <1>m DEF num
      <4>4. merged = {m \in Nets : num(m) = s \/ num(m) = a}
            BY <2>2, <4>1, <4>3
      <4>5. \A n \in Nets : MergedWith'[n] = {m \in Nets :
              (IF num(m) = a THEN s ELSE num(m)) = (IF num(n) = a THEN s ELSE num(n))}
            BY <1>m, <4>2
      <4> HIDE DEF merged, s, a
      <4>6. \A n \in Nets : MergedWith'[n] = IF n \in merged THEN merged ELSE MergedWith[n]
        <5> TAKE n \in Nets
        <5>1. CASE num(n) = s \/ num(n) = a
              BY <4>4, <4>5, <5>1
        <5>2. CASE ~(num(n) = s \/ num(n) = a)
              BY <4>3, <4>4, <4>5, <5>2
        <5> QED
            BY <5>1, <5>2
      <4> QED
          BY <1>m, <4>6
    <3> QED
        BY <2>1, <3>1, <3>2
  <2>5. Groups!Approve(pair)
        BY <1>r, <2>1, <2>2, <2>4 DEF Groups!Approve, Nets
  <2> QED
      BY <2>2, <2>5 DEF Groups!Next
<1>9. ~Abort(t) /\ ~DropBuilding
      BY DEF Abort, DropBuilding, Undisturbed, TypeInv, TypeOK
<1>10. CASE UNCHANGED mergeVars
  <2>1. \A n \in Nets : Number(t, n)' = Number(t, n)
        BY <1>10 DEF mergeVars, Number, At
  <2> QED
      BY <1>10, <1>s, <2>1 DEF mergeVars
<1> QED
    BY <1>1, <1>2, <1>3, <1>4, <1>5, <1>6, <1>7, <1>8, <1>9, <1>10
       DEF Next, Accept, Step, Detect, Approve

\* With one request at a time, none of which dies, detection and decisions do what
\* MergeGroups promises: the statements of an approval amount to the merging of two groups
\* at once, when the decision is recorded.
THEOREM MergingImplementsGroups ==
  ASSUME NEW t, Threads = {t}, Undisturbed
  PROVE  Spec => ImplementsMergeGroups
<1>1. Init => Groups!Init
      BY GroupsStart
<1>2. /\ (TypeInv /\ Serial(t)) /\ (TypeInv /\ Serial(t))' /\ [Next]_mergeVars
      => [Groups!Next]_<<MergedWith, candidates>>
      BY StepImplements
<1>3. Spec => [](TypeInv /\ Serial(t))
      BY SerialHolds
<1> QED
    BY <1>1, <1>2, <1>3, PTL DEF Spec, ImplementsMergeGroups, Groups!Spec, Groups!groupVars
==============================================================================
