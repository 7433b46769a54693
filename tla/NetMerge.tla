------------------------------ MODULE NetMerge -------------------------------
(***************************************************************************)
(* apps/ff_net/submodules/net_merging_service.py: the commander's queue of *)
(* merge candidates and the decisions on it, as the waitress threads run   *)
(* them (serve.py).  A request is a sequence of steps: every read or write *)
(* of a Cassandra table is one step, everything between two statements     *)
(* works on locals and belongs to the step of the statement before it.     *)
(* No request locks anything, so the steps of different threads interleave *)
(* freely, and a request can end after any statement (a driver timeout, an *)
(* exception, the death of the process), leaving its earlier writes behind.*)
(***************************************************************************)
EXTENDS NetMerging, Cassandra, FiniteSets

CONSTANTS
  Threads,        \* the request threads of the process (SERVE_THREADS)
  NetIds,         \* the net_ids that may occur
  FirstNets,      \* ff_net_building as the build pipeline left it
  GroupLimit,     \* the LIMIT of the absorbed-group query (10000 in the code)
  MaxFaults,      \* bound: requests that die, and drops of ff_net_building
  MayDrop         \* whether an operator may drop ff_net_building meanwhile

ASSUME NetIdsAreNumbers == NetIds \subseteq Nat
ASSUME FirstNetsAreNets ==
  /\ DOMAIN FirstNets \subseteq NetIds
  /\ FirstNets \in [DOMAIN FirstNets -> NetRow]
ASSUME FirstGroupsAreSingle ==
  \A m, n \in DOMAIN FirstNets : FirstNets[m].my = FirstNets[n].my => m = n
ASSUME BoundsAreNumbers ==
  GroupLimit \in Nat /\ MaxFaults \in Nat /\ MayDrop \in BOOLEAN

VARIABLES
  building,       \* table ff_net_building: net_id -> row
  candidates,     \* table ff_net_merge_candidates: (net_a, net_b) -> status
  req,            \* per thread, the locals of the request it executes
  asked,          \* observer: the pairs whose approval passed the checks
  faults          \* observer: how many of these faults there were

mergeVars == <<building, candidates, req, asked, faults>>

Pairs == {p \in NetIds \X NetIds : p[1] < p[2]}

\* Locals: the decided pair; the proposed pairs left to insert; row_a's group,
\* the surviving and the absorbed group, the rows found in the absorbed group,
\* and those of them still to be moved.
NoReq ==
  [pc |-> "idle", pair |-> <<>>, fresh |-> {}, myA |-> Null,
   survivor |-> Null, absorbed |-> Null, found |-> {}, todo |-> {}]

Idle(t) == req[t].pc = "idle"

\* Thread t is at step "from" of its request.
At(t, from) == req[t].pc = from

Goto(t, locals) == req' = [req EXCEPT ![t] = locals]

Finish(t) == Goto(t, NoReq)

SetStatus(p, status) == candidates' = Insert(candidates, p, status)

------------------------------------------------------------------------------
\* GET merge/candidates/: list_pending_candidates and detect_new_candidates.

\* _fetch_nets, and what the matcher makes of it.  With no net there is nothing
\* to detect, only to list.
ReadNets(t) ==
  /\ Idle(t)
  /\ Goto(t, [NoReq EXCEPT
                !.pc = IF building = EmptyTable THEN "list" ELSE "pairs",
                !.fresh = ProposePairs(building)])
  /\ UNCHANGED <<building, candidates, asked, faults>>

\* Mutant: the pairs already recorded are proposed again.
ReadPairsAgain(t) ==
  /\ At(t, "pairs")
  /\ Goto(t, [req[t] EXCEPT !.pc = "insert"])
  /\ UNCHANGED <<building, candidates, asked, faults>>

\* _existing_pairs: what is already recorded is not inserted again.
ReadPairs(t) ==
  /\ At(t, "pairs")
  /\ Goto(t, [req[t] EXCEPT !.pc = "insert", !.fresh = @ \ DOMAIN candidates])
  /\ UNCHANGED <<building, candidates, asked, faults>>

\* One INSERT of the loop: an upsert that writes 'pending' whatever is stored.
\* The rows come in Cassandra's token order, so any pair may be next.
InsertCandidate(t) ==
  /\ At(t, "insert")
  /\ \E p \in req[t].fresh :
       /\ SetStatus(p, "pending")
       /\ Goto(t, [req[t] EXCEPT !.fresh = @ \ {p}])
  /\ UNCHANGED <<building, asked, faults>>

\* Mutant: the queue is listed before every new pair is recorded.
ListPendingEarly(t) ==
  /\ At(t, "list") \/ At(t, "insert")
  /\ Finish(t)
  /\ UNCHANGED <<building, candidates, asked, faults>>

\* The final find_all of the queue; the response changes nothing.
ListPending(t) ==
  /\ \/ At(t, "list")
     \/ At(t, "insert") /\ req[t].fresh = {}
  /\ Finish(t)
  /\ UNCHANGED <<building, candidates, asked, faults>>

------------------------------------------------------------------------------
\* POST merge/candidates/<a>__<b>/approve|reject/: apply_decision.

\* The candidate is read; without one (404) or when it is decided (400) the
\* request ends, having changed nothing.
Decide(t, p, decision) ==
  /\ Idle(t)
  /\ p \in DOMAIN candidates
  /\ candidates[p] = "pending"
  /\ Goto(t, [NoReq EXCEPT
                !.pc = IF decision = "approve" THEN "rowA" ELSE "reject",
                !.pair = p])
  /\ asked' = IF decision = "approve" THEN asked \cup {p} ELSE asked
  /\ UNCHANGED <<building, candidates, faults>>

Reject(t) ==
  /\ At(t, "reject")
  /\ SetStatus(req[t].pair, "rejected")
  /\ Finish(t)
  /\ UNCHANGED <<building, asked, faults>>

\* row_a, with Null standing for a row that is not there.
ReadRowA(t) ==
  /\ At(t, "rowA")
  /\ Goto(t, [req[t] EXCEPT
                !.pc = "rowB",
                !.myA = Current(building, req[t].pair[1], BlankRow).my])
  /\ UNCHANGED <<building, candidates, asked, faults>>

\* Mutants: a missing row goes unnoticed; the higher group survives.
ReadRowBUnchecked(t) ==
  /\ At(t, "rowB")
  /\ LET a == req[t].myA
         b == Current(building, req[t].pair[2], BlankRow).my
     IN  Goto(t, [req[t] EXCEPT !.pc = "find",
                                !.survivor = IF a < b THEN a ELSE b,
                                !.absorbed = IF a < b THEN b ELSE a])
  /\ UNCHANGED <<building, candidates, asked, faults>>

ReadRowBUpward(t) ==
  /\ At(t, "rowB")
  /\ LET a == req[t].myA
         b == Current(building, req[t].pair[2], BlankRow).my
     IN  Goto(t, [req[t] EXCEPT !.pc = "find",
                                !.survivor = IF a < b THEN b ELSE a,
                                !.absorbed = IF a < b THEN a ELSE b])
  /\ UNCHANGED <<building, candidates, asked, faults>>

\* row_b.  A missing row ends the request (404); equal groups leave only the
\* decision to record; otherwise the lower group survives.
ReadRowB(t) ==
  /\ At(t, "rowB")
  /\ LET a == req[t].myA
         b == Current(building, req[t].pair[2], BlankRow).my
     IN  CASE a = Null \/ b = Null -> Finish(t)
           [] a # Null /\ a = b -> Goto(t, [req[t] EXCEPT !.pc = "mark"])
           [] OTHER -> Goto(t, [req[t] EXCEPT
                                  !.pc = "find",
                                  !.survivor = IF a < b THEN a ELSE b,
                                  !.absorbed = IF a < b THEN b ELSE a])
  /\ UNCHANGED <<building, candidates, asked, faults>>

\* Mutant: every group from my upwards.
GroupRowsFrom(my) == {n \in DOMAIN building : building[n].my >= my}

GroupRows(my) == {n \in DOMAIN building : building[n].my = my}

\* Mutant: only the nets of the pair move, not their group.
FindPairOnly(t) ==
  /\ At(t, "find")
  /\ LET rows == {n \in GroupRows(req[t].absorbed) :
                    n \in {req[t].pair[1], req[t].pair[2]}}
     IN  Goto(t, [req[t] EXCEPT !.pc = "move", !.found = rows, !.todo = rows])
  /\ UNCHANGED <<building, candidates, asked, faults>>

\* find(my_net_id = absorbed, limit = 10000): the whole group, or any GroupLimit
\* rows of it when it is larger.
FindAbsorbed(t) ==
  /\ At(t, "find")
  /\ LET group == GroupRows(req[t].absorbed)
         size  == Cardinality(group)
     IN  \E rows \in SUBSET group :
           /\ Cardinality(rows) = IF size <= GroupLimit THEN size ELSE GroupLimit
           /\ Goto(t, [req[t] EXCEPT !.pc = "move", !.found = rows, !.todo = rows])
  /\ UNCHANGED <<building, candidates, asked, faults>>

\* One UPDATE of the loop; the rows come in any order.
MoveNet(t) ==
  /\ At(t, "move")
  /\ \E n \in req[t].todo :
       /\ building' = Insert(building, n,
                        [Current(building, n, BlankRow)
                           EXCEPT !.my = req[t].survivor])
       /\ Goto(t, [req[t] EXCEPT !.todo = @ \ {n}])
  /\ UNCHANGED <<candidates, asked, faults>>

\* Mutant: the decision is not recorded.
MarkNothing(t) ==
  /\ \/ At(t, "mark")
     \/ At(t, "move") /\ req[t].todo = {}
  /\ Finish(t)
  /\ UNCHANGED <<building, candidates, asked, faults>>

MarkApproved(t) ==
  /\ \/ At(t, "mark")
     \/ At(t, "move") /\ req[t].todo = {}
  /\ SetStatus(req[t].pair, "approved")
  /\ Finish(t)
  /\ UNCHANGED <<building, asked, faults>>

------------------------------------------------------------------------------

\* The request of thread t ends before its next statement.
Abort(t) ==
  /\ ~Idle(t)
  /\ faults < MaxFaults
  /\ faults' = faults + 1
  /\ Finish(t)
  /\ UNCHANGED <<building, candidates, asked>>

\* PIPELINE_REFERENCE.md's procedure to rebuild: ff_net_building is dropped and
\* created again, empty; the other tables keep their rows.
DropBuilding ==
  /\ MayDrop
  /\ faults < MaxFaults
  /\ faults' = faults + 1
  /\ building # EmptyTable
  /\ building' = EmptyTable
  /\ UNCHANGED <<candidates, req, asked>>

MergeInit ==
  /\ candidates = EmptyTable
  /\ req = [t \in Threads |-> NoReq]
  /\ asked = {}
  /\ faults = 0

Init == building = FirstNets /\ MergeInit

Detect(t) == ReadPairs(t) \/ InsertCandidate(t) \/ ListPending(t)

Approve(t) ==
  \/ ReadRowA(t) \/ ReadRowB(t) \/ FindAbsorbed(t) \/ MoveNet(t) \/ MarkApproved(t)

\* The next statement of the request thread t executes.
Step(t) == Detect(t) \/ Reject(t) \/ Approve(t)

\* A new request for thread t.
Accept(t) ==
  \/ ReadNets(t)
  \/ \E p \in Pairs, decision \in {"approve", "reject"} : Decide(t, p, decision)

Next ==
  \/ \E t \in Threads : Accept(t) \/ Step(t) \/ Abort(t)
  \/ DropBuilding

Spec == Init /\ [][Next]_mergeVars

\* Every request that is not cut short executes its statements; a commander who
\* keeps polling gets every queued request served, and decides every alert.
Fairness ==
  /\ \A t \in Threads : WF_mergeVars(Step(t))
  /\ SF_mergeVars(\E t \in Threads : ReadNets(t))
  /\ \A p \in Pairs :
       SF_mergeVars(\E t \in Threads : \E decision \in {"approve", "reject"} :
                      Decide(t, p, decision))

FairSpec == Spec /\ Fairness
------------------------------------------------------------------------------
\* Properties.

Steps == {"idle", "pairs", "insert", "list", "reject",
          "rowA", "rowB", "mark", "find", "move"}

Request ==
  [pc : Steps, pair : Pairs \cup {<<>>}, fresh : SUBSET Pairs,
   myA : Nat \cup {Null}, survivor : Nat \cup {Null}, absorbed : Nat \cup {Null},
   found : SUBSET DOMAIN FirstNets, todo : SUBSET DOMAIN FirstNets]

\* Every variable holds values of the kind the code gives it.
TypeOK ==
  /\ DOMAIN building \subseteq DOMAIN FirstNets
  /\ building \in [DOMAIN building -> NetRow]
  /\ DOMAIN candidates \subseteq Pairs
  /\ candidates \in [DOMAIN candidates -> {"pending", "approved", "rejected"}]
  /\ req \in [Threads -> Request]
  /\ asked \subseteq Pairs
  /\ faults \in 0..MaxFaults

\* a and b are joined by a chain of pairs of E: no set that holds a and that E
\* never leaves is without b.
Linked(a, b, E) ==
  \A S \in SUBSET DOMAIN FirstNets :
    (a \in S /\ \A p \in E : p[1] \in S <=> p[2] \in S) => b \in S

\* Nothing is ever merged on its own (net_merging_service.py, module comment):
\* whatever requests race or die, two nets carry the same my_net_id only when a
\* chain of pairs a commander approved joins them.
NoUnaskedMerge ==
  \A m, n \in DOMAIN building :
    building[m].my = building[n].my => Linked(m, n, asked)

\* Approving folds the higher group into the lower one: whatever races, a net
\* never carries a my_net_id above the one it was built with.
NeverAboveBirth ==
  \A n \in DOMAIN building : building[n].my <= FirstNets[n].my

Quiet == \A t \in Threads : Idle(t)

\* The nets of every approved pair are in one group.
EveryApprovalHolds ==
  \A p \in DOMAIN candidates :
    candidates[p] = "approved" /\ {p[1], p[2]} \subseteq DOMAIN building
      => building[p[1]].my = building[p[2]].my

\* When no request is under way, every approval holds: the groups are the
\* transitive closure of the approved pairs.
ApprovedTogether == Quiet => EveryApprovalHolds

\* The request that lists the queue has recorded every pair that matches now.
QueueIsComplete ==
  [][\A t \in Threads : ListPending(t) =>
       ProposePairs(building) \subseteq DOMAIN candidates]_mergeVars

Decided(p) == p \in DOMAIN candidates /\ candidates[p] # "pending"

\* Every alert is decided in the end and stays decided, although a late INSERT of
\* a slower request may turn a decided pair back to pending for a while; unless a net
\* of the pair is gone with its table.
AlertsAreDecided ==
  \A p \in Pairs :
    [](p \in DOMAIN candidates =>
         <>[]Decided(p) \/ <>(~({p[1], p[2]} \subseteq DOMAIN building)))

------------------------------------------------------------------------------
\* With one request at a time, the statements of an approval amount to one step
\* of MergeGroups, taken when the decision is recorded: until then the rows
\* being moved still count as members of the absorbed group.

Moving(n) == {t \in Threads : At(t, "move") /\ n \in req[t].found}

GroupNumber(n) ==
  IF Moving(n) = {} THEN building[n].my ELSE req[CHOOSE t \in Moving(n) : TRUE].absorbed

MergedWith ==
  [n \in DOMAIN FirstNets |-> {m \in DOMAIN FirstNets : GroupNumber(m) = GroupNumber(n)}]

Groups ==
  INSTANCE MergeGroups
    WITH Nets <- DOMAIN FirstNets, group <- MergedWith, verdict <- candidates

\* Detection and decisions implement the promise of MergeGroups.
ImplementsMergeGroups == Groups!Spec

==============================================================================
