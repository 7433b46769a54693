----------------------------- MODULE FFNetProofs ------------------------------
(***************************************************************************)
(* Theorems about the ff_net service as a whole, its requests handled one  *)
(* at a time: the groups of ff_net_building are what the commander decided *)
(* although builds rewrite every row.                                      *)
(***************************************************************************)
EXTENDS FFNet, NetBuildingProofs

------------------------------------------------------------------------------
\* NetBuild is an instance here: its operators are those of NetBuilding, which the facts
\* of NetBuildingProofs are about.  The highest of a set;
LEMMA SameMax == \A S : Build!Max(S) = Max(S)
BY DEF Build!Max, Max

\* the lowest;
LEMMA SameMin == \A S : Build!Min(S) = Min(S)
BY DEF Build!Min, Min

\* the nets a report can be routed to;
LEMMA SameCandidates ==
  \A members, spans, rep : Build!Candidates(members, spans, rep) = Candidates(members, spans, rep)
BY DEF Build!Candidates, Candidates, Build!SameEmitter, SameEmitter, Build!MemberBand,
       MemberBand, Build!Band, Band, Build!Null, Null, Build!NoSpan, NoSpan

\* the tracked band;
LEMMA SameWidened == \A span, rep : Build!Widened(span, rep) = Widened(span, rep)
BY SameMax, SameMin
DEF Build!Widened, Widened, Build!Band, Band, Build!Null, Null, Build!NoSpan, NoSpan

\* the row after a collapse;
LEMMA SameCollapsed ==
  \A row, rep, timestamps :
    Build!Collapsed(row, rep, timestamps) = Collapsed(row, rep, timestamps)
BY DEF Build!Collapsed, Collapsed, Build!StoredDate, StoredDate, Build!Reparsed, Reparsed,
       Build!Earliest, Earliest, Build!Latest, Latest, Build!Newer, Newer, Build!Null, Null

\* a new net;
LEMMA SameSpawn ==
  \A members, spans, rep : Build!SpawnNet(members, spans, rep) = SpawnNet(members, spans, rep)
<1> TAKE members, spans, rep
<1>1. /\ Build!NextNetId(members) = NextNetId(members)
      /\ Build!NextMyNetId(members) = NextMyNetId(members)
      BY SameMax DEF Build!NextNetId, NextNetId, Build!NextMyNetId, NextMyNetId,
                     Build!SystemNetStart, SystemNetStart, Build!MyNetStart, MyNetStart
<1>2. \A t, k, r : Build!Insert(t, k, r) = Insert(t, k, r)
      BY DEF Build!Insert, Insert
<1>3. \A my : Build!NewRow(rep, my) = NewRow(rep, my)
      BY DEF Build!NewRow, NewRow
<1>4. Build!Band(rep) = Band(rep)
      BY DEF Build!Band, Band, Build!Null, Null
<1> QED
    BY <1>1, <1>2, <1>3, <1>4 DEF Build!SpawnNet, SpawnNet

\* a collapse;
LEMMA SameCollapse ==
  \A members, spans, rep, timestamps, n :
    Build!CollapseInto(members, spans, rep, timestamps, n)
      = CollapseInto(members, spans, rep, timestamps, n)
BY SameWidened, SameCollapsed DEF Build!CollapseInto, CollapseInto

\* the newest candidates;
LEMMA SameNewest == \A members, cand : Build!Newest(members, cand) = Newest(members, cand)
BY DEF Build!Newest, Newest

\* and all that routing can do.
LEMMA SameAssign ==
  \A members, spans, rep, timestamps :
    Build!AssignNet(members, spans, rep, timestamps) = AssignNet(members, spans, rep, timestamps)
<1> TAKE members, spans, rep, timestamps
<1>1. {Build!CollapseInto(members, spans, rep, timestamps, n) :
         n \in Newest(members, Candidates(members, spans, rep))}
      = {CollapseInto(members, spans, rep, timestamps, n) :
           n \in Newest(members, Candidates(members, spans, rep))}
      BY SameCollapse
<1> QED
    BY <1>1, SameSpawn, SameNewest, SameCandidates DEF Build!AssignNet, AssignNet

------------------------------------------------------------------------------
NetId == {n \in Nat : n >= SystemNetStart}

\* The locals of the only thread.  It executes a build, or a merge request, or nothing.
Typed(t) ==
  /\ reports \subseteq Reports /\ NetTable(building) /\ faults \in Nat
  /\ DOMAIN run = Threads
  /\ DOMAIN run[t] = {"pc", "members", "spans", "loaded", "seen", "logged", "todo", "rows",
                      "entries", "at"}
  /\ NetTable(run[t].members) /\ DOMAIN run[t].spans = DOMAIN run[t].members
  /\ run[t].rows \subseteq DOMAIN run[t].members /\ run[t].todo \subseteq Reports
  /\ run[t].loaded \in BOOLEAN
  /\ DOMAIN req = Threads
  /\ DOMAIN req[t] = {"pc", "pair", "fresh", "myA", "survivor", "absorbed", "found", "todo"}
  /\ Build!Resting(t) \/ Merge!Idle(t)
  /\ req[t].pc = "rowB" => req[t].myA \in Nat \cup {Null}
  /\ req[t].pc \in {"find", "move"} => req[t].survivor \in Nat /\ req[t].absorbed \in Nat
  /\ req[t].pc = "move" => req[t].todo \subseteq NetId

\* What a step of the build pipeline can do: leave alone the nets and the members of the
\* run under way,
Elsewhere(t) ==
  /\ UNCHANGED <<building, candidates, req, asked>>
  /\ faults' = faults \/ faults' = faults + 1
  /\ \/ run'[t].pc = "idle"
     \/ run[t].pc # "idle" /\ run'[t].members = run[t].members

\* read the nets,
Begins(t) ==
  /\ UNCHANGED <<building, candidates, req, asked, faults>>
  /\ run[t].pc = "idle" /\ req[t].pc = "idle" /\ run'[t].pc # "idle"
  /\ run'[t].members = building

\* route a report,
Folds(t) ==
  /\ UNCHANGED <<building, candidates, req, asked, faults>>
  /\ run[t].pc # "idle"
  /\ \E rep \in Report : \E routed :
       Routed(run[t].members, rep, routed) /\ run'[t].members = routed.members

\* write a member back,
Syncs(t) ==
  /\ UNCHANGED <<candidates, req, asked, faults>>
  /\ run[t].pc # "idle" /\ run'[t].pc # "idle" /\ run'[t].members = run[t].members
  /\ \E n \in DOMAIN run[t].members : building' = Insert(building, n, run[t].members[n])

\* or drop the nets.
Drops ==
  UNCHANGED <<candidates, run, req, asked>> /\ building' = EmptyTable /\ faults' = faults + 1

\* A table with one more net.
LEMMA InsertNet ==
  ASSUME NEW nets, NetTable(nets), NEW n \in NetId, NEW row \in NetRow
  PROVE  NetTable(Insert(nets, n, row))
<1>1. DOMAIN Insert(nets, n, row) = DOMAIN nets \cup {n}
      BY DEF Insert
<1>2. IsFiniteSet(DOMAIN nets \cup {n})
      BY FS_AddElement DEF NetTable
<1>3. Insert(nets, n, row) \in [DOMAIN nets \cup {n} -> NetRow]
      BY DEF Insert, NetTable
<1> QED
    BY <1>1, <1>2, <1>3 DEF NetTable, NetId

\* The table with no row.
LEMMA NoNetsTable == NetTable(EmptyTable)
BY NoNets DEF Sighted

\* The state the service starts in is of that kind.
LEMMA TypedStart == ASSUME NEW t, Threads = {t} PROVE Init => Typed(t)
<1> SUFFICES ASSUME Init PROVE Typed(t)
    OBVIOUS
<1>1. building = EmptyTable
      BY DEF Init, Build!Init, Build!EmptyTable, EmptyTable
<1>2. run[t] = Build!NoRun /\ DOMAIN run = Threads
      BY DEF Init, Build!Init, Build!BuildInit
<1>3. req[t] = Merge!NoReq /\ DOMAIN req = Threads
      BY DEF Init, Merge!MergeInit
<1>4. Build!NoRun.members = EmptyTable
      BY DEF Build!NoRun, Build!EmptyTable, EmptyTable
<1>5. /\ Build!NoRun.pc = "idle" /\ Build!NoRun.spans = EmptyTable
      /\ Build!NoRun.rows = {} /\ Build!NoRun.todo = {} /\ Build!NoRun.loaded = FALSE
      /\ DOMAIN Build!NoRun = {"pc", "members", "spans", "loaded", "seen", "logged", "todo",
                               "rows", "entries", "at"}
      BY DEF Build!NoRun, Build!EmptyTable, EmptyTable
<1>6. /\ Merge!NoReq.pc = "idle"
      /\ DOMAIN Merge!NoReq = {"pc", "pair", "fresh", "myA", "survivor", "absorbed", "found",
                               "todo"}
      BY DEF Merge!NoReq
<1>7. reports = {} /\ faults = 0
      BY DEF Init, Build!Init, Build!BuildInit
<1> QED
    BY <1>1, <1>2, <1>3, <1>4, <1>5, <1>6, <1>7, NoNetsTable DEF Typed, Build!Resting, Merge!Idle

\* The steps of the build pipeline.
LEMMA BuildSteps ==
  ASSUME NEW t, Threads = {t}, Typed(t),
         ReportRequest \/ BuildRequest(t) \/ BuildWork(t) \/ DropTable
  PROVE  /\ Typed(t)'
         /\ Elsewhere(t) \/ Begins(t) \/ Folds(t) \/ Syncs(t) \/ Drops
<1> DEFINE r == run[t]
           fields == {"pc", "members", "spans", "loaded", "seen", "logged", "todo", "rows",
                      "entries", "at"}
           RunOk(l) ==
             /\ DOMAIN l = fields
             /\ NetTable(l.members) /\ DOMAIN l.spans = DOMAIN l.members
             /\ l.rows \subseteq DOMAIN l.members /\ l.todo \subseteq Reports
             /\ l.loaded \in BOOLEAN
<1>0. RunOk(r) /\ DOMAIN run = {t} /\ NetTable(building) /\ reports \subseteq Reports
      BY DEF Typed
<1>b. \A l : Build!Become(t, l) => run'[t] = l /\ DOMAIN run' = Threads
      BY <1>0 DEF Build!Become
<1>n. /\ RunOk(Build!NoRun) /\ Build!NoRun.pc = "idle"
  <2>1. /\ Build!NoRun.pc = "idle" /\ Build!NoRun.spans = EmptyTable
        /\ Build!NoRun.members = EmptyTable
        /\ Build!NoRun.rows = {} /\ Build!NoRun.todo = {} /\ Build!NoRun.loaded = FALSE
        /\ DOMAIN Build!NoRun = fields
        BY DEF Build!NoRun, Build!EmptyTable, EmptyTable
  <2> QED
      BY <2>1, NoNetsTable
<1>q. ASSUME RunOk(run'[t]), DOMAIN run' = Threads, NetTable(building'), faults' \in Nat,
             reports' \subseteq Reports, req' = req,
             run'[t].pc = "idle" \/ req[t].pc = "idle"
      PROVE  Typed(t)'
      BY <1>q DEF Typed, Build!Resting, Merge!Idle
<1>e. ASSUME UNCHANGED <<reports, building, candidates, req, asked>>,
             faults' = faults \/ faults' = faults + 1,
             NEW l, Build!Become(t, l), RunOk(l),
             l.pc = "idle" \/ (r.pc # "idle" /\ l.members = r.members)
      PROVE  Typed(t)' /\ Elsewhere(t)
  <2>1. run'[t] = l /\ DOMAIN run' = Threads
        BY <1>b, <1>e
  <2>2. l.pc = "idle" \/ req[t].pc = "idle"
        BY <1>e DEF Typed, Build!Resting, Merge!Idle
  <2>3. faults' \in Nat
        BY <1>e DEF Typed
  <2>4. Typed(t)'
        BY <1>0, <1>e, <1>q, <2>1, <2>2, <2>3
  <2> QED
      BY <1>e, <2>1, <2>4 DEF Elsewhere
<1>f. Build!Return(t) => Build!Become(t, Build!NoRun)
      BY DEF Build!Return
<1>1. CASE ReportRequest
  <2>1. /\ UNCHANGED <<building, run, faults, candidates, req, asked>>
        /\ reports' \subseteq Reports
        BY <1>0, <1>1 DEF ReportRequest, Build!PutReport, Build!DeleteReport, mergeOnly
  <2>2. Typed(t)'
        BY <2>1 DEF Typed, Build!Resting, Merge!Idle
  <2> QED
      BY <2>1, <2>2 DEF Elsewhere
<1>2. CASE BuildRequest(t)
  <2> DEFINE l == [Build!NoRun EXCEPT !.pc = "history",
                             !.members = building,
                             !.spans = [n \in DOMAIN building |-> Build!NoSpan],
                             !.loaded = building # Build!EmptyTable]
  <2>1. /\ UNCHANGED <<reports, building, faults, candidates, req, asked>>
        /\ Build!Become(t, l) /\ r.pc = "idle" /\ req[t].pc = "idle"
        BY <1>2 DEF BuildRequest, Free, Build!ReadBuilding, Build!Resting, Merge!Idle, mergeOnly
  <2>2. RunOk(l) /\ l.pc # "idle" /\ l.members = building
    <3>1. DOMAIN l = fields /\ l.members = building /\ DOMAIN l.spans = DOMAIN building
          BY <1>n
    <3>2. /\ l.pc = "history" /\ l.rows = Build!NoRun.rows /\ l.todo = Build!NoRun.todo
          /\ l.loaded \in BOOLEAN
          BY <1>n
    <3>3. l.rows = {} /\ l.todo = {}
          BY <3>2 DEF Build!NoRun
    <3> HIDE DEF l
    <3> QED
        BY <1>0, <3>1, <3>2, <3>3
  <2> HIDE DEF l
  <2>3. run'[t] = l /\ DOMAIN run' = Threads
        BY <1>b, <2>1
  <2>4. Typed(t)'
    <3>1. faults' \in Nat
          BY <2>1 DEF Typed
    <3> QED
        BY <1>0, <1>q, <2>1, <2>2, <2>3, <3>1
  <2> QED
      BY <2>1, <2>2, <2>3, <2>4 DEF Begins
<1>3. CASE BuildWork(t)
  <2>0. UNCHANGED <<candidates, req, asked>>
        BY <1>3 DEF BuildWork, mergeOnly
  <2>1. CASE Build!ReadHistory(t)
    <3> DEFINE l == [r EXCEPT !.pc = "reports",
                              !.seen = {history[k].sig : k \in DOMAIN history},
                              !.logged = history # Build!EmptyTable]
    <3>1. /\ UNCHANGED <<reports, building, faults>> /\ Build!Become(t, l) /\ r.pc = "history"
          BY <2>1 DEF Build!ReadHistory, Build!InRun
    <3>2. RunOk(l) /\ l.members = r.members
          BY <1>0
    <3> HIDE DEF l, r, RunOk
    <3> QED
        BY <1>e, <2>0, <3>1, <3>2
  <2>2. CASE Build!ReadReports(t)
    <3> DEFINE l == [r EXCEPT !.pc = "fold", !.todo = reports]
    <3>1. /\ UNCHANGED <<reports, building, faults>> /\ r.pc = "reports"
          /\ Build!Become(t, l) \/ Build!Become(t, Build!NoRun)
          BY <1>f, <2>2 DEF Build!ReadReports, Build!InRun
    <3>2. RunOk(l) /\ l.members = r.members
          BY <1>0
    <3> HIDE DEF l, r, RunOk
    <3> QED
        BY <1>e, <1>n, <2>0, <3>1, <3>2
  <2>3. CASE Build!SkipReport(t)
    <3>1. PICK rep : Build!Become(t, [r EXCEPT !.todo = @ \ {rep}])
          BY <2>3 DEF Build!SkipReport
    <3> DEFINE l == [r EXCEPT !.todo = @ \ {rep}]
    <3>2. /\ UNCHANGED <<reports, building, faults>> /\ r.pc = "fold"
          BY <2>3 DEF Build!SkipReport, Build!InRun
    <3>3. RunOk(l) /\ l.members = r.members
          BY <1>0
    <3>4. Build!Become(t, l)
          BY <3>1
    <3> HIDE DEF l, r, RunOk
    <3> QED
        BY <1>e, <2>0, <3>2, <3>3, <3>4
  <2>4. CASE Build!FoldReport(t)
    <3>0. PICK rep \in r.todo, timestamps \in {TRUE, r.loaded} :
            \E routed \in Build!AssignNet(r.members, r.spans, rep, timestamps) :
              Build!Become(t, [r EXCEPT !.todo = @ \ {rep},
                                        !.seen = @ \cup {Build!Signature(rep)},
                                        !.members = routed.members,
                                        !.spans = routed.spans,
                                        !.entries = Append(@, Build!Entry(rep, routed))])
          BY <2>4 DEF Build!FoldReport
    <3>1. PICK routed \in Build!AssignNet(r.members, r.spans, rep, timestamps) :
            Build!Become(t, [r EXCEPT !.todo = @ \ {rep},
                                      !.seen = @ \cup {Build!Signature(rep)},
                                      !.members = routed.members,
                                      !.spans = routed.spans,
                                      !.entries = Append(@, Build!Entry(rep, routed))])
          BY <3>0
    <3> DEFINE l == [r EXCEPT !.todo = @ \ {rep},
                              !.seen = @ \cup {Build!Signature(rep)},
                              !.members = routed.members,
                              !.spans = routed.spans,
                              !.entries = Append(@, Build!Entry(rep, routed))]
    <3>2. /\ UNCHANGED <<reports, building, faults>> /\ r.pc = "fold"
          BY <2>4 DEF Build!FoldReport, Build!InRun
    <3>3. rep \in Report /\ timestamps \in BOOLEAN
          BY <1>0, ServiceConstants DEF Build!Report, Report
    <3>4. routed \in AssignNet(r.members, r.spans, rep, timestamps)
          BY SameAssign
    <3>5. NetTable(routed.members) /\ Routed(r.members, rep, routed)
          BY <1>0, <3>3, <3>4, Routing
    <3>6. /\ DOMAIN l = fields /\ l.members = routed.members /\ l.spans = routed.spans
          /\ l.todo = r.todo \ {rep} /\ l.rows = r.rows /\ l.loaded = r.loaded
          BY <1>0
    <3>7. Build!Become(t, l)
          BY <3>1
    <3> HIDE DEF l
    <3>8. RunOk(l)
          BY <1>0, <3>5, <3>6 DEF Routed
    <3>9. run'[t] = l /\ DOMAIN run' = Threads
          BY <1>b, <3>7
    <3>10. req[t].pc = "idle"
           BY <3>2 DEF Typed, Build!Resting, Merge!Idle
    <3>11. Typed(t)'
      <4>1. faults' \in Nat
            BY <3>2 DEF Typed
      <4> QED
          BY <1>0, <1>q, <2>0, <3>2, <3>8, <3>9, <3>10, <4>1
    <3>12. Folds(t)
           BY <2>0, <3>2, <3>3, <3>5, <3>6, <3>9 DEF Folds
    <3> QED
        BY <3>11, <3>12
  <2>5. CASE Build!StartSync(t)
    <3> DEFINE l == [r EXCEPT !.pc = "sync", !.rows = DOMAIN r.members]
    <3>1. /\ UNCHANGED <<reports, building, faults>> /\ Build!Become(t, l) /\ r.pc = "fold"
          BY <2>5 DEF Build!StartSync, Build!InRun
    <3>2. RunOk(l) /\ l.members = r.members
          BY <1>0
    <3> HIDE DEF l, r, RunOk
    <3> QED
        BY <1>e, <2>0, <3>1, <3>2
  <2>6. CASE Build!SyncRow(t)
    <3>1. PICK n \in r.rows :
            /\ building' = Build!Insert(building, n, r.members[n])
            /\ Build!Become(t, [r EXCEPT !.rows = @ \ {n}])
          BY <2>6 DEF Build!SyncRow
    <3> DEFINE l == [r EXCEPT !.rows = @ \ {n}]
    <3>2. UNCHANGED <<reports, faults>> /\ r.pc = "sync"
          BY <2>6 DEF Build!SyncRow, Build!InRun
    <3>3. RunOk(l) /\ l.members = r.members /\ l.pc = r.pc
          BY <1>0
    <3>4. run'[t] = l /\ DOMAIN run' = Threads
          BY <1>b, <3>1
    <3> HIDE DEF l
    <3>5. n \in DOMAIN r.members /\ building' = Insert(building, n, r.members[n])
          BY <1>0, <3>1 DEF Build!Insert, Insert
    <3>6. NetTable(building')
      <4>1. n \in NetId /\ r.members[n] \in NetRow
            BY <1>0, <3>5 DEF NetTable, NetId
      <4> QED
          BY <1>0, <3>5, <4>1, InsertNet
    <3>7. req[t].pc = "idle"
           BY <3>2 DEF Typed, Build!Resting, Merge!Idle
    <3>8. Typed(t)'
      <4>1. faults' \in Nat
            BY <3>2 DEF Typed
      <4> QED
          BY <1>0, <1>q, <2>0, <3>2, <3>3, <3>4, <3>6, <3>7, <4>1
    <3>9. Syncs(t)
           BY <2>0, <3>2, <3>3, <3>4, <3>5 DEF Syncs
    <3> QED
        BY <3>8, <3>9
  <2>7. CASE Build!StartAppend(t)
    <3> DEFINE l == [r EXCEPT !.pc = "append", !.at = clock]
    <3>1. /\ UNCHANGED <<reports, building, faults>> /\ r.pc = "sync"
          /\ Build!Become(t, l) \/ Build!Become(t, Build!NoRun)
          BY <1>f, <2>7 DEF Build!StartAppend, Build!InRun
    <3>2. RunOk(l) /\ l.members = r.members
          BY <1>0
    <3> HIDE DEF l, r, RunOk
    <3> QED
        BY <1>e, <1>n, <2>0, <3>1, <3>2
  <2>8. CASE Build!AppendEntry(t)
    <3> DEFINE l == [r EXCEPT !.entries = Tail(r.entries)]
    <3>1. /\ UNCHANGED <<reports, building, faults>> /\ r.pc = "append"
          /\ Build!Become(t, l) \/ Build!Become(t, Build!NoRun)
          BY <1>f, <2>8 DEF Build!AppendEntry, Build!InRun
    <3>2. RunOk(l) /\ l.members = r.members
          BY <1>0
    <3> HIDE DEF l, r, RunOk
    <3> QED
        BY <1>e, <1>n, <2>0, <3>1, <3>2
  <2>9. CASE Build!AbortRun(t)
    <3>1. /\ UNCHANGED <<reports, building>> /\ faults' = faults + 1
          /\ Build!Become(t, Build!NoRun)
          BY <1>f, <2>9 DEF Build!AbortRun
    <3> HIDE DEF r, RunOk
    <3> QED
        BY <1>e, <1>n, <2>0, <3>1
  <2> QED
      BY <1>3, <2>1, <2>2, <2>3, <2>4, <2>5, <2>6, <2>7, <2>8, <2>9 DEF BuildWork, Build!BuildStep
<1>4. CASE DropTable
  <2>1. /\ UNCHANGED <<reports, run, candidates, req, asked>> /\ faults' = faults + 1
        /\ building' = EmptyTable
        BY <1>4 DEF DropTable, Build!DropNets, mergeOnly, Build!EmptyTable, EmptyTable
  <2>2. Typed(t)'
    <3>1. faults' \in Nat
          BY <2>1 DEF Typed
    <3> QED
        BY <2>1, <3>1, NoNetsTable DEF Typed, Build!Resting, Merge!Idle
  <2> QED
      BY <2>1, <2>2 DEF Drops
<1> QED
    BY <1>1, <1>2, <1>3, <1>4
------------------------------------------------------------------------------
\* A chain of the given pairs joins m and n: no set of numbers that the pairs never leave
\* holds one without the other.
JoinedBy(m, n, pairs) ==
  \A S \in SUBSET Nat : (\A p \in pairs : p[1] \in S <=> p[2] \in S) => (m \in S <=> n \in S)

\* Rows with one group number are joined.
Grouped(nets, pairs) ==
  \A m, n \in DOMAIN nets : nets[m].my = nets[n].my => JoinedBy(m, n, pairs)

\* Every row carrying the number my is joined to net m.
Carriers(my, m) == \A n \in DOMAIN building : building[n].my = my => JoinedBy(n, m, asked)

\* The numbers an approval works with are those of nets joined to its pair.
RequestJoined(t) ==
  /\ req[t].pc \in {"rowA", "rowB", "find", "move"} => req[t].pair \in asked
  /\ req[t].pc = "rowB" => Carriers(req[t].myA, req[t].pair[1])
  /\ req[t].pc \in {"find", "move"} => Carriers(req[t].survivor, req[t].pair[1])
  /\ req[t].pc = "find" => Carriers(req[t].absorbed, req[t].pair[1])
  /\ req[t].pc = "move" => \A n \in req[t].todo : JoinedBy(n, req[t].pair[1], asked)

\* A build holds every stored net under its stored number, and its own nets are joined.
RunJoined(t) ==
  run[t].pc # "idle" =>
    /\ \A n \in DOMAIN building :
         n \in DOMAIN run[t].members /\ run[t].members[n].my = building[n].my
    /\ Grouped(run[t].members, asked)

GroupInv(t) == Typed(t) /\ Grouped(building, asked) /\ RequestJoined(t) /\ RunJoined(t)

\* A net is joined to itself;
LEMMA JoinedOnce == \A m, pairs : JoinedBy(m, m, pairs)
BY DEF JoinedBy

\* a chain can be followed backwards;
LEMMA JoinedBack == \A m, n, pairs : JoinedBy(m, n, pairs) => JoinedBy(n, m, pairs)
BY DEF JoinedBy

\* two chains make one;
LEMMA JoinedOn ==
  \A k, m, n, pairs : JoinedBy(k, m, pairs) /\ JoinedBy(m, n, pairs) => JoinedBy(k, n, pairs)
BY DEF JoinedBy

\* a pair is a chain;
LEMMA JoinedPair == \A p, pairs : p \in pairs => JoinedBy(p[2], p[1], pairs)
BY DEF JoinedBy

\* and more pairs only join more.
LEMMA JoinedMore ==
  ASSUME NEW pairs, NEW more, pairs \subseteq more
  PROVE  \A m, n : JoinedBy(m, n, pairs) => JoinedBy(m, n, more)
BY DEF JoinedBy

\* Routing a report keeps the number of every net, and a new net has one of its own.
LEMMA RoutingKeepsGroups ==
  ASSUME NEW members, NetTable(members), NEW rep \in Report, NEW routed,
         Routed(members, rep, routed), NEW pairs, Grouped(members, pairs)
  PROVE  /\ \A n \in DOMAIN members :
              n \in DOMAIN routed.members /\ routed.members[n].my = members[n].my
         /\ Grouped(routed.members, pairs)
<1> DEFINE n == routed.net
<1>1. /\ DOMAIN routed.members = DOMAIN members \cup {n}
      /\ \A m \in DOMAIN members \ {n} : routed.members[m] = members[m]
      BY DEF Routed
<1>2. CASE n \in DOMAIN members
  <2>1. PICK timestamps \in BOOLEAN : routed.members[n] = Collapsed(members[n], rep, timestamps)
        BY <1>2 DEF Routed
  <2>2. members[n] \in NetRow
        BY <1>2 DEF NetTable
  <2>3. routed.members[n].my = members[n].my
        BY <2>1, <2>2, CollapsedRow
  <2> HIDE DEF n
  <2>4. \A m \in DOMAIN members : routed.members[m].my = members[m].my
        BY <1>1, <2>3
  <2>5. DOMAIN routed.members = DOMAIN members
        BY <1>1, <1>2
  <2> QED
      BY <2>4, <2>5 DEF Grouped
<1>3. CASE n \notin DOMAIN members
  <2>1. routed.members[n] = NewRow(rep, NextMyNetId(members))
        BY <1>3 DEF Routed
  <2>2. routed.members[n].my = NextMyNetId(members)
        BY <2>1 DEF NewRow
  <2>3. \A m \in DOMAIN members : members[m].my # NextMyNetId(members)
    <3>1. \A m \in DOMAIN members : members[m].my \in Nat
          BY DEF NetTable, NetRow
    <3> QED
        BY <3>1, NewIds
  <2> HIDE DEF n
  <2>4. \A m \in DOMAIN members : routed.members[m].my = members[m].my
        BY <1>1, <1>3
  <2>5. \A k, m \in DOMAIN routed.members :
          routed.members[k].my = routed.members[m].my => JoinedBy(k, m, pairs)
        BY <1>1, <1>3, <2>2, <2>3, <2>4, JoinedOnce DEF Grouped
  <2> QED
      BY <1>1, <2>4, <2>5 DEF Grouped
<1> QED
    BY <1>2, <1>3

\* At the start there is no net.
LEMMA GroupStart == ASSUME NEW t, Threads = {t} PROVE Init => GroupInv(t)
<1> SUFFICES ASSUME Init PROVE GroupInv(t)
    OBVIOUS
<1>1. building = EmptyTable /\ run[t].pc = "idle" /\ req[t].pc = "idle"
      BY DEF Init, Build!Init, Build!BuildInit, Build!NoRun, Build!EmptyTable, EmptyTable,
             Merge!MergeInit, Merge!NoReq
<1>2. Grouped(building, asked)
      BY <1>1 DEF Grouped, EmptyTable
<1> QED
    BY <1>1, <1>2, TypedStart DEF GroupInv, RequestJoined, RunJoined

\* No step of the build pipeline changes the group number of a net that is stored before
\* and after it.
LEMMA BuildKeepsGroups ==
  ASSUME NEW t, Threads = {t}, GroupInv(t),
         ReportRequest \/ BuildRequest(t) \/ BuildWork(t) \/ DropTable
  PROVE  /\ GroupInv(t)'
         /\ \A n \in DOMAIN building \cap DOMAIN building' : building'[n].my = building[n].my
<1>0. Typed(t) /\ Grouped(building, asked) /\ RequestJoined(t) /\ RunJoined(t)
      BY DEF GroupInv
<1>t. Typed(t)'
      BY <1>0, BuildSteps
<1>n. NetTable(building) /\ NetTable(run[t].members)
      BY <1>0 DEF Typed
<1>1. CASE Elsewhere(t)
  <2>1. UNCHANGED <<building, candidates, req, asked>>
        BY <1>1 DEF Elsewhere
  <2>2. RunJoined(t)'
        BY <1>0, <1>1 DEF Elsewhere, RunJoined
  <2> QED
      BY <1>0, <1>t, <2>1, <2>2 DEF GroupInv, RequestJoined, Carriers
<1>2. CASE Begins(t)
  <2>1. UNCHANGED <<building, candidates, req, asked>> /\ run'[t].members = building
        BY <1>2 DEF Begins
  <2>2. RunJoined(t)'
        BY <1>0, <2>1 DEF RunJoined
  <2> QED
      BY <1>0, <1>t, <2>1, <2>2 DEF GroupInv, RequestJoined, Carriers
<1>3. CASE Folds(t)
  <2>1. UNCHANGED <<building, candidates, req, asked>> /\ run[t].pc # "idle"
        BY <1>3 DEF Folds
  <2>a. PICK rep \in Report :
          \E routed : Routed(run[t].members, rep, routed) /\ run'[t].members = routed.members
        BY <1>3 DEF Folds
  <2>2. PICK routed :
          Routed(run[t].members, rep, routed) /\ run'[t].members = routed.members
        BY <2>a
  <2>3. /\ \A n \in DOMAIN building :
             n \in DOMAIN run[t].members /\ run[t].members[n].my = building[n].my
        /\ Grouped(run[t].members, asked)
        BY <1>0, <2>1 DEF RunJoined
  <2>4. /\ \A n \in DOMAIN run[t].members :
             n \in DOMAIN routed.members /\ routed.members[n].my = run[t].members[n].my
        /\ Grouped(routed.members, asked)
        BY <1>n, <2>2, <2>3, RoutingKeepsGroups
  <2>5. RunJoined(t)'
        BY <2>1, <2>2, <2>3, <2>4 DEF RunJoined
  <2> QED
      BY <1>0, <1>t, <2>1, <2>5 DEF GroupInv, RequestJoined, Carriers
<1>4. CASE Syncs(t)
  <2>1. /\ UNCHANGED <<candidates, req, asked>> /\ run[t].pc # "idle"
        /\ run'[t].members = run[t].members
        BY <1>4 DEF Syncs
  <2>2. PICK n \in DOMAIN run[t].members :
          building' = Insert(building, n, run[t].members[n])
        BY <1>4 DEF Syncs
  <2>3. /\ \A m \in DOMAIN building :
             m \in DOMAIN run[t].members /\ run[t].members[m].my = building[m].my
        /\ Grouped(run[t].members, asked)
        BY <1>0, <2>1 DEF RunJoined
  <2>4. /\ DOMAIN building' = DOMAIN building \cup {n}
        /\ \A m \in DOMAIN building' :
             building'[m] = IF m = n THEN run[t].members[n] ELSE building[m]
        BY <2>2 DEF Insert
  <2>5. \A m \in DOMAIN building' :
          m \in DOMAIN run[t].members /\ run[t].members[m].my = building'[m].my
        BY <2>3, <2>4
  <2>6. Grouped(building', asked')
        BY <2>1, <2>3, <2>5 DEF Grouped
  <2>7. RunJoined(t)'
        BY <2>1, <2>3, <2>5 DEF RunJoined
  <2>8. req[t].pc = "idle"
        BY <1>0, <2>1 DEF Typed, Build!Resting, Merge!Idle
  <2>9. RequestJoined(t)'
        BY <2>1, <2>8 DEF RequestJoined
  <2> QED
      BY <1>t, <2>3, <2>5, <2>6, <2>7, <2>9 DEF GroupInv
<1>5. CASE Drops
  <2>1. UNCHANGED <<candidates, run, req, asked>> /\ building' = EmptyTable
        BY <1>5 DEF Drops
  <2>2. DOMAIN building' = {}
        BY <2>1 DEF EmptyTable
  <2>3. RunJoined(t)' /\ RequestJoined(t)' /\ Grouped(building', asked')
        BY <1>0, <2>1, <2>2 DEF RunJoined, RequestJoined, Carriers, Grouped
  <2> QED
      BY <1>t, <2>2, <2>3 DEF GroupInv
<1> QED
    BY <1>0, <1>1, <1>2, <1>3, <1>4, <1>5, BuildSteps

\* Nor does a step of a request, except that an approval moves nets.
LEMMA MergeKeepsGroups ==
  ASSUME NEW t, Threads = {t}, GroupInv(t), MergeRequest(t) \/ MergeWork(t)
  PROVE  /\ GroupInv(t)'
         /\ building' = building \/ Merge!At(t, "move")
<1> DEFINE q == req[t]
           fields == {"pc", "pair", "fresh", "myA", "survivor", "absorbed", "found", "todo"}
           Holds(l) ==
             /\ DOMAIN l = fields
             /\ l.pc = "rowB" => l.myA \in Nat \cup {Null}
             /\ l.pc \in {"find", "move"} => l.survivor \in Nat /\ l.absorbed \in Nat
             /\ l.pc = "move" => l.todo \subseteq NetId
           Leads(l, pairs) ==
             /\ l.pc \in {"rowA", "rowB", "find", "move"} => l.pair \in pairs
             /\ l.pc = "rowB" => Carriers(l.myA, l.pair[1])
             /\ l.pc \in {"find", "move"} => Carriers(l.survivor, l.pair[1])
             /\ l.pc = "find" => Carriers(l.absorbed, l.pair[1])
             /\ l.pc = "move" => \A n \in l.todo : JoinedBy(n, l.pair[1], asked)
<1>0. /\ Typed(t) /\ Grouped(building, asked) /\ RequestJoined(t) /\ RunJoined(t)
      /\ NetTable(building) /\ faults \in Nat
      /\ DOMAIN req = Threads /\ Holds(q) /\ Leads(q, asked) /\ UNCHANGED <<reports, run>>
  <2>1. UNCHANGED <<reports, run>>
        BY DEF MergeRequest, MergeWork, buildOnly
  <2>2. Typed(t) /\ Grouped(building, asked) /\ RequestJoined(t) /\ RunJoined(t)
        BY DEF GroupInv
  <2> QED
      BY <2>1, <2>2 DEF Typed, RequestJoined
<1>r. run[t].pc = "idle"
  <2>1. CASE MergeRequest(t)
        BY <2>1 DEF MergeRequest, Free, Build!Resting
  <2>2. CASE MergeWork(t)
    <3>1. req[t].pc # "idle"
          BY <2>2 DEF MergeWork, Merge!Step, Merge!Detect, Merge!Approve, Merge!Reject,
                      Merge!ReadPairs, Merge!InsertCandidate, Merge!ListPending,
                      Merge!ReadRowA, Merge!ReadRowB, Merge!FindAbsorbed, Merge!MoveNet,
                      Merge!MarkApproved, Merge!Abort, Merge!At, Merge!Idle
    <3> QED
        BY <1>0, <3>1 DEF Typed, Build!Resting, Merge!Idle
  <2> QED
      BY <2>1, <2>2
<1>g. \A l : Merge!Goto(t, l) => req'[t] = l /\ DOMAIN req' = Threads
      BY <1>0 DEF Merge!Goto
<1>n. \A n \in DOMAIN building : building[n] \in NetRow /\ building[n].my \in Nat /\ n \in NetId
      BY <1>0 DEF NetTable, NetRow, NetId
<1>u. ASSUME building' = building, faults' \in Nat, asked \subseteq asked',
             NEW l, Merge!Goto(t, l), Holds(l), Leads(l, asked')
      PROVE  GroupInv(t)'
  <2>1. req'[t] = l /\ DOMAIN req' = Threads
        BY <1>g, <1>u
  <2>2. \A m, n : JoinedBy(m, n, asked) => JoinedBy(m, n, asked')
        BY <1>u, JoinedMore
  <2>3. \A my, m : Carriers(my, m) => Carriers(my, m)'
        BY <1>u, <2>2 DEF Carriers
  <2>4. Typed(t)'
        BY <1>0, <1>r, <1>u, <2>1 DEF Typed, Build!Resting, Merge!Idle
  <2>5. Grouped(building', asked')
        BY <1>0, <1>u, <2>2 DEF Grouped
  <2>6. RunJoined(t)'
        BY <1>0, <1>r DEF RunJoined
  <2>7. RequestJoined(t)'
    <3>1. Leads(req'[t], asked')
          BY <1>u, <2>1
    <3> QED
        BY <2>2, <2>3, <3>1 DEF RequestJoined
  <2> QED
      BY <2>4, <2>5, <2>6, <2>7 DEF GroupInv
<1>i. Holds(Merge!NoReq) /\ Leads(Merge!NoReq, asked)
      BY DEF Merge!NoReq
<1>f. Merge!Finish(t) => Merge!Goto(t, Merge!NoReq)
      BY DEF Merge!Finish
<1>1. CASE Merge!ReadNets(t)
  <2> DEFINE l == [Merge!NoReq EXCEPT
                     !.pc = IF building = Merge!EmptyTable THEN "list" ELSE "pairs",
                     !.fresh = Merge!ProposePairs(building)]
  <2>1. UNCHANGED <<building, faults, asked>> /\ Merge!Goto(t, l)
        BY <1>1 DEF Merge!ReadNets
  <2>2. DOMAIN l = fields /\ l.pc \in {"list", "pairs"}
        BY DEF Merge!NoReq
  <2> HIDE DEF l
  <2> QED
      BY <1>0, <1>u, <2>1, <2>2
<1>2. CASE Merge!ReadPairs(t)
  <2> DEFINE l == [q EXCEPT !.pc = "insert", !.fresh = @ \ DOMAIN candidates]
  <2>1. UNCHANGED <<building, faults, asked>> /\ Merge!Goto(t, l)
        BY <1>2 DEF Merge!ReadPairs
  <2>2. DOMAIN l = fields /\ l.pc = "insert"
        BY <1>0
  <2> HIDE DEF l
  <2> QED
      BY <1>0, <1>u, <2>1, <2>2
<1>3. CASE Merge!InsertCandidate(t)
  <2>1. PICK p \in q.fresh : Merge!Goto(t, [q EXCEPT !.fresh = @ \ {p}])
        BY <1>3 DEF Merge!InsertCandidate
  <2> DEFINE l == [q EXCEPT !.fresh = @ \ {p}]
  <2>2. UNCHANGED <<building, faults, asked>> /\ Merge!Goto(t, l) /\ q.pc = "insert"
        BY <1>3, <2>1 DEF Merge!InsertCandidate, Merge!At
  <2>3. DOMAIN l = fields /\ l.pc = "insert"
        BY <1>0, <2>2
  <2> HIDE DEF l
  <2> QED
      BY <1>0, <1>u, <2>2, <2>3
<1>4. CASE Merge!ListPending(t)
  <2>1. UNCHANGED <<building, faults, asked>> /\ Merge!Goto(t, Merge!NoReq)
        BY <1>4, <1>f DEF Merge!ListPending
  <2> HIDE DEF Holds, Leads
  <2> QED
      BY <1>0, <1>i, <1>u, <2>1
<1>5. ASSUME NEW p \in Merge!Pairs, NEW decision \in {"approve", "reject"},
             Merge!Decide(t, p, decision)
      PROVE  GroupInv(t)' /\ building' = building
  <2> DEFINE l == [Merge!NoReq EXCEPT
                     !.pc = IF decision = "approve" THEN "rowA" ELSE "reject",
                     !.pair = p]
  <2>1. /\ UNCHANGED <<building, faults>> /\ Merge!Goto(t, l)
        /\ asked' = IF decision = "approve" THEN asked \cup {p} ELSE asked
        BY <1>5 DEF Merge!Decide
  <2>2. /\ DOMAIN l = fields /\ l.pair = p
        /\ l.pc = (IF decision = "approve" THEN "rowA" ELSE "reject")
        BY DEF Merge!NoReq
  <2> HIDE DEF l
  <2> QED
      BY <1>0, <1>u, <2>1, <2>2
<1>6. CASE Merge!Reject(t)
  <2>1. UNCHANGED <<building, faults, asked>> /\ Merge!Goto(t, Merge!NoReq)
        BY <1>6, <1>f DEF Merge!Reject
  <2> HIDE DEF Holds, Leads
  <2> QED
      BY <1>0, <1>i, <1>u, <2>1
<1>7. CASE Merge!ReadRowA(t)
  <2> DEFINE my == Merge!Current(building, q.pair[1], Merge!BlankRow).my
             l == [q EXCEPT !.pc = "rowB", !.myA = my]
  <2>1. UNCHANGED <<building, faults, asked>> /\ Merge!Goto(t, l) /\ q.pc = "rowA"
        BY <1>7 DEF Merge!ReadRowA, Merge!At
  <2>2. DOMAIN l = fields /\ l.pc = "rowB" /\ l.myA = my /\ l.pair = q.pair
        BY <1>0
  <2>3. my \in Nat \cup {Null} /\ Carriers(my, q.pair[1])
    <3>1. CASE q.pair[1] \in DOMAIN building
      <4>1. my = building[q.pair[1]].my
            BY <3>1 DEF Merge!Current
      <4> QED
          BY <1>0, <1>n, <3>1, <4>1 DEF Carriers, Grouped
    <3>2. CASE q.pair[1] \notin DOMAIN building
      <4>1. my = Null
            BY <3>2 DEF Merge!Current, Merge!BlankRow, Merge!Null, Null
      <4>2. \A n \in DOMAIN building : building[n].my # Null
            BY <1>n DEF Null
      <4> QED
          BY <4>1, <4>2 DEF Carriers
    <3> QED
        BY <3>1, <3>2
  <2> HIDE DEF l, my
  <2> QED
      BY <1>0, <1>u, <2>1, <2>2, <2>3
<1>8. CASE Merge!ReadRowB(t)
  <2> DEFINE a == q.myA
             b == Merge!Current(building, q.pair[2], Merge!BlankRow).my
             l == [q EXCEPT !.pc = "find",
                            !.survivor = IF a < b THEN a ELSE b,
                            !.absorbed = IF a < b THEN b ELSE a]
             same == [q EXCEPT !.pc = "mark"]
  <2>1. UNCHANGED <<building, faults, asked>> /\ q.pc = "rowB"
        BY <1>8 DEF Merge!ReadRowB, Merge!At
  <2>2. /\ DOMAIN l = fields /\ l.pc = "find" /\ l.pair = q.pair
        /\ l.survivor = (IF a < b THEN a ELSE b) /\ l.absorbed = (IF a < b THEN b ELSE a)
        /\ DOMAIN same = fields /\ same.pc = "mark"
        BY <1>0
  <2>3. \/ Merge!Goto(t, Merge!NoReq)
        \/ Merge!Goto(t, same)
        \/ Merge!Goto(t, l) /\ a # Null /\ b # Null
        BY <1>8, <1>f DEF Merge!ReadRowB, Merge!Null, Null
  <2>4. b \in Nat \cup {Null} /\ (b # Null => Carriers(b, q.pair[1]))
    <3>1. CASE q.pair[2] \in DOMAIN building
      <4>1. b = building[q.pair[2]].my
            BY <3>1 DEF Merge!Current
      <4>2. JoinedBy(q.pair[2], q.pair[1], asked)
            BY <1>0, <2>1, JoinedPair
      <4>3. Carriers(b, q.pair[2])
            BY <1>0, <3>1, <4>1 DEF Carriers, Grouped
      <4>4. Carriers(b, q.pair[1])
        <5> HIDE DEF b, q
        <5> QED
            BY <4>2, <4>3, JoinedOn DEF Carriers
      <4> QED
          BY <1>n, <3>1, <4>1, <4>4
    <3>2. CASE q.pair[2] \notin DOMAIN building
          BY <3>2 DEF Merge!Current, Merge!BlankRow, Merge!Null, Null
    <3> QED
        BY <3>1, <3>2
  <2>5. a \in Nat \cup {Null} /\ Carriers(a, q.pair[1])
        BY <1>0, <2>1
  <2> HIDE DEF l, same, a, b
  <2>6. CASE Merge!Goto(t, Merge!NoReq)
    <3> HIDE DEF Holds, Leads
    <3> QED
        BY <1>0, <1>i, <1>u, <2>1, <2>6
  <2>7. CASE Merge!Goto(t, same)
        BY <1>0, <1>u, <2>1, <2>2, <2>7
  <2>8. CASE Merge!Goto(t, l) /\ a # Null /\ b # Null
    <3>1. l.survivor \in Nat /\ l.absorbed \in Nat
          BY <2>2, <2>4, <2>5, <2>8
    <3>2. Carriers(l.survivor, l.pair[1]) /\ Carriers(l.absorbed, l.pair[1])
          BY <2>2, <2>4, <2>5, <2>8
    <3> QED
        BY <1>0, <1>u, <2>1, <2>2, <2>8, <3>1, <3>2
  <2> QED
      BY <2>1, <2>3, <2>6, <2>7, <2>8
<1>9. CASE Merge!FindAbsorbed(t)
  <2>1. PICK rows \in SUBSET Merge!GroupRows(q.absorbed) :
          Merge!Goto(t, [q EXCEPT !.pc = "move", !.found = rows, !.todo = rows])
        BY <1>9 DEF Merge!FindAbsorbed
  <2> DEFINE l == [q EXCEPT !.pc = "move", !.found = rows, !.todo = rows]
  <2>2. UNCHANGED <<building, faults, asked>> /\ Merge!Goto(t, l) /\ q.pc = "find"
        BY <1>9, <2>1 DEF Merge!FindAbsorbed, Merge!At
  <2>3. /\ DOMAIN l = fields /\ l.pc = "move" /\ l.pair = q.pair /\ l.todo = rows
        /\ l.survivor = q.survivor /\ l.absorbed = q.absorbed
        BY <1>0
  <2>4. \A n \in rows : n \in DOMAIN building /\ building[n].my = q.absorbed
        BY <2>1 DEF Merge!GroupRows
  <2>5. rows \subseteq NetId /\ \A n \in rows : JoinedBy(n, q.pair[1], asked)
        BY <1>0, <1>n, <2>2, <2>4 DEF Carriers
  <2> HIDE DEF l
  <2> QED
      BY <1>0, <1>u, <2>2, <2>3, <2>5
<1>10. CASE Merge!MoveNet(t)
  <2> DEFINE row(n) == [Merge!Current(building, n, Merge!BlankRow) EXCEPT !.my = q.survivor]
  <2>1. PICK n \in q.todo :
          /\ building' = Merge!Insert(building, n, row(n))
          /\ Merge!Goto(t, [q EXCEPT !.todo = @ \ {n}])
        BY <1>10 DEF Merge!MoveNet
  <2> DEFINE l == [q EXCEPT !.todo = @ \ {n}]
  <2>2. UNCHANGED <<faults, asked>> /\ q.pc = "move"
        BY <1>10 DEF Merge!MoveNet, Merge!At
  <2>3. req'[t] = l /\ DOMAIN req' = Threads
        BY <1>g, <2>1
  <2>4. /\ DOMAIN l = fields /\ l.pc = "move" /\ l.pair = q.pair /\ l.todo = q.todo \ {n}
        /\ l.survivor = q.survivor /\ l.absorbed = q.absorbed
        BY <1>0, <2>2
  <2>5. n \in NetId /\ q.survivor \in Nat /\ JoinedBy(n, q.pair[1], asked)
        BY <1>0, <2>1, <2>2
  <2>6. row(n) \in NetRow /\ row(n).my = q.survivor
    <3>1. CASE n \in DOMAIN building
      <4>1. row(n) = [building[n] EXCEPT !.my = q.survivor]
            BY <3>1 DEF Merge!Current
      <4> QED
          BY <1>n, <2>5, <3>1, <4>1 DEF NetRow
    <3>2. CASE n \notin DOMAIN building
      <4>1. row(n) = [Merge!BlankRow EXCEPT !.my = q.survivor]
            BY <3>2 DEF Merge!Current
      <4> QED
          BY <2>5, <4>1 DEF Merge!BlankRow, Merge!Null, NetRow
    <3> QED
        BY <3>1, <3>2
  <2> HIDE DEF l, row
  <2>7. building' = Insert(building, n, row(n))
        BY <2>1 DEF Merge!Insert, Insert
  <2>8. NetTable(building')
        BY <1>0, <2>5, <2>6, <2>7, InsertNet
  <2>9. /\ DOMAIN building' = DOMAIN building \cup {n} /\ building'[n].my = q.survivor
        /\ \A m \in DOMAIN building \ {n} : building'[m] = building[m]
        BY <2>6, <2>7 DEF Insert
  <2>10. Carriers(q.survivor, q.pair[1])
         BY <1>0, <2>2
  <2>11. \A m \in DOMAIN building' :
           building'[m].my = q.survivor => JoinedBy(m, q.pair[1], asked)
         BY <2>5, <2>9, <2>10 DEF Carriers
  <2>12. Grouped(building', asked')
    <3>1. ASSUME NEW k \in DOMAIN building', NEW m \in DOMAIN building',
                 building'[k].my = building'[m].my
          PROVE  JoinedBy(k, m, asked)
      <4>1. CASE building'[k].my = q.survivor
        <5>1. JoinedBy(k, q.pair[1], asked) /\ JoinedBy(m, q.pair[1], asked)
              BY <2>11, <3>1, <4>1
        <5> QED
            BY <5>1, JoinedBack, JoinedOn
      <4>2. CASE building'[k].my # q.survivor
        <5>1. k # n /\ m # n
              BY <2>9, <3>1, <4>2
        <5> QED
            BY <1>0, <2>9, <3>1, <5>1 DEF Grouped
      <4> QED
          BY <4>1, <4>2
    <3> QED
        BY <2>2, <3>1 DEF Grouped
  <2>13. RequestJoined(t)'
    <3>1. l.pair \in asked /\ \A m \in l.todo : JoinedBy(m, l.pair[1], asked)
          BY <1>0, <2>2, <2>4
    <3> QED
        BY <2>2, <2>3, <2>4, <2>11, <3>1 DEF RequestJoined, Carriers
  <2>14. RunJoined(t)'
         BY <1>0, <1>r DEF RunJoined
  <2>15. Typed(t)'
    <3>1. l.survivor \in Nat /\ l.absorbed \in Nat /\ l.todo \subseteq NetId
          BY <1>0, <2>2, <2>4
    <3> QED
        BY <1>0, <1>r, <2>2, <2>3, <2>4, <2>8, <3>1 DEF Typed, Build!Resting, Merge!Idle
  <2> QED
      BY <2>2, <2>12, <2>13, <2>14, <2>15 DEF GroupInv, Merge!At
<1>11. CASE Merge!MarkApproved(t)
  <2>1. UNCHANGED <<building, faults, asked>> /\ Merge!Goto(t, Merge!NoReq)
        BY <1>11, <1>f DEF Merge!MarkApproved
  <2> HIDE DEF Holds, Leads
  <2> QED
      BY <1>0, <1>i, <1>u, <2>1
<1>12. CASE Merge!Abort(t)
  <2>1. UNCHANGED <<building, asked>> /\ faults' = faults + 1 /\ Merge!Goto(t, Merge!NoReq)
        BY <1>12, <1>f DEF Merge!Abort
  <2> HIDE DEF Holds, Leads
  <2> QED
      BY <1>0, <1>i, <1>u, <2>1
<1>m. /\ Merge!ReadNets(t) => building' = building
      /\ Merge!Detect(t) \/ Merge!Reject(t) \/ Merge!Abort(t) => building' = building
      /\ Merge!ReadRowA(t) \/ Merge!ReadRowB(t) \/ Merge!FindAbsorbed(t) \/ Merge!MarkApproved(t)
           => building' = building
      /\ Merge!MoveNet(t) => Merge!At(t, "move")
      BY DEF Merge!ReadNets, Merge!Detect, Merge!ReadPairs, Merge!InsertCandidate,
             Merge!ListPending, Merge!Reject, Merge!Abort, Merge!ReadRowA, Merge!ReadRowB,
             Merge!FindAbsorbed, Merge!MarkApproved, Merge!MoveNet
<1>13. CASE MergeRequest(t)
       BY <1>1, <1>5, <1>m, <1>13 DEF MergeRequest, Merge!Accept
<1>14. CASE MergeWork(t)
       BY <1>2, <1>3, <1>4, <1>6, <1>7, <1>8, <1>9, <1>10, <1>11, <1>12, <1>m, <1>14
       DEF MergeWork, Merge!Step, Merge!Detect, Merge!Approve
<1> QED
    BY <1>13, <1>14

\* Every step of the service keeps the groups joined by what was asked for, and only an
\* approval that moves nets changes the number of one.
LEMMA GroupStep ==
  ASSUME NEW t, Threads = {t}, GroupInv(t), [Next]_vars
  PROVE  /\ GroupInv(t)'
         /\ (\A n \in DOMAIN building \cap DOMAIN building' : building'[n].my = building[n].my)
              \/ Merge!At(t, "move")
<1>1. CASE ReportRequest \/ BuildRequest(t) \/ BuildWork(t) \/ DropTable
      BY <1>1, BuildKeepsGroups
<1>2. CASE MergeRequest(t) \/ MergeWork(t)
      BY <1>2, MergeKeepsGroups
<1>3. CASE UNCHANGED vars
      BY <1>3 DEF vars, GroupInv, Typed, Grouped, RequestJoined, RunJoined, Carriers,
                  Build!Resting, Merge!Idle
<1> QED
    BY <1>1, <1>2, <1>3 DEF Next

\* So they always do.
LEMMA GroupInvariant ==
  ASSUME NEW t, Threads = {t}
  PROVE  Spec => []GroupInv(t)
<1>1. Init => GroupInv(t)
      BY GroupStart
<1>2. GroupInv(t) /\ [Next]_vars => GroupInv(t)'
      BY GroupStep
<1> QED
    BY <1>1, <1>2, PTL DEF Spec

\* With requests handled one at a time, nets share a group only when pairs a commander
\* approved join them (views.py: nothing is ever merged automatically), whatever builds,
\* deaths of requests and drops of the table come in between, and although dropped
\* numbers are given again.
THEOREM SharedGroupsWereAsked ==
  ASSUME NEW t, Threads = {t}
  PROVE  Spec => []NothingMergedUnasked
<1>1. Spec => []GroupInv(t)
      BY GroupInvariant
<1>2. GroupInv(t) => NothingMergedUnasked
  <2> SUFFICES ASSUME GroupInv(t) PROVE NothingMergedUnasked
      OBVIOUS
  <2>1. NetIds \cup DOMAIN building \subseteq Nat
        BY ServiceConstants DEF GroupInv, Typed, NetTable
  <2>2. \A m, n \in DOMAIN building : SameGroup(m, n) => JoinedBy(m, n, asked)
        BY DEF GroupInv, Grouped, SameGroup
  <2>3. \A m, n : JoinedBy(m, n, asked) => Chained(m, n, asked)
        BY <2>1 DEF JoinedBy, Chained
  <2> QED
      BY <2>2, <2>3 DEF NothingMergedUnasked
<1> QED
    BY <1>1, <1>2, PTL

\* With requests handled one at a time, deciding is the only way the group of a stored
\* net changes (net_merging_service.py): a build that writes every column of every row
\* back writes the number it read.
THEOREM BuildsNeverRegroup ==
  ASSUME NEW u, Threads = {u}
  PROVE  Spec => OnlyDecisionsRegroup
<1>1. Spec => []GroupInv(u)
      BY GroupInvariant
<1>2. GroupInv(u) /\ [Next]_vars =>
        [\A n \in DOMAIN building \cap DOMAIN building' :
           building'[n].my # building[n].my =>
             \E t \in Threads : Merge!At(t, "move")]_building
      BY GroupStep
<1> QED
    BY <1>1, <1>2, PTL DEF Spec, OnlyDecisionsRegroup
------------------------------------------------------------------------------
\* Without faults.

\* No group is above the LIMIT of the query that finds its rows.
WithinLimit == \A my \in Nat : Cardinality(Merge!GroupRows(my)) <= GroupLimit

Deciding == {"rowA", "rowB", "find", "move", "mark"}

\* The group number of net n once the approval under way has moved what it found.
Number(t, n) ==
  IF req[t].pc = "move" /\ building[n].my = req[t].absorbed
    THEN req[t].survivor ELSE building[n].my

\* Only stored nets are paired, and a detection records no pair twice.
Recorded(t) ==
  /\ \A p \in DOMAIN candidates : p[1] \in DOMAIN building /\ p[2] \in DOMAIN building
  /\ req[t].pc \in {"pairs", "insert"} =>
       \A p \in req[t].fresh : p[1] \in DOMAIN building /\ p[2] \in DOMAIN building
  /\ req[t].pc = "insert" => \A p \in req[t].fresh : p \notin DOMAIN candidates

\* A pair is decided while it is pending, and what was asked for is approved but for the
\* pair under approval.
Answered(t) ==
  /\ req[t].pc \in Deciding \cup {"reject"} =>
       req[t].pair \in DOMAIN candidates /\ candidates[req[t].pair] = "pending"
  /\ \A p \in asked :
       \/ p \in DOMAIN candidates /\ candidates[p] = "approved"
       \/ req[t].pc \in Deciding /\ p = req[t].pair

\* The nets of an approved pair share their number, and an approval works with what the
\* table holds.
Settled(t) ==
  LET pair == req[t].pair
  IN  /\ \A p \in DOMAIN candidates :
           candidates[p] = "approved" => Number(t, p[1]) = Number(t, p[2])
      /\ req[t].pc = "rowB" => req[t].myA = building[pair[1]].my
      /\ req[t].pc = "mark" => building[pair[1]].my = building[pair[2]].my
      /\ req[t].pc = "find" =>
           /\ req[t].survivor # req[t].absorbed
           /\ {req[t].survivor, req[t].absorbed} = {building[pair[1]].my, building[pair[2]].my}
      /\ req[t].pc = "move" =>
           /\ req[t].survivor # req[t].absorbed
           /\ req[t].todo = Merge!GroupRows(req[t].absorbed)
           /\ Number(t, pair[1]) = Number(t, pair[2])

DecisionInv(t) == faults = 0 => Recorded(t) /\ Answered(t) /\ Settled(t)

\* At the start nothing is proposed.
LEMMA DecisionStart == ASSUME NEW t, Threads = {t} PROVE Init => DecisionInv(t)
<1> SUFFICES ASSUME Init PROVE DecisionInv(t)
    OBVIOUS
<1>1. candidates = Merge!EmptyTable /\ req[t].pc = "idle" /\ asked = {}
      BY DEF Init, Merge!MergeInit, Merge!NoReq
<1>2. DOMAIN candidates = {}
      BY <1>1 DEF Merge!EmptyTable
<1> QED
    BY <1>1, <1>2 DEF DecisionInv, Recorded, Answered, Settled, Deciding

\* The steps of the build pipeline.
LEMMA BuildKeepsDecisions ==
  ASSUME NEW t, Threads = {t}, GroupInv(t), DecisionInv(t),
         ReportRequest \/ BuildRequest(t) \/ BuildWork(t) \/ DropTable
  PROVE  DecisionInv(t)'
<1> SUFFICES ASSUME faults' = 0 PROVE (Recorded(t) /\ Answered(t) /\ Settled(t))'
    BY DEF DecisionInv
<1>0. Typed(t) /\ RunJoined(t) /\ faults \in Nat
      BY DEF GroupInv, Typed
<1>1. Elsewhere(t) \/ Begins(t) \/ Folds(t) \/ Syncs(t)
      BY <1>0, BuildSteps DEF Drops
<1>2. UNCHANGED <<candidates, req, asked>> /\ faults = 0
      BY <1>0, <1>1 DEF Elsewhere, Begins, Folds, Syncs
<1>3. Recorded(t) /\ Answered(t) /\ Settled(t)
      BY <1>2 DEF DecisionInv
<1>4. CASE building' = building
      BY <1>2, <1>3, <1>4 DEF Recorded, Answered, Settled, Number, Merge!GroupRows
<1>5. CASE Syncs(t)
  <2>1. run[t].pc # "idle"
        BY <1>5 DEF Syncs
  <2>2. PICK n \in DOMAIN run[t].members :
          building' = Insert(building, n, run[t].members[n])
        BY <1>5 DEF Syncs
  <2>3. \A m \in DOMAIN building :
          m \in DOMAIN run[t].members /\ run[t].members[m].my = building[m].my
        BY <1>0, <2>1 DEF RunJoined
  <2>4. /\ \A m \in DOMAIN building : m \in DOMAIN building' /\ building'[m].my = building[m].my
        BY <2>2, <2>3 DEF Insert
  <2>5. req[t].pc = "idle"
        BY <1>0, <2>1 DEF Typed, Build!Resting, Merge!Idle
  <2>6. \A m : Number(t, m) = building[m].my /\ Number(t, m)' = building'[m].my
        BY <1>2, <2>5 DEF Number
  <2>7. Recorded(t)' /\ Answered(t)'
        BY <1>2, <1>3, <2>4, <2>5 DEF Recorded, Answered, Deciding
  <2>8. Settled(t)'
        BY <1>2, <1>3, <2>4, <2>5, <2>6 DEF Recorded, Settled
  <2> QED
      BY <2>7, <2>8
<1> QED
    BY <1>1, <1>4, <1>5 DEF Elsewhere, Begins, Folds

\* NetMerge, an instance, counts as this module does.
LEMMA SameCardinality == \A S : Merge!Cardinality(S) = Cardinality(S)
BY DEF Merge!Cardinality, Cardinality, Merge!IsFiniteSet, IsFiniteSet

\* The steps of the requests, no group being above the LIMIT.
LEMMA MergeKeepsDecisions ==
  ASSUME NEW t, Threads = {t}, GroupInv(t), WithinLimit, DecisionInv(t),
         MergeRequest(t) \/ MergeWork(t)
  PROVE  DecisionInv(t)'
<1> SUFFICES ASSUME faults' = 0 PROVE (Recorded(t) /\ Answered(t) /\ Settled(t))'
    BY DEF DecisionInv
<1> DEFINE q == req[t]
           fields == {"pc", "pair", "fresh", "myA", "survivor", "absorbed", "found", "todo"}
<1>0. NetTable(building) /\ faults \in Nat /\ DOMAIN req = Threads /\ DOMAIN q = fields
      BY DEF GroupInv, Typed
<1>a. Merge!Abort(t) => faults' = faults + 1
      BY DEF Merge!Abort
<1>b. faults = 0
  <2>1. faults' = faults \/ Merge!Abort(t)
        BY DEF MergeRequest, MergeWork, Merge!Accept, Merge!ReadNets, Merge!Decide, Merge!Step,
               Merge!Detect, Merge!Approve, Merge!Reject, Merge!ReadPairs,
               Merge!InsertCandidate, Merge!ListPending, Merge!ReadRowA, Merge!ReadRowB,
               Merge!FindAbsorbed, Merge!MoveNet, Merge!MarkApproved
  <2> QED
      BY <1>0, <1>a, <2>1
<1>c. Recorded(t) /\ Answered(t) /\ Settled(t)
      BY <1>b DEF DecisionInv
<1>d. ~Merge!Abort(t)
      BY <1>a, <1>b
<1>g. \A l : Merge!Goto(t, l) => req'[t] = l
      BY <1>0 DEF Merge!Goto
<1>f. Merge!Finish(t) => req'[t].pc = "idle"
      BY <1>g DEF Merge!Finish, Merge!NoReq
<1>n. \A n \in DOMAIN building : building[n].my \in Nat
      BY <1>0 DEF NetTable, NetRow
<1>i. ASSUME req'[t].pc = "idle", UNCHANGED <<building, asked>>, q.pc \notin Deciding,
             \/ candidates' = candidates
             \/ \E p : /\ p \in DOMAIN candidates /\ candidates[p] = "pending"
                       /\ candidates' = Insert(candidates, p, "rejected")
      PROVE  (Recorded(t) /\ Answered(t) /\ Settled(t))'
  <2>1. \A m : Number(t, m) = building[m].my /\ Number(t, m)' = building[m].my
        BY <1>i DEF Number, Deciding
  <2>2. /\ DOMAIN candidates' = DOMAIN candidates
        /\ \A p \in DOMAIN candidates : candidates'[p] = "approved" <=> candidates[p] = "approved"
        BY <1>i DEF Insert
  <2> QED
      BY <1>c, <1>i, <2>1, <2>2 DEF Recorded, Answered, Settled, Deciding
<1>1. CASE Merge!ReadNets(t)
  <2> DEFINE l == [Merge!NoReq EXCEPT
                     !.pc = IF building = Merge!EmptyTable THEN "list" ELSE "pairs",
                     !.fresh = Merge!ProposePairs(building)]
  <2>1. UNCHANGED <<building, candidates, asked>> /\ req'[t] = l /\ q.pc = "idle"
        BY <1>1, <1>g DEF Merge!ReadNets, Merge!Idle
  <2>2. l.pc \in {"list", "pairs"} /\ l.fresh = Merge!ProposePairs(building)
        BY DEF Merge!NoReq
  <2>3. \A p \in l.fresh : p[1] \in DOMAIN building /\ p[2] \in DOMAIN building
        BY <2>2 DEF Merge!ProposePairs
  <2> HIDE DEF l
  <2> QED
      BY <1>c, <2>1, <2>2, <2>3 DEF Recorded, Answered, Settled, Deciding, Number
<1>2. CASE Merge!ReadPairs(t)
  <2> DEFINE l == [q EXCEPT !.pc = "insert", !.fresh = @ \ DOMAIN candidates]
  <2>1. UNCHANGED <<building, candidates, asked>> /\ req'[t] = l /\ q.pc = "pairs"
        BY <1>2, <1>g DEF Merge!ReadPairs, Merge!At
  <2>2. l.pc = "insert" /\ l.fresh = q.fresh \ DOMAIN candidates
        BY <1>0
  <2> HIDE DEF l
  <2> QED
      BY <1>c, <2>1, <2>2 DEF Recorded, Answered, Settled, Deciding, Number
<1>3. CASE Merge!InsertCandidate(t)
  <2>1. PICK p \in q.fresh :
          Merge!SetStatus(p, "pending") /\ Merge!Goto(t, [q EXCEPT !.fresh = @ \ {p}])
        BY <1>3 DEF Merge!InsertCandidate
  <2> DEFINE l == [q EXCEPT !.fresh = @ \ {p}]
  <2>2. UNCHANGED <<building, asked>> /\ req'[t] = l /\ q.pc = "insert"
        BY <1>3, <1>g, <2>1 DEF Merge!InsertCandidate, Merge!At
  <2>3. l.pc = "insert" /\ l.fresh = q.fresh \ {p}
        BY <1>0, <2>2
  <2>4. /\ p \notin DOMAIN candidates /\ DOMAIN candidates' = DOMAIN candidates \cup {p}
        /\ p[1] \in DOMAIN building /\ p[2] \in DOMAIN building /\ candidates'[p] = "pending"
        /\ \A k \in DOMAIN candidates : candidates'[k] = candidates[k]
        BY <1>c, <2>1, <2>2 DEF Recorded, Merge!SetStatus, Merge!Insert
  <2> HIDE DEF l
  <2>5. \A m : Number(t, m) = building[m].my /\ Number(t, m)' = building[m].my
        BY <2>2, <2>3 DEF Number
  <2> QED
      BY <1>c, <2>2, <2>3, <2>4, <2>5 DEF Recorded, Answered, Settled, Deciding
<1>4. CASE Merge!ListPending(t)
  <2>1. UNCHANGED <<building, candidates, asked>> /\ q.pc \in {"list", "insert"}
        BY <1>4 DEF Merge!ListPending, Merge!At
  <2>2. req'[t].pc = "idle"
        BY <1>4, <1>f DEF Merge!ListPending
  <2> QED
      BY <1>i, <2>1, <2>2 DEF Deciding
<1>5. ASSUME NEW p \in Merge!Pairs, NEW decision \in {"approve", "reject"},
             Merge!Decide(t, p, decision)
      PROVE  (Recorded(t) /\ Answered(t) /\ Settled(t))'
  <2> DEFINE l == [Merge!NoReq EXCEPT
                     !.pc = IF decision = "approve" THEN "rowA" ELSE "reject",
                     !.pair = p]
  <2>1. /\ UNCHANGED <<building, candidates>> /\ req'[t] = l /\ q.pc = "idle"
        /\ asked' = IF decision = "approve" THEN asked \cup {p} ELSE asked
        /\ p \in DOMAIN candidates /\ candidates[p] = "pending"
        BY <1>5, <1>g DEF Merge!Decide, Merge!Idle
  <2>2. l.pair = p /\ l.pc = (IF decision = "approve" THEN "rowA" ELSE "reject")
        BY DEF Merge!NoReq
  <2> HIDE DEF l
  <2> QED
      BY <1>c, <2>1, <2>2 DEF Recorded, Answered, Settled, Deciding, Number
<1>6. CASE Merge!Reject(t)
  <2>1. /\ UNCHANGED <<building, asked>> /\ q.pc = "reject"
        /\ candidates' = Insert(candidates, q.pair, "rejected") /\ req'[t].pc = "idle"
        BY <1>6, <1>f DEF Merge!Reject, Merge!At, Merge!SetStatus, Merge!Insert, Insert
  <2>2. q.pair \in DOMAIN candidates /\ candidates[q.pair] = "pending"
        BY <1>c, <2>1 DEF Answered
  <2> QED
      BY <1>i, <2>1, <2>2 DEF Deciding
<1>7. CASE Merge!ReadRowA(t)
  <2> DEFINE my == Merge!Current(building, q.pair[1], Merge!BlankRow).my
             l == [q EXCEPT !.pc = "rowB", !.myA = my]
  <2>1. UNCHANGED <<building, candidates, asked>> /\ req'[t] = l /\ q.pc = "rowA"
        BY <1>7, <1>g DEF Merge!ReadRowA, Merge!At
  <2>2. l.pc = "rowB" /\ l.myA = my /\ l.pair = q.pair
        BY <1>0
  <2>3. my = building[q.pair[1]].my
        BY <1>c, <2>1 DEF Answered, Recorded, Deciding, Merge!Current
  <2> HIDE DEF l, my
  <2> QED
      BY <1>c, <2>1, <2>2, <2>3 DEF Recorded, Answered, Settled, Deciding, Number
<1>8. CASE Merge!ReadRowB(t)
  <2> DEFINE a == q.myA
             b == Merge!Current(building, q.pair[2], Merge!BlankRow).my
             l == [q EXCEPT !.pc = "find",
                            !.survivor = IF a < b THEN a ELSE b,
                            !.absorbed = IF a < b THEN b ELSE a]
             same == [q EXCEPT !.pc = "mark"]
  <2>1. UNCHANGED <<building, candidates, asked>> /\ q.pc = "rowB"
        BY <1>8 DEF Merge!ReadRowB, Merge!At
  <2>2. /\ l.pc = "find" /\ l.pair = q.pair
        /\ l.survivor = (IF a < b THEN a ELSE b) /\ l.absorbed = (IF a < b THEN b ELSE a)
        /\ same.pc = "mark" /\ same.pair = q.pair
        BY <1>0
  <2>3. q.pair[1] \in DOMAIN building /\ q.pair[2] \in DOMAIN building
        BY <1>c, <2>1 DEF Answered, Recorded, Deciding
  <2>4. a = building[q.pair[1]].my /\ b = building[q.pair[2]].my
        BY <1>c, <2>1, <2>3 DEF Settled, Merge!Current
  <2>5. a \in Nat /\ b \in Nat /\ a # Merge!Null /\ b # Merge!Null
        BY <1>n, <2>3, <2>4 DEF Merge!Null
  <2>6. \/ a = b /\ req'[t] = same
        \/ a # b /\ req'[t] = l
        BY <1>8, <1>g, <2>5 DEF Merge!ReadRowB
  <2> HIDE DEF l, same, a, b
  <2>7. CASE a = b /\ req'[t] = same
        BY <1>c, <2>1, <2>2, <2>4, <2>7 DEF Recorded, Answered, Settled, Deciding, Number
  <2>8. CASE a # b /\ req'[t] = l
    <3>1. l.survivor # l.absorbed /\ {l.survivor, l.absorbed} = {a, b}
          BY <2>2, <2>5, <2>8
    <3> QED
        BY <1>c, <2>1, <2>2, <2>4, <2>8, <3>1 DEF Recorded, Answered, Settled, Deciding, Number
  <2> QED
      BY <2>6, <2>7, <2>8
<1>9. CASE Merge!FindAbsorbed(t)
  <2> DEFINE group == Merge!GroupRows(q.absorbed)
             size == Cardinality(group)
  <2>1. PICK rows \in SUBSET group :
          /\ Cardinality(rows) = IF size <= GroupLimit THEN size ELSE GroupLimit
          /\ Merge!Goto(t, [q EXCEPT !.pc = "move", !.found = rows, !.todo = rows])
        BY <1>9, SameCardinality DEF Merge!FindAbsorbed
  <2>0. q.absorbed \in Nat
        BY <1>9 DEF GroupInv, Typed, Merge!FindAbsorbed, Merge!At
  <2>2. rows = group
    <3>1. group \subseteq DOMAIN building /\ IsFiniteSet(DOMAIN building)
          BY <1>0 DEF Merge!GroupRows, NetTable
    <3> HIDE DEF group
    <3>2. IsFiniteSet(group)
          BY <3>1, FS_Subset
    <3>3. size <= GroupLimit
          BY <2>0 DEF WithinLimit, group
    <3>4. Cardinality(rows) = size
          BY <2>1, <3>3
    <3> QED
        BY <2>1, <3>2, <3>4, FS_Subset
  <2> DEFINE l == [q EXCEPT !.pc = "move", !.found = rows, !.todo = rows]
  <2>3. UNCHANGED <<building, candidates, asked>> /\ req'[t] = l /\ q.pc = "find"
        BY <1>9, <1>g, <2>1 DEF Merge!FindAbsorbed, Merge!At
  <2>4. /\ l.pc = "move" /\ l.pair = q.pair /\ l.todo = group
        /\ l.survivor = q.survivor /\ l.absorbed = q.absorbed
        BY <1>0, <2>2
  <2> HIDE DEF l
  <2>5. l.todo = {m \in DOMAIN building' : building'[m].my = l.absorbed}
        BY <2>3, <2>4 DEF Merge!GroupRows
  <2>6. \A m : /\ Number(t, m) = building[m].my
               /\ Number(t, m)' = IF building[m].my = q.absorbed THEN q.survivor
                                                                  ELSE building[m].my
        BY <2>3, <2>4 DEF Number
  <2>7. /\ q.survivor # q.absorbed
        /\ {q.survivor, q.absorbed} = {building[q.pair[1]].my, building[q.pair[2]].my}
        BY <1>c, <2>3 DEF Settled
  <2>8. Recorded(t)' /\ Answered(t)'
        BY <1>c, <2>3, <2>4 DEF Recorded, Answered, Deciding
  <2>9. Settled(t)'
    <3>1. \A m : m \in {q.pair[1], q.pair[2]} => Number(t, m)' = q.survivor
          BY <2>6, <2>7
    <3>2. \A p \in DOMAIN candidates : candidates[p] = "approved" =>
            building[p[1]].my = building[p[2]].my
          BY <1>c, <2>6 DEF Settled
    <3>3. \A p \in DOMAIN candidates' : candidates'[p] = "approved" =>
            Number(t, p[1])' = Number(t, p[2])'
          BY <2>3, <2>6, <3>2
    <3> QED
        BY <2>3, <2>4, <2>5, <2>7, <3>1, <3>3 DEF Settled, Merge!GroupRows
  <2> QED
      BY <2>8, <2>9
<1>10. CASE Merge!MoveNet(t)
  <2> DEFINE row(n) == [Merge!Current(building, n, Merge!BlankRow) EXCEPT !.my = q.survivor]
  <2>1. PICK n \in q.todo :
          /\ building' = Merge!Insert(building, n, row(n))
          /\ Merge!Goto(t, [q EXCEPT !.todo = @ \ {n}])
        BY <1>10 DEF Merge!MoveNet
  <2> DEFINE l == [q EXCEPT !.todo = @ \ {n}]
  <2>2. UNCHANGED <<candidates, asked>> /\ req'[t] = l /\ q.pc = "move"
        BY <1>10, <1>g, <2>1 DEF Merge!MoveNet, Merge!At
  <2>3. /\ l.pc = "move" /\ l.pair = q.pair /\ l.todo = q.todo \ {n}
        /\ l.survivor = q.survivor /\ l.absorbed = q.absorbed
        BY <1>0, <2>2
  <2>4. q.survivor # q.absorbed /\ q.todo = Merge!GroupRows(q.absorbed)
        BY <1>c, <2>2 DEF Settled
  <2>5. n \in DOMAIN building /\ building[n].my = q.absorbed
        BY <2>1, <2>4 DEF Merge!GroupRows
  <2>6. row(n).my = q.survivor
    <3>1. row(n) = [building[n] EXCEPT !.my = q.survivor] /\ building[n] \in NetRow
          BY <1>0, <2>5 DEF Merge!Current, NetTable
    <3> QED
        BY <3>1 DEF NetRow
  <2> HIDE DEF l, row
  <2>7. /\ DOMAIN building' = DOMAIN building /\ building'[n].my = q.survivor
        /\ \A m \in DOMAIN building \ {n} : building'[m] = building[m]
        BY <2>1, <2>5, <2>6 DEF Merge!Insert
  <2>8. l.todo = {m \in DOMAIN building' : building'[m].my = l.absorbed}
        BY <2>3, <2>4, <2>5, <2>7 DEF Merge!GroupRows
  <2>9. \A m \in DOMAIN building : Number(t, m)' = Number(t, m)
        BY <2>2, <2>3, <2>4, <2>5, <2>7 DEF Number
  <2>10. /\ q.pair \in DOMAIN candidates /\ Number(t, q.pair[1]) = Number(t, q.pair[2])
         /\ q.pair[1] \in DOMAIN building /\ q.pair[2] \in DOMAIN building
         BY <1>c, <2>2 DEF Answered, Settled, Recorded, Deciding
  <2>11. Recorded(t)' /\ Answered(t)'
         BY <1>c, <2>2, <2>3, <2>7 DEF Recorded, Answered, Deciding
  <2>12. Settled(t)'
    <3>1. \A m, k : m = q.pair[1] /\ k = q.pair[2] => Number(t, m)' = Number(t, k)'
          BY <2>9, <2>10
    <3>2. \A p \in DOMAIN candidates' : candidates'[p] = "approved" =>
            Number(t, p[1])' = Number(t, p[2])'
          BY <1>c, <2>2, <2>9 DEF Settled, Recorded
    <3> QED
        BY <2>2, <2>3, <2>4, <2>8, <3>1, <3>2 DEF Settled, Merge!GroupRows
  <2> QED
      BY <2>11, <2>12
<1>11. CASE Merge!MarkApproved(t)
  <2>1. /\ UNCHANGED <<building, asked>> /\ req'[t].pc = "idle"
        /\ candidates' = Insert(candidates, q.pair, "approved")
        /\ q.pc = "mark" \/ (q.pc = "move" /\ q.todo = {})
        BY <1>11, <1>f DEF Merge!MarkApproved, Merge!At, Merge!SetStatus, Merge!Insert, Insert
  <2>2. q.pair \in DOMAIN candidates
        BY <1>c, <2>1 DEF Answered, Deciding
  <2>3. /\ DOMAIN candidates' = DOMAIN candidates /\ candidates'[q.pair] = "approved"
        /\ \A p \in DOMAIN candidates \ {q.pair} : candidates'[p] = candidates[p]
        BY <2>1, <2>2 DEF Insert
  <2>4. \A m \in DOMAIN building : Number(t, m) = building[m].my
        BY <1>c, <2>1 DEF Number, Settled, Merge!GroupRows
  <2>5. \A m : Number(t, m)' = building[m].my
        BY <2>1 DEF Number
  <2>6. q.pair[1] \in DOMAIN building /\ q.pair[2] \in DOMAIN building
        BY <1>c, <2>2 DEF Recorded
  <2>7. building[q.pair[1]].my = building[q.pair[2]].my
        BY <1>c, <2>1, <2>4, <2>6 DEF Settled
  <2>8. Recorded(t)' /\ Answered(t)'
        BY <1>c, <2>1, <2>3 DEF Recorded, Answered, Deciding
  <2>9. Settled(t)'
    <3>1. \A p \in DOMAIN candidates' : candidates'[p] = "approved" =>
            Number(t, p[1])' = Number(t, p[2])'
          BY <1>c, <2>3, <2>4, <2>5, <2>7 DEF Settled, Recorded
    <3> QED
        BY <2>1, <3>1 DEF Settled
  <2> QED
      BY <2>8, <2>9
<1>12. CASE MergeRequest(t)
       BY <1>1, <1>5, <1>12 DEF MergeRequest, Merge!Accept
<1>13. CASE MergeWork(t)
       BY <1>2, <1>3, <1>4, <1>6, <1>7, <1>8, <1>9, <1>10, <1>11, <1>d, <1>13
       DEF MergeWork, Merge!Step, Merge!Detect, Merge!Approve
<1> QED
    BY <1>12, <1>13

\* Every step of the service.
LEMMA DecisionStep ==
  ASSUME NEW t, Threads = {t}, GroupInv(t), WithinLimit, DecisionInv(t), [Next]_vars
  PROVE  DecisionInv(t)'
<1>1. CASE ReportRequest \/ BuildRequest(t) \/ BuildWork(t) \/ DropTable
      BY <1>1, BuildKeepsDecisions
<1>2. CASE MergeRequest(t) \/ MergeWork(t)
      BY <1>2, MergeKeepsDecisions
<1>3. CASE UNCHANGED vars
      BY <1>3 DEF vars, DecisionInv, Recorded, Answered, Settled, Number, Merge!GroupRows
<1> QED
    BY <1>1, <1>2, <1>3 DEF Next

\* With requests handled one at a time, none of which dies, no table dropped and no group
\* above the LIMIT of its query, the groups between requests are the transitive closure of
\* the approved pairs (MERGE_PIPELINE_REFERENCE.md, 5.3), whatever is built, proposed,
\* rejected and corrected in between.
THEOREM GroupsAreTheDecisions ==
  ASSUME NEW t, Threads = {t}
  PROVE  Spec /\ []WithinLimit => []GroupsMatchDecisions
<1>1. Spec => []GroupInv(t)
      BY GroupInvariant
<1>2. Init => DecisionInv(t)
      BY DecisionStart
<1>3. GroupInv(t) /\ WithinLimit /\ DecisionInv(t) /\ [Next]_vars => DecisionInv(t)'
      BY DecisionStep
<1>4. GroupInv(t) /\ DecisionInv(t) => GroupsMatchDecisions
  <2> SUFFICES ASSUME GroupInv(t), DecisionInv(t), AllFree, faults = 0,
                      NEW m \in DOMAIN building, NEW n \in DOMAIN building
               PROVE  LET approved == {p \in DOMAIN candidates : candidates[p] = "approved"}
                      IN  SameGroup(m, n) <=> Chained(m, n, approved)
      BY DEF GroupsMatchDecisions
  <2> DEFINE approved == {p \in DOMAIN candidates : candidates[p] = "approved"}
  <2>1. Recorded(t) /\ Answered(t) /\ Settled(t)
        BY DEF DecisionInv
  <2>2. req[t].pc = "idle"
        BY DEF AllFree, Free, Merge!Idle
  <2>3. asked \subseteq approved
        BY <2>1, <2>2 DEF Answered, Deciding
  <2>4. NetIds \cup DOMAIN building \subseteq Nat
        BY ServiceConstants DEF GroupInv, Typed, NetTable
  <2>5. \A p \in approved : /\ p[1] \in DOMAIN building /\ p[2] \in DOMAIN building
                            /\ building[p[1]].my = building[p[2]].my
        BY <2>1, <2>2 DEF Recorded, Settled, Number
  <2> HIDE DEF approved
  <2>6. ASSUME SameGroup(m, n) PROVE Chained(m, n, approved)
    <3>1. JoinedBy(m, n, asked)
          BY <2>6 DEF GroupInv, Grouped, SameGroup
    <3>2. JoinedBy(m, n, approved)
          BY <2>3, <3>1, JoinedMore
    <3> QED
        BY <2>4, <3>2 DEF JoinedBy, Chained
  <2>7. ASSUME Chained(m, n, approved) PROVE SameGroup(m, n)
    <3> DEFINE S == {k \in DOMAIN building : building[k].my = building[m].my}
    <3>1. S \in SUBSET (NetIds \cup DOMAIN building) /\ m \in S
          OBVIOUS
    <3>2. \A p \in approved : p[1] \in S <=> p[2] \in S
          BY <2>5
    <3> HIDE DEF S
    <3>3. n \in S
          BY <2>7, <3>1, <3>2 DEF Chained
    <3> QED
        BY <3>3 DEF S, SameGroup
  <2> QED
      BY <2>6, <2>7 DEF approved
<1> QED
    BY <1>1, <1>2, <1>3, <1>4, PTL DEF Spec
====
