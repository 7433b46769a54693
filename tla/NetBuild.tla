------------------------------ MODULE NetBuild -------------------------------
(***************************************************************************)
(* apps/ff_net/submodules/net_building_service.py: run_pipeline, the       *)
(* handler of GET build/, over the three tables it uses, together with the *)
(* requests of ff_net_repository.py that create, change and delete         *)
(* reports.  Every statement against Cassandra is one step; the folding of *)
(* one report into the members, which only touches locals, is one too.     *)
(* Runs on different threads interleave, and a run can end after any step. *)
(***************************************************************************)
EXTENDS NetBuilding, Sequences

CONSTANTS
  Threads,        \* the request threads of the process (SERVE_THREADS)
  Reports,        \* the reports clients may submit
  TokenRank,      \* the token order of the ff_net_report partitions: ff_id -> rank
  MaxFaults,      \* bound: runs that die, and drops of ff_net_building
  MayDie,         \* whether runs may die
  MayDelete,      \* whether clients delete reports
  MayDrop         \* whether an operator may drop ff_net_building

ASSUME ReportsAreReports == Reports \subseteq Report
ASSUME TokensOrderPartitions ==
  \A r, s \in Reports : TokenRank[r.ff] = TokenRank[s.ff] => r.ff = s.ff
ASSUME BuildBounds ==
  MaxFaults \in Nat /\ {MayDie, MayDelete, MayDrop} \subseteq BOOLEAN

VARIABLES
  reports,        \* table ff_net_report, as the set of its rows
  building,       \* table ff_net_building: net_id -> row
  history,        \* table ff_net_report_history: (net_id, processed_at, ff_id) -> row
  run,            \* per thread, the locals of the run it executes
  clock,          \* the time an appended batch is stamped with
  faults          \* observer: how many of these faults there were

buildVars == <<reports, building, history, run, clock, faults>>

\* Locals: the members and their tracked bands, whether the members came from
\* Cassandra, the signatures of the log and whether there was a log at all, the
\* reports left to fold, the rows left to write, the entries left to log and
\* their time stamp.
NoRun ==
  [pc |-> "idle", members |-> EmptyTable, spans |-> EmptyTable, loaded |-> FALSE,
   seen |-> {}, logged |-> FALSE, todo |-> {}, rows |-> {}, entries |-> <<>>,
   at |-> 0]

Resting(t) == run[t].pc = "idle"
InRun(t, step) == run[t].pc = step
Become(t, locals) == run' = [run EXCEPT ![t] = locals]
Return(t) == Become(t, NoRun)

------------------------------------------------------------------------------
\* Reports: POST or PUT (INSERT and UPDATE, both upserts), DELETE.

\* Mutant: the previous row of the same key stays.
AddReport(rep) ==
  /\ rep \notin reports
  /\ reports' = reports \cup {rep}
  /\ UNCHANGED <<building, history, run, clock, faults>>

PutReport(rep) ==
  /\ rep \notin reports
  /\ reports' = {r \in reports : ReportKey(r) # ReportKey(rep)} \cup {rep}
  /\ UNCHANGED <<building, history, run, clock, faults>>

DeleteReport(rep) ==
  /\ MayDelete
  /\ rep \in reports
  /\ reports' = reports \ {rep}
  /\ UNCHANGED <<building, history, run, clock, faults>>

------------------------------------------------------------------------------
\* GET build/: run_pipeline.

\* The rows of ff_net_building become the members; no band is tracked yet.
ReadBuilding(t) ==
  /\ Resting(t)
  /\ Become(t, [NoRun EXCEPT !.pc = "history",
                             !.members = building,
                             !.spans = [n \in DOMAIN building |-> NoSpan],
                             !.loaded = building # EmptyTable])
  /\ UNCHANGED <<reports, building, history, clock, faults>>

\* _seen_signatures: without any log there are no columns to compare, and no
\* report of the run is recognised, not even one met twice.
ReadHistory(t) ==
  /\ InRun(t, "history")
  /\ Become(t, [run[t] EXCEPT !.pc = "reports",
                              !.seen = {history[k].sig : k \in DOMAIN history},
                              !.logged = history # EmptyTable])
  /\ UNCHANGED <<reports, building, history, clock, faults>>

\* With neither reports nor nets the run returns at once.
ReadReports(t) ==
  /\ InRun(t, "reports")
  /\ IF reports = {} /\ ~run[t].loaded
       THEN Return(t)
       ELSE Become(t, [run[t] EXCEPT !.pc = "fold", !.todo = reports])
  /\ UNCHANGED <<reports, building, history, clock, faults>>

\* find_all reads partition by partition, the latest lti of each first.
ReadBefore(r, s) ==
  \/ TokenRank[r.ff] < TokenRank[s.ff]
  \/ r.ff = s.ff /\ r.lti > s.lti

IsNext(rep, todo) == rep \in todo /\ \A r \in todo \ {rep} : ReadBefore(rep, r)

\* Mutant: a report recognised by its count and channel alone.
RecognisedByCount(t, rep) ==
  run[t].logged /\ \E sig \in run[t].seen : sig[4] = rep.nti /\ sig[5] = rep.freq

Recognised(t, rep) == run[t].logged /\ Signature(rep) \in run[t].seen

SkipReport(t) ==
  /\ InRun(t, "fold")
  /\ \E rep \in run[t].todo :
       /\ IsNext(rep, run[t].todo)
       /\ Recognised(t, rep)
       /\ Become(t, [run[t] EXCEPT !.todo = @ \ {rep}])
  /\ UNCHANGED <<reports, building, history, clock, faults>>

\* The row _append_history will write for the report.
Entry(rep, routed) ==
  [net |-> routed.net, ff |-> rep.ff,
   row |-> [my |-> routed.members[routed.net].my, action |-> routed.action,
            rdfs |-> rep.rdfs, sig |-> Signature(rep),
            fti |-> rep.fti, lti |-> rep.lti, nti |-> rep.nti]]

\* Whether the date columns of the members are timestamps: they are when the nets
\* came from Cassandra.  In a run that starts without nets the column is made from
\* the first row, and its kind is for pandas to choose.
FoldReport(t) ==
  /\ InRun(t, "fold")
  /\ \E rep \in run[t].todo :
       /\ IsNext(rep, run[t].todo)
       /\ ~Recognised(t, rep)
       /\ \E timestamps \in {TRUE, run[t].loaded} :
          \E routed \in AssignNet(run[t].members, run[t].spans, rep, timestamps) :
            Become(t, [run[t] EXCEPT !.todo = @ \ {rep},
                                     !.seen = @ \cup {Signature(rep)},
                                     !.members = routed.members,
                                     !.spans = routed.spans,
                                     !.entries = Append(@, Entry(rep, routed))])
  /\ UNCHANGED <<reports, building, history, clock, faults>>

\* dedup_rdfs_per_net and build_hierarchical keep the one row each net_id has;
\* every net read is still among the members, so nothing is deleted.
StartSync(t) ==
  /\ InRun(t, "fold")
  /\ run[t].todo = {}
  /\ Become(t, [run[t] EXCEPT !.pc = "sync", !.rows = DOMAIN run[t].members])
  /\ UNCHANGED <<reports, building, history, clock, faults>>

\* build_hierarchical's order: my_net_id, then net_id.
WrittenBefore(members, m, n) ==
  \/ members[m].my < members[n].my
  \/ members[m].my = members[n].my /\ m < n

\* Mutant: INSERT IF NOT EXISTS, which leaves an existing row alone.
SyncNewRow(t) ==
  /\ InRun(t, "sync")
  /\ \E n \in run[t].rows :
       /\ building' = IF n \in DOMAIN building THEN building
                      ELSE Insert(building, n, run[t].members[n])
       /\ Become(t, [run[t] EXCEPT !.rows = @ \ {n}])
  /\ UNCHANGED <<reports, history, clock, faults>>

\* One INSERT of _sync_building_table: every column, changed in this run or not.
SyncRow(t) ==
  /\ InRun(t, "sync")
  /\ \E n \in run[t].rows :
       /\ \A m \in run[t].rows \ {n} : WrittenBefore(run[t].members, n, m)
       /\ building' = Insert(building, n, run[t].members[n])
       /\ Become(t, [run[t] EXCEPT !.rows = @ \ {n}])
  /\ UNCHANGED <<reports, history, clock, faults>>

\* _append_history takes one time stamp for all its entries.
StartAppend(t) ==
  /\ InRun(t, "sync")
  /\ run[t].rows = {}
  /\ IF run[t].entries = <<>>
       THEN Return(t) /\ UNCHANGED clock
       ELSE /\ Become(t, [run[t] EXCEPT !.pc = "append", !.at = clock])
            /\ clock' = clock + 1
  /\ UNCHANGED <<reports, building, history, faults>>

\* One INSERT of _append_history, in the order the reports were folded.
AppendEntry(t) ==
  /\ InRun(t, "append")
  /\ LET entry == Head(run[t].entries)
         rest  == Tail(run[t].entries)
     IN  /\ history' = Insert(history, <<entry.net, run[t].at, entry.ff>>, entry.row)
         /\ IF rest = <<>> THEN Return(t)
            ELSE Become(t, [run[t] EXCEPT !.entries = rest])
  /\ UNCHANGED <<reports, building, clock, faults>>

------------------------------------------------------------------------------

\* The run of thread t ends before its next statement.
AbortRun(t) ==
  /\ MayDie
  /\ ~Resting(t)
  /\ faults < MaxFaults
  /\ faults' = faults + 1
  /\ Return(t)
  /\ UNCHANGED <<reports, building, history, clock>>

\* PIPELINE_REFERENCE.md's cleanup: ff_net_building is dropped and created again.
DropNets ==
  /\ MayDrop
  /\ faults < MaxFaults
  /\ faults' = faults + 1
  /\ building # EmptyTable
  /\ building' = EmptyTable
  /\ UNCHANGED <<reports, history, run, clock>>

BuildInit ==
  /\ reports = {}
  /\ history = EmptyTable
  /\ run = [t \in Threads |-> NoRun]
  /\ clock = 0

Init == building = EmptyTable /\ faults = 0 /\ BuildInit

\* The next step of the run thread t executes.
BuildStep(t) ==
  \/ ReadHistory(t) \/ ReadReports(t)
  \/ SkipReport(t) \/ FoldReport(t)
  \/ StartSync(t) \/ SyncRow(t)
  \/ StartAppend(t) \/ AppendEntry(t)

Next ==
  \/ \E rep \in Reports : PutReport(rep) \/ DeleteReport(rep)
  \/ \E t \in Threads : ReadBuilding(t) \/ BuildStep(t) \/ AbortRun(t)
  \/ DropNets

Spec == Init /\ [][Next]_buildVars

\* Builds are requested again and again, and a run that is not cut short ends.
FairSpec ==
  /\ Spec
  /\ \A t \in Threads : WF_buildVars(BuildStep(t))
  /\ SF_buildVars(\E t \in Threads : ReadBuilding(t))
------------------------------------------------------------------------------
\* Properties.

RunSteps == {"idle", "history", "reports", "fold", "sync", "append"}

\* Every variable holds values of the kind the code gives it.
BuildTypeOK ==
  /\ reports \subseteq Reports
  /\ \A r, s \in reports : ReportKey(r) = ReportKey(s) => r = s
  /\ building \in [DOMAIN building -> NetRow]
  /\ \A k \in DOMAIN history : k[1] >= SystemNetStart /\ k[2] < clock
  /\ \A t \in Threads :
       /\ run[t].pc \in RunSteps
       /\ run[t].todo \subseteq Reports
       /\ run[t].rows \subseteq DOMAIN run[t].members
       /\ DOMAIN run[t].spans = DOMAIN run[t].members

NoRunUnderWay == \A t \in Threads : Resting(t)

\* The log rows of net n.
LogOf(n) == {k \in DOMAIN history : k[1] = n}

LoggedCount(n) == MapThenSumSet(LAMBDA k : history[k].nti, LogOf(n))

\* Between runs the count of every net is the sum of the sightings logged for
\* it: nothing is counted that is not logged, and nothing logged that is not counted.
CountsMatchLog ==
  NoRunUnderWay => \A n \in DOMAIN building : building[n].nti = LoggedCount(n)

\* ff_net_report_history is append-only: a run never rewrites an existing row.
HistoryOnlyGrows ==
  [][\A k \in DOMAIN history :
       k \in DOMAIN history' /\ history'[k] = history[k]]_history

\* Whatever dies, a logged sighting is counted, in a net that is in the table: the
\* log never runs ahead of the nets.
LoggedIsCounted ==
  \A k \in DOMAIN history :
    k[1] \in DOMAIN building /\ building[k[1]].nti >= LoggedCount(k[1])

\* A date that survives being parsed month first: its day cannot be a month, or is its own.
Plain(date) == Reparsed(date) = date

\* The reports of a station: only they are folded into its nets.  A report without a
\* station is folded into none.
HeardBy(station) == {rep \in Reports : rep.rdfs = station /\ station # Null}

\* Between runs a net's FTI and LTI enclose every sighting logged for it, but at a station
\* one of whose own reports has there a day that could be a month: collapse_into may then
\* turn the date round.  Such dates of other stations, or of the other column, do no harm.
IntervalCovers ==
  NoRunUnderWay => \A k \in DOMAIN history :
    LET net  == building[k[1]]
        seen == history[k]
    IN  /\ (\A rep \in HeardBy(seen.rdfs) : Plain(rep.fti)) => net.fti <= seen.fti
        /\ (\A rep \in HeardBy(seen.rdfs) : Plain(rep.lti)) => net.lti >= seen.lti

\* assign_net: distinct emitters are never clubbed together across stations.
StationsApart ==
  \A k \in DOMAIN history :
    k[1] \in DOMAIN building => building[k[1]].rdfs = history[k].rdfs

\* A net is spawned by one report at most.
SpawnedOnce ==
  \A k, l \in DOMAIN history :
    k[1] = l[1] /\ history[k].action = "new" /\ history[l].action = "new" => k = l

InLog(rep) == \E k \in DOMAIN history : history[k].sig = Signature(rep)

\* A report that stays in ff_net_report is folded and logged in the end, and from then on
\* the log recognises it: no other entry takes its row, and no build folds it again.
ReportsAreLogged ==
  \A rep \in Reports : <>[](rep \in reports) => <>[]InLog(rep)
==============================================================================
