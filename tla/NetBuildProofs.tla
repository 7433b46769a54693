---------------------------- MODULE NetBuildProofs ----------------------------
(***************************************************************************)
(* What holds of the net building service for every set of reports, any    *)
(* number of runs and any number of deaths. On any number of threads: the  *)
(* types, and that the log only grows as long as no run meets two new      *)
(* sightings of one emitter by one station. With one thread, and a table   *)
(* of nets nobody drops: that a log row never speaks of a net that is      *)
(* missing, of another station or that counts too little, that a net is    *)
(* spawned once, and that between runs counts and intervals match the log, *)
(* each theorem with what else it needs to be assumed.                     *)
(***************************************************************************)
EXTENDS NetBuild, NetBuildingProofs

------------------------------------------------------------------------------
\* Types, for any number of threads.

SomeNetId == {n \in Nat : n >= SystemNetStart}

\* A row of ff_net_report_history, and an entry a run has still to write.
LogRow ==
  [my : Nat, action : {"new", "collapsed"}, rdfs : Int,
   sig : Nat \X Nat \X Nat \X Nat \X Int, fti : Nat, lti : Nat, nti : Nat]

LogEntry == [net : SomeNetId, ff : Nat, row : LogRow]

\* The locals of a run: every member has its tracked band, and a run that logs has
\* something to log and a time stamp of the past.
Locals(r, now) ==
  /\ DOMAIN r = {"pc", "members", "spans", "loaded", "seen", "logged", "todo", "rows",
                 "entries", "at"}
  /\ r.pc \in RunSteps
  /\ Sighted(r.members) /\ DOMAIN r.spans = DOMAIN r.members
  /\ r.loaded \in BOOLEAN
  /\ r.todo \subseteq Reports
  /\ r.rows \subseteq DOMAIN r.members
  /\ r.entries \in Seq(LogEntry)
  /\ r.pc = "append" => r.entries # <<>> /\ r.at \in Nat /\ r.at < now

OneRowPerKey(rs) == \A r, s \in rs : ReportKey(r) = ReportKey(s) => r = s

LogInv ==
  /\ IsFiniteSet(DOMAIN history)
  /\ DOMAIN history \subseteq SomeNetId \X Nat \X Nat
  /\ \A k \in DOMAIN history : k[2] < clock /\ history[k] \in LogRow

RunsTyped == DOMAIN run = Threads /\ \A t \in Threads : Locals(run[t], clock)

TypeInv ==
  /\ reports \subseteq Reports /\ OneRowPerKey(reports)
  /\ Sighted(building)
  /\ clock \in Nat
  /\ LogInv
  /\ RunsTyped

\* The locals of a thread that executes no run.
LEMMA NoLocals == \A now : Locals(NoRun, now)
BY NoNets DEF Locals, NoRun, RunSteps, EmptyTable

\* The tables are empty and no run is under way.
LEMMA TypeStart == Init => TypeInv
BY FS_EmptySet, NoNets, NoLocals
   DEF Init, BuildInit, TypeInv, OneRowPerKey, LogInv, RunsTyped, EmptyTable

\* A step of one thread leaves the locals of the others alone.
LEMMA BecomeKeepsType ==
  ASSUME TypeInv, NEW t \in Threads, NEW r, Become(t, r),
         clock' \in Nat, clock <= clock', Locals(r, clock')
  PROVE  RunsTyped'
<1>1. DOMAIN run' = Threads /\ run'[t] = r /\ \A u \in Threads \ {t} : run'[u] = run[u]
      BY DEF Become, TypeInv, RunsTyped
<1>2. ASSUME NEW u \in Threads \ {t} PROVE Locals(run[u], clock')
  <2>1. Locals(run[u], clock) /\ clock \in Nat
        BY DEF TypeInv, RunsTyped
  <2>2. run[u].at \in Nat /\ run[u].at < clock => run[u].at < clock'
        BY <2>1
  <2> QED
      BY <2>1, <2>2 DEF Locals
<1> QED
    BY <1>1, <1>2 DEF RunsTyped

\* A routed report becomes an entry of the log.
LEMMA EntryType ==
  ASSUME NEW members, NEW rep \in Report, NEW routed,
         NetTable(routed.members), Routed(members, rep, routed)
  PROVE  Entry(rep, routed) \in LogEntry
<1> DEFINE n == routed.net
<1>1. n \in DOMAIN routed.members /\ routed.action \in {"new", "collapsed"}
      BY DEF Routed
<1>2. n \in SomeNetId /\ routed.members[n].my \in Nat
      BY <1>1 DEF NetTable, NetRow, SomeNetId
<1>3. Signature(rep) \in Nat \X Nat \X Nat \X Nat \X Int
      BY DEF Signature, Report
<1>4. /\ rep.rdfs \in Int /\ rep.fti \in Nat /\ rep.lti \in Nat /\ rep.nti \in Nat
      /\ rep.ff \in Nat
      BY DEF Report
<1> QED
    BY <1>1, <1>2, <1>3, <1>4 DEF Entry, LogEntry, LogRow

\* Folding a report leaves locals of a run.
LEMMA FoldKeepsType ==
  ASSUME NEW r, NEW now, Locals(r, now), r.pc = "fold",
         NEW rep \in Report, NEW timestamps \in BOOLEAN,
         NEW routed \in AssignNet(r.members, r.spans, rep, timestamps)
  PROVE  Locals([r EXCEPT !.todo = @ \ {rep}, !.seen = @ \cup {Signature(rep)},
                          !.members = routed.members, !.spans = routed.spans,
                          !.entries = Append(@, Entry(rep, routed))], now)
<1>1. Sighted(routed.members) /\ Routed(r.members, rep, routed)
      BY RoutingKeepsCounts DEF Locals
<1>2. Entry(rep, routed) \in LogEntry
      BY <1>1, EntryType DEF Sighted
<1>3. Append(r.entries, Entry(rep, routed)) \in Seq(LogEntry)
      BY <1>2 DEF Locals
<1>4. r.rows \subseteq DOMAIN routed.members /\ DOMAIN routed.spans = DOMAIN routed.members
      BY <1>1 DEF Routed, Locals
<1> QED
    BY <1>1, <1>3, <1>4 DEF Locals

\* What one INSERT into the log does.
LEMMA LogGrows ==
  ASSUME LogInv, NEW entry \in LogEntry, NEW at \in Nat,
         history' = Insert(history, <<entry.net, at, entry.ff>>, entry.row),
         clock' = clock, at < clock
  PROVE  LogInv'
<1> DEFINE key == <<entry.net, at, entry.ff>>
<1>1. /\ DOMAIN history' = DOMAIN history \cup {key}
      /\ history'[key] = entry.row
      /\ \A k \in DOMAIN history \ {key} : history'[k] = history[k]
      BY DEF Insert
<1>2. key \in SomeNetId \X Nat \X Nat /\ key[2] = at /\ entry.row \in LogRow
      BY DEF LogEntry
<1>3. IsFiniteSet(DOMAIN history \cup {key})
      BY FS_AddElement DEF LogInv
<1> HIDE DEF key
<1> QED
    BY <1>1, <1>2, <1>3 DEF LogInv

\* The first entry and the others, of a run that logs.
LEMMA EntriesToLog ==
  ASSUME NEW r, NEW now, Locals(r, now), r.pc = "append"
  PROVE  /\ Head(r.entries) \in LogEntry /\ Head(r.entries) = r.entries[1]
         /\ Len(r.entries) \in Nat /\ Len(r.entries) >= 1
         /\ Tail(r.entries) \in Seq(LogEntry)
         /\ Len(Tail(r.entries)) = Len(r.entries) - 1
         /\ \A i \in 1..(Len(r.entries) - 1) : Tail(r.entries)[i] = r.entries[i + 1]
<1>1. r.entries \in Seq(LogEntry) /\ r.entries # <<>>
      BY DEF Locals
<1>2. Len(r.entries) \in Nat /\ Len(r.entries) # 0
      BY <1>1, EmptySeq, LenProperties
<1> QED
    BY <1>1, <1>2, HeadTailProperties

\* Every step keeps the types.
LEMMA TypeStep == TypeInv /\ [Next]_buildVars => TypeInv'
<1> SUFFICES ASSUME TypeInv, [Next]_buildVars PROVE TypeInv'
    OBVIOUS
<1>1. ASSUME NEW rep \in Reports, PutReport(rep) PROVE TypeInv'
  <2>1. reports' \subseteq Reports /\ OneRowPerKey(reports')
        BY <1>1 DEF PutReport, TypeInv, OneRowPerKey
  <2> QED
      BY <1>1, <2>1 DEF PutReport, TypeInv, LogInv, RunsTyped
<1>2. ASSUME NEW rep \in Reports, DeleteReport(rep) PROVE TypeInv'
  <2>1. reports' \subseteq Reports /\ OneRowPerKey(reports')
        BY <1>2 DEF DeleteReport, TypeInv, OneRowPerKey
  <2> QED
      BY <1>2, <2>1 DEF DeleteReport, TypeInv, LogInv, RunsTyped
<1>3. CASE DropNets
  <2>1. Sighted(building')
        BY <1>3, NoNets DEF DropNets
  <2> QED
      BY <1>3, <2>1 DEF DropNets, TypeInv, LogInv, RunsTyped
<1>4. ASSUME NEW t \in Threads, ReadBuilding(t) \/ BuildStep(t) \/ AbortRun(t)
      PROVE  TypeInv'
  <2> DEFINE Quiet == UNCHANGED <<reports, building, history, clock>>
  <2>1. Locals(run[t], clock) /\ clock \in Nat /\ clock <= clock
        BY DEF TypeInv, RunsTyped
  <2>2. ASSUME NEW r, Become(t, r), Locals(r, clock), Quiet PROVE TypeInv'
    <3>1. RunsTyped'
          BY <2>1, <2>2, BecomeKeepsType
    <3> QED
        BY <2>2, <3>1 DEF TypeInv, LogInv
  <2> HIDE DEF Quiet
  <2>3. CASE ReadBuilding(t)
    <3> DEFINE r == [NoRun EXCEPT !.pc = "history", !.members = building,
                                  !.spans = [n \in DOMAIN building |-> NoSpan],
                                  !.loaded = building # EmptyTable]
    <3>1. Locals(r, clock)
          BY NoLocals DEF Locals, NoRun, RunSteps, TypeInv
    <3> QED
        BY <2>2, <2>3, <3>1 DEF ReadBuilding, Quiet
  <2>4. CASE ReadHistory(t)
    <3> DEFINE r == [run[t] EXCEPT !.pc = "reports",
                                   !.seen = {history[k].sig : k \in DOMAIN history},
                                   !.logged = history # EmptyTable]
    <3>1. Locals(r, clock)
          BY <2>1 DEF Locals, RunSteps
    <3> QED
        BY <2>2, <2>4, <3>1 DEF ReadHistory, Quiet
  <2>5. CASE ReadReports(t)
    <3> DEFINE r == [run[t] EXCEPT !.pc = "fold", !.todo = reports]
    <3>1. Locals(r, clock)
          BY <2>1 DEF Locals, RunSteps, TypeInv
    <3>2. Become(t, NoRun) \/ Become(t, r)
          BY <2>5 DEF ReadReports, Return
    <3> QED
        BY <2>2, <2>5, <3>1, <3>2, NoLocals DEF ReadReports, Quiet
  <2>6. CASE SkipReport(t)
    <3>1. PICK rep \in run[t].todo : Become(t, [run[t] EXCEPT !.todo = @ \ {rep}])
          BY <2>6 DEF SkipReport
    <3>2. Locals([run[t] EXCEPT !.todo = @ \ {rep}], clock)
          BY <2>1 DEF Locals
    <3> QED
        BY <2>2, <2>6, <3>1, <3>2 DEF SkipReport, Quiet
  <2>7. CASE FoldReport(t)
    <3>1. PICK rep \in run[t].todo, timestamps \in {TRUE, run[t].loaded} :
            \E routed \in AssignNet(run[t].members, run[t].spans, rep, timestamps) :
              Become(t, [run[t] EXCEPT !.todo = @ \ {rep}, !.seen = @ \cup {Signature(rep)},
                                       !.members = routed.members, !.spans = routed.spans,
                                       !.entries = Append(@, Entry(rep, routed))])
          BY <2>7 DEF FoldReport
    <3>2. rep \in Report /\ timestamps \in BOOLEAN /\ run[t].pc = "fold"
          BY <2>1, <2>7, ReportsAreReports DEF Locals, FoldReport, InRun
    <3> QED
        BY <2>1, <2>2, <2>7, <3>1, <3>2, FoldKeepsType DEF FoldReport, Quiet
  <2>8. CASE StartSync(t)
    <3> DEFINE r == [run[t] EXCEPT !.pc = "sync", !.rows = DOMAIN run[t].members]
    <3>1. Locals(r, clock)
          BY <2>1 DEF Locals, RunSteps
    <3> QED
        BY <2>2, <2>8, <3>1 DEF StartSync, Quiet
  <2>9. CASE SyncRow(t)
    <3>1. PICK n \in run[t].rows :
            /\ building' = Insert(building, n, run[t].members[n])
            /\ Become(t, [run[t] EXCEPT !.rows = @ \ {n}])
          BY <2>9 DEF SyncRow
    <3>2. Locals([run[t] EXCEPT !.rows = @ \ {n}], clock)
          BY <2>1 DEF Locals
    <3>3. UNCHANGED <<reports, history, clock>>
          BY <2>9 DEF SyncRow
    <3>4. RunsTyped'
          BY <2>1, <3>1, <3>2, <3>3, BecomeKeepsType
    <3>5. Sighted(building')
      <4>1. n \in DOMAIN run[t].members /\ Sighted(run[t].members) /\ Sighted(building)
            BY <2>1 DEF Locals, TypeInv
      <4>2. IsFiniteSet(DOMAIN building \cup {n})
            BY <4>1, FS_AddElement DEF Sighted, NetTable
      <4> QED
          BY <3>1, <4>1, <4>2 DEF Sighted, NetTable, Insert
    <3> QED
        BY <3>3, <3>4, <3>5 DEF TypeInv, LogInv
  <2>10. CASE StartAppend(t)
    <3>1. CASE run[t].entries = <<>>
          BY <2>2, <2>10, <3>1, NoLocals DEF StartAppend, Return, Quiet
    <3>2. CASE run[t].entries # <<>>
      <4> DEFINE r == [run[t] EXCEPT !.pc = "append", !.at = clock]
      <4>1. clock' = clock + 1 /\ Become(t, r) /\ UNCHANGED <<reports, building, history>>
            BY <2>10, <3>2 DEF StartAppend
      <4>2. clock' \in Nat /\ clock <= clock' /\ Locals(r, clock')
            BY <2>1, <3>2, <4>1 DEF Locals, RunSteps
      <4>3. RunsTyped'
            BY <4>1, <4>2, BecomeKeepsType
      <4>4. \A k \in DOMAIN history : k[2] < clock'
            BY <2>1, <4>1 DEF TypeInv, LogInv
      <4> QED
          BY <4>1, <4>2, <4>3, <4>4 DEF TypeInv, LogInv
    <3> QED
        BY <3>1, <3>2
  <2>11. CASE AppendEntry(t)
    <3> DEFINE entry == Head(run[t].entries)
               rest == Tail(run[t].entries)
               r == [run[t] EXCEPT !.entries = rest]
    <3>1. run[t].pc = "append" /\ run[t].at \in Nat /\ run[t].at < clock
          BY <2>1, <2>11 DEF AppendEntry, InRun, Locals
    <3>2. entry \in LogEntry /\ rest \in Seq(LogEntry)
          BY <2>1, <3>1, EntriesToLog
    <3>3. /\ history' = Insert(history, <<entry.net, run[t].at, entry.ff>>, entry.row)
          /\ rest = <<>> => Become(t, NoRun)
          /\ rest # <<>> => Become(t, r)
          /\ UNCHANGED <<reports, building, clock>>
          BY <2>11 DEF AppendEntry, Return
    <3>4. rest # <<>> => Locals(r, clock)
          BY <2>1, <3>1, <3>2 DEF Locals
    <3> HIDE DEF entry, rest, r
    <3>5. RunsTyped'
          BY <2>1, <3>3, <3>4, NoLocals, BecomeKeepsType
    <3>6. LogInv'
          BY <3>1, <3>2, <3>3, LogGrows DEF TypeInv
    <3> QED
        BY <3>3, <3>5, <3>6 DEF TypeInv
  <2>12. CASE AbortRun(t)
        BY <2>2, <2>12, NoLocals DEF AbortRun, Return, Quiet
  <2> QED
      BY <1>4, <2>3, <2>4, <2>5, <2>6, <2>7, <2>8, <2>9, <2>10, <2>11, <2>12 DEF BuildStep
<1>5. CASE UNCHANGED buildVars
      BY <1>5 DEF buildVars, TypeInv, LogInv, RunsTyped
<1> QED
    BY <1>1, <1>2, <1>3, <1>4, <1>5 DEF Next

\* Every variable of the service holds values of its kind, whatever the number of
\* threads, whoever dies and whatever is dropped.
THEOREM BuildTypesHold == Spec => []BuildTypeOK
<1>1. TypeInv => BuildTypeOK
      BY DEF TypeInv, BuildTypeOK, OneRowPerKey, Sighted, NetTable, LogInv, RunsTyped, Locals,
             SomeNetId
<1> QED
    BY <1>1, TypeStart, TypeStep, PTL DEF Spec
------------------------------------------------------------------------------
\* What the steps of a run do to the nets, the log and the locals.

\* The step leaves the nets and the log alone; it is not one of the run's.
Kept == UNCHANGED <<building, history>>

Elsewhere == UNCHANGED <<building, history, run>>

\* A run ends: cut short, with nothing to do, or with nothing to log.
Ends(t) ==
  /\ Kept /\ run'[t] = NoRun
  /\ \/ MayDie
     \/ run[t].pc = "reports"
     \/ run[t].pc = "sync" /\ run[t].rows = {} /\ run[t].entries = <<>>

\* It reads the nets.
Begins(t) ==
  /\ Kept
  /\ Resting(t)
  /\ run'[t].pc = "history" /\ run'[t].members = building
  /\ run'[t].entries = <<>> /\ run'[t].todo = {}

\* It reads the log or the reports, or passes over a report.
Reads(t) ==
  /\ Kept
  /\ run[t].pc \in {"history", "reports", "fold"} /\ run'[t].pc \in {"reports", "fold"}
  /\ run'[t].members = run[t].members /\ run'[t].entries = run[t].entries
  /\ run[t].pc = "history" <=> run'[t].pc = "reports"
  /\ IF run[t].pc = "reports" THEN run'[t].todo = reports
     ELSE run'[t].todo \subseteq run[t].todo
  /\ run[t].pc # "history" =>
       run'[t].seen = run[t].seen /\ run'[t].logged = run[t].logged

\* It folds rep, which goes where routed says.
Folds(t, rep, routed) ==
  /\ Kept
  /\ run[t].pc = "fold" /\ run'[t].pc = "fold"
  /\ rep \in run[t].todo /\ run'[t].todo = run[t].todo \ {rep}
  /\ ~Recognised(t, rep)
  /\ run'[t].seen = run[t].seen \cup {Signature(rep)} /\ run'[t].logged = run[t].logged
  /\ Sighted(routed.members) /\ Routed(run[t].members, rep, routed)
  /\ routed.members[routed.net].nti =
       (IF routed.net \in DOMAIN run[t].members THEN run[t].members[routed.net].nti ELSE 0)
       + rep.nti
  /\ run'[t].members = routed.members
  /\ run'[t].entries = Append(run[t].entries, Entry(rep, routed))
  /\ Entry(rep, routed) \in LogEntry

\* It has folded every report.
StartsSync(t) ==
  /\ Kept
  /\ run[t].pc = "fold" /\ run'[t].pc = "sync"
  /\ run'[t].members = run[t].members /\ run'[t].entries = run[t].entries
  /\ run'[t].todo = run[t].todo /\ run'[t].rows = DOMAIN run[t].members

\* It writes net n.
Syncs(t, n) ==
  /\ run[t].pc = "sync" /\ run'[t].pc = "sync"
  /\ n \in run[t].rows /\ n \in DOMAIN run[t].members /\ run'[t].rows = run[t].rows \ {n}
  /\ run'[t].members = run[t].members /\ run'[t].entries = run[t].entries
  /\ run'[t].todo = run[t].todo
  /\ building' = Insert(building, n, run[t].members[n])
  /\ history' = history

\* It has written every net.
StartsAppend(t) ==
  /\ Kept
  /\ run[t].pc = "sync" /\ run'[t].pc = "append"
  /\ run[t].rows = {} /\ run'[t].rows = {}
  /\ run'[t].members = run[t].members /\ run'[t].entries = run[t].entries
  /\ run'[t].todo = run[t].todo /\ run'[t].at = clock

\* It logs its first entry.
Appends(t) ==
  /\ run[t].pc = "append"
  /\ LET entry == Head(run[t].entries)
         rest  == Tail(run[t].entries)
     IN  /\ history' = Insert(history, <<entry.net, run[t].at, entry.ff>>, entry.row)
         /\ \/ rest = <<>> /\ run'[t] = NoRun
            \/ /\ run'[t].pc = "append" /\ run'[t].entries = rest
               /\ run'[t].members = run[t].members /\ run'[t].rows = run[t].rows
               /\ run'[t].todo = run[t].todo /\ run'[t].at = run[t].at
  /\ building' = building

\* A step of the run thread t executes is one of these.
StepOf(t) ==
  \/ Ends(t) \/ Begins(t) \/ Reads(t)
  \/ \E rep \in Report : \E routed : Folds(t, rep, routed)
  \/ StartsSync(t) \/ (\E n : Syncs(t, n)) \/ StartsAppend(t) \/ Appends(t)

\* These are all the steps of a run, and they leave the locals of the others alone.
LEMMA StepsOfRun ==
  ASSUME NEW t \in Threads, TypeInv, ReadBuilding(t) \/ BuildStep(t) \/ AbortRun(t)
  PROVE  StepOf(t) /\ \A u \in Threads \ {t} : run'[u] = run[u]
<1> USE DEF StepOf
<1>1. /\ t \in DOMAIN run /\ Locals(run[t], clock)
      /\ \A r : Become(t, r) => run'[t] = r
      /\ \A r : Become(t, r) => \A u \in Threads \ {t} : run'[u] = run[u]
      BY DEF TypeInv, RunsTyped, Become
<1>2. \A u \in Threads \ {t} : run'[u] = run[u]
      BY <1>1 DEF ReadBuilding, BuildStep, AbortRun, ReadHistory, ReadReports, SkipReport,
         FoldReport, StartSync, SyncRow, StartAppend, AppendEntry, Return
<1>3. CASE ReadBuilding(t)
      BY <1>1, <1>3 DEF ReadBuilding, NoRun, Begins, Kept
<1>4. CASE ReadHistory(t)
      BY <1>1, <1>4 DEF ReadHistory, InRun, Locals, Reads, Kept
<1>5. CASE ReadReports(t)
      BY <1>1, <1>5 DEF ReadReports, Return, InRun, Locals, Reads, Ends, Kept
<1>6. CASE SkipReport(t)
  <2>1. PICK rep \in run[t].todo : run'[t] = [run[t] EXCEPT !.todo = @ \ {rep}]
        BY <1>1, <1>6 DEF SkipReport
  <2>2. Kept /\ run[t].pc = "fold"
        BY <1>6 DEF SkipReport, InRun, Kept
  <2>3. /\ run'[t].todo = run[t].todo \ {rep} /\ run'[t].pc = run[t].pc
        /\ run'[t].members = run[t].members /\ run'[t].entries = run[t].entries
        /\ run'[t].seen = run[t].seen /\ run'[t].logged = run[t].logged
        BY <1>1, <2>1 DEF Locals
  <2> QED
      BY <1>2, <2>2, <2>3 DEF Reads
<1>7. CASE FoldReport(t)
  <2>1. PICK rep \in run[t].todo, timestamps \in {TRUE, run[t].loaded} :
          /\ ~Recognised(t, rep)
          /\ \E routed \in AssignNet(run[t].members, run[t].spans, rep, timestamps) :
               Become(t, [run[t] EXCEPT !.todo = @ \ {rep}, !.seen = @ \cup {Signature(rep)},
                                        !.members = routed.members, !.spans = routed.spans,
                                        !.entries = Append(@, Entry(rep, routed))])
        BY <1>7 DEF FoldReport
  <2>2. PICK routed \in AssignNet(run[t].members, run[t].spans, rep, timestamps) :
          run'[t] = [run[t] EXCEPT !.todo = @ \ {rep}, !.seen = @ \cup {Signature(rep)},
                                   !.members = routed.members, !.spans = routed.spans,
                                   !.entries = Append(@, Entry(rep, routed))]
        BY <1>1, <2>1
  <2>3. /\ rep \in Report /\ timestamps \in BOOLEAN
        /\ Sighted(run[t].members) /\ DOMAIN run[t].spans = DOMAIN run[t].members
        BY <1>1, ReportsAreReports DEF Locals
  <2>4. /\ Sighted(routed.members) /\ Routed(run[t].members, rep, routed)
        /\ routed.members[routed.net].nti =
             (IF routed.net \in DOMAIN run[t].members THEN run[t].members[routed.net].nti
              ELSE 0) + rep.nti
        BY <2>3, RoutingKeepsCounts
  <2>5. Entry(rep, routed) \in LogEntry
        BY <2>3, <2>4, EntryType DEF Sighted
  <2>6. Kept /\ run[t].pc = "fold"
        BY <1>7 DEF FoldReport, InRun, Kept
  <2>7. /\ run'[t].pc = "fold" /\ run'[t].todo = run[t].todo \ {rep}
        /\ run'[t].members = routed.members
        /\ run'[t].entries = Append(run[t].entries, Entry(rep, routed))
        /\ run'[t].seen = run[t].seen \cup {Signature(rep)} /\ run'[t].logged = run[t].logged
        BY <1>1, <2>2, <2>6 DEF Locals
  <2> QED
      BY <1>2, <2>1, <2>3, <2>4, <2>5, <2>6, <2>7 DEF Folds
<1>8. CASE StartSync(t)
       BY <1>1, <1>8 DEF StartSync, InRun, Locals, StartsSync, Kept
<1>9. CASE SyncRow(t)
       BY <1>1, <1>9 DEF SyncRow, InRun, Locals, Syncs
<1>10. CASE StartAppend(t)
       BY <1>1, <1>10 DEF StartAppend, Return, InRun, Locals, StartsAppend, Ends, Kept
<1>11. CASE AppendEntry(t)
       BY <1>1, <1>11 DEF AppendEntry, Return, InRun, Locals, Appends
<1>12. CASE AbortRun(t)
       BY <1>1, <1>12 DEF AbortRun, Return, Ends, Kept
<1> QED
    BY <1>2, <1>3, <1>4, <1>5, <1>6, <1>7, <1>8, <1>9, <1>10, <1>11, <1>12 DEF BuildStep

\* One thread serves the requests, and the table of nets is never dropped.
Serial(t) == Threads = {t} /\ ~MayDrop

\* Then these are all the steps there are.
LEMMA OnlySteps ==
  ASSUME NEW t, Serial(t), TypeInv, [Next]_buildVars
  PROVE  \/ Elsewhere \/ Ends(t) \/ Begins(t) \/ Reads(t)
         \/ \E rep \in Report : \E routed : Folds(t, rep, routed)
         \/ StartsSync(t) \/ (\E n : Syncs(t, n)) \/ StartsAppend(t) \/ Appends(t)
<1>1. t \in Threads
      BY DEF Serial
<1>2. CASE \E rep \in Reports : PutReport(rep) \/ DeleteReport(rep)
      BY <1>2 DEF PutReport, DeleteReport, Elsewhere
<1>3. CASE DropNets
      BY <1>3 DEF DropNets, Serial
<1>4. CASE UNCHANGED buildVars
      BY <1>4 DEF buildVars, Elsewhere
<1>5. CASE ReadBuilding(t) \/ BuildStep(t) \/ AbortRun(t)
      BY <1>1, <1>5, StepsOfRun DEF StepOf
<1> QED
    BY <1>2, <1>3, <1>4, <1>5 DEF Next, Serial

\* The entries after a report was folded.
LEMMA EntriesAppended ==
  ASSUME NEW es \in Seq(LogEntry), NEW entry \in LogEntry
  PROVE  LET new == Append(es, entry)
         IN  /\ Len(es) \in Nat /\ Len(new) = Len(es) + 1
             /\ \A i \in 1..Len(es) : new[i] = es[i]
             /\ new[Len(es) + 1] = entry
             /\ \A i \in 1..Len(new) : i \in 1..Len(es) \/ i = Len(es) + 1
BY AppendProperties, LenProperties

\* What a run in progress knows of itself.
LEMMA OwnLocals ==
  ASSUME NEW t \in Threads, TypeInv
  PROVE  /\ Sighted(building) /\ Sighted(run[t].members)
         /\ Locals(run[t], clock)
         /\ run[t].entries \in Seq(LogEntry)
         /\ run[t].rows \subseteq DOMAIN run[t].members
         /\ \A i \in 1..Len(run[t].entries) : run[t].entries[i] \in LogEntry
BY ElementOfSeq DEF TypeInv, RunsTyped, Locals

\* The same of the only run.
LEMMA RunLocals ==
  ASSUME NEW t, Serial(t), TypeInv
  PROVE  /\ Sighted(building) /\ Sighted(run[t].members)
         /\ Locals(run[t], clock)
         /\ run[t].entries \in Seq(LogEntry)
         /\ run[t].rows \subseteq DOMAIN run[t].members
         /\ \A i \in 1..Len(run[t].entries) : run[t].entries[i] \in LogEntry
BY OwnLocals DEF Serial

\* A run that has folded nothing has no entry.
LEMMA NoEntries == \A i : i \notin 1..Len(<<>>)
OBVIOUS
------------------------------------------------------------------------------
\* Distinct stations stay apart.

\* The members of a run hold every net of the table, on its station, with at least its
\* count.
Ahead(r) ==
  /\ DOMAIN building \subseteq DOMAIN r.members
  /\ \A n \in DOMAIN building :
       r.members[n].rdfs = building[n].rdfs /\ building[n].nti <= r.members[n].nti

\* What is to be logged is of the station of the net it went to.
EntriesAgree(r) ==
  \A i \in 1..Len(r.entries) :
    /\ r.entries[i].net \in DOMAIN r.members
    /\ r.entries[i].row.rdfs = r.members[r.entries[i].net].rdfs

\* The nets are written before the log is.
Written(r) ==
  /\ r.pc \in {"sync", "append"} =>
       \A n \in DOMAIN r.members \ r.rows :
         n \in DOMAIN building /\ building[n] = r.members[n]
  /\ r.pc = "append" => r.rows = {}

\* Folding a report keeps that.
LEMMA FoldAgrees ==
  ASSUME NEW t \in Threads, TypeInv, EntriesAgree(run[t]), NEW rep \in Report, NEW routed,
         Folds(t, rep, routed)
  PROVE  EntriesAgree(run[t])'
<1> DEFINE r == run[t]
           s == run'[t]
           n == routed.net
           entry == Entry(rep, routed)
<1>1. /\ DOMAIN s.members = DOMAIN r.members \cup {n}
      /\ \A m \in DOMAIN r.members \ {n} : s.members[m] = r.members[m]
      /\ s.members[n].rdfs = rep.rdfs
      /\ n \in DOMAIN r.members => r.members[n].rdfs = rep.rdfs
      BY DEF Folds, Routed
<1>2. entry.net = n /\ entry.row.rdfs = rep.rdfs
      BY DEF Entry
<1>3. s.entries = Append(r.entries, entry) /\ entry \in LogEntry /\ r.entries \in Seq(LogEntry)
      BY OwnLocals DEF Folds
<1> HIDE DEF entry, n
<1>4. ASSUME NEW i \in 1..Len(s.entries)
      PROVE  /\ s.entries[i].net \in DOMAIN s.members
             /\ s.entries[i].row.rdfs = s.members[s.entries[i].net].rdfs
  <2>1. CASE i \in 1..Len(r.entries)
    <3>1. s.entries[i] = r.entries[i]
          BY <1>3, <2>1, EntriesAppended
    <3> QED
        BY <1>1, <2>1, <3>1 DEF EntriesAgree
  <2>2. CASE i \notin 1..Len(r.entries)
    <3>1. s.entries[i] = entry
          BY <1>3, <2>2, EntriesAppended
    <3> QED
        BY <1>1, <1>2, <3>1
  <2> QED
      BY <2>1, <2>2
<1> QED
    BY <1>4 DEF EntriesAgree

StationInv(t) ==
  /\ \A k \in DOMAIN history :
       k[1] \in DOMAIN building /\ building[k[1]].rdfs = history[k].rdfs
  /\ ~Resting(t) => Ahead(run[t]) /\ EntriesAgree(run[t]) /\ Written(run[t])

\* There is no log and no run.
LEMMA StationStart == ASSUME NEW t, Serial(t), Init PROVE StationInv(t)
BY DEF Serial, Init, BuildInit, StationInv, EmptyTable, NoRun, Resting

\* Every step of the only thread keeps it.
LEMMA StationStep ==
  ASSUME NEW t, Serial(t), TypeInv, StationInv(t), [Next]_buildVars
  PROVE  StationInv(t)'
<1> USE DEF StationInv, Resting
<1> DEFINE r == run[t]
           s == run'[t]
<1>1. /\ Sighted(building) /\ Sighted(r.members) /\ r.entries \in Seq(LogEntry)
      /\ \A i \in 1..Len(r.entries) : r.entries[i] \in LogEntry
      BY RunLocals
<1>2. \A n \in DOMAIN building : building[n].nti \in Nat
      BY <1>1 DEF Sighted
<1>3. CASE Elsewhere
      BY <1>3 DEF Elsewhere, Ahead, EntriesAgree, Written
<1>4. CASE Ends(t)
      BY <1>4 DEF Ends, Kept, NoRun
<1>5. CASE Begins(t)
  <2>1. Ahead(run[t])' /\ EntriesAgree(run[t])' /\ Written(run[t])'
        BY <1>2, <1>5, NoEntries DEF Begins, Kept, Ahead, EntriesAgree, Written
  <2> QED
      BY <1>5, <2>1 DEF Begins, Kept
<1>6. CASE Reads(t)
      BY <1>6 DEF Reads, Kept, Ahead, EntriesAgree, Written
<1>7. ASSUME NEW rep \in Report, NEW routed, Folds(t, rep, routed)
      PROVE  StationInv(t)'
  <2> DEFINE n == routed.net
             entry == Entry(rep, routed)
  <2>1. /\ DOMAIN s.members = DOMAIN r.members \cup {n}
        /\ \A m \in DOMAIN r.members \ {n} : s.members[m] = r.members[m]
        /\ s.members[n].rdfs = rep.rdfs
        /\ n \in DOMAIN r.members => r.members[n].rdfs = rep.rdfs
        BY <1>7 DEF Folds, Routed
  <2>2. n \in DOMAIN r.members => r.members[n].nti <= s.members[n].nti
    <3>1. rep.nti \in Nat /\ \A m \in DOMAIN r.members : r.members[m].nti \in Nat
          BY <1>1 DEF Report, Sighted
    <3> QED
        BY <1>7, <3>1 DEF Folds
  <2>3. ~Resting(t) /\ Ahead(r) /\ EntriesAgree(r) /\ Kept
        BY <1>7 DEF Folds
  <2>4. Ahead(run[t])'
    <3>1. ASSUME NEW m \in DOMAIN building
          PROVE  /\ m \in DOMAIN s.members /\ s.members[m].rdfs = building[m].rdfs
                 /\ building[m].nti <= s.members[m].nti
      <4>1. /\ m \in DOMAIN r.members /\ r.members[m].rdfs = building[m].rdfs
            /\ building[m].nti <= r.members[m].nti
            /\ building[m].nti \in Nat /\ r.members[m].nti \in Nat
            BY <1>1, <2>3 DEF Ahead, Sighted
      <4>2. s.members[m].nti \in Nat
            BY <1>7, <2>1, <4>1 DEF Folds, Sighted
      <4> QED
          BY <2>1, <2>2, <4>1, <4>2
    <3> QED
        BY <2>3, <3>1 DEF Ahead, Kept
  <2>5. EntriesAgree(run[t])'
        BY <1>7, <2>3, FoldAgrees DEF Serial
  <2>6. Written(run[t])'
        BY <1>7 DEF Folds, Written
  <2> QED
      BY <2>3, <2>4, <2>5, <2>6 DEF Kept
<1>8. CASE StartsSync(t)
      BY <1>8 DEF StartsSync, Kept, Ahead, EntriesAgree, Written
<1>9. ASSUME NEW n, Syncs(t, n)
      PROVE  StationInv(t)'
  <2>1. /\ DOMAIN building' = DOMAIN building \cup {n}
        /\ building'[n] = r.members[n]
        /\ \A m \in DOMAIN building \ {n} : building'[m] = building[m]
        BY <1>9 DEF Syncs, Insert
  <2>2. Ahead(r) /\ EntriesAgree(r) /\ Written(r)
        BY <1>9 DEF Syncs
  <2>3. /\ history' = history /\ s.members = r.members /\ s.entries = r.entries
        /\ s.rows = r.rows \ {n} /\ r.pc = "sync" /\ s.pc = "sync" /\ n \in DOMAIN r.members
        BY <1>9 DEF Syncs
  <2>4. r.members[n].nti \in Nat
        BY <1>1, <2>3 DEF Sighted
  <2>5. Ahead(run[t])'
        BY <2>1, <2>2, <2>3, <2>4 DEF Ahead
  <2>6. EntriesAgree(run[t])'
        BY <2>2, <2>3 DEF EntriesAgree
  <2>7. Written(run[t])'
        BY <2>1, <2>2, <2>3 DEF Written
  <2>8. \A k \in DOMAIN history' :
          k[1] \in DOMAIN building' /\ building'[k[1]].rdfs = history'[k].rdfs
        BY <2>1, <2>2, <2>3 DEF Ahead
  <2> QED
      BY <2>5, <2>6, <2>7, <2>8
<1>10. CASE StartsAppend(t)
       BY <1>10 DEF StartsAppend, Kept, Ahead, EntriesAgree, Written
<1>11. CASE Appends(t)
  <2> DEFINE entry == Head(r.entries)
             rest == Tail(r.entries)
             key == <<entry.net, r.at, entry.ff>>
  <2>1. /\ r.pc = "append" /\ building' = building
        /\ history' = Insert(history, key, entry.row)
        /\ \/ s = NoRun
           \/ /\ s.pc = "append" /\ s.entries = rest
              /\ s.members = r.members /\ s.rows = r.rows
        BY <1>11 DEF Appends
  <2>2. /\ entry = r.entries[1] /\ Len(r.entries) \in Nat /\ Len(r.entries) >= 1
        /\ Len(rest) = Len(r.entries) - 1
        /\ \A i \in 1..(Len(r.entries) - 1) : rest[i] = r.entries[i + 1]
        BY <2>1, RunLocals, EntriesToLog
  <2>3. Ahead(r) /\ EntriesAgree(r) /\ Written(r)
        BY <2>1
  <2>4. entry.net \in DOMAIN building /\ building[entry.net].rdfs = entry.row.rdfs
    <3>1. 1 \in 1..Len(r.entries)
          BY <2>2
    <3>2. entry.net \in DOMAIN r.members /\ entry.row.rdfs = r.members[entry.net].rdfs
          BY <2>2, <2>3, <3>1 DEF EntriesAgree
    <3> QED
        BY <2>1, <2>3, <3>2 DEF Written
  <2>5. key[1] = entry.net
        OBVIOUS
  <2>6. \A k \in DOMAIN history' :
          k[1] \in DOMAIN building' /\ building'[k[1]].rdfs = history'[k].rdfs
    <3> HIDE DEF entry, key
    <3> QED
        BY <2>1, <2>4, <2>5 DEF Insert
  <2>7. s # NoRun => Ahead(run[t])' /\ Written(run[t])'
        BY <2>1, <2>3 DEF Ahead, Written
  <2>8. s # NoRun => EntriesAgree(run[t])'
    <3> HIDE DEF rest, entry
    <3>1. ASSUME NEW i \in 1..Len(rest)
          PROVE  /\ rest[i].net \in DOMAIN r.members
                 /\ rest[i].row.rdfs = r.members[rest[i].net].rdfs
      <4>1. i \in 1..(Len(r.entries) - 1) /\ i + 1 \in 1..Len(r.entries)
            BY <2>2
      <4>2. rest[i] = r.entries[i + 1]
            BY <2>2, <4>1
      <4> QED
          BY <2>3, <4>1, <4>2 DEF EntriesAgree
    <3> QED
        BY <2>1, <3>1 DEF EntriesAgree
  <2> QED
      BY <2>6, <2>7, <2>8 DEF NoRun
<1> QED
    BY <1>3, <1>4, <1>5, <1>6, <1>7, <1>8, <1>9, <1>10, <1>11, OnlySteps

\* assign_net: distinct emitters are never clubbed together across stations.
THEOREM StationsStayApart ==
  ASSUME NEW t, Threads = {t}, ~MayDrop
  PROVE  Spec => []StationsApart
<1>1. Serial(t)
      BY DEF Serial
<1>2. Init => TypeInv /\ StationInv(t)
      BY <1>1, TypeStart, StationStart
<1>3. TypeInv /\ StationInv(t) /\ [Next]_buildVars => (TypeInv /\ StationInv(t))'
      BY <1>1, TypeStep, StationStep
<1>4. StationInv(t) => StationsApart
      BY DEF StationInv, StationsApart
<1> QED
    BY <1>2, <1>3, <1>4, PTL DEF Spec

\* What logging one entry does to the log and to the run.
LEMMA Appending ==
  ASSUME NEW t \in Threads, TypeInv, Appends(t)
  PROVE  LET es    == run[t].entries
             entry == Head(es)
             rest  == Tail(es)
             key   == <<entry.net, run[t].at, entry.ff>>
         IN  /\ es \in Seq(LogEntry) /\ es # <<>> /\ ~Resting(t)
             /\ entry \in LogEntry /\ entry = es[1] /\ 1 \in 1..Len(es)
             /\ \A i \in 1..Len(rest) : i + 1 \in 1..Len(es) /\ rest[i] = es[i + 1]
             /\ history' = Insert(history, key, entry.row)
             /\ DOMAIN history' = DOMAIN history \cup {key}
             /\ history'[key] = entry.row
             /\ \A k \in DOMAIN history \ {key} : history'[k] = history[k]
<1> DEFINE es == run[t].entries
           rest == Tail(es)
<1>1. Locals(run[t], clock) /\ run[t].pc = "append"
      BY OwnLocals DEF Appends
<1>2. /\ Head(es) \in LogEntry /\ Head(es) = es[1]
      /\ Len(es) \in Nat /\ Len(es) >= 1 /\ Len(rest) = Len(es) - 1
      /\ \A i \in 1..(Len(es) - 1) : rest[i] = es[i + 1]
      BY <1>1, EntriesToLog
<1>3. es \in Seq(LogEntry) /\ es # <<>> /\ ~Resting(t)
      BY <1>1 DEF Locals, Resting
<1>4. \A i \in 1..Len(rest) : i + 1 \in 1..Len(es) /\ rest[i] = es[i + 1]
  <2> HIDE DEF rest, es
  <2> QED
      BY <1>2
<1>5. history' = Insert(history, <<Head(es).net, run[t].at, Head(es).ff>>, Head(es).row)
      BY DEF Appends
<1>6. 1 \in 1..Len(es)
  <2> HIDE DEF es
  <2> QED
      BY <1>2
<1> QED
    BY <1>2, <1>3, <1>4, <1>5, <1>6 DEF Insert

\* With one thread the nets it speaks of are written.
LEMMA Logging ==
  ASSUME NEW t, Serial(t), TypeInv, StationInv(t), Appends(t)
  PROVE  LET es    == run[t].entries
             entry == Head(es)
             rest  == Tail(es)
             key   == <<entry.net, run[t].at, entry.ff>>
         IN  /\ es \in Seq(LogEntry) /\ es # <<>> /\ ~Resting(t)
             /\ entry \in LogEntry /\ entry = es[1] /\ 1 \in 1..Len(es)
             /\ \A i \in 1..Len(rest) : i + 1 \in 1..Len(es) /\ rest[i] = es[i + 1]
             /\ history' = Insert(history, key, entry.row)
             /\ DOMAIN history' = DOMAIN history \cup {key}
             /\ history'[key] = entry.row
             /\ \A k \in DOMAIN history \ {key} : history'[k] = history[k]
             /\ entry.net \in DOMAIN building
             /\ \A n \in DOMAIN run[t].members : n \in DOMAIN building
             /\ \A n \in DOMAIN building :
                  n \in DOMAIN run[t].members /\ building[n] = run[t].members[n]
<1> DEFINE es == run[t].entries
           rest == Tail(es)
           key == <<Head(es).net, run[t].at, Head(es).ff>>
<1>1. /\ es \in Seq(LogEntry) /\ es # <<>> /\ ~Resting(t)
      /\ Head(es) \in LogEntry /\ Head(es) = es[1] /\ 1 \in 1..Len(es)
      /\ \A i \in 1..Len(rest) : i + 1 \in 1..Len(es) /\ rest[i] = es[i + 1]
      /\ history' = Insert(history, key, Head(es).row)
      /\ DOMAIN history' = DOMAIN history \cup {key}
      /\ history'[key] = Head(es).row
      /\ \A k \in DOMAIN history \ {key} : history'[k] = history[k]
      BY Appending DEF Serial
<1>2. Ahead(run[t]) /\ EntriesAgree(run[t]) /\ Written(run[t]) /\ run[t].pc = "append"
      BY <1>1 DEF StationInv, Appends
<1>3. \A n \in DOMAIN run[t].members : n \in DOMAIN building /\ building[n] = run[t].members[n]
      BY <1>2 DEF Written
<1>4. es[1].net \in DOMAIN run[t].members
      BY <1>1, <1>2 DEF EntriesAgree
<1> HIDE DEF rest, key, es
<1> QED
    BY <1>1, <1>2, <1>3, <1>4 DEF Ahead, es, rest, key
------------------------------------------------------------------------------
\* A net is spawned once.

\* An entry that says "new" is of a net with no such log row and no other such entry.
SpawnInv(t) ==
  /\ SpawnedOnce
  /\ ~Resting(t) =>
       LET es == run[t].entries
       IN  \A i \in 1..Len(es) : es[i].row.action = "new" =>
             /\ \A k \in DOMAIN history : k[1] = es[i].net => history[k].action # "new"
             /\ \A j \in 1..Len(es) :
                  es[j].net = es[i].net /\ es[j].row.action = "new" => j = i

\* Every step of the only thread keeps it.
LEMMA SpawnStep ==
  ASSUME NEW t, Serial(t), TypeInv, StationInv(t), SpawnInv(t), [Next]_buildVars
  PROVE  SpawnInv(t)'
<1> USE DEF SpawnInv, SpawnedOnce, Resting
<1> DEFINE r == run[t]
           s == run'[t]
           es == r.entries
<1>1. es \in Seq(LogEntry)
      BY RunLocals
<1>2. CASE Elsewhere
      BY <1>2 DEF Elsewhere
<1>3. CASE Ends(t)
      BY <1>3 DEF Ends, Kept, NoRun
<1>4. CASE Begins(t)
      BY <1>4, NoEntries DEF Begins, Kept
<1>5. CASE Reads(t) \/ StartsSync(t) \/ StartsAppend(t)
      BY <1>5 DEF Reads, StartsSync, StartsAppend, Kept
<1>6. ASSUME NEW n, Syncs(t, n)
      PROVE  SpawnInv(t)'
      BY <1>6 DEF Syncs
<1>7. ASSUME NEW rep \in Report, NEW routed, Folds(t, rep, routed)
      PROVE  SpawnInv(t)'
  <2> DEFINE entry == Entry(rep, routed)
             new == s.entries
  <2>1. /\ new = Append(es, entry) /\ entry \in LogEntry /\ ~Resting(t) /\ Kept
        BY <1>7 DEF Folds
  <2>2. entry.row.action = "new" => entry.net \notin DOMAIN r.members
        BY <1>7 DEF Folds, Routed, Entry
  <2>3. \A k \in DOMAIN history : k[1] \in DOMAIN r.members
        BY <2>1 DEF StationInv, Ahead
  <2>4. \A i \in 1..Len(es) : es[i].net \in DOMAIN r.members
        BY <2>1 DEF StationInv, EntriesAgree
  <2> HIDE DEF entry
  <2>5. /\ Len(es) \in Nat /\ \A i \in 1..Len(es) : new[i] = es[i]
        /\ new[Len(es) + 1] = entry
        /\ \A i \in 1..Len(new) : i \in 1..Len(es) \/ i = Len(es) + 1
        BY <1>1, <2>1, EntriesAppended
  <2>6. ASSUME NEW i \in 1..Len(new), new[i].row.action = "new"
        PROVE  /\ \A k \in DOMAIN history : k[1] = new[i].net => history[k].action # "new"
               /\ \A j \in 1..Len(new) :
                    new[j].net = new[i].net /\ new[j].row.action = "new" => j = i
    <3> HIDE DEF new, es
    <3>1. CASE i \in 1..Len(es)
      <4>1. /\ \A k \in DOMAIN history : k[1] = es[i].net => history[k].action # "new"
            /\ \A j \in 1..Len(es) :
                 es[j].net = es[i].net /\ es[j].row.action = "new" => j = i
            BY <2>1, <2>5, <2>6, <3>1 DEF es
      <4> QED
          BY <2>2, <2>4, <2>5, <3>1, <4>1
    <3>2. CASE i = Len(es) + 1
      <4>1. new[i] = entry /\ entry.net \notin DOMAIN r.members
            BY <2>2, <2>5, <2>6, <3>2
      <4> QED
          BY <2>3, <2>4, <2>5, <3>2, <4>1
    <3> QED
        BY <2>5, <3>1, <3>2
  <2> QED
      BY <2>1, <2>6 DEF Kept
<1>8. CASE Appends(t)
  <2> DEFINE entry == Head(es)
             rest == Tail(es)
             key == <<entry.net, r.at, entry.ff>>
  <2>1. /\ entry = es[1] /\ 1 \in 1..Len(es) /\ ~Resting(t)
        /\ \A i \in 1..Len(rest) : i + 1 \in 1..Len(es) /\ rest[i] = es[i + 1]
        /\ DOMAIN history' = DOMAIN history \cup {key}
        /\ history'[key] = entry.row
        /\ \A k \in DOMAIN history \ {key} : history'[k] = history[k]
        BY <1>8, Logging
  <2>2. s = NoRun \/ s.entries = rest
        BY <1>8 DEF Appends
  <2>3. \A i \in 1..Len(es) : es[i].row.action = "new" =>
             /\ \A k \in DOMAIN history : k[1] = es[i].net => history[k].action # "new"
             /\ \A j \in 1..Len(es) :
                  es[j].net = es[i].net /\ es[j].row.action = "new" => j = i
        BY <2>1
  <2>4. key[1] = entry.net
        OBVIOUS
  <2> HIDE DEF entry, rest, key, es
  <2>5. SpawnedOnce'
        BY <2>1, <2>3, <2>4
  <2>6. ASSUME NEW i \in 1..Len(rest), rest[i].row.action = "new"
        PROVE  /\ \A k \in DOMAIN history' : k[1] = rest[i].net => history'[k].action # "new"
               /\ \A j \in 1..Len(rest) :
                    rest[j].net = rest[i].net /\ rest[j].row.action = "new" => j = i
    <3>1. /\ i + 1 \in 1..Len(es) /\ rest[i] = es[i + 1]
          /\ \A j \in 1..Len(rest) : j + 1 \in 1..Len(es) /\ rest[j] = es[j + 1]
          BY <2>1
    <3>2. i + 1 # 1 /\ \A j \in 1..Len(rest) : j + 1 = i + 1 => j = i
          OBVIOUS
    <3>3. \A j \in 1..Len(es) :
            es[j].net = es[i + 1].net /\ es[j].row.action = "new" => j = i + 1
          BY <2>3, <2>6, <3>1
    <3>4. ~(entry.net = rest[i].net /\ entry.row.action = "new")
          BY <2>1, <3>1, <3>2, <3>3
    <3>5. \A k \in DOMAIN history : k[1] = rest[i].net => history[k].action # "new"
          BY <2>3, <2>6, <3>1
    <3>6. \A k \in DOMAIN history' : k[1] = rest[i].net => history'[k].action # "new"
          BY <2>1, <2>4, <3>4, <3>5
    <3>7. \A j \in 1..Len(rest) :
            rest[j].net = rest[i].net /\ rest[j].row.action = "new" => j = i
          BY <3>1, <3>2, <3>3
    <3> QED
        BY <3>6, <3>7
  <2>7. s # NoRun =>
          \A i \in 1..Len(s.entries) : s.entries[i].row.action = "new" =>
             /\ \A k \in DOMAIN history' : k[1] = s.entries[i].net => history'[k].action # "new"
             /\ \A j \in 1..Len(s.entries) :
                  s.entries[j].net = s.entries[i].net /\ s.entries[j].row.action = "new" => j = i
        BY <2>2, <2>6
  <2> QED
      BY <2>5, <2>7 DEF NoRun
<1> QED
    BY <1>2, <1>3, <1>4, <1>5, <1>6, <1>7, <1>8, OnlySteps

\* No two log rows say that the same net is new.
THEOREM NetsSpawnOnce ==
  ASSUME NEW t, Threads = {t}, ~MayDrop
  PROVE  Spec => []SpawnedOnce
<1>1. Serial(t)
      BY DEF Serial
<1> DEFINE Inv == TypeInv /\ StationInv(t) /\ SpawnInv(t)
<1>2. Init => SpawnInv(t)
      BY <1>1 DEF Serial, Init, BuildInit, SpawnInv, SpawnedOnce, EmptyTable, NoRun, Resting
<1>3. Init => Inv
      BY <1>1, <1>2, TypeStart, StationStart
<1>4. Inv /\ [Next]_buildVars => Inv'
      BY <1>1, TypeStep, StationStep, SpawnStep
<1>5. Inv => SpawnedOnce
      BY DEF SpawnInv
<1> HIDE DEF Inv
<1> QED
    BY <1>3, <1>4, <1>5, PTL DEF Spec
------------------------------------------------------------------------------
\* What is logged is counted.

\* What the members count is at least what is logged and what is still to be logged.
CountInv(t) ==
  /\ \A n \in DOMAIN building : Logged(history, n) <= building[n].nti
  /\ ~Resting(t) =>
       \A n \in DOMAIN run[t].members :
         Logged(history, n) + Pending(run[t].entries, n) <= run[t].members[n].nti

\* The log is a table of sightings.
LEMMA LogIsTable == TypeInv => LogTable(history) /\ \A n : Logged(history, n) \in Nat
<1> SUFFICES ASSUME TypeInv PROVE LogTable(history) /\ \A n : Logged(history, n) \in Nat
    OBVIOUS
<1>1. LogTable(history)
      BY DEF TypeInv, LogInv, LogTable, LogRow
<1> QED
    BY <1>1, LoggedIsNat

\* The count CountsMatchLog speaks of is the sum the lemmas speak of.
LEMMA LoggedCountIs == \A n : LoggedCount(n) = Logged(history, n)
BY DEF LoggedCount, LogOf, Logged, SumOfLog

\* Entries that are all of other nets leave nothing to be logged for this one.
LEMMA NothingPendingFor ==
  ASSUME NEW es \in Seq(LogEntry), NEW n, \A i \in 1..Len(es) : es[i].net # n
  PROVE  Pending(es, n) = 0
<1>1. {i \in DOMAIN es : es[i].net = n} = {}
      BY LenProperties
<1> QED
    BY <1>1, SumOfNothing DEF Pending

\* What folding a report does to the count of each net and to what is to be logged.
LEMMA FoldCounts ==
  ASSUME NEW t, Serial(t), TypeInv, StationInv(t), NEW rep \in Report, NEW routed,
         Folds(t, rep, routed), NEW n \in DOMAIN routed.members
  PROVE  LET r == run[t]
             old == IF n \in DOMAIN r.members THEN r.members[n].nti ELSE 0
         IN  \E more \in Nat :
               /\ routed.members[n].nti = old + more
               /\ Pending(run'[t].entries, n) = Pending(r.entries, n) + more
               /\ old \in Nat /\ Pending(r.entries, n) \in Nat
               /\ n \notin DOMAIN r.members =>
                    Logged(history, n) = 0 /\ Pending(r.entries, n) = 0
<1> DEFINE r == run[t]
           es == r.entries
           entry == Entry(rep, routed)
           old == IF n \in DOMAIN r.members THEN r.members[n].nti ELSE 0
           more == Count(entry, n)
<1>1. /\ es \in Seq(LogEntry) /\ entry \in LogEntry /\ run'[t].entries = Append(es, entry)
      /\ \A i \in 1..Len(es) : es[i] \in LogEntry
      /\ \A m \in DOMAIN r.members : r.members[m].nti \in Nat
      /\ ~Resting(t)
      BY RunLocals DEF Folds, Sighted, Resting
<1>2. \A e \in LogEntry : e.row.nti \in Nat
      BY DEF LogEntry, LogRow
<1>3. entry.net = routed.net /\ entry.row.nti = rep.nti
      BY DEF Entry
<1> HIDE DEF entry, es
<1>4. /\ Pending(Append(es, entry), n) = Pending(es, n) + more
      /\ Pending(es, n) \in Nat
      BY <1>1, <1>2, PendingAppend, PendingIsNat
<1>5. more \in Nat
      BY <1>1, <1>2 DEF Count
<1>6. routed.members[n].nti = old + more
  <2>1. CASE n = routed.net
    <3>1. routed.members[n].nti = old + rep.nti
          BY <2>1 DEF Folds
    <3> QED
        BY <1>3, <2>1, <3>1 DEF Count
  <2>2. CASE n # routed.net
    <3>1. n \in DOMAIN r.members /\ routed.members[n] = r.members[n]
          BY <2>2 DEF Folds, Routed
    <3> QED
        BY <1>1, <1>3, <2>2, <3>1 DEF Count
  <2> QED
      BY <2>1, <2>2
<1>7. n \notin DOMAIN r.members => Logged(history, n) = 0 /\ Pending(es, n) = 0
  <2> SUFFICES ASSUME n \notin DOMAIN r.members
               PROVE  Logged(history, n) = 0 /\ Pending(es, n) = 0
      OBVIOUS
  <2>1. \A k \in DOMAIN history : k[1] # n
        BY <1>1 DEF StationInv, Ahead
  <2>2. \A i \in 1..Len(es) : es[i].net # n
        BY <1>1 DEF StationInv, EntriesAgree, es
  <2> QED
      BY <1>1, <2>1, <2>2, NothingLogged, NothingPendingFor
<1>8. old \in Nat
      BY <1>1
<1> HIDE DEF more, old
<1> QED
    BY <1>1, <1>4, <1>5, <1>6, <1>7, <1>8 DEF old, es

\* What logging an entry does to what is logged and to what is still to be logged.
LEMMA LogCounts ==
  ASSUME NEW t, Serial(t), TypeInv, StationInv(t), Appends(t), NEW n
  PROVE  LET es    == run[t].entries
             entry == Head(es)
             key   == <<entry.net, run[t].at, entry.ff>>
         IN  \E more \in Nat :
               /\ Logged(history, n)' <= Logged(history, n) + more
               /\ key \notin DOMAIN history =>
                    Logged(history, n)' = Logged(history, n) + more
               /\ Pending(es, n) = Pending(Tail(es), n) + more
               /\ Logged(history, n) \in Nat /\ Logged(history, n)' \in Nat
               /\ Pending(Tail(es), n) \in Nat
<1> DEFINE es == run[t].entries
           entry == Head(es)
           key == <<entry.net, run[t].at, entry.ff>>
           more == Count(entry, n)
<1>1. /\ es \in Seq(LogEntry) /\ es # <<>> /\ entry \in LogEntry
      /\ history' = Insert(history, key, entry.row)
      /\ \A i \in 1..Len(es) : es[i] \in LogEntry
      BY Logging, RunLocals
<1>2. \A e \in LogEntry : e.row.nti \in Nat
      BY DEF LogEntry, LogRow
<1>3. Tail(es) \in Seq(LogEntry) /\ \A i \in 1..Len(Tail(es)) : Tail(es)[i] \in LogEntry
      BY <1>1, HeadTailProperties, ElementOfSeq
<1>4. key[1] = entry.net
      OBVIOUS
<1> HIDE DEF es, entry, key
<1>5. /\ Pending(es, n) = Pending(Tail(es), n) + Count(Head(es), n)
      /\ Pending(Tail(es), n) \in Nat
      BY <1>1, <1>2, <1>3, PendingHead, PendingIsNat
<1>6. /\ key[1] # n => Logged(Insert(history, key, entry.row), n) = Logged(history, n)
      /\ key[1] = n =>
           Logged(Insert(history, key, entry.row), n) <= Logged(history, n) + entry.row.nti
      /\ key[1] = n /\ key \notin DOMAIN history =>
           Logged(Insert(history, key, entry.row), n) = Logged(history, n) + entry.row.nti
      /\ LogTable(Insert(history, key, entry.row))
      BY <1>1, <1>2, LogIsTable, LoggedInsert
<1>7. Logged(Insert(history, key, entry.row), n) \in Nat
      BY <1>6, LoggedIsNat
<1>8. Logged(history, n)' = Logged(Insert(history, key, entry.row), n)
  <2>1. Logged(history, n)' = Logged(history', n)
        OBVIOUS
  <2> QED
      BY <1>1, <2>1
<1>9. Logged(history, n) \in Nat /\ entry.row.nti \in Nat
      BY <1>1, <1>2, LogIsTable
<1>10. more \in Nat
      BY <1>9 DEF Count
<1>11. /\ Logged(history, n)' <= Logged(history, n) + more
       /\ key \notin DOMAIN history => Logged(history, n)' = Logged(history, n) + more
  <2>1. CASE key[1] = n
        BY <1>4, <1>6, <1>8, <2>1 DEF Count
  <2>2. CASE key[1] # n
    <3>1. more = 0
          BY <1>4, <2>2 DEF Count
    <3> HIDE DEF more
    <3>2. Logged(history, n)' = Logged(history, n)
          BY <1>6, <1>8, <2>2
    <3> QED
        BY <1>9, <3>1, <3>2
  <2> QED
      BY <2>1, <2>2
<1> QED
    BY <1>5, <1>7, <1>8, <1>9, <1>10, <1>11 DEF es, entry, key

\* Every step of the only thread keeps it.
LEMMA CountStep ==
  ASSUME NEW t, Serial(t), TypeInv, StationInv(t), CountInv(t), [Next]_buildVars
  PROVE  CountInv(t)'
<1> USE DEF CountInv, Resting
<1> DEFINE r == run[t]
           s == run'[t]
           es == r.entries
<1>1. /\ \A n \in DOMAIN building : building[n].nti \in Nat
      /\ \A n \in DOMAIN r.members : r.members[n].nti \in Nat
      BY RunLocals DEF Sighted
<1>2. /\ \A n : Logged(history, n) \in Nat
      /\ \A n : Pending(es, n) \in Nat
  <2>1. \A i \in 1..Len(es) : es[i].row.nti \in Nat
        BY RunLocals DEF LogEntry, LogRow
  <2>2. es \in Seq(LogEntry)
        BY RunLocals
  <2> HIDE DEF es
  <2> QED
      BY <2>1, <2>2, LogIsTable, PendingIsNat
<1>3. history' = history => \A n : Logged(history', n) = Logged(history, n)
      OBVIOUS
<1>4. CASE Elsewhere
      BY <1>4 DEF Elsewhere
<1>5. CASE Ends(t)
      BY <1>3, <1>5 DEF Ends, Kept, NoRun
<1>6. CASE Begins(t)
  <2>1. \A n : Pending(s.entries, n) = 0
        BY <1>6, NothingPending DEF Begins
  <2>2. /\ building' = building /\ history' = history /\ s.members = building
        /\ \A n \in DOMAIN building : Logged(history, n) <= building[n].nti
        BY <1>6 DEF Begins, Kept
  <2>3. \A n \in DOMAIN building : Logged(history, n) + 0 <= building[n].nti
        BY <1>2, <2>2
  <2> QED
      BY <1>3, <2>1, <2>2, <2>3
<1>7. CASE Reads(t) \/ StartsSync(t) \/ StartsAppend(t)
      BY <1>3, <1>7 DEF Reads, StartsSync, StartsAppend, Kept
<1>8. ASSUME NEW rep \in Report, NEW routed, Folds(t, rep, routed)
      PROVE  CountInv(t)'
  <2>1. s.members = routed.members /\ Kept /\ ~Resting(t)
        BY <1>8 DEF Folds
  <2>2. ASSUME NEW n \in DOMAIN routed.members
        PROVE  Logged(history, n) + Pending(s.entries, n) <= routed.members[n].nti
    <3> DEFINE old == IF n \in DOMAIN r.members THEN r.members[n].nti ELSE 0
    <3>1. PICK more \in Nat :
            /\ routed.members[n].nti = old + more
            /\ Pending(s.entries, n) = Pending(es, n) + more
            /\ old \in Nat /\ Pending(es, n) \in Nat
            /\ n \notin DOMAIN r.members => Logged(history, n) = 0 /\ Pending(es, n) = 0
          BY <1>8, FoldCounts
    <3>2. Logged(history, n) + Pending(es, n) <= old
          BY <2>1, <3>1
    <3> HIDE DEF old, es, s
    <3> QED
        BY <1>2, <3>1, <3>2
  <2> QED
      BY <1>3, <2>1, <2>2 DEF Kept
<1>9. ASSUME NEW n, Syncs(t, n)
      PROVE  CountInv(t)'
  <2>1. /\ DOMAIN building' = DOMAIN building \cup {n}
        /\ building'[n] = r.members[n]
        /\ \A m \in DOMAIN building \ {n} : building'[m] = building[m]
        /\ n \in DOMAIN r.members
        BY <1>9 DEF Syncs, Insert
  <2>2. /\ history' = history /\ s.members = r.members /\ s.entries = es /\ ~Resting(t)
        BY <1>9 DEF Syncs
  <2>3. Logged(history, n) <= r.members[n].nti
    <3>1. Logged(history, n) + Pending(es, n) <= r.members[n].nti
          BY <2>1, <2>2
    <3> HIDE DEF es
    <3> QED
        BY <1>1, <1>2, <2>1, <3>1
  <2> QED
      BY <1>3, <2>1, <2>2, <2>3
<1>10. CASE Appends(t)
  <2> DEFINE rest == Tail(es)
  <2>1. /\ ~Resting(t) /\ building' = building
        /\ \/ s = NoRun
           \/ s.members = r.members /\ s.entries = rest
        BY <1>10 DEF Appends
  <2>2. \A n \in DOMAIN building : n \in DOMAIN r.members /\ building[n] = r.members[n]
        BY <1>10, Logging
  <2>3. ASSUME NEW n \in DOMAIN r.members
        PROVE  /\ Logged(history', n) <= r.members[n].nti
               /\ Logged(history', n) + Pending(rest, n) <= r.members[n].nti
    <3>1. PICK more \in Nat :
            /\ Logged(history, n)' <= Logged(history, n) + more
            /\ Pending(es, n) = Pending(rest, n) + more
            /\ Logged(history, n) \in Nat /\ Logged(history, n)' \in Nat
            /\ Pending(rest, n) \in Nat
          BY <1>10, LogCounts
    <3>2. Logged(history, n)' = Logged(history', n)
          OBVIOUS
    <3>3. Logged(history, n) + Pending(es, n) <= r.members[n].nti
          BY <2>1
    <3> HIDE DEF rest, es
    <3> QED
        BY <1>1, <3>1, <3>2, <3>3
  <2>4. \A n \in DOMAIN building' : Logged(history', n) <= building'[n].nti
        BY <2>1, <2>2, <2>3
  <2>5. s # NoRun => \A n \in DOMAIN s.members :
                       Logged(history', n) + Pending(s.entries, n) <= s.members[n].nti
        BY <2>1, <2>3
  <2> QED
      BY <2>4, <2>5 DEF NoRun
<1> QED
    BY <1>4, <1>5, <1>6, <1>7, <1>8, <1>9, <1>10, OnlySteps

\* Whatever dies, a logged sighting is counted, in a net that is in the table.
THEOREM LoggedSightingsAreCounted ==
  ASSUME NEW t, Threads = {t}, ~MayDrop
  PROVE  Spec => []LoggedIsCounted
<1>1. Serial(t)
      BY DEF Serial
<1> DEFINE Inv == TypeInv /\ StationInv(t) /\ CountInv(t)
<1>2. Init => CountInv(t)
      BY <1>1 DEF Serial, Init, BuildInit, CountInv, EmptyTable, NoRun, Resting
<1>3. Init => Inv
      BY <1>1, <1>2, TypeStart, StationStart
<1>4. Inv /\ [Next]_buildVars => Inv'
      BY <1>1, TypeStep, StationStep, CountStep
<1>5. Inv => LoggedIsCounted
  <2> SUFFICES ASSUME Inv, NEW k \in DOMAIN history
               PROVE  k[1] \in DOMAIN building /\ building[k[1]].nti >= LoggedCount(k[1])
      BY DEF LoggedIsCounted
  <2>1. k[1] \in DOMAIN building
        BY DEF StationInv
  <2>2. building[k[1]].nti \in Nat /\ Logged(history, k[1]) \in Nat
        BY <1>1, <2>1, RunLocals, LogIsTable DEF Sighted
  <2>3. Logged(history, k[1]) <= building[k[1]].nti
        BY <2>1 DEF CountInv
  <2> QED
      BY <2>1, <2>2, <2>3, LoggedCountIs
<1> HIDE DEF Inv
<1> QED
    BY <1>3, <1>4, <1>5, PTL DEF Spec
------------------------------------------------------------------------------
\* The log only grows, whatever the threads, as long as no run meets two new sightings of
\* one emitter by one station.

\* Two reports of one emitter by one station: whichever is folded second goes to the
\* net of the first, unless a newer net of that station takes it.
SameSource(p, q) == p.ff = q.ff /\ p.rdfs = q.rdfs /\ p.rdfs # Null

\* Among these reports the run will fold, there are no two of one source.
OneNewOf(t, rs) ==
  \A p, q \in rs : ~Recognised(t, p) /\ ~Recognised(t, q) /\ SameSource(p, q) => p = q

\* A run that is about to read the reports finds one new report of each source at most.
\* The table may hold as many sightings of it as it likes that are already in the log.
OneNewEach == \A t \in Threads : InRun(t, "reports") => OneNewOf(t, reports)

DistinctKeys(es) ==
  \A i, j \in 1..Len(es) : es[i].net = es[j].net /\ es[i].ff = es[j].ff => i = j

\* What the run has still to fold is of no source it has an entry of.
SourcesLeft(t) ==
  \A i \in 1..Len(run[t].entries) : \A q \in run[t].todo :
    /\ ~Recognised(t, q)
    /\ q.ff = run[t].entries[i].ff
    /\ q.rdfs = run[t].entries[i].row.rdfs
    => q.rdfs = Null

\* The keys under which the entries will be logged are not in the log.
NewKeys(r) ==
  \A i \in 1..Len(r.entries) :
    <<r.entries[i].net, r.at, r.entries[i].ff>> \notin DOMAIN history

\* The entries of a run have keys of their own, and when they are logged, new ones.
KeyInv(t) ==
  ~Resting(t) =>
    /\ run[t].pc \in {"history", "reports"} => run[t].entries = <<>>
    /\ EntriesAgree(run[t])
    /\ DistinctKeys(run[t].entries)
    /\ InRun(t, "fold") => OneNewOf(t, run[t].todo) /\ SourcesLeft(t)
    /\ InRun(t, "append") => NewKeys(run[t])

\* Two batches that are being logged have stamps of their own.
StampInv ==
  \A t, u \in Threads :
    InRun(t, "append") /\ InRun(u, "append") /\ run[t].at = run[u].at => t = u

KeysInv == StampInv /\ \A t \in Threads : KeyInv(t)

\* Every step is one of a run, which leaves the locals of the others alone, or leaves the
\* log and all locals alone.
LEMMA AnyStep ==
  ASSUME TypeInv, [Next]_buildVars
  PROVE  \/ UNCHANGED <<history, run>>
         \/ \E t \in Threads : StepOf(t) /\ \A u \in Threads \ {t} : run'[u] = run[u]
<1>1. CASE \E rep \in Reports : PutReport(rep) \/ DeleteReport(rep)
      BY <1>1 DEF PutReport, DeleteReport
<1>2. CASE DropNets
      BY <1>2 DEF DropNets
<1>3. CASE UNCHANGED buildVars
      BY <1>3 DEF buildVars
<1>4. ASSUME NEW t \in Threads, ReadBuilding(t) \/ BuildStep(t) \/ AbortRun(t)
      PROVE  StepOf(t) /\ \A u \in Threads \ {t} : run'[u] = run[u]
      BY <1>4, StepsOfRun
<1> QED
    BY <1>1, <1>2, <1>3, <1>4 DEF Next

\* Folding gives the new entry a key of its own, and leaves its source to no other report.
LEMMA FoldKeys ==
  ASSUME NEW t \in Threads, TypeInv, KeyInv(t), NEW rep \in Report, NEW routed,
         Folds(t, rep, routed)
  PROVE  KeyInv(t)'
<1> DEFINE r == run[t]
           s == run'[t]
           es == r.entries
           new == s.entries
           n == routed.net
           entry == Entry(rep, routed)
<1>1. /\ new = Append(es, entry) /\ entry \in LogEntry /\ es \in Seq(LogEntry)
      /\ r.pc = "fold" /\ s.pc = "fold" /\ rep \in r.todo /\ s.todo = r.todo \ {rep}
      /\ ~Recognised(t, rep)
      BY OwnLocals DEF Folds
<1>2. /\ EntriesAgree(r) /\ DistinctKeys(es) /\ OneNewOf(t, r.todo) /\ SourcesLeft(t)
      BY <1>1 DEF KeyInv, Resting, InRun
<1>3. \A q : Recognised(t, q) => Recognised(t, q)'
      BY DEF Folds, Recognised
<1>4. entry.net = n /\ entry.ff = rep.ff /\ entry.row.rdfs = rep.rdfs
      BY DEF Entry
<1>5. n \in DOMAIN r.members => rep.rdfs # Null /\ r.members[n].rdfs = rep.rdfs
      BY DEF Folds, Routed
<1>6. \A i \in 1..Len(es) : ~(es[i].net = n /\ es[i].ff = rep.ff)
      BY <1>1, <1>2, <1>5 DEF EntriesAgree, SourcesLeft
<1>7. \A q \in s.todo : ~Recognised(t, q)' => ~SameSource(q, rep)
      BY <1>1, <1>2, <1>3 DEF OneNewOf
<1>8. OneNewOf(t, run[t].todo)'
  <2>1. \A p, q \in s.todo :
          ~Recognised(t, p)' /\ ~Recognised(t, q)' /\ SameSource(p, q) => p = q
        BY <1>1, <1>2, <1>3 DEF OneNewOf
  <2> QED
      BY <2>1 DEF OneNewOf, SameSource
<1>9. EntriesAgree(run[t])'
      BY <1>2, FoldAgrees
<1>10. /\ Len(es) \in Nat /\ \A i \in 1..Len(es) : new[i] = es[i]
       /\ new[Len(es) + 1] = entry
       /\ \A i \in 1..Len(new) : i \in 1..Len(es) \/ i = Len(es) + 1
  <2> HIDE DEF entry, es
  <2> QED
      BY <1>1, EntriesAppended
<1> HIDE DEF entry, es, n
<1>11. DistinctKeys(new)
  <2> SUFFICES ASSUME NEW i \in 1..Len(new), NEW j \in 1..Len(new),
                      new[i].net = new[j].net, new[i].ff = new[j].ff
               PROVE  i = j
      BY DEF DistinctKeys
  <2>1. CASE i \in 1..Len(es) /\ j \in 1..Len(es)
        BY <1>2, <1>10, <2>1 DEF DistinctKeys
  <2>2. CASE i \in 1..Len(es) /\ j = Len(es) + 1
        BY <1>4, <1>6, <1>10, <2>2
  <2>3. CASE i = Len(es) + 1 /\ j \in 1..Len(es)
        BY <1>4, <1>6, <1>10, <2>3
  <2> QED
      BY <1>10, <2>1, <2>2, <2>3
<1>12. \A i \in 1..Len(new) : \A q \in s.todo :
         /\ ~Recognised(t, q)'
         /\ q.ff = new[i].ff
         /\ q.rdfs = new[i].row.rdfs
         => q.rdfs = Null
  <2> SUFFICES ASSUME NEW i \in 1..Len(new), NEW q \in s.todo, ~Recognised(t, q)',
                      q.ff = new[i].ff, q.rdfs = new[i].row.rdfs
               PROVE  q.rdfs = Null
      OBVIOUS
  <2>1. CASE i \in 1..Len(es)
    <3>1. q \in r.todo /\ ~Recognised(t, q)
          BY <1>1, <1>3
    <3> QED
        BY <1>2, <1>10, <2>1, <3>1 DEF SourcesLeft, es
  <2>2. CASE i = Len(es) + 1
        BY <1>4, <1>7, <1>10, <2>2 DEF SameSource
  <2> QED
      BY <1>10, <2>1, <2>2
<1>13. SourcesLeft(t)'
       BY <1>12 DEF SourcesLeft
<1> QED
    BY <1>1, <1>8, <1>9, <1>11, <1>13 DEF KeyInv, InRun

\* Logging takes the first key and leaves the others new.
LEMMA LogKeys ==
  ASSUME NEW t \in Threads, TypeInv, KeyInv(t), Appends(t)
  PROVE  KeyInv(t)'
<1> DEFINE r == run[t]
           s == run'[t]
           es == r.entries
           entry == Head(es)
           rest == Tail(es)
           key == <<entry.net, r.at, entry.ff>>
<1>1. /\ entry = es[1] /\ 1 \in 1..Len(es) /\ ~Resting(t)
      /\ \A i \in 1..Len(rest) : i + 1 \in 1..Len(es) /\ rest[i] = es[i + 1]
      /\ DOMAIN history' = DOMAIN history \cup {key}
      BY Appending
<1>2. \/ s = NoRun
      \/ /\ s.pc = "append" /\ s.entries = rest /\ s.members = r.members /\ s.at = r.at
      BY DEF Appends
<1>3. r.pc = "append"
      BY DEF Appends
<1>4. EntriesAgree(r) /\ DistinctKeys(es) /\ NewKeys(r)
      BY <1>1, <1>3 DEF KeyInv, InRun
<1>5. CASE s = NoRun
      BY <1>5 DEF KeyInv, Resting, NoRun
<1>6. CASE s # NoRun
  <2>1. s.pc = "append" /\ s.entries = rest /\ s.members = r.members /\ s.at = r.at
        BY <1>2, <1>6
  <2> HIDE DEF es, rest, entry
  <2>2. ASSUME NEW i \in 1..Len(rest), NEW j \in 1..Len(rest),
               rest[i].net = rest[j].net, rest[i].ff = rest[j].ff
        PROVE  i = j
    <3>1. /\ i + 1 \in 1..Len(es) /\ rest[i] = es[i + 1]
          /\ j + 1 \in 1..Len(es) /\ rest[j] = es[j + 1]
          BY <1>1
    <3>2. i + 1 = j + 1
          BY <1>4, <2>2, <3>1 DEF DistinctKeys
    <3> QED
        BY <3>2
  <2>3. DistinctKeys(rest)
        BY <2>2 DEF DistinctKeys
  <2>4. \A i \in 1..Len(rest) : /\ rest[i].net \in DOMAIN r.members
                                /\ rest[i].row.rdfs = r.members[rest[i].net].rdfs
        BY <1>1, <1>4 DEF EntriesAgree, es
  <2>5. ASSUME NEW i \in 1..Len(rest)
        PROVE  <<rest[i].net, r.at, rest[i].ff>> \notin DOMAIN history'
    <3>1. i + 1 # 1 /\ i + 1 \in 1..Len(es) /\ rest[i] = es[i + 1]
          BY <1>1
    <3>2. ~(rest[i].net = entry.net /\ rest[i].ff = entry.ff)
          BY <1>1, <1>4, <3>1 DEF DistinctKeys
    <3>3. <<rest[i].net, r.at, rest[i].ff>> # key
          BY <3>2
    <3>4. <<rest[i].net, r.at, rest[i].ff>> \notin DOMAIN history
          BY <1>4, <3>1 DEF NewKeys, es
    <3> QED
        BY <1>1, <3>3, <3>4
  <2>6. EntriesAgree(run[t])'
        BY <2>1, <2>4 DEF EntriesAgree
  <2>7. NewKeys(run[t])'
        BY <2>1, <2>5 DEF NewKeys
  <2> QED
      BY <2>1, <2>3, <2>6, <2>7 DEF KeyInv, InRun
<1> QED
    BY <1>5, <1>6

\* Every step of its own run keeps it.
LEMMA KeyStep ==
  ASSUME NEW t \in Threads, TypeInv, KeyInv(t), OneNewEach, StepOf(t)
  PROVE  KeyInv(t)'
<1> USE DEF KeyInv, Resting, InRun
<1> DEFINE r == run[t]
           s == run'[t]
<1>1. CASE Ends(t)
      BY <1>1 DEF Ends, NoRun
<1>2. CASE Begins(t)
      BY <1>2, NoEntries DEF Begins, EntriesAgree, DistinctKeys
<1>3. CASE Reads(t)
  <2>1. /\ s.entries = r.entries /\ s.members = r.members /\ ~Resting(t)
        /\ s.pc \in {"reports", "fold"} /\ (s.pc = "reports" <=> r.pc = "history")
        /\ r.pc \in {"history", "reports", "fold"}
        BY <1>3 DEF Reads
  <2>2. EntriesAgree(r) /\ DistinctKeys(r.entries)
        BY <2>1
  <2>3. EntriesAgree(run[t])' /\ DistinctKeys(run[t].entries)'
        BY <2>1, <2>2 DEF EntriesAgree, DistinctKeys
  <2>4. CASE r.pc = "history"
        BY <2>1, <2>3, <2>4
  <2>5. CASE r.pc # "history"
    <3>1. \A q : Recognised(t, q) <=> Recognised(t, q)'
          BY <1>3, <2>5 DEF Reads, Recognised
    <3>2. CASE r.pc = "reports"
      <4>1. s.todo = reports /\ s.entries = <<>> /\ OneNewOf(t, reports) /\ s.pc = "fold"
            BY <1>3, <2>1, <2>5, <3>2 DEF Reads, OneNewEach
      <4>2. \A p, q \in s.todo :
              ~Recognised(t, p)' /\ ~Recognised(t, q)' /\ SameSource(p, q) => p = q
            BY <3>1, <4>1 DEF OneNewOf
      <4>3. OneNewOf(t, run[t].todo)'
            BY <4>2 DEF OneNewOf, SameSource
      <4>4. SourcesLeft(t)'
            BY <4>1, NoEntries DEF SourcesLeft
      <4> QED
          BY <2>3, <4>1, <4>3, <4>4
    <3>3. CASE r.pc = "fold"
      <4>1. s.todo \subseteq r.todo /\ s.pc = "fold" /\ OneNewOf(t, r.todo) /\ SourcesLeft(t)
            BY <1>3, <2>1, <2>5, <3>3 DEF Reads
      <4>2. \A p, q \in s.todo :
              ~Recognised(t, p)' /\ ~Recognised(t, q)' /\ SameSource(p, q) => p = q
            BY <3>1, <4>1 DEF OneNewOf
      <4>3. OneNewOf(t, run[t].todo)'
            BY <4>2 DEF OneNewOf, SameSource
      <4>4. SourcesLeft(t)'
            BY <2>1, <3>1, <4>1 DEF SourcesLeft
      <4> QED
          BY <2>3, <4>1, <4>3, <4>4
    <3> QED
        BY <2>1, <2>5, <3>2, <3>3
  <2> QED
      BY <2>4, <2>5
<1>4. ASSUME NEW rep \in Report, NEW routed, Folds(t, rep, routed)
      PROVE  KeyInv(t)'
      BY <1>4, FoldKeys
<1>5. CASE StartsSync(t) \/ \E n : Syncs(t, n)
  <2>1. /\ s.entries = r.entries /\ s.members = r.members /\ s.pc = "sync" /\ ~Resting(t)
        BY <1>5 DEF StartsSync, Syncs
  <2> QED
      BY <2>1 DEF EntriesAgree, DistinctKeys
<1>6. CASE StartsAppend(t)
  <2>1. /\ s.entries = r.entries /\ s.members = r.members /\ s.pc = "append" /\ s.at = clock
        /\ history' = history /\ ~Resting(t)
        BY <1>6 DEF StartsAppend, Kept
  <2>2. EntriesAgree(r) /\ DistinctKeys(r.entries)
        BY <2>1
  <2>3. NewKeys(run[t])'
    <3>1. clock \in Nat /\ \A k \in DOMAIN history : k[2] < clock
          BY DEF TypeInv, LogInv
    <3>2. \A k \in DOMAIN history : k[2] # clock
          BY <3>1
    <3>3. \A i : <<s.entries[i].net, clock, s.entries[i].ff>>[2] = clock
          OBVIOUS
    <3>4. \A i : <<s.entries[i].net, clock, s.entries[i].ff>> \notin DOMAIN history
      <4> HIDE DEF s
      <4> QED
          BY <3>2, <3>3
    <3> QED
        BY <2>1, <3>4 DEF NewKeys
  <2> QED
      BY <2>1, <2>2, <2>3 DEF EntriesAgree, DistinctKeys
<1>7. CASE Appends(t)
      BY <1>7, LogKeys
<1> QED
    BY <1>1, <1>2, <1>3, <1>4, <1>5, <1>6, <1>7 DEF StepOf

\* So does a step of another run: when it logs, it does so under another stamp.
LEMMA KeyElsewhere ==
  ASSUME NEW t \in Threads, NEW u \in Threads \ {t}, TypeInv, StampInv, KeyInv(u), StepOf(t),
         run'[u] = run[u]
  PROVE  KeyInv(u)'
<1> DEFINE r == run[u]
<1>1. InRun(u, "append") => NewKeys(run[u])'
  <2> SUFFICES ASSUME InRun(u, "append") PROVE NewKeys(run[u])'
      OBVIOUS
  <2>1. NewKeys(r)
        BY DEF KeyInv, InRun, Resting
  <2>2. CASE Appends(t)
    <3> DEFINE key == <<Head(run[t].entries).net, run[t].at, Head(run[t].entries).ff>>
    <3>1. DOMAIN history' = DOMAIN history \cup {key}
          BY <2>2, Appending
    <3>2. run[t].at # r.at
          BY <2>2 DEF StampInv, InRun, Appends
    <3>3. \A i : <<r.entries[i].net, r.at, r.entries[i].ff>> # key
          BY <3>2
    <3> HIDE DEF key
    <3> QED
        BY <2>1, <3>1, <3>3 DEF NewKeys
  <2>3. CASE ~Appends(t)
    <3>1. history' = history
          BY <2>3 DEF StepOf, Kept, Ends, Begins, Reads, Folds, StartsSync, Syncs, StartsAppend
    <3> QED
        BY <2>1, <3>1 DEF NewKeys
  <2> QED
      BY <2>2, <2>3
<1> QED
    BY <1>1 DEF KeyInv, InRun, Resting, EntriesAgree, DistinctKeys, OneNewOf, SourcesLeft,
                SameSource, Recognised

\* Every step keeps all of it.
LEMMA KeysStep ==
  ASSUME TypeInv, KeysInv, OneNewEach, [Next]_buildVars
  PROVE  KeysInv'
<1>1. CASE UNCHANGED <<history, run>>
      BY <1>1 DEF KeysInv, StampInv, KeyInv, InRun, Resting, EntriesAgree, DistinctKeys,
                  OneNewOf, SourcesLeft, SameSource, Recognised, NewKeys
<1>2. ASSUME NEW t \in Threads, StepOf(t), \A u \in Threads \ {t} : run'[u] = run[u]
      PROVE  KeysInv'
  <2>1. \A u \in Threads : KeyInv(u)'
        BY <1>2, KeyStep, KeyElsewhere DEF KeysInv
  <2>2. \/ run'[t].pc # "append"
        \/ run'[t].at = clock
        \/ run[t].pc = "append" /\ run'[t].at = run[t].at
        BY <1>2 DEF StepOf, Ends, NoRun, Begins, Reads, Folds, StartsSync, Syncs, StartsAppend,
                    Appends
  <2>3. \A u \in Threads : run[u].pc = "append" => run[u].at # clock
    <3>1. clock \in Nat /\ \A u \in Threads : Locals(run[u], clock)
          BY DEF TypeInv, RunsTyped
    <3>2. \A u \in Threads : run[u].pc = "append" => run[u].at \in Nat /\ run[u].at < clock
          BY <3>1 DEF Locals
    <3> QED
        BY <3>1, <3>2
  <2>4. StampInv'
        BY <1>2, <2>2, <2>3 DEF KeysInv, StampInv, InRun
  <2> QED
      BY <2>1, <2>4 DEF KeysInv
<1> QED
    BY <1>1, <1>2, AnyStep

\* Nobody runs anything.
LEMMA KeysStart == Init => KeysInv
BY DEF Init, BuildInit, KeysInv, StampInv, KeyInv, InRun, Resting, NoRun

\* ff_net_report_history is append-only: on any number of threads, whatever dies, is deleted
\* or dropped, no run rewrites a row of it, as long as no run meets two new sightings of
\* one emitter by one station.
THEOREM LogOnlyGrows == Spec /\ []OneNewEach => HistoryOnlyGrows
<1> DEFINE Inv == TypeInv /\ KeysInv
           Grows == \A k \in DOMAIN history : k \in DOMAIN history' /\ history'[k] = history[k]
<1>1. Init => Inv
      BY TypeStart, KeysStart
<1>2. Inv /\ OneNewEach /\ [Next]_buildVars => Inv'
      BY TypeStep, KeysStep
<1>3. Inv /\ [Next]_buildVars => [Grows]_history
  <2> SUFFICES ASSUME Inv, [Next]_buildVars, history' # history PROVE Grows
      OBVIOUS
  <2>1. PICK t \in Threads : StepOf(t)
        BY AnyStep
  <2>2. Appends(t)
        BY <2>1 DEF StepOf, Kept, Ends, Begins, Reads, Folds, StartsSync, Syncs, StartsAppend
  <2> DEFINE es == run[t].entries
             key == <<Head(es).net, run[t].at, Head(es).ff>>
  <2>3. /\ DOMAIN history' = DOMAIN history \cup {key}
        /\ \A k \in DOMAIN history \ {key} : history'[k] = history[k]
        /\ Head(es) = es[1] /\ 1 \in 1..Len(es) /\ ~Resting(t)
        BY <2>2, Appending
  <2>4. key \notin DOMAIN history
        BY <2>2, <2>3 DEF KeysInv, KeyInv, InRun, NewKeys, Appends
  <2> QED
      BY <2>3, <2>4
<1> HIDE DEF Inv
<1> QED
    BY <1>1, <1>2, <1>3, PTL DEF Spec, HistoryOnlyGrows
------------------------------------------------------------------------------
\* Counts match the log, as long as no run dies and the log only grows.

\* Up to the writing of the nets the table, and all along the members, count exactly what
\* is logged and what is still to be logged.
ExactInv(t) ==
  /\ run[t].pc \in {"idle", "history", "reports", "fold"} =>
       \A n \in DOMAIN building : building[n].nti = Logged(history, n)
  /\ ~Resting(t) =>
       \A n \in DOMAIN run[t].members :
         run[t].members[n].nti = Logged(history, n) + Pending(run[t].entries, n)

\* Every step of the only thread keeps it.
LEMMA ExactStep ==
  ASSUME NEW t, Serial(t), ~MayDie, TypeInv, StationInv(t), KeysInv, ExactInv(t),
         [Next]_buildVars
  PROVE  ExactInv(t)'
<1> USE DEF ExactInv, Resting
<1> DEFINE r == run[t]
           s == run'[t]
           es == r.entries
<1>1. /\ \A n : Logged(history, n) \in Nat
      /\ history' = history => \A n : Logged(history', n) = Logged(history, n)
      /\ NoRun.pc = "idle"
      BY LogIsTable DEF NoRun
<1>2. CASE Elsewhere
      BY <1>2 DEF Elsewhere
<1>3. CASE Ends(t)
  <2>1. building' = building /\ history' = history /\ s = NoRun
        BY <1>3 DEF Ends, Kept
  <2>2. CASE r.pc = "reports"
        BY <1>1, <2>1, <2>2
  <2>3. CASE r.pc = "sync" /\ r.rows = {} /\ es = <<>>
    <3>1. \A n : Pending(es, n) = 0
          BY <2>3, NothingPending
    <3>2. \A n \in DOMAIN building : n \in DOMAIN r.members /\ building[n] = r.members[n]
          BY <2>3 DEF StationInv, Ahead, Written
    <3>3. \A n \in DOMAIN r.members : r.members[n].nti = Logged(history, n) + Pending(es, n)
          BY <2>3
    <3> HIDE DEF es
    <3>4. \A n \in DOMAIN building : building[n].nti = Logged(history, n)
          BY <1>1, <3>1, <3>2, <3>3
    <3> QED
        BY <1>1, <2>1, <3>4
  <2> QED
      BY <1>3, <2>2, <2>3 DEF Ends
<1>4. CASE Begins(t)
  <2>1. \A n : Pending(s.entries, n) = 0
        BY <1>4, NothingPending DEF Begins
  <2>2. /\ building' = building /\ history' = history /\ s.members = building
        /\ \A n \in DOMAIN building : building[n].nti = Logged(history, n)
        BY <1>4 DEF Begins, Kept
  <2>3. \A n \in DOMAIN building : building[n].nti = Logged(history, n) + 0
        BY <1>1, <2>2
  <2> QED
      BY <1>1, <2>1, <2>2, <2>3
<1>5. CASE Reads(t) \/ StartsSync(t) \/ StartsAppend(t)
      BY <1>1, <1>5 DEF Reads, StartsSync, StartsAppend, Kept
<1>6. ASSUME NEW rep \in Report, NEW routed, Folds(t, rep, routed)
      PROVE  ExactInv(t)'
  <2>1. s.members = routed.members /\ Kept /\ ~Resting(t) /\ r.pc = "fold" /\ s.pc = "fold"
        BY <1>6 DEF Folds
  <2>2. ASSUME NEW n \in DOMAIN routed.members
        PROVE  routed.members[n].nti = Logged(history, n) + Pending(s.entries, n)
    <3> DEFINE old == IF n \in DOMAIN r.members THEN r.members[n].nti ELSE 0
    <3>1. PICK more \in Nat :
            /\ routed.members[n].nti = old + more
            /\ Pending(s.entries, n) = Pending(es, n) + more
            /\ old \in Nat /\ Pending(es, n) \in Nat
            /\ n \notin DOMAIN r.members => Logged(history, n) = 0 /\ Pending(es, n) = 0
          BY <1>6, FoldCounts
    <3>2. old = Logged(history, n) + Pending(es, n)
          BY <2>1, <3>1
    <3> HIDE DEF old, es, s
    <3> QED
        BY <1>1, <3>1, <3>2
  <2> QED
      BY <1>1, <2>1, <2>2 DEF Kept
<1>7. ASSUME NEW n, Syncs(t, n)
      PROVE  ExactInv(t)'
      BY <1>1, <1>7 DEF Syncs
<1>8. CASE Appends(t)
  <2> DEFINE rest == Tail(es)
             key == <<Head(es).net, r.at, Head(es).ff>>
  <2>1. /\ ~Resting(t) /\ building' = building /\ r.pc = "append"
        /\ \/ s = NoRun /\ rest = <<>>
           \/ s.members = r.members /\ s.entries = rest /\ s.pc = "append"
        BY <1>8 DEF Appends
  <2>2. /\ \A n \in DOMAIN building : n \in DOMAIN r.members /\ building[n] = r.members[n]
        /\ Head(es) = es[1] /\ 1 \in 1..Len(es)
        BY <1>8, Logging
  <2>3. key \notin DOMAIN history
        BY <2>1, <2>2 DEF KeysInv, KeyInv, InRun, NewKeys, Serial
  <2>4. ASSUME NEW n \in DOMAIN r.members
        PROVE  /\ r.members[n].nti = Logged(history', n) + Pending(rest, n)
               /\ Logged(history', n) \in Nat
    <3>1. PICK more \in Nat :
            /\ Logged(history, n)' = Logged(history, n) + more
            /\ Pending(es, n) = Pending(rest, n) + more
            /\ Logged(history, n) \in Nat /\ Logged(history, n)' \in Nat
            /\ Pending(rest, n) \in Nat
          BY <1>8, <2>3, LogCounts
    <3>2. Logged(history, n)' = Logged(history', n)
          OBVIOUS
    <3>3. r.members[n].nti = Logged(history, n) + Pending(es, n)
          BY <2>1
    <3> HIDE DEF rest, es
    <3> QED
        BY <3>1, <3>2, <3>3
  <2>5. CASE s = NoRun /\ rest = <<>>
    <3>1. \A n : Pending(rest, n) = 0
          BY <2>5, NothingPending
    <3> HIDE DEF rest, es
    <3>2. \A n \in DOMAIN building : building[n].nti = Logged(history', n)
          BY <2>2, <2>4, <3>1
    <3> QED
        BY <1>1, <2>1, <2>5, <3>2
  <2>6. CASE s.members = r.members /\ s.entries = rest /\ s.pc = "append"
        BY <2>4, <2>6
  <2> QED
      BY <2>1, <2>5, <2>6
<1> QED
    BY <1>2, <1>3, <1>4, <1>5, <1>6, <1>7, <1>8, OnlySteps

\* Between runs the count of every net is the sum of the sightings logged for it: as long
\* as no run dies or meets two new sightings of one emitter by one station.
THEOREM CountsAreExact ==
  ASSUME NEW t, Threads = {t}, ~MayDrop, ~MayDie
  PROVE  Spec /\ []OneNewEach => []CountsMatchLog
<1>1. Serial(t)
      BY DEF Serial
<1> DEFINE Inv == TypeInv /\ StationInv(t) /\ KeysInv /\ ExactInv(t)
<1>2. Init => ExactInv(t)
      BY <1>1 DEF Serial, Init, BuildInit, ExactInv, EmptyTable, NoRun, Resting
<1>3. Init => Inv
      BY <1>1, <1>2, TypeStart, StationStart, KeysStart
<1>4. Inv /\ OneNewEach /\ [Next]_buildVars => Inv'
      BY <1>1, TypeStep, StationStep, KeysStep, ExactStep
<1>5. Inv => CountsMatchLog
      BY <1>1, LoggedCountIs DEF CountsMatchLog, NoRunUnderWay, ExactInv, Serial, Resting
<1> HIDE DEF Inv
<1> QED
    BY <1>3, <1>4, <1>5, PTL DEF Spec
------------------------------------------------------------------------------
\* Intervals cover the log, but where a station's own dates are ambiguous.

\* A station's FTIs, and its LTIs, survive being written and read again.
FtisPlain(station) == \A rep \in HeardBy(station) : Plain(rep.fti)
LtisPlain(station) == \A rep \in HeardBy(station) : Plain(rep.lti)

\* Then so do those of its nets.
PlainNets(nets) ==
  \A n \in DOMAIN nets :
    /\ nets[n].fti \in Nat /\ nets[n].lti \in Nat
    /\ nets[n].rdfs # Null =>
         /\ FtisPlain(nets[n].rdfs) => Plain(nets[n].fti)
         /\ LtisPlain(nets[n].rdfs) => Plain(nets[n].lti)

\* A net of the station encloses what was seen, in the columns where it can.
Covers(station, net, seen) ==
  /\ FtisPlain(station) => net.fti <= seen.fti
  /\ LtisPlain(station) => seen.lti <= net.lti

\* The table covers the log, and the members the table and what is still to be logged.
IntervalInv(t) ==
  /\ PlainNets(building)
  /\ \A k \in DOMAIN history : Covers(history[k].rdfs, building[k[1]], history[k])
  /\ ~Resting(t) =>
       LET r == run[t]
       IN  /\ PlainNets(r.members)
           /\ \A n \in DOMAIN building : Covers(building[n].rdfs, r.members[n], building[n])
           /\ \A i \in 1..Len(r.entries) :
                LET entry == r.entries[i]
                IN  Covers(entry.row.rdfs, r.members[entry.net], entry.row)

\* Covers is transitive where dates are numbers.
LEMMA CoversAll ==
  ASSUME NEW station, NEW a, NEW b, NEW c,
         a.fti \in Int, a.lti \in Int, b.fti \in Int, b.lti \in Int, c.fti \in Int, c.lti \in Int,
         Covers(station, a, b), Covers(station, b, c)
  PROVE  Covers(station, a, c)
<1>1. FtisPlain(station) => a.fti <= c.fti
      BY DEF Covers
<1>2. LtisPlain(station) => c.lti <= a.lti
      BY DEF Covers
<1> QED
    BY <1>1, <1>2 DEF Covers

\* A date parsed again is a date.
LEMMA ReparsedIsDate == \A d \in Nat : Reparsed(d) \in Nat
BY DEF Reparsed

\* The net a report is folded into has plain dates if its station's are, and encloses the
\* report and what it enclosed before.
LEMMA FoldCovers ==
  ASSUME NEW members, NetTable(members), PlainNets(members),
         NEW rep \in Report, rep \in Reports, NEW routed, Routed(members, rep, routed)
  PROVE  /\ PlainNets(routed.members)
         /\ Covers(rep.rdfs, routed.members[routed.net], rep)
         /\ \A n \in DOMAIN members : Covers(members[n].rdfs, routed.members[n], members[n])
<1> DEFINE n == routed.net
           new == routed.members[n]
           station == rep.rdfs
<1>1. /\ DOMAIN routed.members = DOMAIN members \cup {n}
      /\ \A m \in DOMAIN members \ {n} : routed.members[m] = members[m]
      /\ new.rdfs = station
      BY DEF Routed
<1>2. \A m \in DOMAIN members : members[m].fti \in Nat /\ members[m].lti \in Nat
      BY DEF PlainNets
<1>3. /\ rep.fti \in Nat /\ rep.lti \in Nat
      /\ station # Null => /\ FtisPlain(station) => Plain(rep.fti)
                           /\ LtisPlain(station) => Plain(rep.lti)
      BY DEF Report, FtisPlain, LtisPlain, HeardBy
<1>4. CASE n \notin DOMAIN members
  <2>1. new.fti = rep.fti /\ new.lti = rep.lti
        BY <1>4 DEF Routed, NewRow
  <2> HIDE DEF n
  <2>2. PlainNets(routed.members)
        BY <1>1, <1>3, <1>4, <2>1 DEF PlainNets
  <2>3. Covers(station, new, rep)
        BY <1>3, <2>1 DEF Covers
  <2>4. \A m \in DOMAIN members : Covers(members[m].rdfs, routed.members[m], members[m])
        BY <1>1, <1>2, <1>4 DEF Covers
  <2> QED
      BY <2>2, <2>3, <2>4 DEF n
<1>5. CASE n \in DOMAIN members
  <2> DEFINE old == members[n]
  <2>1. PICK ts \in BOOLEAN : new = Collapsed(old, rep, ts)
        BY <1>5 DEF Routed
  <2>2. old \in NetRow /\ station # Null /\ old.rdfs = station
        BY <1>5 DEF NetTable, Routed
  <2>3. /\ new.fti = StoredDate(Earliest(old.fti, rep.fti), ts)
        /\ new.lti = StoredDate(Latest(old.lti, rep.lti), ts)
        BY <2>1, <2>2, CollapsedRow
  <2>4. /\ old.fti \in Nat /\ old.lti \in Nat
        /\ FtisPlain(station) => Plain(old.fti)
        /\ LtisPlain(station) => Plain(old.lti)
        BY <1>5, <2>2 DEF PlainNets
  <2>5. /\ \A d : Plain(d) => StoredDate(d, ts) = d
        /\ \A d \in Nat : StoredDate(d, ts) \in Nat
        BY ReparsedIsDate DEF Plain, StoredDate
  <2> HIDE DEF n, old
  <2>6. /\ Earliest(old.fti, rep.fti) \in {old.fti, rep.fti}
        /\ Latest(old.lti, rep.lti) \in {old.lti, rep.lti}
        BY DEF Earliest, Latest
  <2>7. new.fti \in Nat /\ new.lti \in Nat
        BY <1>3, <2>3, <2>4, <2>5, <2>6
  <2>8. ASSUME FtisPlain(station)
        PROVE  Plain(new.fti) /\ new.fti <= old.fti /\ new.fti <= rep.fti
    <3>1. new.fti = Earliest(old.fti, rep.fti)
          BY <1>3, <2>2, <2>3, <2>4, <2>5, <2>6, <2>8
    <3>2. Plain(new.fti)
          BY <1>3, <2>2, <2>4, <2>6, <2>8, <3>1
    <3> QED
        BY <1>3, <2>4, <3>1, <3>2 DEF Earliest, Null
  <2>9. ASSUME LtisPlain(station)
        PROVE  Plain(new.lti) /\ old.lti <= new.lti /\ rep.lti <= new.lti
    <3>1. new.lti = Latest(old.lti, rep.lti)
          BY <1>3, <2>2, <2>3, <2>4, <2>5, <2>6, <2>9
    <3>2. Plain(new.lti)
          BY <1>3, <2>2, <2>4, <2>6, <2>9, <3>1
    <3> QED
        BY <1>3, <2>4, <3>1, <3>2 DEF Latest
  <2>10. PlainNets(routed.members)
         BY <1>1, <2>7, <2>8, <2>9 DEF PlainNets
  <2>11. Covers(station, new, rep)
         BY <2>8, <2>9 DEF Covers
  <2>12. \A m \in DOMAIN members : Covers(members[m].rdfs, routed.members[m], members[m])
         BY <1>1, <1>2, <2>2, <2>8, <2>9 DEF Covers, old
  <2> QED
      BY <2>10, <2>11, <2>12 DEF n
<1> QED
    BY <1>4, <1>5

\* Every step of the only thread keeps it.
LEMMA IntervalStep ==
  ASSUME NEW t, Serial(t), TypeInv, StationInv(t), IntervalInv(t), [Next]_buildVars
  PROVE  IntervalInv(t)'
<1> USE DEF IntervalInv, Resting
<1> DEFINE r == run[t]
           s == run'[t]
           es == r.entries
<1>1. /\ \A n \in DOMAIN building : building[n].fti \in Int /\ building[n].lti \in Int
      /\ \A k \in DOMAIN history : history[k].fti \in Int /\ history[k].lti \in Int
      /\ \A k \in DOMAIN history :
           k[1] \in DOMAIN building /\ building[k[1]].rdfs = history[k].rdfs
      BY DEF PlainNets, TypeInv, LogInv, LogRow, StationInv
<1>2. es \in Seq(LogEntry) /\ \A i \in 1..Len(es) : es[i] \in LogEntry
      BY RunLocals
<1>3. CASE Elsewhere
      BY <1>3 DEF Elsewhere
<1>4. CASE Ends(t)
      BY <1>4 DEF Ends, Kept, NoRun
<1>5. CASE Begins(t)
      BY <1>1, <1>5, NoEntries DEF Begins, Kept, Covers
<1>6. CASE Reads(t) \/ StartsSync(t) \/ StartsAppend(t)
      BY <1>6 DEF Reads, StartsSync, StartsAppend, Kept
<1>7. ASSUME NEW rep \in Report, NEW routed, Folds(t, rep, routed)
      PROVE  IntervalInv(t)'
  <2> DEFINE entry == Entry(rep, routed)
             new == s.entries
  <2>1. /\ s.members = routed.members /\ Kept /\ ~Resting(t)
        /\ rep \in r.todo /\ NetTable(r.members) /\ NetTable(routed.members)
        /\ Routed(r.members, rep, routed)
        /\ new = Append(es, entry) /\ entry \in LogEntry
        BY <1>7, RunLocals DEF Folds, Sighted
  <2>2. rep \in Reports
        BY <2>1, RunLocals DEF Locals
  <2>3. /\ PlainNets(r.members)
        /\ \A n \in DOMAIN building : Covers(building[n].rdfs, r.members[n], building[n])
        BY <2>1
  <2>4. /\ PlainNets(routed.members)
        /\ Covers(rep.rdfs, routed.members[routed.net], rep)
        /\ \A n \in DOMAIN r.members : Covers(r.members[n].rdfs, routed.members[n], r.members[n])
        BY <2>1, <2>2, <2>3, FoldCovers
  <2>5. /\ \A n \in DOMAIN building :
             n \in DOMAIN r.members /\ r.members[n].rdfs = building[n].rdfs
        /\ DOMAIN r.members \subseteq DOMAIN routed.members
        /\ \A i \in 1..Len(es) : /\ es[i].net \in DOMAIN r.members
                                 /\ r.members[es[i].net].rdfs = es[i].row.rdfs
        BY <2>1 DEF StationInv, Ahead, EntriesAgree, Routed
  <2>6. /\ \A n \in DOMAIN r.members : r.members[n].fti \in Int /\ r.members[n].lti \in Int
        /\ \A n \in DOMAIN routed.members :
             routed.members[n].fti \in Int /\ routed.members[n].lti \in Int
        BY <2>3, <2>4 DEF PlainNets
  <2>7. ASSUME NEW n \in DOMAIN building
        PROVE  Covers(building[n].rdfs, routed.members[n], building[n])
    <3>1. /\ Covers(building[n].rdfs, routed.members[n], r.members[n])
          /\ Covers(building[n].rdfs, r.members[n], building[n])
          BY <2>3, <2>4, <2>5
    <3> QED
        BY <1>1, <2>5, <2>6, <3>1, CoversAll
  <2>8. /\ entry.net = routed.net /\ entry.row.fti = rep.fti /\ entry.row.lti = rep.lti
        /\ entry.row.rdfs = rep.rdfs
        BY DEF Entry
  <2>9. \A i \in 1..Len(es) : es[i].row.fti \in Int /\ es[i].row.lti \in Int
    <3>1. \A e \in LogEntry : e.row.fti \in Int /\ e.row.lti \in Int
          BY DEF LogEntry, LogRow
    <3> QED
        BY <1>2, <3>1
  <2> HIDE DEF entry, es
  <2>10. /\ Len(es) \in Nat /\ \A i \in 1..Len(es) : new[i] = es[i]
         /\ new[Len(es) + 1] = entry
         /\ \A i \in 1..Len(new) : i \in 1..Len(es) \/ i = Len(es) + 1
         BY <1>2, <2>1, EntriesAppended
  <2>11. \A i \in 1..Len(es) : Covers(es[i].row.rdfs, r.members[es[i].net], es[i].row)
         BY <2>1 DEF es
  <2>12. ASSUME NEW i \in 1..Len(es)
         PROVE  Covers(es[i].row.rdfs, routed.members[es[i].net], es[i].row)
    <3>1. /\ Covers(es[i].row.rdfs, routed.members[es[i].net], r.members[es[i].net])
          /\ Covers(es[i].row.rdfs, r.members[es[i].net], es[i].row)
          BY <2>4, <2>5, <2>11
    <3> QED
        BY <2>5, <2>6, <2>9, <3>1, CoversAll
  <2>13. Covers(entry.row.rdfs, routed.members[entry.net], entry.row)
         BY <2>4, <2>8 DEF Covers
  <2>14. \A i \in 1..Len(new) : Covers(new[i].row.rdfs, routed.members[new[i].net], new[i].row)
         BY <2>10, <2>12, <2>13
  <2> QED
      BY <2>1, <2>4, <2>7, <2>14 DEF Kept
<1>8. ASSUME NEW n, Syncs(t, n)
      PROVE  IntervalInv(t)'
  <2>1. /\ DOMAIN building' = DOMAIN building \cup {n}
        /\ building'[n] = r.members[n]
        /\ \A m \in DOMAIN building \ {n} : building'[m] = building[m]
        /\ n \in DOMAIN r.members /\ history' = history
        /\ s.members = r.members /\ s.entries = es /\ ~Resting(t)
        BY <1>8 DEF Syncs, Insert
  <2>2. /\ PlainNets(r.members)
        /\ \A m \in DOMAIN building : Covers(building[m].rdfs, r.members[m], building[m])
        /\ \A i \in 1..Len(es) : Covers(es[i].row.rdfs, r.members[es[i].net], es[i].row)
        BY <2>1
  <2>3. r.members[n].fti \in Int /\ r.members[n].lti \in Int
        BY <2>1, <2>2 DEF PlainNets
  <2>4. PlainNets(building')
        BY <2>1, <2>2 DEF PlainNets
  <2>5. \A k \in DOMAIN history : Covers(history[k].rdfs, building'[k[1]], history[k])
    <3> SUFFICES ASSUME NEW k \in DOMAIN history
                 PROVE  Covers(history[k].rdfs, building'[k[1]], history[k])
        OBVIOUS
    <3>1. CASE k[1] = n
      <4>1. /\ n \in DOMAIN building /\ Covers(history[k].rdfs, building[n], history[k])
            /\ Covers(history[k].rdfs, r.members[n], building[n])
            BY <1>1, <2>2, <3>1
      <4>2. Covers(history[k].rdfs, r.members[n], history[k])
            BY <1>1, <2>3, <4>1, CoversAll
      <4> QED
          BY <2>1, <3>1, <4>2
    <3>2. CASE k[1] # n
          BY <1>1, <2>1, <3>2
    <3> QED
        BY <3>1, <3>2
  <2>6. \A m \in DOMAIN building' : Covers(building'[m].rdfs, r.members[m], building'[m])
    <3>1. Covers(r.members[n].rdfs, r.members[n], r.members[n])
          BY <2>3 DEF Covers
    <3> QED
        BY <2>1, <2>2, <3>1
  <2> QED
      BY <2>1, <2>2, <2>4, <2>5, <2>6
<1>9. CASE Appends(t)
  <2> DEFINE entry == Head(es)
             rest == Tail(es)
             key == <<entry.net, r.at, entry.ff>>
  <2>1. /\ entry = es[1] /\ 1 \in 1..Len(es) /\ ~Resting(t)
        /\ \A i \in 1..Len(rest) : i + 1 \in 1..Len(es) /\ rest[i] = es[i + 1]
        /\ DOMAIN history' = DOMAIN history \cup {key}
        /\ history'[key] = entry.row
        /\ \A k \in DOMAIN history \ {key} : history'[k] = history[k]
        /\ entry.net \in DOMAIN building
        /\ \A n \in DOMAIN building :
             n \in DOMAIN r.members /\ building[n] = r.members[n]
        BY <1>9, Logging
  <2>2. /\ building' = building
        /\ \/ s = NoRun
           \/ s.entries = rest /\ s.members = r.members
        BY <1>9 DEF Appends
  <2>3. /\ PlainNets(r.members)
        /\ \A n \in DOMAIN building : Covers(building[n].rdfs, r.members[n], building[n])
        /\ \A i \in 1..Len(es) : Covers(es[i].row.rdfs, r.members[es[i].net], es[i].row)
        BY <2>1
  <2>4. key[1] = entry.net
        OBVIOUS
  <2> HIDE DEF entry, rest, key, es
  <2>5. Covers(entry.row.rdfs, building[entry.net], entry.row)
        BY <2>1, <2>3
  <2>6. \A k \in DOMAIN history' : Covers(history'[k].rdfs, building'[k[1]], history'[k])
        BY <2>1, <2>2, <2>4, <2>5
  <2>7. s # NoRun =>
          \A i \in 1..Len(s.entries) :
            Covers(s.entries[i].row.rdfs, s.members[s.entries[i].net], s.entries[i].row)
    <3>1. \A i \in 1..Len(rest) : Covers(rest[i].row.rdfs, r.members[rest[i].net], rest[i].row)
          BY <2>1, <2>3
    <3> QED
        BY <2>2, <3>1
  <2> QED
      BY <2>2, <2>3, <2>6, <2>7 DEF NoRun
<1> QED
    BY <1>3, <1>4, <1>5, <1>6, <1>7, <1>8, <1>9, OnlySteps

\* Between runs a net's FTI and LTI enclose every sighting logged for it, but at a station
\* one of whose own reports has there a day that could be a month.  Here even while a run
\* is under way, whatever dies.
THEOREM IntervalsCoverLog ==
  ASSUME NEW t, Threads = {t}, ~MayDrop
  PROVE  Spec => []IntervalCovers
<1>1. Serial(t)
      BY DEF Serial
<1> DEFINE Inv == TypeInv /\ StationInv(t) /\ IntervalInv(t)
<1>2. Init => IntervalInv(t)
      BY <1>1 DEF Serial, Init, BuildInit, IntervalInv, PlainNets, EmptyTable, NoRun, Resting
<1>3. Init => Inv
      BY <1>1, <1>2, TypeStart, StationStart
<1>4. Inv /\ [Next]_buildVars => Inv'
      BY <1>1, TypeStep, StationStep, IntervalStep
<1>5. Inv => IntervalCovers
  <2> SUFFICES ASSUME Inv, NEW k \in DOMAIN history
               PROVE  /\ FtisPlain(history[k].rdfs) => building[k[1]].fti <= history[k].fti
                      /\ LtisPlain(history[k].rdfs) => building[k[1]].lti >= history[k].lti
      BY DEF IntervalCovers, FtisPlain, LtisPlain
  <2>1. Covers(history[k].rdfs, building[k[1]], history[k])
        BY DEF IntervalInv
  <2>2. building[k[1]].lti \in Int /\ history[k].lti \in Int
        BY DEF IntervalInv, StationInv, PlainNets, TypeInv, LogInv, LogRow
  <2> QED
      BY <2>1, <2>2 DEF Covers
<1> HIDE DEF Inv
<1> QED
    BY <1>3, <1>4, <1>5, PTL DEF Spec
==============================================================================
