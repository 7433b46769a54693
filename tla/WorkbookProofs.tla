---------------------------- MODULE WorkbookProofs ----------------------------
(***************************************************************************)
(* The command line tool.  For any number of processes: the types.  For    *)
(* one process at a time, however many of its runs are killed: it          *)
(* implements the promise of NetLedger, the copy of the log is never       *)
(* ahead, and, if the key of the log tells the submitted reports apart,    *)
(* acknowledged reports stay logged, a re-run changes no net, and the two  *)
(* sheets balance.  What a batch makes of a workbook is found out by       *)
(* following the fold report by report (FoldSteps), and then showing that  *)
(* no first report breaks what the earlier ones kept (FoldedTyped,         *)
(* FoldedExact).                                                           *)
(***************************************************************************)
EXTENDS Workbook, NetBuildingProofs

------------------------------------------------------------------------------
\* One process implements the ledger.

\* What a run of process p has read and folded is what the workbook holds until the run
\* replaces it.
JobInv(p) ==
  /\ DOMAIN job[p] = {"pc", "batch", "dry", "nets", "book"}
  /\ job[p].pc \in JobSteps
  /\ InJob(p, "log") => job[p].batch \in Batches /\ job[p].nets = file.nets
  /\ job[p].pc \in {"temp", "replace"} =>
       /\ job[p].batch \in Readable
       /\ job[p].book = Folded(file.nets, file.log, job[p].batch)

OneJob == DOMAIN job = Processes /\ \A p \in Processes : JobInv(p)

\* No run is under way.
LEMMA JobStart == Init => OneJob
BY DEF Init, OneJob, JobInv, JobSteps, NoJob, InJob

\* The only step that changes the workbook folds a whole batch into it.
LEMMA JobStepImplements ==
  ASSUME NEW p, Processes = {p}, OneJob, [Next]_vars
  PROVE  OneJob' /\ [\E batch \in Batches : Ingest(batch)]_file
<1> USE DEF OneJob, JobInv, JobSteps, InJob, Proceed, Exit, NoJob
<1>1. CASE LoadMembers(p)
  <2>1. PICK batch \in Batches, dry \in BOOLEAN :
          job' = [job EXCEPT ![p] = [NoJob EXCEPT !.pc = "log", !.batch = batch,
                                                  !.dry = dry, !.nets = file.nets]]
        BY <1>1 DEF LoadMembers
  <2>2. job'[p].pc = "log" /\ job'[p].batch = batch /\ job'[p].nets = file.nets
        BY <2>1
  <2> QED
      BY <1>1, <2>1, <2>2 DEF LoadMembers
<1>2. CASE LoadLogAndFold(p)
  <2>1. CASE job[p].batch \notin Readable \/ job[p].dry
        BY <1>2, <2>1 DEF LoadLogAndFold
  <2>2. CASE ~(job[p].batch \notin Readable \/ job[p].dry)
    <3>1. job' = [job EXCEPT ![p] = [job[p] EXCEPT
                    !.pc = "temp", !.book = Folded(job[p].nets, file.log, job[p].batch)]]
          BY <1>2, <2>2 DEF LoadLogAndFold
    <3>2. job[p].nets = file.nets /\ job[p].batch \in Readable
          BY <1>2, <2>2 DEF LoadLogAndFold
    <3>3. /\ job'[p].pc = "temp" /\ job'[p].batch = job[p].batch
          /\ job'[p].book = Folded(file.nets, file.log, job[p].batch)
          BY <3>1, <3>2
    <3>4. DOMAIN job'[p] = DOMAIN job[p]
          BY <3>1
    <3> QED
        BY <1>2, <3>1, <3>2, <3>3, <3>4 DEF LoadLogAndFold
  <2> QED
      BY <2>1, <2>2
<1>3. CASE WriteTemp(p)
      BY <1>3 DEF WriteTemp
<1>4. CASE Replace(p)
      BY <1>4 DEF Replace, Ingest, Readable
<1>5. CASE OpenCsv(p)
      BY <1>5 DEF OpenCsv
<1>6. CASE WriteCsv(p)
      BY <1>6 DEF WriteCsv
<1>7. CASE CannotWrite(p)
      BY <1>7 DEF CannotWrite
<1>8. CASE Kill(p)
      BY <1>8 DEF Kill
<1>9. CASE UNCHANGED vars
      BY <1>9 DEF vars
<1> QED
    BY <1>1, <1>2, <1>3, <1>4, <1>5, <1>6, <1>7, <1>8, <1>9 DEF Next, JobStep

\* "An interrupted run can never leave a half-written net file": every behaviour of the
\* tool is one of the ledger.
THEOREM ToolImplementsLedger ==
  ASSUME NEW p, Processes = {p}
  PROVE  Spec => ImplementsLedger
<1>1. Init => file = NoFile
      BY DEF Init
<1>2. OneJob /\ [Next]_vars => OneJob' /\ [\E batch \in Batches : Ingest(batch)]_file
      BY JobStepImplements
<1> QED
    BY <1>1, <1>2, JobStart, PTL DEF Spec, ImplementsLedger, LedgerSpec

------------------------------------------------------------------------------
\* What folding a batch does.

\* Folding a batch goes through one state per report, in the order of the batch.
LEMMA FoldSteps ==
  ASSUME NEW R, NEW batch \in Seq(R), NEW start
  PROVE  \E acc : /\ acc[0] = start
                  /\ \A i \in 1..Len(batch) : acc[i] = Fold(acc[i - 1], batch[i])
                  /\ FoldLeft(Fold, start, batch) = acc[Len(batch)]
<1> DEFINE l == Len(batch)
           S == 1..l
           last(s) == Max(s)
           body(g, s) == IF s = {} THEN start ELSE Fold(g[s \ {last(s)}], batch[last(s)])
           iter == CHOOSE g : g = [s \in SUBSET S |-> body(g, s)]
           D(n) == {s \in SUBSET S : Cardinality(s) <= n}
           Folds(n) == \E g : g = [s \in D(n) |-> body(g, s)]
<1>1. l \in Nat /\ DOMAIN batch = S
      BY LenProperties
<1>2. FoldLeft(Fold, start, batch) = iter[S]
      BY <1>1 DEF FoldLeft, MapThenFoldSet
<1>3. \A s \in SUBSET S :
        IsFiniteSet(s) /\ Cardinality(s) \in Nat /\ Cardinality(s) <= Cardinality(S)
  <2>1. IsFiniteSet(S)
        BY <1>1, FS_Interval
  <2> HIDE DEF S
  <2> QED
      BY <2>1, FS_Subset, FS_CardinalityType
<1>4. \A s \in SUBSET S : s # {} => last(s) \in s
  <2> SUFFICES ASSUME NEW s \in SUBSET S, s # {} PROVE last(s) \in s
      OBVIOUS
  <2> DEFINE id == [n \in s |-> n]
  <2>1. \A n \in s : id[n] = n /\ n \in Nat
        BY <1>1
  <2> HIDE DEF id
  <2>2. PICK m \in s : \A n \in s : id[n] <= id[m]
    <3>1. IsFiniteSet(s) /\ \A n \in s : id[n] \in Int
          BY <1>3, <2>1
    <3> HIDE DEF S
    <3> QED
        BY <3>1, HighestExists
  <2>3. s \subseteq Nat /\ \A n \in s : n <= m
        BY <2>1, <2>2
  <2>4. Max(s) = m
        BY <2>3, MaxOf
  <2> QED
      BY <2>4
<1>5. Folds(0)
  <2>1. D(0) = {{}}
        BY <1>3, FS_EmptySet
  <2> DEFINE g == [s \in D(0) |-> start]
  <2>2. g = [s \in D(0) |-> body(g, s)]
        BY <2>1
  <2> QED
      BY <2>2
<1>6. ASSUME NEW n \in Nat, Folds(n) PROVE Folds(n + 1)
  <2>1. PICK g : g = [s \in D(n) |-> body(g, s)]
        BY <1>6
  <2> DEFINE h == [s \in D(n + 1) |-> body(g, s)]
  <2>2. ASSUME NEW s \in D(n + 1), s # {}
        PROVE  s \ {last(s)} \in D(n)
    <3>1. last(s) \in s
          BY <1>4, <2>2
    <3> HIDE DEF last, S
    <3>2. Cardinality(s \ {last(s)}) = Cardinality(s) - 1
          BY <1>3, <3>1, FS_RemoveElement
    <3>3. Cardinality(s) \in Nat /\ Cardinality(s) <= n + 1
          BY <1>3
    <3>4. Cardinality(s \ {last(s)}) <= n /\ s \ {last(s)} \in SUBSET S
          BY <3>2, <3>3
    <3> QED
        BY <3>4
  <2>3. \A s \in D(n) : s \in D(n + 1) /\ h[s] = g[s]
    <3> HIDE DEF body
    <3>1. \A s \in D(n) : g[s] = body(g, s)
          BY <2>1
    <3>2. \A s \in D(n) : s \in D(n + 1)
          BY <1>3
    <3> QED
        BY <3>1, <3>2
  <2>4. \A s \in D(n + 1) : body(g, s) = body(h, s)
    <3> HIDE DEF last, h, D
    <3> QED
        BY <2>2, <2>3
  <2>5. h = [s \in D(n + 1) |-> body(h, s)]
    <3> HIDE DEF body, D
    <3> QED
        BY <2>4
  <2> QED
      BY <2>5
<1>7. \A n \in Nat : Folds(n)
  <2> HIDE DEF Folds
  <2> DEFINE T == {n \in Nat : ~Folds(n)}
  <2> SUFFICES ASSUME T # {} PROVE FALSE
      OBVIOUS
  <2>1. PICK n \in T : \A m \in T : n <= m
        BY SmallestNat
  <2>2. n # 0
        BY <1>5
  <2>3. n - 1 \in Nat /\ n - 1 \notin T
        BY <2>1, <2>2
  <2>4. Folds(n - 1 + 1)
        BY <1>6, <2>3
  <2> QED
      BY <2>4
<1>8. D(Cardinality(S)) = SUBSET S /\ Cardinality(S) \in Nat
      BY <1>3
<1>9. \E g : g = [s \in SUBSET S |-> body(g, s)]
  <2>1. Folds(Cardinality(S))
    <3> HIDE DEF Folds, D, S
    <3> QED
        BY <1>7, <1>8
  <2> HIDE DEF body, S
  <2> QED
      BY <1>8, <2>1
<1>10. iter = [s \in SUBSET S |-> body(iter, s)]
  <2> HIDE DEF body, S
  <2> QED
      BY <1>9
<1> HIDE DEF iter
<1>11. \A s \in SUBSET S : iter[s] = body(iter, s)
  <2> HIDE DEF body, S
  <2> QED
      BY <1>10
<1> DEFINE acc == [i \in 0..l |-> iter[1..i]]
<1>12. acc[0] = start
  <2>1. 1..0 = {} /\ 0 \in 0..l
        BY <1>1
  <2> QED
      BY <1>11, <2>1
<1>13. ASSUME NEW i \in S PROVE acc[i] = Fold(acc[i - 1], batch[i])
  <2>1. /\ i \in 0..l /\ i - 1 \in 0..l /\ i \in Nat
        /\ 1..i \subseteq S /\ 1..i # {} /\ (1..i) \ {i} = 1..(i - 1)
        BY <1>1
  <2>2. Max(1..i) = i
    <3>1. i \in 1..i /\ 1..i \subseteq Nat /\ \A x \in 1..i : x <= i
          BY <2>1
    <3> QED
        BY <3>1, MaxOf
  <2>3. iter[1..i] = Fold(iter[1..(i - 1)], batch[i])
    <3> HIDE DEF S
    <3> QED
        BY <1>11, <2>1, <2>2
  <2> QED
      BY <2>1, <2>3
<1>14. acc[l] = iter[S]
       BY <1>1
<1> HIDE DEF acc, S
<1> QED
    BY <1>2, <1>12, <1>13, <1>14 DEF S

\* Rows of Emitter_Log.
SheetEntry ==
  [net : {n \in Nat : n >= SystemNetStart}, action : {"new", "collapsed"}, rdfs : Int,
   sig : Nat \X Nat \X Nat \X Nat \X Int, fti : Nat, lti : Nat, nti : Nat]

LogTyped(log) == IsFiniteSet(DOMAIN log) /\ \A k \in DOMAIN log : log[k] \in SheetEntry

BookTyped(book) == Sighted(book.nets) /\ LogTyped(book.log)

\* What a batch is folded into.
WorkTyped(work) ==
  /\ DOMAIN work = {"nets", "spans", "seen", "logged", "log"}
  /\ BookTyped(work) /\ DOMAIN work.spans = DOMAIN work.nets
  /\ work.logged \in BOOLEAN

Start(nets, log) ==
  [nets |-> nets, spans |-> [n \in DOMAIN nets |-> NoSpan],
   seen |-> {log[k].sig : k \in DOMAIN log},
   logged |-> log # EmptyTable, log |-> log]

\* The first of the newest candidates is one of them: the tool routes as the service may.
LEMMA RouteIsOne ==
  ASSUME NEW nets, Sighted(nets), NEW spans, NEW rep
  PROVE  Route(nets, spans, rep) \in AssignNet(nets, spans, rep, FALSE)
<1> DEFINE cand == Candidates(nets, spans, rep)
           newest == Newest(nets, cand)
<1>1. CASE cand = {}
      BY <1>1 DEF Route, AssignNet
<1>2. CASE cand # {}
  <2>1. cand \subseteq DOMAIN nets /\ IsFiniteSet(cand)
        BY FS_Subset DEF Candidates, Sighted, NetTable
  <2>2. \A n \in cand : nets[n].lti \in Int /\ n \in Nat
        BY <2>1 DEF Sighted, NetTable, NetRow
  <2> DEFINE lti == [n \in cand |-> nets[n].lti]
  <2>3. \A n \in cand : lti[n] \in Int /\ lti[n] = nets[n].lti
        BY <2>2
  <2> HIDE DEF lti, cand
  <2>4. \E m \in cand : \A n \in cand : lti[n] <= lti[m]
        BY <1>2, <2>1, <2>3, HighestExists
  <2>5. newest # {} /\ newest \in SUBSET Nat
        BY <2>2, <2>3, <2>4 DEF Newest
  <2>6. \E m \in newest : \A n \in newest : m <= n
    <3> HIDE DEF newest
    <3> QED
        BY <2>5, SmallestNat
  <2>7. Min(newest) \in newest
        BY <2>6 DEF Min
  <2> QED
      BY <1>2, <2>7 DEF Route, AssignNet, cand
<1> QED
    BY <1>1, <1>2

\* What routing a report does to the nets.
LEMMA Routes ==
  ASSUME NEW work, WorkTyped(work), NEW rep \in Report
  PROVE  LET nets   == work.nets
             routed == Route(nets, work.spans, rep)
             n      == routed.net
         IN  /\ Sighted(routed.members) /\ DOMAIN routed.spans = DOMAIN routed.members
             /\ n \in DOMAIN routed.members /\ n \in Nat /\ n >= SystemNetStart
             /\ DOMAIN routed.members = DOMAIN nets \cup {n}
             /\ \A m \in DOMAIN nets \ {n} : routed.members[m] = nets[m]
             /\ routed.members[n].nti = (IF n \in DOMAIN nets THEN nets[n].nti ELSE 0) + rep.nti
             /\ routed.action \in {"new", "collapsed"}
<1> DEFINE routed == Route(work.nets, work.spans, rep)
<1>1. Sighted(work.nets) /\ DOMAIN work.spans = DOMAIN work.nets
      BY DEF WorkTyped, BookTyped
<1>2. \E timestamps \in BOOLEAN : routed \in AssignNet(work.nets, work.spans, rep, timestamps)
      BY <1>1, RouteIsOne
<1> HIDE DEF routed
<1>3. /\ Sighted(routed.members) /\ Routed(work.nets, rep, routed)
      /\ routed.members[routed.net].nti =
           (IF routed.net \in DOMAIN work.nets THEN work.nets[routed.net].nti ELSE 0) + rep.nti
      BY <1>1, <1>2, RoutingKeepsCounts
<1>4. routed.net \in DOMAIN routed.members
      BY <1>3 DEF Routed
<1>5. routed.net \in Nat /\ routed.net >= SystemNetStart
      BY <1>3, <1>4 DEF Sighted, NetTable
<1> QED
    BY <1>3, <1>4, <1>5 DEF Routed, routed

\* A report is passed over, or routed and logged.
LEMMA FoldOne ==
  ASSUME NEW work, WorkTyped(work), NEW rep \in Report
  PROVE  LET new    == Fold(work, rep)
             routed == Route(work.nets, work.spans, rep)
             entry  == LogEntry(rep, routed)
         IN  /\ WorkTyped(new) /\ new.logged = work.logged
             /\ \/ new = work /\ work.logged /\ Signature(rep) \in work.seen
                \/ /\ ~(work.logged /\ Signature(rep) \in work.seen)
                   /\ new.seen = work.seen \cup {Signature(rep)}
                   /\ new.nets = routed.members
                   /\ new.log = Insert(work.log, LogKey(rep), entry)
<1> DEFINE new == Fold(work, rep)
           routed == Route(work.nets, work.spans, rep)
           entry == LogEntry(rep, routed)
<1>1. CASE work.logged /\ Signature(rep) \in work.seen
      BY <1>1 DEF Fold
<1>2. CASE ~(work.logged /\ Signature(rep) \in work.seen)
  <2>1. new = [work EXCEPT !.seen = @ \cup {Signature(rep)}, !.nets = routed.members,
                           !.spans = routed.spans,
                           !.log = Insert(@, LogKey(rep), entry)]
        BY <1>2 DEF Fold
  <2> HIDE DEF routed, new
  <2>2. /\ DOMAIN new = DOMAIN work /\ new.logged = work.logged
        /\ new.seen = work.seen \cup {Signature(rep)}
        /\ new.nets = routed.members /\ new.spans = routed.spans
        /\ new.log = Insert(work.log, LogKey(rep), entry)
        BY <2>1 DEF WorkTyped
  <2>3. /\ Sighted(routed.members) /\ DOMAIN routed.spans = DOMAIN routed.members
        /\ routed.net \in Nat /\ routed.net >= SystemNetStart
        /\ routed.action \in {"new", "collapsed"}
        BY Routes DEF routed
  <2>4. entry \in SheetEntry
    <3>1. Signature(rep) \in Nat \X Nat \X Nat \X Nat \X Int
          BY DEF Signature, Report
    <3>2. rep.rdfs \in Int /\ rep.fti \in Nat /\ rep.lti \in Nat /\ rep.nti \in Nat
          BY DEF Report
    <3> QED
        BY <2>3, <3>1, <3>2 DEF LogEntry, SheetEntry
  <2> HIDE DEF entry
  <2>5. LogTyped(new.log)
    <3>1. LogTyped(work.log)
          BY DEF WorkTyped, BookTyped
    <3>2. IsFiniteSet(DOMAIN work.log \cup {LogKey(rep)})
          BY <3>1, FS_AddElement DEF LogTyped
    <3> QED
        BY <2>2, <2>4, <3>1, <3>2 DEF LogTyped, Insert
  <2>6. WorkTyped(new)
        BY <2>2, <2>3, <2>5 DEF WorkTyped, BookTyped
  <2> QED
      BY <1>2, <2>2, <2>6 DEF new, routed, entry
<1> QED
    BY <1>1, <1>2

\* Folding a batch leaves a workbook, whose log has every key it had.
LEMMA FoldedTyped ==
  ASSUME NEW nets, Sighted(nets), NEW log, LogTyped(log), NEW batch \in Seq(Report)
  PROVE  LET new == Folded(nets, log, batch)
         IN  BookTyped(new) /\ DOMAIN log \subseteq DOMAIN new.log
<1> DEFINE start == Start(nets, log)
           l == Len(batch)
<1>1. PICK acc : /\ acc[0] = start
                 /\ \A i \in 1..l : acc[i] = Fold(acc[i - 1], batch[i])
                 /\ FoldLeft(Fold, start, batch) = acc[l]
      BY FoldSteps
<1>2. l \in Nat /\ \A i \in 1..l : batch[i] \in Report
      BY LenProperties, ElementOfSeq
<1> DEFINE Good(i) == WorkTyped(acc[i]) /\ DOMAIN log \subseteq DOMAIN acc[i].log
           Bads == {i \in 0..l : ~Good(i)}
<1>3. Good(0)
      BY <1>1 DEF Start, WorkTyped, BookTyped
<1>4. ASSUME NEW i \in 1..l, Good(i - 1) PROVE Good(i)
  <2>1. acc[i] = Fold(acc[i - 1], batch[i]) /\ batch[i] \in Report
        BY <1>1, <1>2
  <2> DEFINE work == acc[i - 1]
             rep == batch[i]
             entry == LogEntry(rep, Route(work.nets, work.spans, rep))
  <2>2. /\ WorkTyped(Fold(work, rep))
        /\ \/ Fold(work, rep) = work
           \/ Fold(work, rep).log = Insert(work.log, LogKey(rep), entry)
        BY <1>4, <2>1, FoldOne
  <2> HIDE DEF entry
  <2>3. DOMAIN work.log \subseteq DOMAIN Fold(work, rep).log
        BY <2>2 DEF Insert
  <2> QED
      BY <1>4, <2>1, <2>2, <2>3
<1>5. Good(l)
  <2> SUFFICES ASSUME Bads # {} PROVE FALSE
      BY <1>2
  <2>1. PICK i \in Bads : \A j \in Bads : i <= j
    <3>1. Bads \in SUBSET Nat
          BY <1>2
    <3> HIDE DEF Bads
    <3> QED
        BY <3>1, SmallestNat
  <2>2. i # 0
        BY <1>3
  <2>3. i \in 1..l /\ i - 1 \in 0..l /\ ~(i <= i - 1)
        BY <1>2, <2>2
  <2>4. Good(i - 1)
        BY <2>1, <2>3
  <2> QED
      BY <1>4, <2>3, <2>4
<1>6. Folded(nets, log, batch) = [nets |-> acc[l].nets, log |-> acc[l].log]
      BY <1>1 DEF Folded, Start
<1> QED
    BY <1>5, <1>6 DEF WorkTyped, BookTyped

\* A log that holds nothing but reports of this set.
LogOf(log, reps) ==
  \A k \in DOMAIN log : \E r \in reps : k = LogKey(r) /\ log[k].sig = Signature(r)

Signatures(log) == {log[k].sig : k \in DOMAIN log}

\* The sightings a log has of net n.
SheetSum(log, n) == SumOfLog(log, {k \in DOMAIN log : log[k].net = n})

\* LoggedSightings says the same of a workbook.
LEMMA LoggedSightingsIs == \A book, n : LoggedSightings(book, n) = SheetSum(book.log, n)
BY DEF LoggedSightings, SheetSum, SumOfLog

\* A new row adds its count to what the log has of its net, and nothing to other nets.
LEMMA SheetInsert ==
  ASSUME NEW log, LogTyped(log), NEW key, key \notin DOMAIN log, NEW entry \in SheetEntry, NEW n
  PROVE  SheetSum(Insert(log, key, entry), n) =
           SheetSum(log, n) + (IF entry.net = n THEN entry.nti ELSE 0)
<1> DEFINE new == Insert(log, key, entry)
           S == {k \in DOMAIN log : log[k].net = n}
           R == {k \in DOMAIN new : new[k].net = n}
<1>1. /\ DOMAIN new = DOMAIN log \cup {key}
      /\ new[key] = entry /\ \A k \in DOMAIN log : new[k] = log[k]
      BY DEF Insert
<1>2. \A e \in SheetEntry : e.nti \in Nat
      BY DEF SheetEntry
<1>3. IsFiniteSet(S) /\ key \notin S
      BY FS_Subset DEF LogTyped
<1>4. \A k \in S : log[k].nti \in Nat /\ new[k].nti = log[k].nti
      BY <1>1, <1>2 DEF LogTyped
<1>5. R = IF entry.net = n THEN S \cup {key} ELSE S
      BY <1>1
<1>6. \A k \in S \cup {key} : new[k].nti \in Nat
      BY <1>1, <1>2, <1>4
<1> HIDE DEF new, S, R
<1>7. SumOfLog(new, S) = SumOfLog(log, S) /\ SumOfLog(log, S) \in Nat
      BY <1>3, <1>4, SumOfSame, SumIsNat
<1>8. SumOfLog(new, S \cup {key}) = SumOfLog(new, S) + new[key].nti
      BY <1>3, <1>6, SumOfMore
<1>9. entry.nti \in Nat
      BY <1>2
<1>10. SumOfLog(new, R) = SumOfLog(log, S) + (IF entry.net = n THEN entry.nti ELSE 0)
  <2>1. CASE entry.net = n
        BY <1>1, <1>5, <1>7, <1>8, <2>1
  <2>2. CASE entry.net # n
        BY <1>5, <1>7, <2>2
  <2> QED
      BY <2>1, <2>2
<1> QED
    BY <1>10 DEF SheetSum, new, S, R

\* The sheets balance.
Even(nets, log) ==
  /\ \A n \in DOMAIN nets : nets[n].nti = SheetSum(log, n)
  /\ \A k \in DOMAIN log : log[k].net \in DOMAIN nets

\* A balanced workbook is one whose sheets balance.
LEMMA BalancedIs == \A book : Balanced(book) <=> Even(book.nets, book.log)
BY LoggedSightingsIs DEF Balanced, Even

\* A report of a new key keeps the balance.
LEMMA FoldKeepsBalance ==
  ASSUME NEW work, WorkTyped(work), NEW rep \in Report, Even(work.nets, work.log),
         LogKey(rep) \notin DOMAIN work.log
  PROVE  LET routed == Route(work.nets, work.spans, rep)
         IN  Even(routed.members, Insert(work.log, LogKey(rep), LogEntry(rep, routed)))
<1> DEFINE nets == work.nets
           routed == Route(nets, work.spans, rep)
           log == work.log
           entry == LogEntry(rep, routed)
           key == LogKey(rep)
           new == Insert(log, key, entry)
           old(n) == IF n \in DOMAIN nets THEN nets[n].nti ELSE 0
<1>1. /\ Sighted(nets) /\ Sighted(routed.members) /\ LogTyped(log)
      /\ routed.net \in Nat /\ routed.net >= SystemNetStart
      /\ routed.action \in {"new", "collapsed"}
      /\ DOMAIN routed.members = DOMAIN nets \cup {routed.net}
      /\ \A m \in DOMAIN nets \ {routed.net} : routed.members[m] = nets[m]
      /\ routed.members[routed.net].nti = old(routed.net) + rep.nti
      BY Routes DEF WorkTyped, BookTyped
<1> HIDE DEF routed
<1>2. entry \in SheetEntry /\ entry.net = routed.net /\ entry.nti = rep.nti
  <2>1. Signature(rep) \in Nat \X Nat \X Nat \X Nat \X Int
        BY DEF Signature, Report
  <2>2. rep.rdfs \in Int /\ rep.fti \in Nat /\ rep.lti \in Nat /\ rep.nti \in Nat
        BY DEF Report
  <2> QED
      BY <1>1, <2>1, <2>2 DEF LogEntry, SheetEntry
<1>3. rep.nti \in Nat /\ \A n \in DOMAIN nets : nets[n].nti \in Nat
      BY <1>1 DEF Report, Sighted
<1>4. \A n \in DOMAIN nets : nets[n].nti = SheetSum(log, n)
      BY DEF Even
<1>5. \A k \in DOMAIN log : log[k].net \in DOMAIN nets
      BY DEF Even
<1>6. \A n : n \notin DOMAIN nets => SheetSum(log, n) = 0
  <2> TAKE n
  <2> HAVE n \notin DOMAIN nets
  <2>1. {k \in DOMAIN log : log[k].net = n} = {}
        BY <1>5
  <2> QED
      BY <2>1, SumOfNothing DEF SheetSum
<1> HIDE DEF entry, key
<1>7. \A n : SheetSum(new, n) = SheetSum(log, n) + (IF entry.net = n THEN entry.nti ELSE 0)
      BY <1>1, <1>2, SheetInsert DEF key
<1> HIDE DEF new
<1>8. ASSUME NEW n \in DOMAIN routed.members
      PROVE  routed.members[n].nti = SheetSum(new, n)
  <2>1. SheetSum(log, n) = old(n) /\ old(n) \in Nat
        BY <1>3, <1>4, <1>6
  <2>2. CASE n = routed.net
        BY <1>1, <1>2, <1>7, <2>1, <2>2
  <2>3. CASE n # routed.net
    <3>1. n \in DOMAIN nets /\ routed.members[n].nti = old(n)
          BY <1>1, <2>3
    <3>2. SheetSum(new, n) = SheetSum(log, n) + 0
          BY <1>2, <1>7, <2>3
    <3> QED
        BY <2>1, <3>1, <3>2
  <2> QED
      BY <2>2, <2>3
<1>9. \A k \in DOMAIN new : new[k].net \in DOMAIN routed.members
      BY <1>1, <1>2, <1>5 DEF new, Insert
<1> QED
    BY <1>8, <1>9 DEF Even, new, routed, entry, key

\* Folding a batch of such reports: all of it is in the log then, together with what was
\* there before; reports that were there are passed over; and if none is in the batch
\* twice, sheets that balance do so still.
LEMMA FoldedExact ==
  ASSUME NEW reps, reps \subseteq Report, KeysTell(reps),
         NEW nets, Sighted(nets), NEW log, LogTyped(log), LogOf(log, reps),
         NEW batch \in Seq(reps)
  PROVE  LET new == Folded(nets, log, batch)
         IN  /\ LogOf(new.log, reps)
             /\ Signatures(log) \subseteq Signatures(new.log)
             /\ \A i \in 1..Len(batch) : Signature(batch[i]) \in Signatures(new.log)
             /\ (/\ log # EmptyTable
                 /\ \A i \in 1..Len(batch) : Signature(batch[i]) \in Signatures(log)
                 => new.nets = nets)
             /\ (/\ \A i, j \in 1..Len(batch) :
                      Signature(batch[i]) = Signature(batch[j]) => i = j
                 /\ Even(nets, log)
                 => Even(new.nets, new.log))
<1> DEFINE start == Start(nets, log)
           l == Len(batch)
           known == /\ log # EmptyTable
                    /\ \A i \in 1..l : Signature(batch[i]) \in Signatures(log)
           even == /\ \A i, j \in 1..l : Signature(batch[i]) = Signature(batch[j]) => i = j
                   /\ Even(nets, log)
<1>1. PICK acc : /\ acc[0] = start
                 /\ \A i \in 1..l : acc[i] = Fold(acc[i - 1], batch[i])
                 /\ FoldLeft(Fold, start, batch) = acc[l]
      BY FoldSteps
<1>2. l \in Nat /\ \A i \in 1..l : batch[i] \in reps
      BY LenProperties, ElementOfSeq
<1> DEFINE Good(i) ==
             /\ WorkTyped(acc[i])
             /\ acc[i].logged = (log # EmptyTable)
             /\ LogOf(acc[i].log, reps)
             /\ acc[i].seen = Signatures(acc[i].log)
             /\ Signatures(log) \subseteq acc[i].seen
             /\ \A j \in 1..i : Signature(batch[j]) \in acc[i].seen
             /\ \A sig \in acc[i].seen :
                  sig \in Signatures(log) \/ \E j \in 1..i : sig = Signature(batch[j])
             /\ known => acc[i] = start
             /\ even => Even(acc[i].nets, acc[i].log)
           Bads == {i \in 0..l : ~Good(i)}
<1>3. Good(0)
  <2>1. WorkTyped(start)
        BY DEF Start, WorkTyped, BookTyped
  <2>2. /\ start.log = log /\ start.nets = nets /\ start.logged = (log # EmptyTable)
        /\ start.seen = Signatures(log)
        BY DEF Start, Signatures
  <2> HIDE DEF start, known
  <2> QED
      BY <1>1, <2>1, <2>2
<1>4. ASSUME NEW i \in 1..l, Good(i - 1) PROVE Good(i)
  <2> DEFINE work == acc[i - 1]
             rep == batch[i]
             routed == Route(work.nets, work.spans, rep)
             entry == LogEntry(rep, routed)
  <2> HIDE DEF known, even, start
  <2>1. acc[i] = Fold(work, rep) /\ rep \in reps /\ rep \in Report
        BY <1>1, <1>2
  <2>2. /\ WorkTyped(acc[i]) /\ acc[i].logged = work.logged
        /\ \/ acc[i] = work /\ work.logged /\ Signature(rep) \in work.seen
           \/ /\ ~(work.logged /\ Signature(rep) \in work.seen)
              /\ acc[i].seen = work.seen \cup {Signature(rep)}
              /\ acc[i].nets = routed.members
              /\ acc[i].log = Insert(work.log, LogKey(rep), entry)
        BY <1>4, <2>1, FoldOne
  <2>3. i \in Nat /\ 1..i = 1..(i - 1) \cup {i}
        BY <1>2
  <2>4. CASE acc[i] = work /\ work.logged /\ Signature(rep) \in work.seen
    <3> HIDE DEF work
    <3>1. \A j \in 1..i : Signature(batch[j]) \in work.seen
          BY <1>4, <2>3, <2>4 DEF work
    <3>2. \A sig \in work.seen :
            sig \in Signatures(log) \/ \E j \in 1..i : sig = Signature(batch[j])
          BY <1>4, <2>3 DEF work
    <3> QED
        BY <1>4, <2>2, <2>4, <3>1, <3>2 DEF work
  <2>5. CASE /\ ~(work.logged /\ Signature(rep) \in work.seen)
             /\ acc[i].seen = work.seen \cup {Signature(rep)}
             /\ acc[i].nets = routed.members
             /\ acc[i].log = Insert(work.log, LogKey(rep), entry)
    <3>1. entry.sig = Signature(rep)
          BY DEF LogEntry
    <3>2. \A k \in DOMAIN work.log : k = LogKey(rep) => work.log[k].sig = Signature(rep)
          BY <1>4, <2>1 DEF LogOf, KeysTell
    <3>3. LogOf(acc[i].log, reps)
      <4> HIDE DEF entry
      <4> QED
          BY <1>4, <2>1, <2>5, <3>1 DEF LogOf, Insert
    <3>4. Signatures(acc[i].log) = work.seen \cup {Signature(rep)}
      <4> HIDE DEF entry
      <4> QED
          BY <1>4, <2>5, <3>1, <3>2 DEF Signatures, Insert
    <3>5. \A j \in 1..i : Signature(batch[j]) \in acc[i].seen
          BY <1>4, <2>3, <2>5
    <3>6. \A sig \in acc[i].seen :
            sig \in Signatures(log) \/ \E j \in 1..i : sig = Signature(batch[j])
          BY <1>4, <2>3, <2>5
    <3>7. ~known
      <4> SUFFICES ASSUME known PROVE FALSE
          OBVIOUS
      <4>1. Signature(rep) \in Signatures(log) /\ work.logged
            BY <1>4 DEF known
      <4> QED
          BY <1>4, <2>5, <4>1
    <3>8. even => Even(acc[i].nets, acc[i].log)
      <4> SUFFICES ASSUME even PROVE Even(acc[i].nets, acc[i].log)
          OBVIOUS
      <4>1. Signature(rep) \notin work.seen
        <5>1. CASE work.logged
              BY <2>5, <5>1
        <5>2. CASE ~work.logged
          <6>1. Signatures(log) = {}
                BY <1>4, <5>2 DEF Signatures, EmptyTable
          <6>2. \A j \in 1..(i - 1) : Signature(batch[j]) # Signature(rep)
            <7>1. \A j \in 1..(i - 1) : j \in 1..l /\ j # i
                  BY <1>2
            <7> QED
                BY <7>1 DEF even
          <6> QED
              BY <1>4, <6>1, <6>2
        <5> QED
            BY <5>1, <5>2
      <4>2. LogKey(rep) \notin DOMAIN work.log
            BY <1>4, <3>2, <4>1 DEF Signatures
      <4>3. Even(work.nets, work.log) /\ WorkTyped(work)
            BY <1>4
      <4>4. Even(routed.members, Insert(work.log, LogKey(rep), entry))
            BY <2>1, <4>2, <4>3, FoldKeepsBalance
      <4> QED
          BY <2>5, <4>4
    <3>9. Signatures(log) \subseteq acc[i].seen /\ acc[i].logged = (log # EmptyTable)
          BY <1>4, <2>2, <2>5
    <3> HIDE DEF work, entry, routed
    <3> QED
        BY <2>2, <2>5, <3>3, <3>4, <3>5, <3>6, <3>7, <3>8, <3>9
  <2> QED
      BY <2>2, <2>4, <2>5
<1>5. Good(l)
  <2> SUFFICES ASSUME Bads # {} PROVE FALSE
    <3> HIDE DEF Good
    <3> QED
        BY <1>2
  <2>1. PICK i \in Bads : \A j \in Bads : i <= j
    <3>1. Bads \in SUBSET Nat
          BY <1>2
    <3> HIDE DEF Bads
    <3> QED
        BY <3>1, SmallestNat
  <2> HIDE DEF Good
  <2>2. i # 0
        BY <1>3
  <2>3. i \in 1..l /\ i - 1 \in 0..l /\ ~(i <= i - 1)
        BY <1>2, <2>2
  <2>4. Good(i - 1)
        BY <2>1, <2>3
  <2> QED
      BY <1>4, <2>1, <2>3, <2>4
<1>6. Folded(nets, log, batch) = [nets |-> acc[l].nets, log |-> acc[l].log]
      BY <1>1 DEF Folded, Start
<1>7. known => acc[l].nets = nets
      BY <1>5 DEF Start
<1> HIDE DEF start
<1> QED
    BY <1>2, <1>5, <1>6, <1>7

------------------------------------------------------------------------------
\* Types, for any number of processes.

\* A run has loaded nets, then folded a batch that is not refused into a workbook.
JobTyped(j) ==
  /\ DOMAIN j = {"pc", "batch", "dry", "nets", "book"}
  /\ j.pc \in JobSteps
  /\ j.pc = "log" => j.batch \in Batches /\ Sighted(j.nets)
  /\ j.pc \in {"temp", "replace", "csv", "copy"} =>
       j.batch \in Readable /\ BookTyped(j.book)

JobsTyped == DOMAIN job = Processes /\ \A p \in Processes : JobTyped(job[p])

Replacing == {p \in Processes : InJob(p, "replace")}

TempsCounted ==
  /\ temps \in Nat /\ faults \in Nat
  /\ Cardinality(Replacing) <= temps /\ temps <= Cardinality(Replacing) + faults

CopyTyped == DOMAIN csv = {"whole", "log"} /\ csv.whole \in BOOLEAN /\ LogTyped(csv.log)

FilesTyped == BookTyped(file) /\ CopyTyped /\ acked \subseteq Submitted

\* A batch that is not refused is a sequence of what was submitted.
LEMMA BatchOfSubmitted ==
  ASSUME NEW batch \in Readable
  PROVE  /\ batch \in Seq(Report) /\ batch \in Seq(Submitted) /\ batch # <<>>
         /\ ToSet(batch) \subseteq Submitted /\ Submitted \subseteq Report
         /\ ToSet(batch) = {batch[i] : i \in 1..Len(batch)}
<1>1. \A b \in Readable : b \in Seq(Report) /\ b # <<>>
      BY BatchesAreReports
<1>2. \A b \in Readable : ToSet(b) \subseteq Report
      BY <1>1, ElementOfSeq, LenProperties DEF ToSet
<1>3. Submitted \subseteq Report /\ ToSet(batch) \subseteq Submitted
      BY <1>2 DEF Submitted
<1>4. DOMAIN batch = 1..Len(batch) /\ Len(batch) \in Nat
      BY <1>1, LenProperties
<1>5. ToSet(batch) = {batch[i] : i \in 1..Len(batch)}
      BY <1>4 DEF ToSet
<1>6. batch \in Seq(Submitted)
  <2>1. \A i \in 1..Len(batch) : batch[i] \in Submitted
        BY <1>3, <1>5
  <2>2. batch = [i \in 1..Len(batch) |-> batch[i]]
        BY <1>1, SeqDef
  <2> QED
      BY <1>4, <2>1, <2>2, SeqDef
<1> QED
    BY <1>1, <1>3, <1>5, <1>6

\* The workbook that does not exist has two empty sheets.
LEMMA NoFileTyped == BookTyped(NoFile)
BY NoNets, FS_EmptySet DEF BookTyped, NoFile, LogTyped, EmptyTable

\* No workbook, no run.
LEMMA TypesStart ==
  ASSUME IsFiniteSet(Processes)
  PROVE  Init => FilesTyped /\ JobsTyped /\ TempsCounted
<1> SUFFICES ASSUME Init PROVE FilesTyped /\ JobsTyped /\ TempsCounted
    OBVIOUS
<1>1. FilesTyped
      BY NoFileTyped DEF Init, FilesTyped, CopyTyped, BookTyped, NoFile
<1>2. JobsTyped
      BY DEF Init, JobsTyped, JobTyped, NoJob, JobSteps
<1>3. Replacing = {}
      BY DEF Init, Replacing, InJob, NoJob
<1> QED
    BY <1>1, <1>2, <1>3, FS_EmptySet DEF Init, TempsCounted

\* A step of one process leaves the locals of the others alone.
LEMMA ProceedKeepsTypes ==
  ASSUME JobsTyped, NEW p \in Processes, NEW j, Proceed(p, j), JobTyped(j)
  PROVE  JobsTyped' /\ job'[p] = j
BY DEF JobsTyped, Proceed

\* A run that comes to the replacement of the workbook, or leaves it, is one of them.
LEMMA ReplacingChanges ==
  ASSUME IsFiniteSet(Processes), JobsTyped, NEW p \in Processes, NEW j, Proceed(p, j)
  PROVE  /\ Cardinality(Replacing) \in Nat /\ Cardinality(Replacing') \in Nat
         /\ (j.pc = "replace" <=> InJob(p, "replace")) => Replacing' = Replacing
         /\ j.pc = "replace" /\ ~InJob(p, "replace") =>
              Cardinality(Replacing') = Cardinality(Replacing) + 1
         /\ j.pc # "replace" /\ InJob(p, "replace") =>
              Cardinality(Replacing') = Cardinality(Replacing) - 1
<1>1. DOMAIN job' = Processes /\ job'[p] = j /\ \A q \in Processes \ {p} : job'[q] = job[q]
      BY DEF JobsTyped, Proceed
<1>2. Replacing' = IF j.pc = "replace" THEN Replacing \cup {p} ELSE Replacing \ {p}
      BY <1>1 DEF Replacing, InJob
<1>3. p \in Replacing <=> InJob(p, "replace")
      BY DEF Replacing
<1>4. IsFiniteSet(Replacing) /\ IsFiniteSet(Replacing')
      BY FS_Subset DEF Replacing
<1>5. Cardinality(Replacing) \in Nat /\ Cardinality(Replacing') \in Nat
      BY <1>4, FS_CardinalityType
<1> HIDE DEF Replacing
<1>6. p \notin Replacing => Cardinality(Replacing \cup {p}) = Cardinality(Replacing) + 1
      BY <1>4, FS_AddElement
<1>7. p \in Replacing => Cardinality(Replacing \ {p}) = Cardinality(Replacing) - 1
      BY <1>4, FS_RemoveElement
<1> QED
    BY <1>2, <1>3, <1>5, <1>6, <1>7

\* Every step keeps the types.
LEMMA TypesStep ==
  ASSUME IsFiniteSet(Processes)
  PROVE  FilesTyped /\ JobsTyped /\ TempsCounted /\ [Next]_vars =>
           (FilesTyped /\ JobsTyped /\ TempsCounted)'
<1> SUFFICES ASSUME FilesTyped, JobsTyped, TempsCounted, [Next]_vars
             PROVE  (FilesTyped /\ JobsTyped /\ TempsCounted)'
    OBVIOUS
<1>1. CASE UNCHANGED vars
      BY <1>1 DEF vars, FilesTyped, CopyTyped, BookTyped, JobsTyped, TempsCounted,
                  Replacing, InJob
<1>2. ASSUME NEW p \in Processes, LoadMembers(p) \/ JobStep(p) \/ CannotWrite(p) \/ Kill(p)
      PROVE  (FilesTyped /\ JobsTyped /\ TempsCounted)'
  <2>1. JobTyped(job[p]) /\ JobTyped(NoJob)
        BY DEF JobsTyped, JobTyped, NoJob, JobSteps
  <2>2. /\ temps \in Nat /\ faults \in Nat /\ Cardinality(Replacing) \in Nat
        /\ Cardinality(Replacing) <= temps /\ temps <= Cardinality(Replacing) + faults
    <3>1. Cardinality(Replacing) \in Nat
      <4>1. IsFiniteSet(Replacing)
            BY FS_Subset DEF Replacing
      <4> QED
          BY <4>1, FS_CardinalityType
    <3> QED
        BY <3>1 DEF TempsCounted
  <2>3. NoJob.pc = "idle"
        BY DEF NoJob
  <2>4. CASE LoadMembers(p)
    <3>1. PICK batch \in Batches, dry \in BOOLEAN :
            Proceed(p, [NoJob EXCEPT !.pc = "log", !.batch = batch, !.dry = dry,
                                     !.nets = file.nets])
          BY <2>4 DEF LoadMembers
    <3> DEFINE j == [NoJob EXCEPT !.pc = "log", !.batch = batch, !.dry = dry,
                                  !.nets = file.nets]
    <3>2. JobTyped(j) /\ j.pc = "log"
          BY DEF JobTyped, NoJob, JobSteps, FilesTyped, BookTyped
    <3> HIDE DEF j
    <3>3. JobsTyped'
          BY <3>1, <3>2, ProceedKeepsTypes DEF j
    <3>4. Replacing' = Replacing
          BY <2>4, <3>1, <3>2, ReplacingChanges DEF j, LoadMembers, InJob
    <3> QED
        BY <2>4, <3>3, <3>4 DEF LoadMembers, FilesTyped, CopyTyped, BookTyped, TempsCounted
  <2>5. CASE LoadLogAndFold(p)
    <3> DEFINE book == Folded(job[p].nets, file.log, job[p].batch)
               j == [job[p] EXCEPT !.pc = "temp", !.book = book]
    <3>1. UNCHANGED <<file, csv, temps, acked, faults>> /\ InJob(p, "log")
          BY <2>5 DEF LoadLogAndFold
    <3>2. CASE job[p].batch \notin Readable \/ job[p].dry
      <4>1. Proceed(p, NoJob)
            BY <2>5, <3>2 DEF LoadLogAndFold, Exit
      <4>2. JobsTyped'
            BY <2>1, <4>1, ProceedKeepsTypes
      <4>3. Replacing' = Replacing
            BY <2>3, <3>1, <4>1, ReplacingChanges DEF InJob
      <4> QED
          BY <3>1, <4>2, <4>3 DEF FilesTyped, CopyTyped, BookTyped, TempsCounted
    <3>3. CASE ~(job[p].batch \notin Readable \/ job[p].dry)
      <4>1. Proceed(p, j)
            BY <2>5, <3>3 DEF LoadLogAndFold
      <4>2. job[p].batch \in Readable /\ Sighted(job[p].nets) /\ LogTyped(file.log)
            BY <2>1, <3>1, <3>3 DEF JobTyped, InJob, FilesTyped, BookTyped
      <4>3. BookTyped(book)
            BY <4>2, BatchOfSubmitted, FoldedTyped
      <4> HIDE DEF book
      <4>4. JobTyped(j) /\ j.pc = "temp"
            BY <2>1, <4>2, <4>3 DEF JobTyped, JobSteps
      <4> HIDE DEF j
      <4>5. JobsTyped'
            BY <4>1, <4>4, ProceedKeepsTypes
      <4>6. Replacing' = Replacing
            BY <3>1, <4>1, <4>4, ReplacingChanges DEF InJob
      <4> QED
          BY <3>1, <4>5, <4>6 DEF FilesTyped, CopyTyped, BookTyped, TempsCounted
    <3> QED
        BY <3>2, <3>3
  <2>6. CASE WriteTemp(p)
    <3> DEFINE j == [job[p] EXCEPT !.pc = "replace"]
    <3>1. /\ InJob(p, "temp") /\ Proceed(p, j) /\ temps' = temps + 1
          /\ UNCHANGED <<file, csv, acked, faults>>
          BY <2>6 DEF WriteTemp
    <3>2. JobTyped(j) /\ j.pc = "replace"
          BY <2>1, <3>1 DEF JobTyped, JobSteps, InJob
    <3> HIDE DEF j
    <3>3. JobsTyped'
          BY <3>1, <3>2, ProceedKeepsTypes
    <3>4. Cardinality(Replacing') = Cardinality(Replacing) + 1
          BY <3>1, <3>2, ReplacingChanges DEF InJob
    <3> QED
        BY <2>2, <3>1, <3>3, <3>4 DEF FilesTyped, CopyTyped, BookTyped, TempsCounted
  <2>7. CASE Replace(p)
    <3> DEFINE j == [job[p] EXCEPT !.pc = "csv"]
    <3>1. /\ InJob(p, "replace") /\ Proceed(p, j) /\ temps' = temps - 1
          /\ file' = job[p].book /\ UNCHANGED <<csv, acked, faults>>
          BY <2>7 DEF Replace
    <3>2. JobTyped(j) /\ j.pc = "csv"
          BY <2>1, <3>1 DEF JobTyped, JobSteps, InJob
    <3> HIDE DEF j
    <3>3. JobsTyped'
          BY <3>1, <3>2, ProceedKeepsTypes
    <3>4. /\ Cardinality(Replacing') = Cardinality(Replacing) - 1
          /\ Cardinality(Replacing') \in Nat
          BY <3>1, <3>2, ReplacingChanges
    <3>5. BookTyped(file')
          BY <2>1, <3>1 DEF JobTyped, InJob
    <3> QED
        BY <2>2, <3>1, <3>3, <3>4, <3>5 DEF FilesTyped, CopyTyped, TempsCounted
  <2>8. CASE OpenCsv(p)
    <3> DEFINE j == [job[p] EXCEPT !.pc = "copy"]
    <3>1. /\ InJob(p, "csv") /\ Proceed(p, j) /\ csv' = [csv EXCEPT !.whole = FALSE]
          /\ UNCHANGED <<file, temps, acked, faults>>
          BY <2>8 DEF OpenCsv
    <3>2. JobTyped(j) /\ j.pc = "copy"
          BY <2>1, <3>1 DEF JobTyped, JobSteps, InJob
    <3> HIDE DEF j
    <3>3. JobsTyped'
          BY <3>1, <3>2, ProceedKeepsTypes
    <3>4. Replacing' = Replacing
          BY <3>1, <3>2, ReplacingChanges DEF InJob
    <3>5. CopyTyped'
          BY <3>1 DEF FilesTyped, CopyTyped
    <3> QED
        BY <3>1, <3>3, <3>4, <3>5 DEF FilesTyped, BookTyped, TempsCounted
  <2>9. CASE WriteCsv(p)
    <3>1. /\ InJob(p, "copy") /\ Proceed(p, NoJob)
          /\ csv' = [whole |-> TRUE, log |-> job[p].book.log]
          /\ acked' = acked \cup ToSet(job[p].batch)
          /\ UNCHANGED <<file, temps, faults>>
          BY <2>9 DEF WriteCsv, Exit
    <3>2. JobsTyped'
          BY <2>1, <3>1, ProceedKeepsTypes
    <3>3. Replacing' = Replacing
          BY <2>3, <3>1, ReplacingChanges DEF InJob
    <3>4. BookTyped(job[p].book) /\ job[p].batch \in Readable
          BY <2>1, <3>1 DEF JobTyped, InJob
    <3>5. CopyTyped' /\ acked' \subseteq Submitted
          BY <3>1, <3>4, BatchOfSubmitted DEF FilesTyped, CopyTyped, BookTyped
    <3> QED
        BY <3>1, <3>2, <3>3, <3>5 DEF FilesTyped, BookTyped, TempsCounted
  <2>10. CASE CannotWrite(p)
    <3>1. /\ InJob(p, "replace") /\ Proceed(p, NoJob) /\ temps' = temps - 1
          /\ faults' = faults + 1 /\ UNCHANGED <<file, csv, acked>>
          BY <2>10 DEF CannotWrite, Exit
    <3>2. JobsTyped'
          BY <2>1, <3>1, ProceedKeepsTypes
    <3>3. /\ Cardinality(Replacing') = Cardinality(Replacing) - 1
          /\ Cardinality(Replacing') \in Nat
          BY <2>3, <3>1, ReplacingChanges
    <3> QED
        BY <2>2, <3>1, <3>2, <3>3 DEF FilesTyped, CopyTyped, BookTyped, TempsCounted
  <2>11. CASE Kill(p)
    <3>1. /\ Proceed(p, NoJob) /\ faults' = faults + 1
          /\ UNCHANGED <<file, csv, temps, acked>>
          BY <2>11 DEF Kill, Exit
    <3>2. JobsTyped'
          BY <2>1, <3>1, ProceedKeepsTypes
    <3>3. /\ Cardinality(Replacing') \in Nat
          /\ \/ Cardinality(Replacing') = Cardinality(Replacing)
             \/ Cardinality(Replacing') = Cardinality(Replacing) - 1
      <4>1. CASE InJob(p, "replace")
            BY <2>3, <3>1, <4>1, ReplacingChanges
      <4>2. CASE ~InJob(p, "replace")
            BY <2>2, <2>3, <3>1, <4>2, ReplacingChanges
      <4> QED
          BY <4>1, <4>2
    <3> QED
        BY <2>2, <3>1, <3>2, <3>3 DEF FilesTyped, CopyTyped, BookTyped, TempsCounted
  <2> QED
      BY <1>2, <2>4, <2>5, <2>6, <2>7, <2>8, <2>9, <2>10, <2>11 DEF JobStep
<1> QED
    BY <1>1, <1>2 DEF Next

\* Every file of the tool holds values of its kind, and a temporary workbook belongs to a
\* run or was left by one that was killed, whatever the number of processes.
THEOREM WorkbookTypesHold ==
  ASSUME IsFiniteSet(Processes)
  PROVE  Spec => []WorkbookTypeOK
<1> DEFINE Inv == FilesTyped /\ JobsTyped /\ TempsCounted
<1>1. Inv => WorkbookTypeOK
      BY DEF WorkbookTypeOK, FilesTyped, BookTyped, Sighted, NetTable, CopyTyped, LogTyped,
             SheetEntry, JobsTyped, JobTyped, TempsCounted, Replacing, Submitted
<1>2. Init => Inv
      BY TypesStart
<1>3. Inv /\ [Next]_vars => Inv'
      BY TypesStep
<1> QED
    BY <1>1, <1>2, <1>3, PTL DEF Spec

------------------------------------------------------------------------------
\* One process at a time.

Typed == FilesTyped /\ JobsTyped /\ TempsCounted

\* Types and the locals of the one run hold together.
LEMMA OneJobHolds ==
  ASSUME NEW p, Processes = {p}
  PROVE  Spec => [](Typed /\ OneJob)
<1>1. IsFiniteSet(Processes)
      BY FS_Singleton
<1>2. Init => Typed /\ OneJob
      BY <1>1, TypesStart, JobStart DEF Typed
<1>3. Typed /\ OneJob /\ [Next]_vars => Typed' /\ OneJob'
  <2>1. Typed /\ [Next]_vars => Typed'
        BY <1>1, TypesStep DEF Typed
  <2> QED
      BY <2>1, JobStepImplements
<1> QED
    BY <1>2, <1>3, PTL DEF Spec

\* A step leaves the workbook alone, or is the replacement of a run's workbook by what
\* folding its batch made of it.
LEMMA FileStep ==
  ASSUME NEW p, Processes = {p}, Typed, OneJob, [Next]_vars
  PROVE  \/ file' = file /\ ~Replace(p)
         \/ /\ Replace(p)
            /\ job[p].batch \in Readable
            /\ file' = Folded(file.nets, file.log, job[p].batch)
<1> USE DEF InJob
<1>1. CASE Replace(p)
      BY <1>1 DEF Replace, OneJob, JobInv
<1>2. CASE ~Replace(p)
      BY <1>2 DEF Next, JobStep, LoadMembers, LoadLogAndFold, WriteTemp, OpenCsv,
                  WriteCsv, CannotWrite, Kill, vars
<1> QED
    BY <1>1, <1>2

\* No key leaves the log of the workbook.
LEMMA LogKeeps ==
  ASSUME NEW p, Processes = {p}, Typed, OneJob, [Next]_vars
  PROVE  DOMAIN file.log \subseteq DOMAIN file'.log
<1>1. CASE file' = file
      BY <1>1
<1>2. CASE /\ job[p].batch \in Readable
           /\ file' = Folded(file.nets, file.log, job[p].batch)
  <2>1. Sighted(file.nets) /\ LogTyped(file.log)
        BY DEF Typed, FilesTyped, BookTyped
  <2>2. job[p].batch \in Seq(Report)
        BY <1>2, BatchOfSubmitted
  <2> QED
      BY <1>2, <2>1, <2>2, FoldedTyped
<1> QED
    BY <1>1, <1>2, FileStep

\* A run that has replaced the workbook holds what is in it.
Behind ==
  /\ \A p \in Processes : job[p].pc \in {"csv", "copy"} => job[p].book = file
  /\ CopyNeverAhead

\* Such a run copies the log of the workbook as it is, and later runs only add to that.
LEMMA BehindStep ==
  ASSUME NEW p, Processes = {p}, Typed, OneJob, [Next]_vars, Behind
  PROVE  Behind'
<1> USE DEF InJob, Proceed, Exit, NoJob
<1>1. DOMAIN job = {p} /\ DOMAIN job[p] = {"pc", "batch", "dry", "nets", "book"}
      BY DEF OneJob, JobInv
<1>2. DOMAIN file.log \subseteq DOMAIN file'.log
      BY LogKeeps
<1>3. DOMAIN csv = {"whole", "log"}
      BY DEF Typed, FilesTyped, CopyTyped
<1>4. job[p].pc \in {"csv", "copy"} => job[p].book = file
      BY DEF Behind
<1>5. csv.whole => DOMAIN csv.log \subseteq DOMAIN file.log
      BY DEF Behind, CopyNeverAhead
<1>6. /\ job'[p].pc \in {"csv", "copy"} => job'[p].book = file'
      /\ csv'.whole => DOMAIN csv'.log \subseteq DOMAIN file'.log
  <2>1. CASE LoadMembers(p)
        BY <1>1, <1>5, <2>1 DEF LoadMembers
  <2>2. CASE LoadLogAndFold(p)
    <3>1. /\ file' = file /\ csv' = csv
          /\ \/ job' = [job EXCEPT ![p] = NoJob]
             \/ job' = [job EXCEPT ![p] = [job[p] EXCEPT
                   !.pc = "temp", !.book = Folded(job[p].nets, file.log, job[p].batch)]]
          BY <1>1, <2>2 DEF LoadLogAndFold
    <3>2. job'[p].pc \in {"idle", "temp"}
      <4>1. CASE job' = [job EXCEPT ![p] = NoJob]
            BY <1>1, <4>1
      <4>2. CASE job' = [job EXCEPT ![p] = [job[p] EXCEPT
                  !.pc = "temp", !.book = Folded(job[p].nets, file.log, job[p].batch)]]
        <5>1. job'[p].pc = "temp"
              BY <1>1, <4>2
        <5> QED
            BY <5>1
      <4> QED
          BY <3>1, <4>1, <4>2
    <3> QED
        BY <1>1, <1>5, <3>1, <3>2
  <2>3. CASE WriteTemp(p)
        BY <1>1, <1>5, <2>3 DEF WriteTemp
  <2>4. CASE Replace(p)
        BY <1>1, <1>2, <1>5, <2>4 DEF Replace
  <2>5. CASE OpenCsv(p)
        BY <1>1, <1>3, <1>4, <2>5 DEF OpenCsv
  <2>6. CASE WriteCsv(p)
        BY <1>1, <1>4, <2>6 DEF WriteCsv
  <2>7. CASE CannotWrite(p)
        BY <1>1, <1>5, <2>7 DEF CannotWrite
  <2>8. CASE Kill(p)
        BY <1>1, <1>5, <2>8 DEF Kill
  <2>9. CASE UNCHANGED vars
        BY <1>4, <1>5, <2>9 DEF vars
  <2> QED
      BY <2>1, <2>2, <2>3, <2>4, <2>5, <2>6, <2>7, <2>8, <2>9 DEF Next, JobStep
<1> QED
    BY <1>6 DEF Behind, CopyNeverAhead

\* Whatever is killed between the workbook and the copy of its log, and whatever the
\* files are: a copy that is all there lists nothing the workbook has not ingested.
THEOREM CopyStaysBehind ==
  ASSUME NEW p, Processes = {p}
  PROVE  Spec => []CopyNeverAhead
<1>1. Init => Behind
      BY DEF Init, Behind, CopyNeverAhead, NoJob, NoFile, EmptyTable
<1>2. Behind /\ (Typed /\ OneJob) /\ [Next]_vars => Behind'
      BY BehindStep
<1>3. Behind => CopyNeverAhead
      BY DEF Behind
<1> QED
    BY <1>1, <1>2, <1>3, OneJobHolds, PTL DEF Spec

------------------------------------------------------------------------------
\* What the log keeps, for input files whose reports its key tells apart.

\* The log lists submitted reports only, every acknowledged one, and every one of the
\* run that has just replaced the workbook.
Kept ==
  /\ LogOf(file.log, Submitted)
  /\ \A rep \in acked : Signature(rep) \in Signatures(file.log)
  /\ \A p \in Processes : job[p].pc \in {"csv", "copy"} =>
       \A rep \in ToSet(job[p].batch) : Signature(rep) \in Signatures(file.log)

\* Folding a submitted batch into the workbook.
LEMMA FileFolds ==
  ASSUME Typed, KeysTell(Submitted), LogOf(file.log, Submitted),
         NEW batch \in Readable
  PROVE  LET new == Folded(file.nets, file.log, batch)
         IN  /\ LogOf(new.log, Submitted)
             /\ Signatures(file.log) \subseteq Signatures(new.log)
             /\ \A rep \in ToSet(batch) : Signature(rep) \in Signatures(new.log)
             /\ (\A rep \in ToSet(batch) : Signature(rep) \in Signatures(file.log)) =>
                  new.nets = file.nets
             /\ (/\ \A i, j \in DOMAIN batch :
                      Signature(batch[i]) = Signature(batch[j]) => i = j
                 /\ Even(file.nets, file.log)
                 => Even(new.nets, new.log))
<1>1. Sighted(file.nets) /\ LogTyped(file.log)
      BY DEF Typed, FilesTyped, BookTyped
<1>2. /\ batch \in Seq(Submitted) /\ batch # <<>> /\ Submitted \subseteq Report
      /\ ToSet(batch) = {batch[i] : i \in 1..Len(batch)}
      BY BatchOfSubmitted
<1>3. DOMAIN batch = 1..Len(batch) /\ Len(batch) \in Nat /\ Len(batch) # 0
      BY <1>2, LenProperties, EmptySeq
<1> DEFINE new == Folded(file.nets, file.log, batch)
<1>4. /\ LogOf(new.log, Submitted)
      /\ Signatures(file.log) \subseteq Signatures(new.log)
      /\ \A i \in 1..Len(batch) : Signature(batch[i]) \in Signatures(new.log)
      /\ (/\ file.log # EmptyTable
          /\ \A i \in 1..Len(batch) : Signature(batch[i]) \in Signatures(file.log)
          => new.nets = file.nets)
      /\ (/\ \A i, j \in 1..Len(batch) : Signature(batch[i]) = Signature(batch[j]) => i = j
          /\ Even(file.nets, file.log)
          => Even(new.nets, new.log))
      BY <1>1, <1>2, FoldedExact
<1> HIDE DEF new
<1>5. (\A i \in 1..Len(batch) : Signature(batch[i]) \in Signatures(file.log)) =>
        file.log # EmptyTable
  <2> SUFFICES ASSUME \A i \in 1..Len(batch) : Signature(batch[i]) \in Signatures(file.log)
               PROVE  file.log # EmptyTable
      OBVIOUS
  <2>1. 1 \in 1..Len(batch)
        BY <1>3
  <2>2. Signatures(EmptyTable) = {}
        BY DEF Signatures, EmptyTable
  <2> QED
      BY <2>1, <2>2
<1>6. (\A rep \in ToSet(batch) : Signature(rep) \in Signatures(file.log)) =>
        \A i \in 1..Len(batch) : Signature(batch[i]) \in Signatures(file.log)
      BY <1>2
<1>7. \A rep \in ToSet(batch) : Signature(rep) \in Signatures(new.log)
      BY <1>2, <1>4
<1>8. (\A rep \in ToSet(batch) : Signature(rep) \in Signatures(file.log)) =>
        new.nets = file.nets
      BY <1>4, <1>5, <1>6
<1> QED
    BY <1>3, <1>4, <1>7, <1>8 DEF new

\* Nothing acknowledged leaves the log.
LEMMA KeptStep ==
  ASSUME NEW p, Processes = {p}, KeysTell(Submitted), Typed, OneJob, [Next]_vars, Kept
  PROVE  Kept'
<1>1. DOMAIN job = {p} /\ DOMAIN job[p] = {"pc", "batch", "dry", "nets", "book"}
      BY DEF OneJob, JobInv
<1>2. /\ LogOf(file.log, Submitted)
      /\ \A rep \in acked : Signature(rep) \in Signatures(file.log)
      /\ job[p].pc \in {"csv", "copy"} =>
           \A rep \in ToSet(job[p].batch) : Signature(rep) \in Signatures(file.log)
      BY DEF Kept
<1>3. CASE Replace(p)
  <2>1. /\ job[p].batch \in Readable
        /\ file' = Folded(file.nets, file.log, job[p].batch)
        BY <1>3, FileStep
  <2>2. /\ LogOf(file'.log, Submitted)
        /\ Signatures(file.log) \subseteq Signatures(file'.log)
        /\ \A rep \in ToSet(job[p].batch) : Signature(rep) \in Signatures(file'.log)
        BY <1>2, <2>1, FileFolds
  <2>3. acked' = acked /\ job'[p].batch = job[p].batch
        BY <1>1, <1>3 DEF Replace, Proceed
  <2>4. /\ \A rep \in acked' : Signature(rep) \in Signatures(file'.log)
        /\ \A rep \in ToSet(job'[p].batch) : Signature(rep) \in Signatures(file'.log)
        BY <1>2, <2>2, <2>3
  <2> QED
      BY <2>2, <2>4 DEF Kept
<1>4. CASE ~Replace(p)
  <2>1. file' = file
        BY <1>4, FileStep
  <2>2. \A rep \in acked' : Signature(rep) \in Signatures(file.log)
    <3>1. acked' = acked \/ (InJob(p, "copy") /\ acked' = acked \cup ToSet(job[p].batch))
          BY <1>4 DEF Next, JobStep, LoadMembers, LoadLogAndFold, WriteTemp, OpenCsv,
                      WriteCsv, CannotWrite, Kill, vars
    <3> QED
        BY <1>2, <3>1 DEF InJob
  <2>3. job'[p].pc \in {"csv", "copy"} =>
          job[p].pc \in {"csv", "copy"} /\ job'[p].batch = job[p].batch
    <3> USE DEF Proceed, Exit, NoJob, InJob
    <3>1. CASE LoadMembers(p)
          BY <1>1, <3>1 DEF LoadMembers
    <3>2. CASE LoadLogAndFold(p)
      <4>1. \/ job' = [job EXCEPT ![p] = NoJob]
            \/ job' = [job EXCEPT ![p] = [job[p] EXCEPT
                 !.pc = "temp", !.book = Folded(job[p].nets, file.log, job[p].batch)]]
            BY <1>1, <3>2 DEF LoadLogAndFold
      <4>2. job'[p].pc \in {"idle", "temp"}
        <5>1. CASE job' = [job EXCEPT ![p] = NoJob]
              BY <1>1, <5>1
        <5>2. CASE job' = [job EXCEPT ![p] = [job[p] EXCEPT
                    !.pc = "temp", !.book = Folded(job[p].nets, file.log, job[p].batch)]]
          <6>1. job'[p].pc = "temp"
                BY <1>1, <5>2
          <6> QED
              BY <6>1
        <5> QED
            BY <4>1, <5>1, <5>2
      <4> QED
          BY <4>2
    <3>3. CASE WriteTemp(p)
          BY <1>1, <3>3 DEF WriteTemp
    <3>4. CASE OpenCsv(p)
          BY <1>1, <3>4 DEF OpenCsv
    <3>5. CASE WriteCsv(p) \/ CannotWrite(p) \/ Kill(p)
          BY <1>1, <3>5 DEF WriteCsv, CannotWrite, Kill
    <3>6. CASE UNCHANGED vars
          BY <3>6 DEF vars
    <3> QED
        BY <1>4, <3>1, <3>2, <3>3, <3>4, <3>5, <3>6 DEF Next, JobStep
  <2>4. job'[p].pc \in {"csv", "copy"} =>
          \A rep \in ToSet(job'[p].batch) : Signature(rep) \in Signatures(file.log)
        BY <1>2, <2>3
  <2> QED
      BY <1>2, <2>1, <2>2, <2>4 DEF Kept
<1> QED
    BY <1>3, <1>4

\* No workbook keeps nothing.
LEMMA KeptStart ==
  ASSUME NEW p, Processes = {p}
  PROVE  Init => Kept
BY DEF Init, Kept, LogOf, NoFile, EmptyTable, NoJob

\* A report of a run that ended with status 0 stays in the log, whatever is killed after
\* that: what every later run writes has it.
THEOREM AcknowledgedStaysLogged ==
  ASSUME NEW p, Processes = {p}, KeysTell(Submitted)
  PROVE  Spec => []AcknowledgedIsLogged
<1>1. Kept => AcknowledgedIsLogged
      BY DEF Kept, AcknowledgedIsLogged, Signatures
<1>2. Kept /\ (Typed /\ OneJob) /\ [Next]_vars => Kept'
      BY KeptStep
<1> QED
    BY <1>1, <1>2, KeptStart, OneJobHolds, PTL DEF Spec

\* "A re-run never folds a record again": a run on reports that were acknowledged replaces
\* the nets by the same nets.
THEOREM RerunsChangeNothing ==
  ASSUME NEW t, Processes = {t}, KeysTell(Submitted)
  PROVE  Spec => RerunIsNoOp
<1>1. Kept /\ (Typed /\ OneJob) /\ [Next]_vars =>
        [\A p \in Processes :
           Replace(p) /\ ToSet(job[p].batch) \subseteq acked => file'.nets = file.nets]_vars
  <2> SUFFICES ASSUME Kept, Typed, OneJob, [Next]_vars,
                      Replace(t), ToSet(job[t].batch) \subseteq acked
               PROVE  file'.nets = file.nets
      OBVIOUS
  <2>1. /\ job[t].batch \in Readable
        /\ file' = Folded(file.nets, file.log, job[t].batch)
        BY FileStep
  <2>2. /\ LogOf(file.log, Submitted)
        /\ \A rep \in ToSet(job[t].batch) : Signature(rep) \in Signatures(file.log)
        BY DEF Kept
  <2> QED
      BY <2>1, <2>2, FileFolds
<1>2. Kept /\ (Typed /\ OneJob) /\ [Next]_vars => Kept'
      BY KeptStep
<1>3. Init => Kept
      BY KeptStart
<1>4. Spec => [](Typed /\ OneJob)
      BY OneJobHolds
<1> QED
    BY <1>1, <1>2, <1>3, <1>4, PTL DEF Spec, RerunIsNoOp

\* "An interrupted run can never leave a half-written net file": whatever is killed, and
\* whichever files overlap, every net of the workbook counts what its log lists.
THEOREM WorkbookStaysBalanced ==
  ASSUME NEW p, Processes = {p}, KeysTell(Submitted), NoRepeats
  PROVE  Spec => []WorkbookBalances
<1> DEFINE Inv == Kept /\ Even(file.nets, file.log)
<1>1. Inv => WorkbookBalances
      BY BalancedIs DEF WorkbookBalances
<1>2. Init => Inv
      BY KeptStart DEF Init, Even, NoFile, EmptyTable
<1>3. Inv /\ (Typed /\ OneJob) /\ [Next]_vars => Inv'
  <2> SUFFICES ASSUME Inv, Typed, OneJob, [Next]_vars PROVE Inv'
      OBVIOUS
  <2>1. Kept'
        BY KeptStep
  <2>2. Even(file'.nets, file'.log)
    <3>1. CASE file' = file
          BY <3>1
    <3>2. CASE /\ job[p].batch \in Readable
               /\ file' = Folded(file.nets, file.log, job[p].batch)
      <4>1. LogOf(file.log, Submitted)
            BY DEF Kept
      <4>2. \A i, j \in DOMAIN job[p].batch :
              Signature(job[p].batch[i]) = Signature(job[p].batch[j]) => i = j
            BY <3>2 DEF NoRepeats
      <4> QED
          BY <3>2, <4>1, <4>2, FileFolds
    <3> QED
        BY <3>1, <3>2, FileStep
  <2> QED
      BY <2>1, <2>2
<1> QED
    BY <1>1, <1>2, <1>3, OneJobHolds, PTL DEF Spec
==============================================================================
