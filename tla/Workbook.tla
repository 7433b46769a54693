------------------------------- MODULE Workbook ------------------------------
(***************************************************************************)
(* apps/ff_net/submodules/net_building.py as a command line tool: main and *)
(* process_reports over the workbook and the CSV copy of its log.  Every   *)
(* access to a file is a step.  A run may be killed between any two, and   *)
(* runs of several processes may overlap: nothing locks the workbook.      *)
(***************************************************************************)
EXTENDS NetLedger

CONSTANTS
  Processes,      \* the tool's processes that may run at the same time
  MaxFaults       \* bound: runs that are killed or cannot write

ASSUME FaultBound == MaxFaults \in Nat

VARIABLES
  csv,            \* the copy of the log (--log-csv), and whether it is all there
  temps,          \* how many temporary workbooks lie beside the workbook
  job,            \* per process, the locals of its run
  acked,          \* observer: reports of runs that replaced the workbook and ended
  faults          \* observer: runs that were killed or could not write

vars == <<file, csv, temps, job, acked, faults>>

\* Locals: the batch, whether it is a dry run, the nets loaded and the new workbook.
NoJob == [pc |-> "idle", batch |-> <<>>, dry |-> FALSE,
          nets |-> EmptyTable, book |-> NoFile]

InJob(p, step) == job[p].pc = step
Proceed(p, locals) == job' = [job EXCEPT ![p] = locals]
Exit(p) == Proceed(p, NoJob)

------------------------------------------------------------------------------

\* main, and process_reports up to load_members.
LoadMembers(p) ==
  /\ InJob(p, "idle")
  /\ \E batch \in Batches, dry \in BOOLEAN :
       Proceed(p, [NoJob EXCEPT !.pc = "log", !.batch = batch, !.dry = dry,
                                !.nets = file.nets])
  /\ UNCHANGED <<file, csv, temps, acked, faults>>

\* load_log opens the workbook a second time.  An input that cannot be read or is
\* not valid ends the run with status 2; a dry run ends when the batch is folded.
LoadLogAndFold(p) ==
  /\ InJob(p, "log")
  /\ IF job[p].batch \notin Readable \/ job[p].dry
       THEN Exit(p)
       ELSE Proceed(p, [job[p] EXCEPT
                          !.pc = "temp",
                          !.book = Folded(job[p].nets, file.log, job[p].batch)])
  /\ UNCHANGED <<file, csv, temps, acked, faults>>

\* Mutant: the copy of the log is written first.
WriteTempAndCopy(p) ==
  /\ InJob(p, "temp")
  /\ temps' = temps + 1
  /\ csv' = [whole |-> TRUE, log |-> job[p].book.log]
  /\ Proceed(p, [job[p] EXCEPT !.pc = "replace"])
  /\ UNCHANGED <<file, acked, faults>>

\* mkstemp and the ExcelWriter: the new workbook beside the old one.
WriteTemp(p) ==
  /\ InJob(p, "temp")
  /\ temps' = temps + 1
  /\ Proceed(p, [job[p] EXCEPT !.pc = "replace"])
  /\ UNCHANGED <<file, csv, acked, faults>>

\* Mutants: the temporary workbook is copied; the sheets are written in place, the
\* nets first.
ReplaceByCopy(p) ==
  /\ InJob(p, "replace")
  /\ file' = job[p].book
  /\ Proceed(p, [job[p] EXCEPT !.pc = "csv"])
  /\ UNCHANGED <<csv, temps, acked, faults>>

ReplaceNetsFirst(p) ==
  /\ InJob(p, "replace")
  /\ IF file.nets # job[p].book.nets
       THEN /\ file' = [file EXCEPT !.nets = job[p].book.nets]
            /\ UNCHANGED <<temps, job>>
       ELSE /\ file' = job[p].book
            /\ temps' = temps - 1
            /\ Proceed(p, [job[p] EXCEPT !.pc = "csv"])
  /\ UNCHANGED <<csv, acked, faults>>

\* os.replace.
Replace(p) ==
  /\ InJob(p, "replace")
  /\ file' = job[p].book
  /\ temps' = temps - 1
  /\ Proceed(p, [job[p] EXCEPT !.pc = "csv"])
  /\ UNCHANGED <<csv, acked, faults>>

\* to_csv opens the copy for writing, which empties it,
OpenCsv(p) ==
  /\ InJob(p, "csv")
  /\ csv' = [csv EXCEPT !.whole = FALSE]
  /\ Proceed(p, [job[p] EXCEPT !.pc = "copy"])
  /\ UNCHANGED <<file, temps, acked, faults>>

\* writes the whole log of this run, and main returns 0.
WriteCsv(p) ==
  /\ InJob(p, "copy")
  /\ csv' = [whole |-> TRUE, log |-> job[p].book.log]
  /\ acked' = acked \cup ToSet(job[p].batch)
  /\ Exit(p)
  /\ UNCHANGED <<file, temps, faults>>

\* The temporary workbook cannot be written: it is removed on the way out.
CannotWrite(p) ==
  /\ InJob(p, "replace")
  /\ faults < MaxFaults
  /\ faults' = faults + 1
  /\ temps' = temps - 1
  /\ Exit(p)
  /\ UNCHANGED <<file, csv, acked>>

\* A killed run leaves its files as they are, its temporary workbook too.  So does
\* one that cannot open the copy of the log.
Kill(p) ==
  /\ ~InJob(p, "idle")
  /\ faults < MaxFaults
  /\ faults' = faults + 1
  /\ Exit(p)
  /\ UNCHANGED <<file, csv, temps, acked>>

Init ==
  /\ file = NoFile
  /\ csv = [whole |-> TRUE, log |-> EmptyTable]
  /\ temps = 0
  /\ job = [p \in Processes |-> NoJob]
  /\ acked = {}
  /\ faults = 0

\* The next step of a run under way.
JobStep(p) ==
  \/ LoadLogAndFold(p) \/ WriteTemp(p) \/ Replace(p)
  \/ OpenCsv(p) \/ WriteCsv(p)

Next ==
  \E p \in Processes : LoadMembers(p) \/ JobStep(p) \/ CannotWrite(p) \/ Kill(p)

Spec == Init /\ [][Next]_vars

------------------------------------------------------------------------------
\* Properties.

\* The reports of the input files that are not refused.
Submitted == UNION {ToSet(batch) : batch \in Readable}

\* Assumptions on the input files, for what the log can keep of them.  Its key tells the
\* reports apart: no correction changes the frequency and nothing else.
KeysTell(reps) == \A r, s \in reps : LogKey(r) = LogKey(s) => Signature(r) = Signature(s)

\* No input file lists a report twice.
NoRepeats ==
  \A batch \in Readable : \A i, j \in DOMAIN batch :
    Signature(batch[i]) = Signature(batch[j]) => i = j

JobSteps == {"idle", "log", "temp", "replace", "csv", "copy"}

\* Every variable holds values of its kind; a temporary workbook belongs to a run
\* about to replace the workbook, or was left by one that was killed.
WorkbookTypeOK ==
  /\ file.nets \in [DOMAIN file.nets -> NetRow]
  /\ csv.whole \in BOOLEAN
  /\ \A k \in DOMAIN csv.log : csv.log[k].net >= SystemNetStart
  /\ \A p \in Processes : job[p].pc \in JobSteps
  /\ acked \subseteq Submitted
  /\ Cardinality({p \in Processes : InJob(p, "replace")}) <= temps
  /\ temps <= Cardinality({p \in Processes : InJob(p, "replace")}) + faults

\* The module comment: an interrupted run can never leave a half-written net file.
\* Whatever is killed, the nets of the workbook count what its own log lists.
WorkbookBalances == Balanced(file)

\* A report of a run that ended with status 0 stays in the log, once.
AcknowledgedIsLogged ==
  \A rep \in acked : \E k \in DOMAIN file.log :
    file.log[k].sig = Signature(rep)

\* process_reports: a re-run never folds a record again.  Ingesting only reports
\* that were acknowledged before leaves the nets as they are.
RerunIsNoOp ==
  [][\A p \in Processes :
       Replace(p) /\ ToSet(job[p].batch) \subseteq acked =>
         file'.nets = file.nets]_vars

\* One process at a time, killed anywhere, is the tool as promised: the workbook
\* changes by whole batches.
ImplementsLedger == LedgerSpec

\* The copy of the log may be behind the workbook, never ahead of it: a record in
\* the copy is one the workbook has ingested.
CopyNeverAhead ==
  csv.whole => DOMAIN csv.log \subseteq DOMAIN file.log
==============================================================================
