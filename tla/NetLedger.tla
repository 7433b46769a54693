------------------------------ MODULE NetLedger ------------------------------
(***************************************************************************)
(* What one run of the command line tool makes of the net workbook         *)
(* (apps/ff_net/submodules/net_building.py, process_reports), and the tool *)
(* as it promises to be: the whole batch is folded into the nets and the   *)
(* log at once, or not at all.                                             *)
(*                                                                         *)
(* A workbook is its two sheets: Nets, a table net_id -> row, and          *)
(* Emitter_Log, a table from the columns drop_duplicates compares to the   *)
(* entry it keeps.  A workbook that does not exist has two empty sheets.   *)
(***************************************************************************)
EXTENDS NetBuilding, Sequences, SequencesExt

CONSTANTS
  Batches,        \* the input files the tool is run on: sequences of reports
  Bad             \* an input file validate_reports or the reader refuses

\* Those read_new_reports and validate_reports let through.
Readable == Batches \ {Bad}

ASSUME BatchesAreReports ==
  \A batch \in Readable : batch \in Seq(Report) /\ batch # <<>>

VARIABLE file     \* the net workbook

NoFile == [nets |-> EmptyTable, log |-> EmptyTable]

\* The columns full_log.drop_duplicates compares: those of the signature but the
\* frequency.
LogKey(rep) == <<rep.ff, rep.fti, rep.lti, rep.nti>>

\* assign_net in the order of the sheet, which is that of the ids: the first of the
\* newest candidates.  The dates of the sheets are text, which pandas leaves alone.
Route(nets, spans, rep) ==
  LET cand == Candidates(nets, spans, rep)
  IN  IF cand = {} THEN SpawnNet(nets, spans, rep)
      ELSE CollapseInto(nets, spans, rep, FALSE, Min(Newest(nets, cand)))

LogEntry(rep, routed) ==
  [net |-> routed.net, action |-> routed.action, rdfs |-> rep.rdfs,
   sig |-> Signature(rep), fti |-> rep.fti, lti |-> rep.lti, nti |-> rep.nti]

\* Mutant: no report is recognised.
FoldAlways(work, rep) ==
  LET routed == Route(work.nets, work.spans, rep)
  IN  [work EXCEPT !.nets = routed.members, !.spans = routed.spans,
                   !.log = Insert(@, LogKey(rep), LogEntry(rep, routed))]

\* One report of the batch.  Against a log without entries there are no columns to
\* compare, and no report is recognised, not even one met twice.
Fold(work, rep) ==
  IF work.logged /\ Signature(rep) \in work.seen THEN work
  ELSE LET routed == Route(work.nets, work.spans, rep)
       IN  [work EXCEPT !.seen = @ \cup {Signature(rep)},
                        !.nets = routed.members,
                        !.spans = routed.spans,
                        !.log = Insert(@, LogKey(rep), LogEntry(rep, routed))]

\* Mutant: the new log replaces the previous one.
FoldedForgetting(nets, log, batch) ==
  LET work == FoldLeft(Fold,
                [nets |-> nets, spans |-> [n \in DOMAIN nets |-> NoSpan],
                 seen |-> {log[k].sig : k \in DOMAIN log},
                 logged |-> log # EmptyTable, log |-> EmptyTable],
                batch)
  IN  [nets |-> work.nets, log |-> work.log]

\* The workbook after the batch is folded into these nets and this log.  No band
\* is tracked in the sheets; the log keeps the last of entries with one key.
Folded(nets, log, batch) ==
  LET work == FoldLeft(Fold,
                [nets |-> nets, spans |-> [n \in DOMAIN nets |-> NoSpan],
                 seen |-> {log[k].sig : k \in DOMAIN log},
                 logged |-> log # EmptyTable, log |-> log],
                batch)
  IN  [nets |-> work.nets, log |-> work.log]

------------------------------------------------------------------------------
\* The promise.

Ingest(batch) == batch \in Readable /\ file' = Folded(file.nets, file.log, batch)

LedgerSpec == file = NoFile /\ [][\E batch \in Batches : Ingest(batch)]_file

\* Every net's count is the sum of the sightings the log keeps for it.
LoggedSightings(book, n) ==
  MapThenSumSet(LAMBDA k : book.log[k].nti, {k \in DOMAIN book.log : book.log[k].net = n})

Balanced(book) ==
  /\ \A n \in DOMAIN book.nets : book.nets[n].nti = LoggedSightings(book, n)
  /\ \A k \in DOMAIN book.log : book.log[k].net \in DOMAIN book.nets
==============================================================================
