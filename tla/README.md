# Formal models of net-build

net-build is a Django service over a Cassandra cluster, with a catalog beside it. Intercept reports are
stored by clients; a *build* routes every new report to a *net* (an emitter seen
by one station); a *matcher* proposes pairs of nets of different stations that
look like one network, and a commander approves or rejects each pair. This
directory holds TLA+ models of that core, of the resources and the session both
services are built on, of the command line tool and of the checkpoint scripts, the TLC runs that check them and the
TLAPS proofs about them. Paths below are relative to the repository root
(`src/`); `ff_net/` stands for `src/backend/apps/ff_net/`.

## 1. Inventory

| Component | State | Operations | Interaction | What makes it correct |
|---|---|---|---|---|
| Matching and collapsing: `ff_net/submodules/net_building.py` | the members of one run (a DataFrame), the tracked bands | `assign_net`, `collapse_into`, `dedup_rdfs_per_net`, `build_hierarchical` | called by the build service and by a command line tool | one net per emitter and station; count, interval and band accumulate |
| Build service: `net_building_service.py` | tables `ff_net_building`, `ff_net_report_history` | `run_pipeline` (GET `build/`) | reads reports, nets and log; writes nets, then log | a report is folded once; the log only grows and agrees with the nets; every report is folded in the end |
| Merge matcher: `net_merging.py` | none | `propose_pairs`, `same_net` | called by the merge service | symmetric tolerances, only nets of different groups |
| Merge service: `net_merging_service.py` | table `ff_net_merge_candidates`; column `my_net_id` of `ff_net_building` | detection and listing (GET `merge/candidates/`), approve, reject | shares `ff_net_building` with the build | groups are the closure of the approved pairs; nothing merges unasked; every alert gets decided |
| Report resource: `ff_net_repository.py`, `ff_net/repository.py` | table `ff_net_report` | POST, PUT, DELETE, listings with cursors | feeds the build | created rows stay; a listing misses and repeats no row |
| Catalog resources: `apps/catalog/` | four tables | the same CRUD | none with ff_net | as above |
| Cassandra session: `apps/core/cassandra_session.py`, `apps.py` | cluster, session, readiness, lock, poller thread | connect, poll, readiness | every request asks for readiness, then uses the session | one open cluster; an accepted request finds the session; the service comes up |
| Health, metrics, request log: `apps/core/` | counters | reads | none | none of interest here |
| Command line tool: `net_building.py` | an Excel workbook, a CSV copy of its log | one run over an input file | the same matching | a run is all or nothing; a repeated one changes nothing |
| Checkpoint scripts: `casssndra/scripts/` | snapshots, watermarks, `manifest.json` | checkpoint, consolidate, verify | cron on five nodes | a complete tag can be restored; a good round becomes a recovery point |
| Microservice copies: `microservices/services/` | as the monolith | as the monolith | a gateway routes by prefix | byte for byte the same `apps/` |
| Deployment, logging stack, seed data | none of their own | | | |

**What is hard here.** `backend/serve.py` starts waitress with several threads,
and a build or a decision is a series of independent Cassandra statements: no
lock, no lightweight transaction, no batch. So (a) statements of two requests
interleave anywhere; (b) a request can end between two statements (driver
timeout, exception, death of the process) and what it wrote stays; (c) every
INSERT and UPDATE is an upsert, so a late write can revive or overwrite a row;
(d) requests compute with rows they read some statements earlier; (e) the
operator may drop `ff_net_building` while the log and the candidates stay; (f) hosts
come and go under the one session of a process, and clients page through tables
that others change; (g) the tool and the scripts are killed anywhere, and files
reach the backup host in pieces while they are judged.
`PROJECT.json` lists these hazards at their lines.

## 2. Modules

| Module | Models |
|---|---|
| `Cassandra` | tables as functions from key to row; INSERT and UPDATE as upserts |
| `NetMerging` | the matcher: tolerances and `ProposePairs` |
| `NetMerge` | the merge service, one action per statement, any number of threads |
| `MergeGroups` | its abstract promise: propose, approve, reject as single steps on groups |
| `NetBuilding` | routing one report: matching, collapsing, the id counters |
| `NetBuild` | `run_pipeline`, one action per statement, and the report requests |
| `FFNet` | both pipelines on the same threads over the same `ff_net_building` |
| `NetLedger` | what the command line tool makes of a workbook, and its promise: whole batches |
| `Workbook` | the tool, one action per access to a file |
| `CassandraSession` | the poller, `connect`, readiness, and hosts that come and go |
| `Resource` | a table with its ViewSet: changes by some clients, a paged walk by another |
| `Catalog` | the five resources, which differ in their keys, over one session |
| `Checkpoint` | the three checkpoint scripts, command by command, and what befalls their files |
| `NetBuildingProofs` | lemmas on `NetBuilding`: sums over tables, allocated numbers, what routing a report returns |
| `NetMergeProofs`, `MergeGroupsProofs`, `NetBuildProofs`, `FFNetProofs`, `WorkbookProofs`, `CatalogProofs`, `CheckpointProofs` | theorems and proofs |
| `MCNetMerge`, `MCNetBuild`, `MCFFNet`, `MCWorkbook`, `MCCatalog`, `MCCheckpoint` | instances for TLC |

`NetMerge` and `NetBuild` extend `NetMerging` and `NetBuilding`; `NetMerge`
instantiates `MergeGroups` under a refinement mapping; `FFNet` instantiates both
services over one `building` and one `faults`. `NetBuildProofs`, `FFNetProofs` and
`WorkbookProofs` extend `NetBuildingProofs`. `NetLedger` extends `NetBuilding`
(the tool and the service share the matching), `Workbook` extends `NetLedger`;
`Catalog` extends `Resource`, which extends `CassandraSession`.

The two services under `src/microservices/` hold byte-identical copies of the
monolith's `apps/`. The modules are mapped to the monolith, but for `FFNet`: it models
the ff_net service as it is deployed there, so its requests and their work are mapped to
the handlers of that copy. In `Resource`, whose code is there four times, each definition
is mapped to one of the four ViewSets.

### NetMerge

State: `building` and `candidates` are the tables; `req[t]` holds the locals of
the request on thread *t* (`pc` names the next statement); `asked` and `faults`
are observers. One action per statement:

| Action | Code (`net_merging_service.py`) |
|---|---|
| `ReadNets`, `ReadPairs`, `InsertCandidate`, `ListPending` | `_fetch_nets`; `_existing_pairs`; the INSERT loop; the final `find_all` |
| `Decide`, `Reject` | the read of the candidate and its two checks; the UPDATE to `rejected` |
| `ReadRowA`, `ReadRowB`, `FindAbsorbed`, `MoveNet`, `MarkApproved` | the statements of an approval |
| `Abort` | the request ends before its next statement |
| `DropBuilding` | external: the manual DROP of `PIPELINE_REFERENCE.md` section 6 |

Work between two statements touches only locals and belongs to the statement
before it: what the matcher proposes is a function of the rows read, so
`ReadNets` computes it. Rows come back in token order, so the loops take any
next element. `find` with its LIMIT of 10000 is `GroupLimit`: of a larger group
any `GroupLimit` rows are found.

### NetBuild

State: the three tables, `run[t]` with the locals of a build (members, tracked
bands, signatures seen, reports left, rows left, entries left), `clock` for
`processed_at`, and `faults`. A build is `ReadBuilding`, `ReadHistory`,
`ReadReports`, then per report `SkipReport` or `FoldReport` (one step, only
locals change), then `StartSync`, one `SyncRow` per net, `StartAppend`, one
`AppendEntry` per logged report. `PutReport` is POST and PUT, `DeleteReport` is
DELETE.

### FFNet

A thread serves one request at a time (`Free`). A build step leaves the merge
state alone and the other way round, except for `building`, which both write: a
build writes *every* column of every row it read, `my_net_id` included.

### NetLedger and Workbook

State: `file` is the workbook (sheets Nets and Emitter_Log), `csv` the copy of its
log, `temps` counts temporary workbooks, `job[p]` holds the locals of a run. A run is
`LoadMembers`, `LoadLogAndFold` (the second read; folding is local), `WriteTemp`,
`Replace`, `OpenCsv`, `WriteCsv`; `CannotWrite` is the `finally` of
`_atomic_write_workbook`, `Kill` leaves everything as it lies. `Folded` translates the
loop of `process_reports`: signatures of the log and of the batch, `assign_net`, and
`drop_duplicates` on (FF_ID, FTI, LTI, NTI). The promise, `LedgerSpec`, has one action:
`Ingest` a whole batch.

### CassandraSession, Resource and Catalog

The poller is `Poll`, `OpenCluster` (the control connection) and `OpenSession` (session,
keyspace, consistency level, globals); every exception is `AttemptFailed`. `misses`
counts attempts that failed between the last two. Only the poller calls `connect`,
so its lock keeps nobody waiting and is left out. What the driver does is an
assumption: a Cluster whose control connection fails shuts itself down; one that
got it stays open until `shutdown`, which nothing calls.

A row of `table` is its marker and one column: INSERT sets the marker, UPDATE does
not, so a row made by PUT alone is there only while a column is set. A request is
accepted (`is_ready`), then its statement takes effect (`Write`), or does without its
answer being received (`WriteUnanswered`), or fails (`FailWrite`). A listing is read
row by row (`ScanRow`) and answered (`EndPage`) with a cursor; the client goes on from
it with a page of any size, and asks again when a page fails. The resources differ in
which keys can be addressed (`__` within a text part cannot) and whether every key
column must be given (`lti` of a report need not be).

### Checkpoint

State: the snapshots and the running script of each node; on the backup host the
`tarball` and `watermark` of each node and tag, by the number of the export they come
from, or `Part` or `Cut`; the `manifest`; the locals of `consolidate-checkpoint.sh`
(`judge`) and of `verify-restore.sh` (`drill`). scp opens a file, then fills it, the
tarball first. `moved`, `stirred` and `spoilt` are observers: tags whose files changed
since they were judged, readers at whose tag files changed meanwhile, tags a fault
befell. Interruption (`Interrupt`, `CutWatermark`), damage and removal are bounded by
`MaxFaults`. For each watermark of a tag consolidation takes five steps, between which
files may change: `ReadNode`, `ReadTarball` and `ReadSha` (the three calls of `jq`),
`TestTarball` (`[ -f ]`) and `HashTarball` (`sha256sum` and the comparison); a file that is
gone when `jq` or `sha256sum` opens it ends the script. The test that the watermark is
there is one step with the first `jq`: gone in between, it ends the script as when it is
gone by the second. The verdict of a finished drill is kept until one of the two scripts
begins anew. The tag `null` that `jq` reads from `manifest.json` itself has no file
and is never complete; it is left out.

### Abstractions

- A `find_all` or `find` is one atomic read, although it may take several pages.
- Frequencies are channel numbers with half bandwidths, positions are points of a
  line, a date is `month * 100 + day`. The matcher compares differences only.
- A null column is `-1`; of a report only `rdfs` and `freq` may be null. In a column
  that also holds numbers pandas makes a null frequency a NaN, which raises nothing and
  is within no tolerance: it matches nothing.
- In `NetBuild` a put is a whole row; `Resource` has partial ones.
- A batch takes a new time stamp: two batches never share `processed_at`.
- `_sync_building_table` deletes rows of nets that are no longer members; members
  never lose a net in the service, so that branch is unreachable and left out.
- pandas parses a text put into a datetime cell again. That is a library's doing
  and marked external (`Reparsed`). Whether the date column of a run that starts
  without nets has that type depends on pandas, so `FoldReport` takes either.
- Responses, reasons shown to the commander, logging and formats are left out.

## 3. Runs

| Run | Instance and bounds | What it shows |
|---|---|---|
| `NetMerge_serial` | 1 thread, 4 nets that all match, no faults | `ApprovedTogether`, `QueueIsComplete`, and `ImplementsMergeGroups`: the statements implement the abstract promise |
| `NetMerge_races` | 2 threads, a chain of 3 nets, 2 faults (death or drop), fair | `TypeOK`, `NoUnaskedMerge`, `NeverAboveBirth`: groups may be wrong, but nobody is merged unasked; `AlertsAreDecided`: every alert is decided for good in the end |
| `NetBuild_serial` | 1 thread, 6 reports of 4 emitters, two of them corrections; one early FTI, one emitter without a station | `BuildTypeOK`, `CountsMatchLog`, `IntervalCovers`, `StationsApart` |
| `NetBuild_crashes` | 1 thread, 3 reports of 2 stations (one emitter twice), 2 deaths, deletions, fair | `LoggedIsCounted`, `SpawnedOnce`, `ReportsAreLogged` |
| `NetBuild_races` | 2 threads, 2 reports, the table dropped once, fair | `ReportsAreLogged`: two builds at once may muddle the nets, but every report that stays is in the log in the end, and recognised from then on |
| `FFNet` | 1 thread, 4 reports of 3 stations, 1 fault | `GroupsMatchDecisions`, `OnlyDecisionsRegroup`: builds between decisions keep the groups; `NothingMergedUnasked` across a drop, a death and reuse of freed numbers |
| `Workbook` | 1 process, 4 input files that overlap, one of them refused, dry runs, 2 kills or failed writes | `WorkbookTypeOK`, `WorkbookBalances`, `ImplementsLedger`: the workbook changes by whole batches; `AcknowledgedIsLogged`, `RerunIsNoOp`: retries lose and repeat nothing; `CopyNeverAhead` |
| `Checkpoint` | 2 nodes, 2 nights, 1 fault, one copy exported twice, one rotten copy, fair | `CheckpointTypeOK`, `CompleteMeansRestorable`, `DrillCoversPoint`, `NoSnapshotLeft`, `RoundsComplete` |
| `Catalog` | 1 thread of changes, 1 walk, 2 keys (one with `__`), pages of 1 and 2, 1 missed attempt, any of the 5 resources, fair | `ResourceTypeOK`, `WalkIsComplete`, `CreatedRowsStay`, `ReadyFindsSession`, `OneClusterOpen`, `ServiceComesUp` |
| `NetMerge_split` (violated) | 2 threads, a chain of 3 nets | two approvals at once leave an approved pair in two groups |
| `NetBuild_collision` (violated) | 1 thread | two reports of one emitter in one batch share a log key; one entry is lost |
| `FFNet_unmerged` (violated) | 2 threads | a build restores the `my_net_id` that an approval had changed |

**Why these bounds.** Three nets in a chain are the least for which an approval
moves a group and not a single net, and for which two approvals share a group;
four nets in a clique give groups of two absorbing groups of two. Two threads
give every pairwise race. Two faults allow a retry of a retry, or a drop after a
death. Reports are chosen so that one run spawns, collapses by id, collapses by
band, meets another station on the same channel, and meets a report without a
station. `MaxFaults` bounds deaths and drops; `MayDie`, `MayDelete` and `MayDrop`
switch them off for runs whose question does not concern them. `clock` needs no
bound: a logged report is not logged again, and an entry that another one of its
batch overwrote is written a second time, then alone or with fewer; so finitely
many batches are logged, and TLC ends.
Days are above 12, so that dates survive being written and read, but for one FTI of
`NetBuild_serial`, which may turn into the first of May: `IntervalCovers` checks that this
touches no other column and no other station. In `Workbook` files are ingested in any order and again after a kill;
two kills allow a killed retry. In `Checkpoint` two nodes and two nights let one round
fail while the other completes, and the second export of a tag lets a tarball meet the
watermark of another export; for more nodes the safety properties are theorems. In
`Catalog` two keys and pages of one and two rows give full, short and empty pages, with
changes before and behind the cursor. No run has a group larger than its `GroupLimit`; the theorems
hold for every limit.

**Fairness.** Weak fairness of `Step(t)` and of `BuildStep(t)`: a waitress thread
that has started a request executes it until it ends. Strong fairness of polling
(`ReadNets`, `ReadBuilding`) and of deciding each pair are assumptions about the
users, not about the code: the front end polls and the commander works on the
queue, and a free thread is found for them again and again. They are strong
because a thread may be busy in between. In `Checkpoint` a script that runs goes on
(weak), consolidation is scheduled again and again, and a node whose round has not
been exported runs it (strong: a script of another tag may be busy on the node); this is the
schedule of `DISASTER_RECOVERY.md`. In `Catalog` only the poller is fair: it is a thread
of its own; that hosts stay up is a premise of `ServiceComesUp`. Only liveness runs use
`FairSpec`. No run disables deadlock checking.

**Mutants.** For each property of each passing run, `PROJECT.json` names a
mutation of the code's model (defined next to the definition it replaces) that
breaks it.

## 4. Proofs

All proofs are checked by TLAPS (`tlapm`). Every safety invariant, every action property
and both refinements that the runs check are theorems, for every value of the constants:
reports, nets, keys, nodes, tags, files, page sizes, limits and numbers of faults. Where a
theorem needs more than the constants' assumptions, the table names it; section 5 says
what the code does otherwise.

| Theorem | States | Beyond the assumptions |
|---|---|---|
| `NetMergeProofs`: `TypesHold`, `NothingMergesUnasked`, `GroupsOnlyFold` | `TypeOK`, `NoUnaskedMerge`, `NeverAboveBirth` | nothing: any threads, deaths, drops |
| `NetMergeProofs`: `ApprovalsHold`, `QueueIsAlwaysComplete`, `MergingImplementsGroups` | `ApprovedTogether`, `QueueIsComplete`, `ImplementsMergeGroups` | one thread, `MaxFaults = 0`, finitely many nets and no more than the LIMIT |
| `MergeGroupsProofs`: `GroupsAreAlwaysClosure` | the abstract groups are the closure of the approved pairs | nothing |
| `NetBuildProofs`: `BuildTypesHold` | `BuildTypeOK` | nothing: any threads, deaths, drops |
| `NetBuildProofs`: `StationsStayApart`, `NetsSpawnOnce`, `LoggedSightingsAreCounted` | `StationsApart`, `SpawnedOnce`, `LoggedIsCounted` | one thread, no drop; any deaths |
| `NetBuildProofs`: `LogOnlyGrows` | `HistoryOnlyGrows` | no build meets two new sightings of one emitter by one station; any threads, deaths, deletions, drops |
| `NetBuildProofs`: `CountsAreExact` | `CountsMatchLog` | the same, and one thread, no drop, no deaths |
| `NetBuildProofs`: `IntervalsCoverLog` | `IntervalCovers` | one thread, no drop; any dates, any deaths |
| `FFNetProofs`: `SharedGroupsWereAsked`, `BuildsNeverRegroup` | `NothingMergedUnasked`, `OnlyDecisionsRegroup` | one thread; any deaths, drops, deletions |
| `FFNetProofs`: `GroupsAreTheDecisions` | `GroupsMatchDecisions` | one thread, no group above the LIMIT |
| `WorkbookProofs`: `WorkbookTypesHold` | `WorkbookTypeOK` | finitely many processes |
| `WorkbookProofs`: `ToolImplementsLedger`, `CopyStaysBehind` | `ImplementsLedger`, `CopyNeverAhead` | one process |
| `WorkbookProofs`: `AcknowledgedStaysLogged`, `RerunsChangeNothing` | `AcknowledgedIsLogged`, `RerunIsNoOp` | one process, `KeysTell(Submitted)` |
| `WorkbookProofs`: `WorkbookStaysBalanced` | `WorkbookBalances` | one process, `KeysTell(Submitted)`, `NoRepeats` |
| `CatalogProofs`: `TypesHold`, `ClustersAreCounted`, `TakenOnRequestsHaveASession`, `AnsweredRowsStay`, `PagesMissNoRow` | `ResourceTypeOK`, `OneClusterOpen`, `ReadyFindsSession`, `CreatedRowsStay`, `WalkIsComplete` | nothing |
| `CheckpointProofs`: `CheckpointTypesHold`, `CompleteTagsRestore`, `DrillsCoverThePoint`, `SnapshotsAreCleared` | `CheckpointTypeOK`, `CompleteMeansRestorable`, `DrillCoversPoint`, `NoSnapshotLeft` | nothing |

Assumptions: the constants' `ASSUME`s in the modules, which TLC evaluates in the runs of
each. `FirstGroupsAreSingle` is what a build produces: each new net gets a `my_net_id` of
its own. `TagsAreOrdered` and `KeysAreOrdered` number tags and keys in the order the
scripts and Cassandra take them. `ServiceConstants` types the constants of `FFNet`.

**Why these hypotheses.** One thread or one process, because the property fails with two: TLC
finds a counterexample within seconds or minutes when a run of section 3 is given a second
one. The exception is `QueueIsComplete`, for which it finds none with two threads and a
chain of three nets; its proof rests on an invariant about one request. Where a property survives races
(`NoUnaskedMerge`, `NeverAboveBirth`, the types, everything of `Catalog` and `Checkpoint`)
the theorem has no such hypothesis. *No drop* where the property compares nets with a log
that stays. *No two new sightings* (`[]OneNewEach`): when a build reads the reports, at most
one of each emitter and station is not recognised by the log it has read. The table may
hold any number of sightings of an emitter that are already logged, which is its normal
content; two new ones in one batch may share a log key, which is what the run
`NetBuild_collision` shows. Dates need no hypothesis: `IntervalCovers` itself excepts a
column at a station that reported a date there which can be read month first, and the
theorem says the damage stays where it is. `KeysTell(Submitted)`: the log's key tells the submitted reports apart;
`NoRepeats`: no file lists a report twice. TLC evaluates both for the files of its run
(`FilesAreTold` in `MCWorkbook`).

### The inductive invariants

- **NetMerge, types.** `TypeInv` adds what the step of a request implies about its locals: from
  the check of the candidate on it holds a pair (`PairChosen`), and when it looks up or
  moves rows both group numbers are numbers and not null (`GroupsChosen`). Without that
  the upsert of `MoveNet` could create a row whose `my_net_id` is null.
- **NetMerge, unasked merges.** A request works with group numbers and rows it read earlier, so
  `MergeInv` speaks of numbers, each of which stands for the one net built with it
  (`FirstGroupsAreSingle`): every stored number (`RowsBelong`) and every number in a
  request's locals, however old (`LocalsBelong`), belongs to a net that approved pairs
  join to the row it is used for. These relations only grow with `asked`, so a stale
  number stays good, and this is why no race or death can merge anything unasked.
  `BirthInv` adds that the survivor is below the absorbed number and that the rows an
  approval still has to move were built at or above it.
- **NetMerge, one request at a time.** `Serial` says what the locals of a request know of the
  tables: a detection still holds exactly the pairs that match and are not recorded
  (`Detecting`), an approval holds the numbers the table holds (`Approving`), and while it
  moves rows the absorbed group is what is left to move (`Moved`). `Number` counts a moved row
  as one of the absorbed group until the decision is recorded, so the refinement maps
  every UPDATE to a stutter and the last statement to the merging of two groups. The limit
  is needed: of a larger group only a part would move.
- **MergeGroups.** `GroupsInv` adds that the groups partition the nets, so that joining two
  groups joins them for all their members.
- **NetBuild.** With one thread what a run read is what the tables hold. `StationInv` relates
  members, entries and log by the station; `SpawnInv` says that at most one entry of the run
  or row of the log reports a net as new. `CountInv` is the heart of the counts: for every net, the members of the run
  count at least what is logged for it plus what the run has still to log, and the stored
  rows at least what is logged, in whatever order rows and entries are written; a run that dies leaves rows
  that count too much and never too little. `ExactInv` turns the inequalities into
  equations when no run dies and, by `KeysInv`, no entry overwrites a row of the log:
  `StampInv` gives every batch of every thread a time stamp of its own, and `KeyInv` says that
  within a batch entries of one net are of different emitters, because what is left to fold is
  of no emitter and station that has an entry. `IntervalInv`
  carries the interval along like the counts, for each station and each column by itself.
- **FFNet.** A build rewrites `my_net_id` of every row, so `GroupInv` says that during a build
  every stored net is a member with the same number (`RunJoined`), and during an approval
  every row that carries one of its numbers is joined to its pair by pairs asked for
  (`RequestJoined`). Numbers are compared in the table as it is, not with those at birth, so
  the argument survives the reuse of numbers after a drop. `DecisionInv` adds, while there is
  no fault, that what was asked for is approved but for the pair under approval, and that
  approved pairs share a number once what was found is moved.
- **Workbook.** `OneJob` says that until a run replaces the workbook, what it read and folded is
  what the workbook still holds; so `Replace` is an `Ingest` and every other step stutters.
  `TempsCounted` matches temporary workbooks with runs and kills. `Behind` relates the copy of
  the log to the sheet; `Kept` says that acknowledged reports, and those of a run that has
  just replaced the workbook, have their signature in a log of submitted reports; `Even` is
  the balance, for workbooks as for the results of a fold under way.
- **Catalog.** `SessionInv` relates the open Clusters to where the poller is, and says `_ready`
  and `_session` agree; requests find the session because it is never taken back and was
  there when they were accepted. `TypeInv` adds that created rows have their marker, which
  no UPDATE removes. `WalkInv`: rows listed so far lie at or before the cursor, those of the
  page under way between the cursor and the scan position, both are free of repetitions,
  and every row that matched throughout and lies at or before the scan position is in one
  of them.
- **Checkpoint.** Nodes, judge and drill have an invariant each (`NodeInv`, `JudgeInv`,
  `DrillInv`), and each step of one is shown to keep the others'. Every step of a node or a
  fault is a `FilesStep`: it changes files of tags that it marks as touched. `JudgeInv` says
  that while its tag is not touched, what was read of a watermark is still in it (`FileInv`)
  and a node counted as present has a whole tarball;
  `DrillInv` carries this from the moment the drill picked the recovery point to its
  verdict, unless files changed in between.

**Sums and folds.** Counts are sums over a log of any size, and the tool folds a batch of any
length. The provers cannot instantiate the library's induction theorems, which take an
operator as a parameter. `NetBuildingProofs` and `WorkbookProofs` therefore argue by a least
counterexample: the strict subsets of a finite set and the naturals are well founded
(`SmallestSubset`, `SmallestNat`), and the smallest set or the shortest prefix for which a
statement about the fold fails cannot exist. `SumTerms` shows that a sum does not depend on the
order it is taken in, `SumOfMore` what one more row adds, and so on.

**Only model-checked:** liveness (`AlertsAreDecided`, `ReportsAreLogged`, `RoundsComplete`,
`ServiceComesUp`), which is out of TLAPS's reach, and the three violated runs.

## 5. Where code and documents part

The three violated runs above are findings in `PROJECT.json`, with the sentence of
the repository they contradict. The following were met while modelling; TLC
finds them in the same models with the properties named in words here, but they
have no run of their own:

- **A repeated approval strands nets.** An approval that dies between two UPDATEs
  leaves the pair in one group; when repeated, the code finds equal groups and
  only records the decision (`net_merging_service.py:161-163`, "nothing left to
  move"). The rest of the absorbed group stays behind.
- **A decided pair turns pending.** Detection reads the ledger, then INSERTs; if
  the pair is recorded and decided in between, the upsert reopens it (`:86-100`,
  against "never re-proposed"). `AlertsAreDecided` is therefore stated as
  "eventually for good".
- **Two decisions pass one check.** Both read `pending` (`:142`); the later UPDATE
  wins, although a decided candidate is to be refused (`net_build_services.md:253`).
- **A run that dies between nets and log counts twice.** The next run folds the
  same reports again (against `net_building.py:335-336`). `LoggedIsCounted` is the
  inequality that survives.
- **Two builds share a net_id.** Both take the same next number, and a sighting of
  one station is logged for another's net (against `net_building.py:488-489`).
- **Day and month change places.** Dates go back as day-first text into a column of
  timestamps (`net_building.py:413`); pandas reads month first when it can, so the
  interval can exclude the sighting. Dates with days up to 12 are affected, in their own
  column and at their own station only (`IntervalCovers`, `IntervalsCoverLog`).
- **A net loses its id.** A newer report that matched by band replaces the row's
  `FF_ID` (`:400`); a later report of the first id on another channel spawns a
  second net, although the same id is "definitively the same emitter" (`:491`).
- **The band narrows.** The first collapse into a net read from the table tracks
  the report's band alone (`:434`, against the comment at `:417-419`).
- **A freed number is captured.** Two approvals of one pair, and a build in
  between that gives the freed `my_net_id` to a new net: the slower approval moves
  the new net into the survivor (`net_merging_service.py:171`, against
  `views.py:55-56`). `FFNet` is therefore run with one thread.

- **A dropped table is not rebuilt.** After `ff_net_building` was dropped the log still
  recognises every report (`net_building_service.py:263`), so the next build writes no
  net for it, against `PIPELINE_REFERENCE.md:451-452` ("repopulates it completely").
- **PATCH is not served.** `ff_net/README.md:162` lists it; the ViewSet has `update` and no
  `partial_update`, so the router answers PATCH with 405 and PUT is the partial update.
- **Rows no client can address.** A text part of a key with `__` in it passes `create`
  (`catalog/submodules/products.py:66` splits by it), and the row can then be listed, not
  retrieved, updated or deleted.
- **Failed attempts stay open.** Each attempt of the poller that reaches a host and
  misses the keyspace or the consistency level leaves a Cluster open
  (`cassandra_session.py:49-61`); `OneClusterOpen` counts exactly those.
- **Two tools at once.** The workbook is read twice and replaced without a lock
  (`net_building.py:634-635`, `:612`): with two processes updates are lost, and nets and log
  read in two moments disagree. `Workbook` is therefore run and proved with one.
- **The log keeps one of two.** Reports that differ in frequency alone have different
  signatures and one log key (`:709`): both are counted, the log keeps the last, and a
  re-run folds the first again (against `:650-651`). On a first batch no report is
  recognised, so a duplicate within it is counted twice and logged once. A file of
  either kind breaks `WorkbookBalances`; the files of the run have none.
- **Options without effect.** `MANUAL_REPORT` is unreachable, for `input` has a default
  (`:739`, `:786`), and `--flat-freq-tol` changes nothing in `assign_net`.
- **A cut watermark stops everything.** `jq` fails on it, its message is discarded and
  `set -e` ends consolidation before any tag is judged
  (`consolidate-checkpoint.sh:24`), until the file is replaced by hand.
- **The manifest outlives its files.** A tag whose watermarks were removed is not
  judged again and stays complete (`consolidate-checkpoint.sh:58-70`).
- **"On all nodes" means those found.** A drill of a tag given by hand, or of a recovery
  point whose files were removed, prints OK for the watermarks it finds
  (`verify-restore.sh:80`).
- **A repeated tag is refused.** When a script ends before `clearsnapshot`
  (`checkpoint.sh:32-59`), the snapshot stays and `nodetool snapshot` refuses the same
  tag from then on.

## 6. Not modelled

`PROJECT.json` gives a reason per component. In short: health, metrics and the request
log, the parsing of input files and column values, the legacy switches of
`MatchConfig`, `shutdown` of the session (nothing calls it), `repair.sh` and the role
scripts (wrappers around nodetool and cqlsh), what a snapshot contains, and everything
that configures third-party servers. Cassandra itself is one linearizable store:
consistency levels, replica divergence and clock skew of last-write-wins are outside
the models.

## 7. Plan

Done, in this order: `Cassandra`, `NetMerging`, `NetMerge`, `MergeGroups` with the
refinement, their proofs, `NetBuilding`, `NetBuild`, `FFNet`, `NetLedger`, `Workbook`,
`Checkpoint`, `CassandraSession`, `Resource`, `Catalog`, the proofs of the last five, then those
of `NetBuild`, of the refinement of `MergeGroups`, of the tool and of `FFNet`.

Next: what survives of the counts and groups with two threads (a bound on what two builds
can muddle), and an abstract specification of a build, as `MergeGroups` is one of a decision.
