------------------------------ MODULE Checkpoint -----------------------------
(***************************************************************************)
(* casssndra/scripts: checkpoint.sh on every node, consolidate-checkpoint  *)
(* and verify-restore on the backup host, over the directory the nodes     *)
(* push their files to.  Every command that changes or reads a file is a   *)
(* step; a script ends at its first command that fails (set -e), and may   *)
(* be interrupted between any two.                                         *)
(*                                                                         *)
(* A node may export one tag several times: a tarball is the number of the *)
(* export it holds, or Part when only part of it is there, and a watermark *)
(* the number of the export it has the SHA-256 of, which is taken to tell  *)
(* them apart.  Tags are numbers in the order sort_by(.tag) gives them.    *)
(***************************************************************************)
EXTENDS Integers, FiniteSets

CONSTANTS
  Nodes,          \* the expected nodes (EXPECTED_NODES), by number
  Tags,           \* the tags of the nightly rounds
  Rotten,         \* copies whose SSTables do not pass sstableverify
  MaxExports,     \* bound: how often a node exports one tag
  ByHand,         \* bound: the tags a drill is asked for by hand
  Exposed,        \* bound: the copies a fault may befall, or that are made again
  MaxFaults       \* bound: interrupted scripts, damaged and removed files

ASSUME TagsAreOrdered == Tags \subseteq Nat \ {0} /\ 1 \in Tags
ASSUME NodesAreNumbered == Nodes \subseteq Nat \ {0} /\ IsFiniteSet(Nodes)
ASSUME CopiesOfNodes == Rotten \cup Exposed \subseteq Nodes \X Tags
ASSUME CheckpointBounds == MaxExports \in Nat \ {0} /\ MaxFaults \in Nat /\ ByHand \subseteq Tags

VARIABLES
  night,          \* the tag of the current round
  snapshots,      \* the snapshots each node keeps, by tag
  script,         \* per node, the run of checkpoint.sh
  exports,        \* how often each node exported each tag
  tarball,        \* backup host: the tarball of a node and a tag
  watermark,      \* backup host: the watermark of a node and a tag
  manifest,       \* manifest.json: tag -> whether it is complete
  judge,          \* the run of consolidate-checkpoint.sh
  drill,          \* the run of verify-restore.sh
  moved,          \* observer: tags whose files changed since the judgement on record
  stirred,        \* observer: scripts at whose tag files changed since they began it
  spoilt,         \* observer: tags a fault befell
  faults          \* observer: how many faults there were

readers == <<manifest, judge, drill>>
changes == <<moved, stirred>>
faultVars == <<spoilt, faults>>
nodeVars == <<night, snapshots, script, exports, tarball, watermark, spoilt, faults>>
vars == <<night, snapshots, script, exports, tarball, watermark, manifest, judge, drill,
          moved, stirred, spoilt, faults>>

\* What a file may be besides an export: not there, partly there.  An interrupted
\* upload leaves an empty watermark or one cut off within its text.
None == 0
Part == -1
Cut == -2

Copies == Nodes \X Tags

NoScript == [pc |-> "idle", tag |-> 0]
NoJudge == [pc |-> "idle", tags |-> {}, tag |-> 0, files |-> {}, file |-> None, node |-> {},
            named |-> FALSE, sha |-> None, present |-> {}, whole |-> TRUE]
NoDrill == [pc |-> "idle", tag |-> 0, sure |-> FALSE, files |-> {}, passed |-> {},
            fail |-> FALSE]

------------------------------------------------------------------------------
\* checkpoint.sh, on node n.

InScript(n, step) == script[n].pc = step
Copy(n) == <<n, script[n].tag>>
Advance(n, step) == script' = [script EXCEPT ![n].pc = step]
\* Mutant: only the step is reset.
EndStep(n) == script' = [script EXCEPT ![n].pc = "idle"]
EndScript(n) == script' = [script EXCEPT ![n] = NoScript]
Touch(tag) ==
  /\ moved' = moved \cup ({tag} \cap DOMAIN manifest)
  /\ stirred' = stirred \cup {r \in {"judge", "drill"} :
                             IF r = "judge" THEN judge.tag = tag
                             ELSE drill.pc = "file" /\ drill.tag = tag}

\* The next night's round begins when every node is through with this one's.
NextNight ==
  /\ night + 1 \in Tags
  /\ \A n \in Nodes :
       InScript(n, "idle") /\ (exports[n, night] > 0 \/ night \in spoilt)
  /\ night' = night + 1
  /\ UNCHANGED <<snapshots, script, exports, tarball, watermark, readers, changes,
                 faultVars>>

\* The round of tonight, or one repeated by hand.  nodetool snapshot refuses a tag the
\* node has a snapshot of.
Snapshot(n, tag) ==
  /\ InScript(n, "idle")
  /\ tag <= night
  /\ exports[n, tag] < (IF <<n, tag>> \in Exposed THEN MaxExports ELSE 1)
  /\ tag \notin snapshots[n]
  /\ snapshots' = [snapshots EXCEPT ![n] = @ \cup {tag}]
  /\ script' = [script EXCEPT ![n] = [pc |-> "export", tag |-> tag]]
  /\ UNCHANGED <<night, exports, tarball, watermark, readers, changes, faultVars>>

\* Mutant: the snapshot is kept.
ExportOnly(n) ==
  /\ InScript(n, "export")
  /\ exports' = [exports EXCEPT ![Copy(n)] = @ + 1]
  /\ Advance(n, "open tarball")
  /\ UNCHANGED <<night, snapshots, tarball, watermark, readers, changes, faultVars>>

\* tar into OUT, its hash and size and the watermark, all on the node's own disk, and
\* nodetool clearsnapshot.
Export(n) ==
  /\ InScript(n, "export")
  /\ exports' = [exports EXCEPT ![Copy(n)] = @ + 1]
  /\ snapshots' = [snapshots EXCEPT ![n] = @ \ {script[n].tag}]
  /\ Advance(n, "open tarball")
  /\ UNCHANGED <<night, tarball, watermark, readers, changes, faultVars>>

\* scp of both files, the tarball first: each file is there before its content is.
OpenTarball(n) ==
  /\ InScript(n, "open tarball")
  /\ tarball' = [tarball EXCEPT ![Copy(n)] = Part]
  /\ Touch(script[n].tag)
  /\ Advance(n, "send tarball")
  /\ UNCHANGED <<night, snapshots, exports, watermark, readers, faultVars>>

SendTarball(n) ==
  /\ InScript(n, "send tarball")
  /\ tarball' = [tarball EXCEPT ![Copy(n)] = exports[Copy(n)]]
  /\ watermark' = [watermark EXCEPT ![Copy(n)] = Part]
  /\ Touch(script[n].tag)
  /\ Advance(n, "send watermark")
  /\ UNCHANGED <<night, snapshots, exports, readers, faultVars>>

SendWatermark(n) ==
  /\ InScript(n, "send watermark")
  /\ watermark' = [watermark EXCEPT ![Copy(n)] = exports[Copy(n)]]
  /\ Touch(script[n].tag)
  /\ EndScript(n)
  /\ UNCHANGED <<night, snapshots, exports, tarball, readers, faultVars>>

\* A fault that befalls a copy.
Fault(c) ==
  /\ c \in Exposed
  /\ faults < MaxFaults
  /\ faults' = faults + 1
  /\ spoilt' = spoilt \cup {c[2]}

\* The script ends early: a command fails, the connection or the node goes down.
\* What was sent stays.
Interrupt(n) ==
  /\ ~InScript(n, "idle")
  /\ Fault(Copy(n))
  /\ EndScript(n)
  /\ UNCHANGED <<night, snapshots, exports, tarball, watermark, readers, changes>>

\* The connection is lost within the text of the watermark.
CutWatermark(n) ==
  /\ InScript(n, "send watermark")
  /\ Fault(Copy(n))
  /\ watermark' = [watermark EXCEPT ![Copy(n)] = Cut]
  /\ Touch(script[n].tag)
  /\ EndScript(n)
  /\ UNCHANGED <<night, snapshots, exports, tarball, readers>>

\* A tarball on the backup host is damaged, or a copy is removed.
Damage(c) ==
  /\ tarball[c] > 0
  /\ Fault(c)
  /\ tarball' = [tarball EXCEPT ![c] = Part]
  /\ Touch(c[2])
  /\ UNCHANGED <<night, snapshots, script, exports, watermark, readers>>

Remove(c) ==
  /\ watermark[c] # None
  /\ Fault(c)
  /\ tarball' = [tarball EXCEPT ![c] = None]
  /\ watermark' = [watermark EXCEPT ![c] = None]
  /\ Touch(c[2])
  /\ UNCHANGED <<night, snapshots, script, exports, readers>>

------------------------------------------------------------------------------
\* consolidate-checkpoint.sh, and verify-restore.sh below: the schedule of
\* DISASTER_RECOVERY.md keeps the two apart, and each from itself.

InJudge(step) == judge.pc = step
InDrill(step) == drill.pc = step

\* The nodes that have a watermark file of a tag (the glob of both scripts).
Marked(tag) == {n \in Nodes : watermark[n, tag] # None}

\* The files of a glob and the tags of sort -u are taken in their order.
First(x, set) == x \in set /\ \A y \in set : x <= y

\* The tags still to be judged; after the last one the script prints the recovery
\* point and ends.
Remaining(tags) ==
  IF tags = {} THEN NoJudge ELSE [NoJudge EXCEPT !.pc = "tag", !.tags = tags]

\* jq over all watermark files (and manifest.json, whose tag "null" has no file and is
\* never complete).  A watermark that is cut off ends the script, with the error message
\* discarded; an empty one has no tag.  The verdict of a drill that ended is forgotten.
ListTags ==
  /\ InJudge("idle")
  /\ ~InDrill("file")
  /\ judge' = IF \E c \in Copies : watermark[c] = Cut THEN NoJudge
              ELSE Remaining({tag \in Tags : \E n \in Nodes : watermark[n, tag] > 0})
  /\ drill' = NoDrill
  /\ stirred' = {}
  /\ UNCHANGED <<nodeVars, manifest, moved>>

\* The next tag, and its files.
StartTag ==
  /\ InJudge("tag")
  /\ \E tag \in judge.tags :
       /\ First(tag, judge.tags)
       /\ judge' = [NoJudge EXCEPT !.pc = "file", !.tags = judge.tags \ {tag},
                                   !.tag = tag, !.files = Marked(tag)]
  /\ stirred' = stirred \ {"judge"}
  /\ UNCHANGED <<nodeVars, manifest, drill, moved>>

\* Mutant: an empty watermark ends the script as well.
ReadNodeOrEnd ==
  /\ InJudge("file")
  /\ \E n \in judge.files : LET mark == watermark[n, judge.tag] IN
       /\ First(n, judge.files)
       /\ judge' = CASE mark < 0    -> NoJudge
                     [] mark = None -> [judge EXCEPT !.files = @ \ {n}]
                     [] OTHER       -> [judge EXCEPT !.files = @ \ {n}, !.pc = "tarball",
                                                      !.file = n, !.node = {n}]
  /\ UNCHANGED <<nodeVars, manifest, drill, changes>>

\* jq reads a watermark three times.  One that is cut off, or removed by then, ends the
\* script; an empty one has no field.  First the node: a file that is gone is passed
\* over (gone after the test for it, it ends the script like one gone by the next read).
ReadNode ==
  /\ InJudge("file")
  /\ \E n \in judge.files : LET mark == watermark[n, judge.tag] IN
       /\ First(n, judge.files)
       /\ judge' = CASE mark = Cut  -> NoJudge
                     [] mark = None -> [judge EXCEPT !.files = @ \ {n}]
                     [] OTHER       -> [judge EXCEPT !.files = @ \ {n}, !.pc = "tarball",
                                                      !.file = n,
                                                      !.node = IF mark = Part THEN {} ELSE {n}]
  /\ UNCHANGED <<nodeVars, manifest, drill, changes>>

\* The name of its tarball, without which the directory is taken for it.
ReadTarball ==
  /\ InJudge("tarball")
  /\ LET mark == watermark[judge.file, judge.tag] IN
       judge' = IF mark \in {None, Cut} THEN NoJudge
                ELSE [judge EXCEPT !.pc = "sha", !.named = mark # Part]
  /\ UNCHANGED <<nodeVars, manifest, drill, changes>>

\* And the checksum.
ReadSha ==
  /\ InJudge("sha")
  /\ LET mark == watermark[judge.file, judge.tag] IN
       judge' = IF mark \in {None, Cut} THEN NoJudge
                ELSE [judge EXCEPT !.pc = "test", !.sha = mark]
  /\ UNCHANGED <<nodeVars, manifest, drill, changes>>

\* The script goes on to the next file, having counted the node or not.
NextFile ==
  [judge EXCEPT !.pc = "file", !.file = None, !.node = {}, !.named = FALSE, !.sha = None]
Counted == [NextFile EXCEPT !.present = @ \cup judge.node]
NotCounted == [NextFile EXCEPT !.whole = FALSE]

\* The test that the tarball is a file.
TestTarball ==
  /\ InJudge("test")
  /\ judge' = IF judge.named /\ tarball[judge.file, judge.tag] # None
                THEN [judge EXCEPT !.pc = "hash"]
                ELSE NotCounted
  /\ UNCHANGED <<nodeVars, manifest, drill, changes>>

\* Mutant: that the tarball is there is enough.
HashTarballPresent ==
  /\ InJudge("hash")
  /\ judge' = Counted
  /\ UNCHANGED <<nodeVars, manifest, drill, changes>>

\* sha256sum of it, which ends the script when the file is gone, and the comparison.
HashTarball ==
  /\ InJudge("hash")
  /\ LET tar == tarball[judge.file, judge.tag] IN
       judge' = CASE tar = None                 -> NoJudge
                  [] tar > 0 /\ tar = judge.sha -> Counted
                  [] OTHER                      -> NotCounted
  /\ UNCHANGED <<nodeVars, manifest, drill, changes>>

\* The script goes on to the next tag; what was judged is as it is, or was already
\* changed.
Recorded ==
  /\ judge' = Remaining(judge.tags)
  /\ moved' = IF "judge" \in stirred THEN moved \cup {judge.tag} ELSE moved \ {judge.tag}
  /\ stirred' = stirred \ {"judge"}

\* Mutant: a tag is complete when the files that are there were verified.
RecordTagPresent ==
  /\ InJudge("file")
  /\ judge.files = {}
  /\ manifest' = [tag \in DOMAIN manifest \cup {judge.tag} |->
                    IF tag = judge.tag THEN judge.whole ELSE manifest[tag]]
  /\ Recorded
  /\ UNCHANGED <<nodeVars, drill>>

\* The entry of the tag in manifest.json is replaced, by a rename of the new file.
RecordTag ==
  /\ InJudge("file")
  /\ judge.files = {}
  /\ manifest' = [tag \in DOMAIN manifest \cup {judge.tag} |->
                    IF tag = judge.tag THEN judge.whole /\ Nodes \subseteq judge.present
                    ELSE manifest[tag]]
  /\ Recorded
  /\ UNCHANGED <<nodeVars, drill>>

Complete == {tag \in DOMAIN manifest : manifest[tag]}

\* Complete tags whose files are those that were judged.
Untouched == Complete \ moved

\* "latest complete checkpoint", if there is one.
RecoveryPoint == {tag \in Complete : \A other \in Complete : other <= tag}

------------------------------------------------------------------------------
\* verify-restore.sh, of the recovery point or of a tag given by hand.

StartDrill ==
  /\ ~InDrill("file")
  /\ InJudge("idle")
  /\ \E tag \in ByHand \cup RecoveryPoint :
       drill' = [NoDrill EXCEPT !.pc = "file", !.tag = tag, !.files = Marked(tag),
                                !.sure = tag \in RecoveryPoint \cap Untouched]
  /\ stirred' = stirred \ {"drill"}
  /\ UNCHANGED <<nodeVars, manifest, judge, moved>>

\* tar and sstableverify on one node's tarball.  A file that is not all there ends
\* the script without a result.
VerifyNode ==
  /\ InDrill("file")
  /\ \E n \in drill.files :
       LET mark == watermark[n, drill.tag]
           tar  == tarball[n, drill.tag]
           left == [drill EXCEPT !.files = @ \ {n}]
       IN  /\ First(n, drill.files)
           /\ drill' = CASE mark = None -> left
                         [] mark # None /\ (mark < 0 \/ tar <= 0) -> NoDrill
                         [] OTHER -> IF <<n, drill.tag>> \in Rotten
                                       THEN [left EXCEPT !.fail = TRUE]
                                       ELSE [left EXCEPT !.passed = @ \cup {n}]
  /\ UNCHANGED <<nodeVars, manifest, judge, changes>>

\* "verified OK on all nodes", or FAILED.
PrintVerdict ==
  /\ InDrill("file")
  /\ drill.files = {}
  /\ drill' = [drill EXCEPT !.pc = IF drill.fail THEN "failed" ELSE "ok"]
  /\ UNCHANGED <<nodeVars, manifest, judge, changes>>

------------------------------------------------------------------------------

Init ==
  /\ night = 1
  /\ snapshots = [n \in Nodes |-> {}]
  /\ script = [n \in Nodes |-> NoScript]
  /\ exports = [c \in Copies |-> 0]
  /\ tarball = [c \in Copies |-> None]
  /\ watermark = [c \in Copies |-> None]
  /\ manifest = [tag \in {} |-> FALSE]
  /\ judge = NoJudge
  /\ drill = NoDrill
  /\ moved = {}
  /\ stirred = {}
  /\ spoilt = {}
  /\ faults = 0

ScriptStep(n) ==
  \/ Export(n)
  \/ OpenTarball(n) \/ SendTarball(n) \/ SendWatermark(n)

JudgeStep ==
  \/ StartTag \/ ReadNode \/ ReadTarball \/ ReadSha
  \/ TestTarball \/ HashTarball \/ RecordTag

DrillStep == VerifyNode \/ PrintVerdict

Next ==
  \/ NextNight
  \/ \E n \in Nodes :
       \/ \E tag \in Tags : Snapshot(n, tag)
       \/ ScriptStep(n) \/ Interrupt(n) \/ CutWatermark(n)
  \/ \E c \in Copies : Damage(c) \/ Remove(c)
  \/ ListTags \/ JudgeStep
  \/ StartDrill \/ DrillStep

Spec == Init /\ [][Next]_vars

\* Every night has its round on every node, and consolidation runs after it.
FairSpec ==
  /\ Spec
  /\ \A n \in Nodes : WF_vars(ScriptStep(n))
  /\ \A n \in Nodes : SF_vars(exports[n, night] = 0 /\ Snapshot(n, night))
  /\ WF_vars(NextNight)
  /\ WF_vars(JudgeStep) /\ WF_vars(DrillStep)
  /\ SF_vars(ListTags)

------------------------------------------------------------------------------
\* Properties.

\* The steps of consolidation at which it has a tag.
OnFile == {"file", "tarball", "sha", "test", "hash"}

ScriptSteps == {"idle", "export", "open tarball", "send tarball", "send watermark"}

\* Every variable holds values of its kind.
CheckpointTypeOK ==
  /\ night \in Tags
  /\ snapshots \in [Nodes -> SUBSET Tags]
  /\ script \in [Nodes -> [pc : ScriptSteps, tag : Tags \cup {0}]]
  /\ \A n \in Nodes : InScript(n, "idle") <=> script[n].tag = 0
  /\ exports \in [Copies -> Nat]
  /\ tarball \in [Copies -> Int]
  /\ watermark \in [Copies -> Int]
  /\ manifest \in [DOMAIN manifest -> BOOLEAN]
  /\ DOMAIN manifest \subseteq Tags
  /\ judge \in [pc : {"idle", "tag"} \cup OnFile, tags : SUBSET Tags, tag : Tags \cup {0},
                files : SUBSET Nodes, file : Nodes \cup {None}, node : SUBSET Nodes,
                named : BOOLEAN, sha : Int, present : SUBSET Nodes, whole : BOOLEAN]
  /\ drill \in [pc : {"idle", "file", "ok", "failed"}, tag : Tags \cup {0}, sure : BOOLEAN,
                files : SUBSET Nodes, passed : SUBSET Nodes, fail : BOOLEAN]
  /\ moved \subseteq Tags /\ stirred \subseteq {"judge", "drill"}
  /\ spoilt \subseteq Tags /\ faults \in Nat

\* DISASTER_RECOVERY.md: a tag is a recovery point only when the tarballs of all nodes
\* are there and whole.  A node still uploading, a failed one or a damaged tarball never
\* counts, in whatever order the files arrive while they are judged.
CompleteMeansRestorable ==
  \A tag \in Untouched : \A n \in Nodes : tarball[n, tag] > 0

\* A drill of the recovery point that prints OK has tested every node's SSTables.
DrillCoversPoint ==
  drill.pc = "ok" /\ drill.sure /\ "drill" \notin stirred =>
    drill.passed = Nodes

\* checkpoint.sh clears its snapshot: one stays on a node's disk only while a script
\* runs, or when one was cut short.
NoSnapshotLeft ==
  \A n \in Nodes : \A tag \in snapshots[n] : script[n].tag = tag \/ tag \in spoilt

\* Every round that no fault befalls becomes a recovery point, whatever befalls the
\* others; except that a watermark cut off within its text stops all consolidation.
RoundsComplete ==
  \A tag \in Tags :
    <>(tag \in Complete \/ tag \in spoilt \/ \E c \in Copies : watermark[c] = Cut)
==============================================================================
