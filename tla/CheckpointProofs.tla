--------------------------- MODULE CheckpointProofs ---------------------------
(***************************************************************************)
(* What holds of the checkpoints for every number of nodes, nights,        *)
(* exports and faults, whichever tarballs are rotten: the types, that no   *)
(* snapshot stays behind, that a complete tag can be restored and that a   *)
(* drill of the recovery point covers it.                                  *)
(***************************************************************************)
EXTENDS Checkpoint, TLAPS

------------------------------------------------------------------------------
\* The nodes.

Sending == {"open tarball", "send tarball", "send watermark"}

Scripts == [pc : ScriptSteps, tag : Tags \cup {0}]

FilesTyped ==
  /\ tarball \in [Copies -> Nat \cup {Part}]
  /\ watermark \in [Copies -> Nat \cup {Part, Cut}]

NodesTyped ==
  /\ night \in Tags
  /\ snapshots \in [Nodes -> SUBSET Tags]
  /\ script \in [Nodes -> Scripts]
  /\ exports \in [Copies -> Nat]
  /\ spoilt \subseteq Tags /\ faults \in Nat

\* A script that sends has cleared its snapshot.
ScriptInv(n) ==
  /\ InScript(n, "idle") <=> script[n].tag = 0
  /\ script[n].pc \in Sending => script[n].tag \notin snapshots[n]
  /\ \A tag \in snapshots[n] : script[n].tag = tag \/ tag \in spoilt

NodeInv == FilesTyped /\ NodesTyped /\ \A n \in Nodes : ScriptInv(n)

\* A script under way has a tag, and its copy is one of Copies.
LEMMA CopyOfScript ==
  ASSUME NodeInv, NEW n \in Nodes, ~InScript(n, "idle")
  PROVE  script[n].tag \in Tags /\ Copy(n) \in Copies
BY DEF NodeInv, NodesTyped, Scripts, ScriptInv, InScript, Copy, Copies

\* No node has a snapshot, and no file was sent.
LEMMA NodeStart == Init => NodeInv
<1> SUFFICES ASSUME Init PROVE NodeInv
    OBVIOUS
<1> USE TagsAreOrdered DEF Init
<1>1. FilesTyped
      BY DEF FilesTyped, None
<1>2. NodesTyped
      BY DEF NodesTyped, Scripts, NoScript, ScriptSteps
<1>3. \A n \in Nodes : ScriptInv(n)
      BY DEF ScriptInv, InScript, NoScript, Sending
<1> QED
    BY <1>1, <1>2, <1>3 DEF NodeInv

\* What a script leaves of its locals at its end.
LEMMA EndKeeps ==
  ASSUME NodesTyped, NEW n \in Nodes, EndScript(n)
  PROVE  /\ script' \in [Nodes -> Scripts]
         /\ script'[n].pc = "idle" /\ script'[n].tag = 0
         /\ \A other \in Nodes \ {n} : script'[other] = script[other]
BY DEF NodesTyped, EndScript, NoScript, Scripts, ScriptSteps

\* What it has after a command.
LEMMA AdvanceKeeps ==
  ASSUME NodesTyped, NEW n \in Nodes, NEW step \in ScriptSteps, Advance(n, step)
  PROVE  /\ script' \in [Nodes -> Scripts]
         /\ script'[n].pc = step /\ script'[n].tag = script[n].tag
         /\ \A other \in Nodes \ {n} : script'[other] = script[other]
BY DEF NodesTyped, Advance, Scripts

\* Every step of a node and every fault keeps it.
LEMMA NodeStep == NodeInv /\ [Next]_vars => NodeInv'
<1> SUFFICES ASSUME NodeInv, [Next]_vars PROVE NodeInv'
    OBVIOUS
<1> USE DEF NodeInv
<1>1. CASE NextNight
      BY <1>1 DEF NextNight, NodesTyped, FilesTyped, ScriptInv, InScript, faultVars
<1>2. ASSUME NEW n \in Nodes, NEW tag \in Tags, Snapshot(n, tag)
      PROVE  NodeInv'
  <2>1. /\ script' = [script EXCEPT ![n] = [pc |-> "export", tag |-> tag]]
        /\ snapshots' = [snapshots EXCEPT ![n] = @ \cup {tag}]
        /\ InScript(n, "idle")
        /\ UNCHANGED <<night, exports, tarball, watermark, spoilt, faults>>
        BY <1>2 DEF Snapshot, faultVars
  <2>2. FilesTyped' /\ NodesTyped'
        BY <2>1 DEF FilesTyped, NodesTyped, Scripts, ScriptSteps
  <2>3. ScriptInv(n)'
        BY <2>1, TagsAreOrdered DEF ScriptInv, InScript, NodesTyped, Sending
  <2>4. \A other \in Nodes \ {n} : ScriptInv(other)'
        BY <2>1 DEF ScriptInv, InScript, NodesTyped
  <2> QED
      BY <2>2, <2>3, <2>4
<1>3. ASSUME NEW n \in Nodes, Export(n)
      PROVE  NodeInv'
  <2>1. /\ InScript(n, "export")
        /\ exports' = [exports EXCEPT ![Copy(n)] = @ + 1]
        /\ snapshots' = [snapshots EXCEPT ![n] = @ \ {script[n].tag}]
        /\ Advance(n, "open tarball")
        /\ UNCHANGED <<night, tarball, watermark, spoilt, faults>>
        BY <1>3 DEF Export, faultVars
  <2>2. /\ script' \in [Nodes -> Scripts]
        /\ script'[n].pc = "open tarball" /\ script'[n].tag = script[n].tag
        /\ \A other \in Nodes \ {n} : script'[other] = script[other]
        BY <2>1, AdvanceKeeps DEF ScriptSteps
  <2>3. Copy(n) \in Copies
        BY <2>1, CopyOfScript DEF InScript
  <2>4. FilesTyped' /\ NodesTyped'
    <3>1. exports[Copy(n)] + 1 \in Nat
          BY <2>3 DEF NodesTyped
    <3>2. exports' \in [Copies -> Nat]
          BY <2>1, <3>1 DEF NodesTyped
    <3>3. snapshots' \in [Nodes -> SUBSET Tags]
          BY <2>1 DEF NodesTyped
    <3> QED
        BY <2>1, <2>2, <3>2, <3>3 DEF FilesTyped, NodesTyped
  <2>5. ScriptInv(n)'
        BY <2>1, <2>2 DEF ScriptInv, InScript, NodesTyped, Sending
  <2>6. \A other \in Nodes \ {n} : ScriptInv(other)'
        BY <2>1, <2>2 DEF ScriptInv, InScript, NodesTyped
  <2> QED
      BY <2>4, <2>5, <2>6
<1>4. ASSUME NEW n \in Nodes, OpenTarball(n) \/ SendTarball(n)
      PROVE  NodeInv'
  <2>1. PICK step \in Sending : Advance(n, step)
        BY <1>4 DEF OpenTarball, SendTarball, Sending
  <2>2. /\ script[n].pc \in Sending
        /\ UNCHANGED <<night, snapshots, exports, spoilt, faults>>
        BY <1>4 DEF OpenTarball, SendTarball, faultVars, InScript, Sending
  <2>3. step \in ScriptSteps
        BY DEF Sending, ScriptSteps
  <2>4. /\ script' \in [Nodes -> Scripts]
        /\ script'[n].pc = step /\ script'[n].tag = script[n].tag
        /\ \A other \in Nodes \ {n} : script'[other] = script[other]
        BY <2>1, <2>3, AdvanceKeeps
  <2>5. NodesTyped' /\ exports[Copy(n)] \in Nat /\ Copy(n) \in Copies
        BY <2>2, <2>4, CopyOfScript DEF NodesTyped, InScript, Sending
  <2>6. FilesTyped'
        BY <1>4, <2>5 DEF OpenTarball, SendTarball, FilesTyped
  <2>7. ScriptInv(n)'
        BY <2>2, <2>4 DEF ScriptInv, InScript, Sending
  <2>8. \A other \in Nodes \ {n} : ScriptInv(other)'
        BY <2>2, <2>4 DEF ScriptInv, InScript
  <2> QED
      BY <2>5, <2>6, <2>7, <2>8
<1>5. ASSUME NEW n \in Nodes, SendWatermark(n) \/ CutWatermark(n) \/ Interrupt(n)
      PROVE  NodeInv'
  <2>1. EndScript(n) /\ ~InScript(n, "idle")
        BY <1>5 DEF SendWatermark, CutWatermark, Interrupt, InScript
  <2>2. /\ script' \in [Nodes -> Scripts]
        /\ script'[n].pc = "idle" /\ script'[n].tag = 0
        /\ \A other \in Nodes \ {n} : script'[other] = script[other]
        BY <2>1, EndKeeps
  <2>3. Copy(n) \in Copies /\ script[n].tag \in Tags /\ Copy(n)[2] = script[n].tag
        BY <2>1, CopyOfScript DEF Copy
  <2>4. UNCHANGED <<night, snapshots, exports>>
        BY <1>5 DEF SendWatermark, CutWatermark, Interrupt
  <2>5. /\ spoilt' \subseteq Tags /\ faults' \in Nat /\ spoilt \subseteq spoilt'
        /\ script[n].pc \in Sending \/ script[n].tag \in spoilt'
    <3>1. CASE SendWatermark(n)
          BY <3>1 DEF SendWatermark, faultVars, NodesTyped, InScript, Sending
    <3>2. CASE Fault(Copy(n))
          BY <2>3, <3>2 DEF Fault, NodesTyped
    <3> QED
        BY <1>5, <3>1, <3>2 DEF CutWatermark, Interrupt
  <2>6. NodesTyped'
        BY <2>2, <2>4, <2>5 DEF NodesTyped
  <2>7. FilesTyped'
        BY <1>5, <2>3 DEF SendWatermark, CutWatermark, Interrupt, FilesTyped, NodesTyped
  <2>8. ScriptInv(n)'
        BY <2>2, <2>4, <2>5 DEF ScriptInv, InScript, Sending
  <2>9. \A other \in Nodes \ {n} : ScriptInv(other)'
        BY <2>2, <2>4, <2>5 DEF ScriptInv, InScript
  <2> QED
      BY <2>6, <2>7, <2>8, <2>9
<1>6. ASSUME NEW c \in Copies, Damage(c) \/ Remove(c)
      PROVE  NodeInv'
  <2>1. c[2] \in Tags
        BY DEF Copies
  <2>2. UNCHANGED <<night, snapshots, script, exports>>
        BY <1>6 DEF Damage, Remove
  <2>3. spoilt' \subseteq Tags /\ faults' \in Nat /\ spoilt \subseteq spoilt'
        BY <1>6, <2>1 DEF Damage, Remove, Fault, NodesTyped
  <2>4. FilesTyped'
        BY <1>6 DEF Damage, Remove, FilesTyped, None
  <2>5. NodesTyped' /\ \A n \in Nodes : ScriptInv(n)'
        BY <2>2, <2>3 DEF NodesTyped, ScriptInv, InScript
  <2> QED
      BY <2>4, <2>5
<1>7. CASE UNCHANGED nodeVars
      BY <1>7 DEF nodeVars, FilesTyped, NodesTyped, ScriptInv, InScript
<1> QED
    BY <1>1, <1>2, <1>3, <1>4, <1>5, <1>6, <1>7
    DEF Next, ScriptStep, JudgeStep, DrillStep, ListTags, StartTag, ReadNode, ReadTarball,
        ReadSha, TestTarball, HashTarball, RecordTag, StartDrill, VerifyNode, PrintVerdict,
        vars, nodeVars
------------------------------------------------------------------------------
\* What the nodes and the faults do to the files, as the two scripts of the backup
\* host see it: the files of one tag change at a time, and the observers are told.

ChangeOf(tag) ==
  /\ Touch(tag)
  /\ \A n \in Nodes, other \in Tags \ {tag} :
       tarball'[n, other] = tarball[n, other] /\ watermark'[n, other] = watermark[n, other]

FilesStep ==
  /\ UNCHANGED readers
  /\ UNCHANGED <<tarball, watermark, moved, stirred>> \/ \E tag \in Tags : ChangeOf(tag)

NodeAction ==
  \/ NextNight
  \/ \E n \in Nodes :
       \/ \E tag \in Tags : Snapshot(n, tag)
       \/ ScriptStep(n) \/ Interrupt(n) \/ CutWatermark(n)
  \/ \E c \in Copies : Damage(c) \/ Remove(c)

\* The files of the other tags are other files.
LEMMA OneCopyChanges ==
  ASSUME FilesTyped, NEW c \in Copies,
         \E v : tarball' = [tarball EXCEPT ![c] = v] \/ tarball' = tarball,
         \E v : watermark' = [watermark EXCEPT ![c] = v] \/ watermark' = watermark
  PROVE  \A n \in Nodes, other \in Tags \ {c[2]} :
           tarball'[n, other] = tarball[n, other] /\ watermark'[n, other] = watermark[n, other]
<1> SUFFICES ASSUME NEW n \in Nodes, NEW other \in Tags \ {c[2]}
             PROVE  /\ tarball'[n, other] = tarball[n, other]
                    /\ watermark'[n, other] = watermark[n, other]
    OBVIOUS
<1>1. <<n, other>> \in Copies /\ <<n, other>> # c
      BY DEF Copies
<1> QED
    BY <1>1 DEF FilesTyped

\* Every step of a node and every fault is one of these.
LEMMA NodeActionOnFiles == NodeInv /\ NodeAction => FilesStep
<1> SUFFICES ASSUME NodeInv, NodeAction PROVE FilesStep
    OBVIOUS
<1>1. CASE NextNight \/ \E n \in Nodes : (\E tag \in Tags : Snapshot(n, tag)) \/ Export(n)
                                       \/ Interrupt(n)
      BY <1>1 DEF NextNight, Snapshot, Export, Interrupt, FilesStep, changes
<1>2. ASSUME NEW n \in Nodes,
             OpenTarball(n) \/ SendTarball(n) \/ SendWatermark(n) \/ CutWatermark(n)
      PROVE  FilesStep
  <2>1. Copy(n) \in Copies /\ script[n].tag \in Tags /\ Copy(n)[2] = script[n].tag
        BY <1>2, CopyOfScript
        DEF OpenTarball, SendTarball, SendWatermark, CutWatermark, InScript, Copy
  <2>2. /\ Touch(script[n].tag) /\ UNCHANGED readers
        /\ \E v : tarball' = [tarball EXCEPT ![Copy(n)] = v] \/ tarball' = tarball
        /\ \E v : watermark' = [watermark EXCEPT ![Copy(n)] = v] \/ watermark' = watermark
        BY <1>2 DEF OpenTarball, SendTarball, SendWatermark, CutWatermark
  <2>3. ChangeOf(script[n].tag)
        BY <2>1, <2>2, OneCopyChanges DEF ChangeOf, NodeInv
  <2> QED
      BY <2>1, <2>2, <2>3 DEF FilesStep
<1>3. ASSUME NEW c \in Copies, Damage(c) \/ Remove(c)
      PROVE  FilesStep
  <2>1. /\ Touch(c[2]) /\ UNCHANGED readers /\ c[2] \in Tags
        /\ \E v : tarball' = [tarball EXCEPT ![c] = v] \/ tarball' = tarball
        /\ \E v : watermark' = [watermark EXCEPT ![c] = v] \/ watermark' = watermark
        BY <1>3 DEF Damage, Remove, Copies
  <2>2. ChangeOf(c[2])
        BY <2>1, OneCopyChanges DEF ChangeOf, NodeInv
  <2> QED
      BY <2>1, <2>2 DEF FilesStep
<1> QED
    BY <1>1, <1>2, <1>3 DEF NodeAction, ScriptStep

------------------------------------------------------------------------------
\* consolidate-checkpoint.sh.

Whole(n, tag) == tarball[n, tag] > 0 /\ watermark[n, tag] > 0

Judges == [pc : {"idle", "tag"} \cup OnFile, tags : SUBSET Tags, tag : Tags \cup {0},
           files : SUBSET Nodes, file : Nodes \cup {None}, node : SUBSET Nodes,
           named : BOOLEAN, sha : Int, present : SUBSET Nodes, whole : BOOLEAN]

JudgeTyped ==
  /\ judge \in Judges
  /\ manifest \in [DOMAIN manifest -> BOOLEAN] /\ DOMAIN manifest \subseteq Tags
  /\ moved \subseteq Tags /\ stirred \subseteq {"judge", "drill"}
  /\ judge.pc \in OnFile => judge.tag \in Tags

\* What was read of a watermark is in it as long as the files do not change.
FileInv ==
  /\ judge.pc \in OnFile \ {"file"} => judge.file \in Nodes /\ judge.node \subseteq {judge.file}
  /\ judge.pc \in {"test", "hash"} /\ "judge" \notin stirred =>
       watermark[judge.file, judge.tag] = judge.sha

\* As long as the files of its tag do not change, the script has seen those that are
\* there; so the tags on record as complete are, until their files change.
JudgeInv ==
  /\ JudgeTyped
  /\ FileInv
  /\ judge.pc \in OnFile /\ "judge" \notin stirred =>
       \A n \in judge.present : Whole(n, judge.tag)
  /\ \A tag \in Untouched : \A n \in Nodes : Whole(n, tag)

\* No tag was judged.
LEMMA JudgeStart == Init => JudgeInv
<1> SUFFICES ASSUME Init PROVE JudgeInv
    OBVIOUS
<1> USE DEF Init
<1>1. judge \in Judges /\ InJudge("idle")
      BY DEF NoJudge, Judges, None, InJudge, OnFile
<1>2. DOMAIN manifest = {} /\ manifest \in [DOMAIN manifest -> BOOLEAN]
      OBVIOUS
<1>3. Untouched = {}
      BY <1>2 DEF Untouched, Complete
<1> QED
    BY <1>1, <1>2, <1>3 DEF JudgeInv, JudgeTyped, FileInv, InJudge, OnFile

\* A node sends files, or a fault befalls them, while the script runs.
LEMMA JudgeAmidFiles == JudgeInv /\ FilesStep => JudgeInv'
<1> SUFFICES ASSUME JudgeInv, FilesStep PROVE JudgeInv'
    OBVIOUS
<1> USE DEF JudgeInv, JudgeTyped, InJudge
<1>1. UNCHANGED <<manifest, judge>>
      BY DEF FilesStep, readers
<1>2. CASE UNCHANGED <<tarball, watermark, moved, stirred>>
      BY <1>1, <1>2 DEF Untouched, Complete, Whole, FileInv
<1>3. ASSUME NEW tag \in Tags, ChangeOf(tag)
      PROVE  JudgeInv'
  <2>1. /\ moved' = moved \cup ({tag} \cap DOMAIN manifest)
        /\ stirred' \subseteq {"judge", "drill"} /\ stirred \subseteq stirred'
        /\ judge.tag = tag => "judge" \in stirred'
        BY <1>3 DEF ChangeOf, Touch
  <2>2. \A n \in Nodes, other \in Tags \ {tag} :
          /\ watermark'[n, other] = watermark[n, other]
          /\ Whole(n, other)' <=> Whole(n, other)
        BY <1>3 DEF ChangeOf, Whole
  <2>3. JudgeTyped'
        BY <1>1, <2>1
  <2>4. Untouched' \subseteq Untouched \ {tag} /\ Untouched \subseteq Tags
        BY <1>1, <2>1 DEF Untouched, Complete
  <2>5. \A other \in Untouched' : \A n \in Nodes : Whole(n, other)'
        BY <2>2, <2>4
  <2>6. ASSUME judge.pc \in OnFile, "judge" \notin stirred'
        PROVE  \A n \in judge'.present : Whole(n, judge.tag)'
    <3>1. judge.tag \in Tags \ {tag} /\ judge.present \subseteq Nodes /\ "judge" \notin stirred
          BY <2>1, <2>6 DEF Judges
    <3>2. \A n \in judge.present : Whole(n, judge.tag)
          BY <2>6, <3>1
    <3> QED
        BY <1>1, <2>2, <3>1, <3>2 DEF Whole
  <2>7. ASSUME judge.pc \in {"test", "hash"}, "judge" \notin stirred'
        PROVE  watermark'[judge.file, judge.tag] = judge.sha
    <3>1. judge.pc \in OnFile \ {"file"} /\ "judge" \notin stirred
          BY <2>1, <2>7 DEF OnFile
    <3>2. judge.tag \in Tags \ {tag} /\ judge.file \in Nodes
          BY <2>1, <2>7, <3>1 DEF FileInv
    <3>3. watermark[judge.file, judge.tag] = judge.sha
          BY <2>7, <3>1 DEF FileInv
    <3> QED
        BY <2>2, <3>2, <3>3
  <2>8. FileInv'
        BY <1>1, <2>7 DEF FileInv
  <2> QED
      BY <1>1, <2>3, <2>5, <2>6, <2>8
<1> QED
    BY <1>2, <1>3 DEF FilesStep
\* The locals of the script before its first tag and at the start of one.
LEMMA JudgeLocals ==
  /\ NoJudge \in Judges /\ NoJudge.pc = "idle"
  /\ \A tags \in SUBSET Tags :
       Remaining(tags) \in Judges /\ Remaining(tags).pc \in {"idle", "tag"}
  /\ \A tag \in Tags, tags \in SUBSET Tags, files \in SUBSET Nodes :
       [NoJudge EXCEPT !.pc = "file", !.tags = tags, !.tag = tag, !.files = files] \in Judges
<1>1. NoJudge \in Judges /\ NoJudge.pc = "idle"
      BY DEF NoJudge, Judges, None, OnFile
<1>2. ASSUME NEW tags \in SUBSET Tags
      PROVE  Remaining(tags) \in Judges /\ Remaining(tags).pc \in {"idle", "tag"}
      BY <1>1 DEF Remaining, Judges
<1>3. ASSUME NEW tag \in Tags, NEW tags \in SUBSET Tags, NEW files \in SUBSET Nodes
      PROVE  [NoJudge EXCEPT !.pc = "file", !.tags = tags, !.tag = tag, !.files = files] \in Judges
      BY <1>1 DEF Judges, OnFile
<1> QED
    BY <1>1, <1>2, <1>3

\* A command that only reads the files keeps the invariant, if it knows what it read
\* and counts a node only when its files are whole.
LEMMA ReadKeeps ==
  ASSUME JudgeInv, judge.pc \in OnFile, judge' \in Judges, judge'.pc \in OnFile,
         judge'.tag = judge.tag, FileInv',
         UNCHANGED <<tarball, watermark, manifest, moved, stirred>>,
         "judge" \notin stirred =>
           \A n \in judge'.present \ judge.present : Whole(n, judge.tag)
  PROVE  JudgeInv'
<1>1. Untouched' = Untouched /\ \A n, tag : Whole(n, tag)' <=> Whole(n, tag)
      BY DEF Untouched, Complete, Whole
<1>2. JudgeTyped'
      BY DEF JudgeInv, JudgeTyped
<1>3. "judge" \notin stirred' => \A n \in judge'.present : Whole(n, judge.tag)
      BY DEF JudgeInv
<1> QED
    BY <1>1, <1>2, <1>3 DEF JudgeInv

\* So does one that ends the script.
LEMMA EndedKeeps ==
  ASSUME JudgeInv, judge' = NoJudge,
         UNCHANGED <<tarball, watermark, manifest, moved, stirred>>
  PROVE  JudgeInv'
<1>1. judge' \in Judges /\ judge'.pc = "idle"
      BY JudgeLocals
<1> QED
    BY <1>1 DEF JudgeInv, JudgeTyped, FileInv, OnFile, Untouched, Complete, Whole

\* The read of the node.
LEMMA ReadNodeKeeps ==
  ASSUME JudgeInv, ReadNode
  PROVE  JudgeInv'
<1>1. PICK n, mark :
        /\ n \in judge.files
        /\ judge' = CASE mark = Cut  -> NoJudge
                      [] mark = None -> [judge EXCEPT !.files = @ \ {n}]
                      [] OTHER -> [judge EXCEPT !.files = @ \ {n}, !.pc = "tarball", !.file = n,
                                                !.node = IF mark = Part THEN {} ELSE {n}]
      BY DEF ReadNode
<1>2. /\ UNCHANGED <<tarball, watermark, manifest, moved, stirred>>
      /\ judge.pc = "file" /\ judge.pc \in OnFile
      BY DEF ReadNode, nodeVars, changes, InJudge, OnFile
<1>3. judge \in Judges /\ n \in Nodes
      BY <1>1 DEF JudgeInv, JudgeTyped, Judges
<1>4. CASE judge' = NoJudge
      BY <1>2, <1>4, EndedKeeps
<1>5. CASE judge' = [judge EXCEPT !.files = @ \ {n}]
  <2>1. /\ judge' \in Judges /\ judge'.pc = "file" /\ judge'.tag = judge.tag
        /\ judge'.present = judge.present
        BY <1>2, <1>3, <1>5 DEF Judges
  <2> QED
      BY <1>2, <2>1, ReadKeeps DEF FileInv
<1>6. ASSUME NEW node \in SUBSET {n},
             judge' = [judge EXCEPT !.files = @ \ {n}, !.pc = "tarball", !.file = n,
                                    !.node = node]
      PROVE  JudgeInv'
  <2>1. /\ judge' \in Judges /\ judge'.pc = "tarball" /\ judge'.tag = judge.tag
        /\ judge'.present = judge.present /\ judge'.file = n /\ judge'.node = node
        BY <1>3, <1>6 DEF Judges, OnFile
  <2>2. FileInv' /\ judge'.pc \in OnFile
        BY <1>3, <2>1 DEF FileInv, OnFile
  <2> QED
      BY <1>2, <2>1, <2>2, ReadKeeps
<1> DEFINE node == IF mark = Part THEN {} ELSE {n}
           read == [judge EXCEPT !.files = @ \ {n}, !.pc = "tarball", !.file = n, !.node = node]
<1>7. node \in SUBSET {n}
      OBVIOUS
<1>8. judge' \in {NoJudge, [judge EXCEPT !.files = @ \ {n}], read}
      BY <1>1
<1>9. CASE judge' = read
  <2> HIDE DEF node
  <2> QED
      BY <1>6, <1>7, <1>9
<1> QED
    BY <1>4, <1>5, <1>8, <1>9

\* The two other reads.
LEMMA ReadFieldKeeps ==
  ASSUME NodeInv, JudgeInv, ReadTarball \/ ReadSha
  PROVE  JudgeInv'
<1> DEFINE mark == watermark[judge.file, judge.tag]
<1>1. /\ UNCHANGED <<tarball, watermark, manifest, moved, stirred>>
      /\ judge.pc \in OnFile \ {"file"}
      BY DEF ReadTarball, ReadSha, nodeVars, changes, InJudge, OnFile
<1>2. /\ judge \in Judges /\ judge.tag \in Tags
      /\ judge.file \in Nodes /\ judge.node \subseteq {judge.file}
      BY <1>1 DEF JudgeInv, JudgeTyped, FileInv
<1>3. mark \in Int
  <2>1. <<judge.file, judge.tag>> \in Copies
        BY <1>2 DEF Copies
  <2>2. mark \in Nat \cup {Part, Cut}
        BY <2>1 DEF NodeInv, FilesTyped
  <2>3. \A m \in Nat \cup {Part, Cut} : m \in Int
        BY DEF Part, Cut
  <2> QED
      BY <2>2, <2>3
<1>4. CASE judge' = NoJudge
      BY <1>1, <1>4, EndedKeeps
<1>5. CASE judge' = [judge EXCEPT !.pc = "sha", !.named = mark # Part]
  <2>1. (mark # Part) \in BOOLEAN
        OBVIOUS
  <2>2. /\ judge' \in Judges /\ judge'.pc = "sha" /\ judge'.tag = judge.tag
        /\ judge'.present = judge.present /\ judge'.file = judge.file
        /\ judge'.node = judge.node
        BY <1>2, <1>5, <2>1 DEF Judges, OnFile
  <2>3. FileInv' /\ judge'.pc \in OnFile
        BY <1>2, <2>2 DEF FileInv, OnFile
  <2> QED
      BY <1>1, <2>2, <2>3, ReadKeeps
<1>6. CASE judge' = [judge EXCEPT !.pc = "test", !.sha = mark]
  <2>1. /\ judge' \in Judges /\ judge'.pc = "test" /\ judge'.tag = judge.tag
        /\ judge'.present = judge.present /\ judge'.file = judge.file
        /\ judge'.node = judge.node /\ judge'.sha = mark
        BY <1>2, <1>3, <1>6 DEF Judges, OnFile
  <2>2. FileInv' /\ judge'.pc \in OnFile
        BY <1>1, <1>2, <2>1 DEF FileInv, OnFile
  <2> QED
      BY <1>1, <2>1, <2>2, ReadKeeps
<1> QED
    BY <1>4, <1>5, <1>6 DEF ReadTarball, ReadSha

\* The way on to the next file keeps what must be kept of the locals.
LEMMA NextFileLocals ==
  ASSUME judge \in Judges
  PROVE  /\ Counted \in Judges /\ Counted.pc = "file" /\ Counted.tag = judge.tag
         /\ Counted.present = judge.present \cup judge.node
         /\ NotCounted \in Judges /\ NotCounted.pc = "file" /\ NotCounted.tag = judge.tag
         /\ NotCounted.present = judge.present
<1>1. /\ NextFile \in Judges /\ NextFile.pc = "file" /\ NextFile.tag = judge.tag
      /\ NextFile.present = judge.present
  <2>1. None \in Nodes \cup {None} /\ None \in Int /\ {} \in SUBSET Nodes /\ "file" \in OnFile
        BY DEF None, OnFile
  <2> QED
      BY <2>1 DEF NextFile, Judges
<1>2. judge.node \subseteq Nodes /\ judge.present \subseteq Nodes
      BY DEF Judges
<1>3. /\ Counted \in Judges /\ Counted.pc = "file" /\ Counted.tag = judge.tag
      /\ Counted.present = judge.present \cup judge.node
      BY <1>1, <1>2 DEF Counted, Judges
<1>4. /\ NotCounted \in Judges /\ NotCounted.pc = "file" /\ NotCounted.tag = judge.tag
      /\ NotCounted.present = judge.present
      BY <1>1 DEF NotCounted, Judges
<1> QED
    BY <1>3, <1>4

\* The test of the tarball and its checksum.
LEMMA HashKeeps ==
  ASSUME JudgeInv, TestTarball \/ HashTarball
  PROVE  JudgeInv'
<1> DEFINE tar == tarball[judge.file, judge.tag]
<1>1. /\ UNCHANGED <<tarball, watermark, manifest, moved, stirred>>
      /\ judge.pc \in {"test", "hash"} /\ judge.pc \in OnFile
      BY DEF TestTarball, HashTarball, nodeVars, changes, InJudge, OnFile
<1>2. /\ judge \in Judges
      /\ judge.file \in Nodes /\ judge.node \subseteq {judge.file}
      BY <1>1 DEF JudgeInv, JudgeTyped, FileInv, OnFile
<1>3. CASE judge' = NoJudge
      BY <1>1, <1>3, EndedKeeps
<1>4. CASE judge' = NotCounted
  <2>1. FileInv' /\ judge'.pc \in OnFile
        BY <1>2, <1>4, NextFileLocals DEF FileInv, OnFile
  <2> QED
      BY <1>1, <1>2, <1>4, <2>1, NextFileLocals, ReadKeeps
<1>5. CASE judge' = [judge EXCEPT !.pc = "hash"]
  <2>1. /\ judge' \in Judges /\ judge'.pc = "hash" /\ judge'.tag = judge.tag
        /\ judge'.present = judge.present /\ judge'.file = judge.file
        /\ judge'.node = judge.node /\ judge'.sha = judge.sha
        BY <1>2, <1>5 DEF Judges, OnFile
  <2>2. FileInv' /\ judge'.pc \in OnFile
        BY <1>1, <1>2, <2>1 DEF FileInv, OnFile, JudgeInv
  <2> QED
      BY <1>1, <2>1, <2>2, ReadKeeps
<1>6. CASE judge' = Counted /\ tar > 0 /\ tar = judge.sha
  <2>1. FileInv' /\ judge'.pc \in OnFile
        BY <1>2, <1>6, NextFileLocals DEF FileInv, OnFile
  <2>2. "judge" \notin stirred => Whole(judge.file, judge.tag)
        BY <1>1, <1>6 DEF JudgeInv, FileInv, Whole
  <2>3. judge'.present \ judge.present \subseteq {judge.file}
        BY <1>2, <1>6, NextFileLocals
  <2> QED
      BY <1>1, <1>2, <1>6, <2>1, <2>2, <2>3, NextFileLocals, ReadKeeps
<1> QED
    BY <1>3, <1>4, <1>5, <1>6 DEF TestTarball, HashTarball

\* The script itself.
LEMMA JudgeActs == NodeInv /\ JudgeInv /\ (ListTags \/ JudgeStep) => JudgeInv'
<1> SUFFICES ASSUME NodeInv, JudgeInv, ListTags \/ JudgeStep PROVE JudgeInv'
    OBVIOUS
<1> USE DEF JudgeInv, JudgeTyped, InJudge
<1>1. UNCHANGED <<tarball, watermark>>
      BY DEF ListTags, JudgeStep, StartTag, ReadNode, ReadTarball, ReadSha, TestTarball,
             HashTarball, RecordTag, nodeVars
<1>2. ASSUME judge' \in Judges, judge'.pc \in {"idle", "tag"},
             UNCHANGED <<manifest, moved>>, stirred' \subseteq stirred
      PROVE  JudgeInv'
      BY <1>1, <1>2 DEF Untouched, Complete, Whole, FileInv, OnFile
<1>3. NoJudge \in Judges /\ NoJudge.pc = "idle"
      BY JudgeLocals
<1>4. ASSUME NEW tags \in SUBSET Tags
      PROVE  Remaining(tags) \in Judges /\ Remaining(tags).pc \in {"idle", "tag"}
      BY JudgeLocals
<1>5. CASE ListTags
  <2>1. judge' = NoJudge \/ \E tags \in SUBSET Tags : judge' = Remaining(tags)
        BY <1>5 DEF ListTags
  <2>2. judge' \in Judges /\ judge'.pc \in {"idle", "tag"}
        BY <1>3, <1>4, <2>1
  <2> QED
      BY <1>2, <1>5, <2>2 DEF ListTags
<1>6. CASE StartTag
  <2>1. PICK tag \in judge.tags :
          judge' = [NoJudge EXCEPT !.pc = "file", !.tags = judge.tags \ {tag},
                                   !.tag = tag, !.files = Marked(tag)]
        BY <1>6 DEF StartTag
  <2>2. tag \in Tags /\ Marked(tag) \subseteq Nodes /\ judge.tags \ {tag} \subseteq Tags
        BY DEF Judges, Marked
  <2>3. judge' \in Judges
        BY <2>1, <2>2, JudgeLocals
  <2>4. judge'.pc = "file" /\ judge'.tag \in Tags /\ judge'.present = {}
        BY <2>1, <2>2 DEF NoJudge
  <2>5. UNCHANGED <<manifest, moved>> /\ stirred' \subseteq stirred
        BY <1>6 DEF StartTag
  <2> QED
      BY <1>1, <2>3, <2>4, <2>5 DEF Untouched, Complete, Whole, FileInv, OnFile
<1>7. CASE ReadNode
      BY <1>7, ReadNodeKeeps
<1>8. CASE ReadTarball \/ ReadSha
      BY <1>8, ReadFieldKeeps
<1>9. CASE TestTarball \/ HashTarball
      BY <1>9, HashKeeps
<1>10. CASE RecordTag
  <2> DEFINE tag == judge.tag
  <2>1. /\ judge.pc = "file" /\ judge.pc \in OnFile /\ tag \in Tags
        /\ judge' = Remaining(judge.tags)
        /\ moved' = IF "judge" \in stirred THEN moved \cup {tag} ELSE moved \ {tag}
        /\ stirred' = stirred \ {"judge"}
        /\ manifest' = [t \in DOMAIN manifest \cup {tag} |->
                           IF t = tag THEN judge.whole /\ Nodes \subseteq judge.present
                           ELSE manifest[t]]
        BY <1>10 DEF RecordTag, Recorded, OnFile
  <2>2. judge' \in Judges /\ judge'.pc \in {"idle", "tag"}
        BY <1>4, <2>1 DEF Judges
  <2>3. JudgeTyped'
        BY <2>1, <2>2 DEF OnFile
  <2>4. ASSUME NEW t \in Untouched', NEW n \in Nodes
        PROVE  Whole(n, t)'
    <3>1. t \in DOMAIN manifest' /\ manifest'[t] /\ t \notin moved'
          BY DEF Untouched, Complete
    <3>2. CASE t = tag
      <4>1. Nodes \subseteq judge.present /\ "judge" \notin stirred
            BY <2>1, <3>1, <3>2
      <4>2. Whole(n, tag)
            BY <2>1, <4>1
      <4> QED
          BY <1>1, <3>2, <4>2 DEF Whole
    <3>3. CASE t # tag
      <4>1. t \in DOMAIN manifest /\ manifest[t] /\ t \notin moved
            BY <2>1, <3>1, <3>3
      <4>2. Whole(n, t)
            BY <4>1 DEF Untouched, Complete
      <4> QED
          BY <1>1, <4>2 DEF Whole
    <3> QED
        BY <3>2, <3>3
  <2>5. FileInv'
        BY <2>2 DEF FileInv, OnFile
  <2> QED
      BY <2>2, <2>3, <2>4, <2>5 DEF OnFile
<1> QED
    BY <1>5, <1>6, <1>7, <1>8, <1>9, <1>10 DEF JudgeStep

\* The drill only reads.
LEMMA JudgeAmidDrill == JudgeInv /\ (StartDrill \/ DrillStep) => JudgeInv'
<1> SUFFICES ASSUME JudgeInv, StartDrill \/ DrillStep PROVE JudgeInv'
    OBVIOUS
<1>1. /\ UNCHANGED <<tarball, watermark, manifest, judge, moved>>
      /\ stirred' \subseteq stirred /\ ("judge" \in stirred' <=> "judge" \in stirred)
      BY DEF StartDrill, DrillStep, VerifyNode, PrintVerdict, nodeVars, changes
<1> QED
    BY <1>1 DEF JudgeInv, JudgeTyped, FileInv, InJudge, Untouched, Complete, Whole
------------------------------------------------------------------------------
\* verify-restore.sh.

Drills == [pc : {"idle", "file", "ok", "failed"}, tag : Tags \cup {0}, sure : BOOLEAN,
           files : SUBSET Nodes, passed : SUBSET Nodes, fail : BOOLEAN]

\* A drill of a recovery point whose files stay as they were judged has all nodes
\* before it or behind it.
Covers == drill.fail \/ drill.files \cup drill.passed = Nodes

DrillInv ==
  /\ drill \in Drills
  /\ InDrill("file") => drill.tag \in Tags
  /\ InDrill("file") /\ drill.sure /\ "drill" \notin stirred =>
       Covers /\ \A n \in Nodes : watermark[n, drill.tag] # None
  /\ DrillCoversPoint

\* No drill was begun.
LEMMA DrillStart == Init => DrillInv
BY DEF Init, DrillInv, Drills, NoDrill, InDrill, DrillCoversPoint

\* A node sends files, or a fault befalls them, during the drill.
LEMMA DrillAmidFiles == DrillInv /\ FilesStep => DrillInv'
<1> SUFFICES ASSUME DrillInv, FilesStep PROVE DrillInv'
    OBVIOUS
<1>1. UNCHANGED drill
      BY DEF FilesStep, readers
<1>2. CASE UNCHANGED <<tarball, watermark, moved, stirred>>
      BY <1>1, <1>2 DEF DrillInv, InDrill, Covers, DrillCoversPoint
<1>3. ASSUME NEW tag \in Tags, ChangeOf(tag)
      PROVE  DrillInv'
  <2>1. /\ stirred \subseteq stirred'
        /\ InDrill("file") /\ drill.tag = tag => "drill" \in stirred'
        BY <1>3 DEF ChangeOf, Touch, InDrill
  <2>2. \A n \in Nodes, other \in Tags \ {tag} : watermark'[n, other] = watermark[n, other]
        BY <1>3 DEF ChangeOf
  <2>3. ASSUME InDrill("file"), drill.sure, "drill" \notin stirred'
        PROVE  Covers /\ \A n \in Nodes : watermark'[n, drill.tag] # None
    <3>1. drill.tag \in Tags \ {tag} /\ "drill" \notin stirred
          BY <2>1, <2>3 DEF DrillInv
    <3> QED
        BY <2>2, <2>3, <3>1 DEF DrillInv
  <2> QED
      BY <1>1, <2>1, <2>3 DEF DrillInv, InDrill, Covers, DrillCoversPoint
<1> QED
    BY <1>2, <1>3 DEF FilesStep

\* Consolidation only writes the manifest.
LEMMA DrillAmidJudge == DrillInv /\ (ListTags \/ JudgeStep) => DrillInv'
<1> SUFFICES ASSUME DrillInv, ListTags \/ JudgeStep PROVE DrillInv'
    OBVIOUS
<1>1. CASE ListTags
  <2>1. drill' = NoDrill
        BY <1>1 DEF ListTags
  <2> QED
      BY <2>1 DEF DrillInv, Drills, NoDrill, InDrill, DrillCoversPoint
<1>2. CASE JudgeStep
  <2>1. /\ UNCHANGED <<tarball, watermark, drill>>
        /\ "drill" \in stirred' <=> "drill" \in stirred
        BY <1>2 DEF JudgeStep, StartTag, ReadNode, ReadTarball, ReadSha, TestTarball,
                    HashTarball, RecordTag, Recorded, nodeVars, changes
  <2> QED
      BY <2>1 DEF DrillInv, InDrill, Covers, DrillCoversPoint
<1> QED
    BY <1>1, <1>2

\* A node whose files are whole has a watermark.
LEMMA WholeIsMarked ==
  ASSUME FilesTyped, NEW n \in Nodes, NEW tag \in Tags, Whole(n, tag)
  PROVE  watermark[n, tag] # None
<1>1. <<n, tag>> \in Copies
      BY DEF Copies
<1>2. watermark[n, tag] \in Nat \cup {Part, Cut}
      BY <1>1 DEF FilesTyped
<1>3. watermark[n, tag] > 0
      BY DEF Whole
<1>4. \A mark \in Nat \cup {Part, Cut} : mark > 0 => mark # 0
      BY DEF Part, Cut
<1> QED
    BY <1>2, <1>3, <1>4 DEF None

\* The drill itself.
LEMMA DrillActs ==
  ASSUME NodeInv, JudgeInv, DrillInv, StartDrill \/ DrillStep
  PROVE  DrillInv'
<1>1. UNCHANGED <<tarball, watermark>>
      BY DEF StartDrill, DrillStep, VerifyNode, PrintVerdict, nodeVars
<1>2. drill \in Drills
      BY DEF DrillInv
<1>3. CASE StartDrill
  <2>1. PICK tag \in ByHand \cup RecoveryPoint :
          drill' = [NoDrill EXCEPT !.pc = "file", !.tag = tag, !.files = Marked(tag),
                                   !.sure = tag \in RecoveryPoint \cap Untouched]
        BY <1>3 DEF StartDrill
  <2>2. tag \in Tags
        BY <2>1, CheckpointBounds DEF RecoveryPoint, Complete, JudgeInv, JudgeTyped
  <2>3. /\ drill'.pc = "file" /\ drill'.tag = tag /\ drill'.files = Marked(tag)
        /\ drill'.sure = (tag \in RecoveryPoint \cap Untouched)
        /\ drill'.passed = {} /\ drill'.fail = FALSE
        BY <2>1 DEF NoDrill
  <2>4. drill' \in Drills
    <3>1. NoDrill \in Drills
          BY DEF NoDrill, Drills
    <3>2. Marked(tag) \subseteq Nodes
          BY DEF Marked
    <3>3. (tag \in RecoveryPoint \cap Untouched) \in BOOLEAN
          OBVIOUS
    <3> QED
        BY <2>1, <2>2, <3>1, <3>2, <3>3 DEF Drills
  <2>5. ASSUME drill'.sure
        PROVE  Marked(tag) = Nodes /\ \A n \in Nodes : watermark[n, tag] # None
    <3>1. \A n \in Nodes : Whole(n, tag)
          BY <2>3, <2>5 DEF JudgeInv
    <3>2. \A n \in Nodes : watermark[n, tag] # None
          BY <2>2, <3>1, WholeIsMarked DEF NodeInv
    <3> QED
        BY <3>2 DEF Marked
  <2> QED
      BY <1>1, <2>2, <2>3, <2>4, <2>5 DEF DrillInv, InDrill, Covers, DrillCoversPoint
<1>4. CASE VerifyNode
  <2>1. PICK n, mark, left :
          /\ n \in drill.files
          /\ mark = watermark[n, drill.tag]
          /\ left = [drill EXCEPT !.files = @ \ {n}]
          /\ drill' \in {left, NoDrill, [left EXCEPT !.fail = TRUE],
                        [left EXCEPT !.passed = @ \cup {n}]}
          /\ drill' = left => mark = None \/ drill' \in {NoDrill, [left EXCEPT !.fail = TRUE],
                                                    [left EXCEPT !.passed = @ \cup {n}]}
        BY <1>4 DEF VerifyNode
  <2>2. /\ drill.pc = "file" /\ drill.tag \in Tags /\ n \in Nodes /\ stirred' = stirred
        BY <1>2, <1>4, <2>1 DEF VerifyNode, DrillInv, InDrill, Drills, changes
  <2>3. CASE drill' = NoDrill
        BY <1>1, <2>3 DEF DrillInv, InDrill, NoDrill, Drills, DrillCoversPoint
  <2>4. left \in Drills /\ left.pc = "file" /\ left.tag = drill.tag /\ left.sure = drill.sure
        /\ left.files = drill.files \ {n} /\ left.passed = drill.passed
        /\ left.fail = drill.fail
        BY <1>2, <2>1, <2>2 DEF Drills
  <2>5. CASE drill' = left /\ mark = None
    <3>1. ~(drill.sure /\ "drill" \notin stirred)
          BY <2>1, <2>2, <2>5 DEF DrillInv, InDrill
    <3> QED
        BY <1>1, <2>2, <2>4, <2>5, <3>1 DEF DrillInv, InDrill, DrillCoversPoint
  <2>6. CASE drill' = [left EXCEPT !.fail = TRUE]
    <3>1. /\ drill' \in Drills /\ drill'.pc = "file" /\ drill'.tag = drill.tag
          /\ drill'.sure = drill.sure /\ drill'.fail
          BY <2>4, <2>6 DEF Drills
    <3> QED
        BY <1>1, <2>2, <3>1 DEF DrillInv, InDrill, Covers, DrillCoversPoint
  <2>7. CASE drill' = [left EXCEPT !.passed = @ \cup {n}]
    <3>1. /\ drill' \in Drills /\ drill'.pc = "file" /\ drill'.tag = drill.tag
          /\ drill'.sure = drill.sure /\ drill'.fail = drill.fail
          /\ drill'.files = drill.files \ {n} /\ drill'.passed = drill.passed \cup {n}
          BY <2>2, <2>4, <2>7 DEF Drills
    <3>2. drill'.files \cup drill'.passed = drill.files \cup drill.passed
          BY <2>1, <3>1
    <3> QED
        BY <1>1, <2>2, <3>1, <3>2 DEF DrillInv, InDrill, Covers, DrillCoversPoint
  <2> QED
      BY <2>1, <2>3, <2>5, <2>6, <2>7
<1>5. CASE PrintVerdict
  <2>1. /\ drill.pc = "file" /\ drill.files = {} /\ stirred' = stirred
        /\ drill' = [drill EXCEPT !.pc = IF drill.fail THEN "failed" ELSE "ok"]
        BY <1>5 DEF PrintVerdict, InDrill, changes
  <2>2. /\ drill' \in Drills /\ drill'.pc \in {"failed", "ok"} /\ drill'.sure = drill.sure
        /\ drill'.passed = drill.passed /\ (drill'.pc = "ok" => ~drill.fail)
        BY <1>2, <2>1 DEF Drills
  <2>3. ASSUME drill'.pc = "ok", drill.sure, "drill" \notin stirred
        PROVE  drill.passed = Nodes
        BY <2>1, <2>2, <2>3 DEF DrillInv, InDrill, Covers
  <2> QED
      BY <2>1, <2>2, <2>3 DEF DrillInv, InDrill, DrillCoversPoint
<1> QED
    BY <1>3, <1>4, <1>5 DEF DrillStep
------------------------------------------------------------------------------
\* The invariant, and what it promises.

CheckpointInv == NodeInv /\ JudgeInv /\ DrillInv

\* Every step of the composition keeps it.
LEMMA InvStep == CheckpointInv /\ [Next]_vars => CheckpointInv'
<1> SUFFICES ASSUME CheckpointInv, [Next]_vars PROVE CheckpointInv'
    OBVIOUS
<1>1. NodeInv'
      BY NodeStep DEF CheckpointInv
<1>2. CASE FilesStep
      BY <1>1, <1>2, JudgeAmidFiles, DrillAmidFiles DEF CheckpointInv
<1>3. CASE ListTags \/ JudgeStep
      BY <1>1, <1>3, JudgeActs, DrillAmidJudge DEF CheckpointInv
<1>4. CASE StartDrill \/ DrillStep
      BY <1>1, <1>4, JudgeAmidDrill, DrillActs DEF CheckpointInv
<1>5. UNCHANGED vars => FilesStep
      BY DEF vars, FilesStep, readers
<1>6. Next => FilesStep \/ (ListTags \/ JudgeStep) \/ (StartDrill \/ DrillStep)
      BY NodeActionOnFiles DEF CheckpointInv, Next, NodeAction
<1> QED
    BY <1>2, <1>3, <1>4, <1>5, <1>6

\* So it always holds.
LEMMA InvHolds == Spec => []CheckpointInv
<1>1. Init => CheckpointInv
      BY NodeStart, JudgeStart, DrillStart DEF CheckpointInv
<1> QED
    BY <1>1, InvStep, PTL DEF Spec

\* Every variable holds values of its kind.
THEOREM CheckpointTypesHold == Spec => []CheckpointTypeOK
<1>1. CheckpointInv => CheckpointTypeOK
  <2> SUFFICES ASSUME CheckpointInv PROVE CheckpointTypeOK
      OBVIOUS
  <2>1. tarball \in [Copies -> Int] /\ watermark \in [Copies -> Int]
        BY DEF CheckpointInv, NodeInv, FilesTyped, Part, Cut
  <2>2. /\ night \in Tags
        /\ snapshots \in [Nodes -> SUBSET Tags]
        /\ script \in [Nodes -> [pc : ScriptSteps, tag : Tags \cup {0}]]
        /\ \A n \in Nodes : InScript(n, "idle") <=> script[n].tag = 0
        /\ exports \in [Copies -> Nat]
        /\ spoilt \subseteq Tags /\ faults \in Nat
        BY DEF CheckpointInv, NodeInv, NodesTyped, Scripts, ScriptInv
  <2> QED
      BY <2>1, <2>2 DEF CheckpointInv, JudgeInv, JudgeTyped, Judges, DrillInv, Drills,
                        CheckpointTypeOK
<1> QED
    BY <1>1, InvHolds, PTL

\* A tag whose files are those that were judged complete has a whole tarball of every
\* node, for any nodes and nights, in whatever order files arrive, break and vanish.
THEOREM CompleteTagsRestore == Spec => []CompleteMeansRestorable
<1>1. CheckpointInv => CompleteMeansRestorable
      BY DEF CheckpointInv, JudgeInv, Whole, CompleteMeansRestorable
<1> QED
    BY <1>1, InvHolds, PTL

\* A drill of the recovery point that prints OK has tested the SSTables of every node,
\* if no file of the tag changed since it was judged.
THEOREM DrillsCoverThePoint == Spec => []DrillCoversPoint
<1>1. CheckpointInv => DrillCoversPoint
      BY DEF CheckpointInv, DrillInv
<1> QED
    BY <1>1, InvHolds, PTL

\* No snapshot stays on a node's disk but that of a script under way and those of tags
\* a fault befell.
THEOREM SnapshotsAreCleared == Spec => []NoSnapshotLeft
<1>1. CheckpointInv => NoSnapshotLeft
      BY DEF CheckpointInv, NodeInv, ScriptInv, NoSnapshotLeft
<1> QED
    BY <1>1, InvHolds, PTL
==============================================================================
