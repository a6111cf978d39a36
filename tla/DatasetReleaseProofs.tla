------------------------ MODULE DatasetReleaseProofs ------------------------
(***************************************************************************)
(* Proofs about DatasetRelease for any versions, processes and bounds.     *)
(***************************************************************************)
EXTENDS DatasetRelease, TLAPS

USE VersionAssumption, DraftAssumption, NotesAssumption, FilesAssumption,
    BoundAssumption

LEMMA Constants == NoDoc \in Doc /\ Draft \in Doc /\ AnyVersion \in Versions
BY DEF NoDoc, Draft, Doc, Status, AnyVersion

LEMMA NoOpType == NoOp \in Op /\ NoOp.pc = "idle" /\ NoOp.action = "publish"
BY Constants DEF NoOp, Op, Action, Status

\* A step gives one process a new use case state; the others keep theirs.
LEMMA ReplaceOp ==
  ASSUME TypeOK, NEW p \in Processes, NEW new, op' = [op EXCEPT ![p] = new]
  PROVE  /\ op'[p] = new
         /\ \A q \in Processes : q # p => op'[q] = op[q]
         /\ new \in Op => op' \in [Processes -> Op]
BY DEF TypeOK

\* A use case moves on and keeps the document, or the list, it read.
LEMMA ReadStep ==
  ASSUME TypeOK, NEW p \in Processes, NEW pc \in {"get", "list", "commit"}, NEW doc \in Doc,
         op' = [op EXCEPT ![p].pc = pc, ![p].doc = doc]
  PROVE  /\ op' \in [Processes -> Op]
         /\ op'[p] = [op[p] EXCEPT !.pc = pc, !.doc = doc]
         /\ \A q \in Processes : q # p => op'[q] = op[q]
<1> DEFINE new == [op[p] EXCEPT !.pc = pc, !.doc = doc]
<1>1. op[p] \in Op
  BY DEF TypeOK
<1>2. new \in Op
  BY <1>1 DEF Op
<1>3. op' = [op EXCEPT ![p] = new]
  BY DEF TypeOK
<1>4. op'[p] = new
  BY <1>3 DEF TypeOK
<1> HIDE DEF new
<1>5. op' \in [Processes -> Op] /\ \A q \in Processes : q # p => op'[q] = op[q]
  BY <1>2, <1>3, ReplaceOp
<1>6. QED
  BY <1>4, <1>5 DEF new

LEMMA ListStep ==
  ASSUME TypeOK, NEW p \in Processes, NEW live \in [Versions -> Doc],
         op' = [op EXCEPT ![p].pc = "commit", ![p].live = live]
  PROVE  /\ op' \in [Processes -> Op]
         /\ op'[p] = [op[p] EXCEPT !.pc = "commit", !.live = live]
         /\ \A q \in Processes : q # p => op'[q] = op[q]
<1> DEFINE new == [op[p] EXCEPT !.pc = "commit", !.live = live]
<1>1. op[p] \in Op
  BY DEF TypeOK
<1>2. new \in Op
  BY <1>1 DEF Op
<1>3. op' = [op EXCEPT ![p] = new]
  BY DEF TypeOK
<1>4. op'[p] = new
  BY <1>3 DEF TypeOK
<1> HIDE DEF new
<1>5. op' \in [Processes -> Op] /\ \A q \in Processes : q # p => op'[q] = op[q]
  BY <1>2, <1>3, ReplaceOp
<1>6. QED
  BY <1>4, <1>5 DEF new

LEMMA FileStep ==
  ASSUME TypeOK, NEW p \in Processes, op' = [op EXCEPT ![p].file = @ + 1]
  PROVE  /\ op' \in [Processes -> Op]
         /\ op'[p] = [op[p] EXCEPT !.file = @ + 1]
         /\ \A q \in Processes : q # p => op'[q] = op[q]
<1> DEFINE new == [op[p] EXCEPT !.file = @ + 1]
<1>1. op[p] \in Op
  BY DEF TypeOK
<1>2. op[p].file + 1 \in Nat
  BY <1>1 DEF Op
<1>3. new \in Op
  BY <1>1, <1>2 DEF Op
<1>4. op' = [op EXCEPT ![p] = new]
  BY DEF TypeOK
<1>5. op'[p] = new
  BY <1>4 DEF TypeOK
<1> HIDE DEF new
<1>6. op' \in [Processes -> Op] /\ \A q \in Processes : q # p => op'[q] = op[q]
  BY <1>3, <1>4, ReplaceOp
<1>7. QED
  BY <1>5, <1>6 DEF new

\* The version a use case is about has a document.
LEMMA ItsDoc ==
  ASSUME TypeOK, NEW p \in Processes
  PROVE  op[p].version \in Versions /\ catalogue[op[p].version] \in Doc
BY DEF TypeOK, Op

LEMMA ListType == ASSUME TypeOK PROVE ListPublished \in [Versions -> Doc]
BY Constants DEF ListPublished, TypeOK

LEMMA FinishStep ==
  ASSUME TypeOK, NEW p \in Processes, Finish(p)
  PROVE  /\ op'[p] = NoOp
         /\ \A q \in Processes : q # p => op'[q] = op[q]
         /\ op' \in [Processes -> Op]
BY ReplaceOp, NoOpType DEF Finish

LEMMA RecordStep ==
  ASSUME TypeOK, NEW p \in Processes, NEW ok \in BOOLEAN, ThenRecord(p, ok)
  PROVE  /\ op'[p] \in Op /\ op'[p].pc = "record" /\ op'[p].action = op[p].action
         /\ \A q \in Processes : q # p => op'[q] = op[q]
         /\ op' \in [Processes -> Op]
<1> DEFINE new == [op[p] EXCEPT !.pc = "record", !.ok = ok]
<1>1. op[p] \in Op
  BY DEF TypeOK
<1>2. new \in Op /\ new.pc = "record" /\ new.action = op[p].action
  BY <1>1 DEF Op
<1>3. op' = [op EXCEPT ![p] = new]
  BY DEF ThenRecord, TypeOK
<1> HIDE DEF new
<1>4. QED
  BY <1>2, <1>3, ReplaceOp

LEMMA RowType ==
  ASSUME TypeOK, NEW p \in Processes, NEW from \in Status, NEW to \in Status,
         NEW ok \in BOOLEAN
  PROVE  EvidenceRow(p, from, to, ok) \in Row
<1>1. op[p] \in Op
  BY DEF TypeOK
<1>2. QED
  BY <1>1 DEF EvidenceRow, Row, Op

LEMMA AppendEvidence ==
  ASSUME TypeOK, NEW r \in Row, evidence' = Append(evidence, r)
  PROVE  evidence' \in Seq(Row)
BY DEF TypeOK

\* After a refusal the process is idle or about to record.
LEMMA RefuseStep ==
  ASSUME TypeOK, NEW p \in Processes, Refuse(p)
  PROVE  /\ op'[p] \in Op /\ op'[p].pc \in {"idle", "record"}
         /\ op'[p].pc = "record" => op'[p].action = op[p].action
         /\ \A q \in Processes : q # p => op'[q] = op[q]
         /\ op' \in [Processes -> Op]
         /\ evidence' \in Seq(Row)
<1>1. AttemptRow(p, FALSE) \in Row
  BY RowType DEF AttemptRow, Status
<1>2. CASE op[p].audited
  <2>1. Finish(p)
    BY <1>2 DEF Refuse
  <2>2. evidence' = evidence \/ evidence' = Append(evidence, AttemptRow(p, FALSE))
    BY <1>2 DEF Refuse
  <2>3. evidence' \in Seq(Row)
    BY <2>2, <1>1, AppendEvidence DEF TypeOK
  <2>4. QED
    BY <2>1, <2>3, FinishStep, NoOpType
<1>3. CASE ~ op[p].audited
  <2>1. ThenRecord(p, FALSE) /\ evidence' = evidence
    BY <1>3 DEF Refuse
  <2>2. QED
    BY <2>1, RecordStep DEF TypeOK
<1>4. QED
  BY <1>2, <1>3

LEMMA ReturnStep ==
  ASSUME TypeOK, NEW p \in Processes, Return(p)
  PROVE  /\ op'[p] \in Op /\ op'[p].pc \in {"idle", "record"}
         /\ op'[p].pc = "record" => op'[p].action = op[p].action
         /\ \A q \in Processes : q # p => op'[q] = op[q]
         /\ op' \in [Processes -> Op]
         /\ evidence' \in Seq(Row)
<1>1. CASE op[p].audited
  <2>1. Finish(p) /\ evidence' = evidence
    BY <1>1 DEF Return
  <2>2. QED
    BY <2>1, FinishStep, NoOpType DEF TypeOK
<1>2. CASE ~ op[p].audited
  <2>1. ThenRecord(p, TRUE) /\ evidence' = evidence
    BY <1>2 DEF Return
  <2>2. QED
    BY <2>1, RecordStep DEF TypeOK
<1>3. QED
  BY <1>1, <1>2

LEMMA StartStep ==
  ASSUME TypeOK, NEW p \in Processes, NEW new \in Op, Start(p, new)
  PROVE  /\ op' \in [Processes -> Op] /\ op'[p] = new
         /\ \A q \in Processes : q # p => op'[q] = op[q]
         /\ UNCHANGED <<catalogue, files, outbox, evidence, contested>>
         /\ started' \in Nat /\ op[p].pc = "idle"
BY ReplaceOp DEF Start, TypeOK

\* What every use case has done once it is started.
Begun(p) ==
    /\ op' \in [Processes -> Op]
    /\ op'[p].pc \in {"ready", "get", "write"}
    /\ op'[p].pc = "ready" => op'[p].action = "publish"
    /\ op'[p].pc = "write" =>
          op'[p].action = "export" /\ op'[p].build = builds + 1 /\ op'[p].file = 0
    /\ op'[p].action = "advance" => op'[p].to \in {"validation", "review", "approved"}
    /\ \A q \in Processes : q # p => op'[q] = op[q]
    /\ op[p].pc = "idle"
    /\ UNCHANGED <<catalogue, files, outbox, evidence, contested>>
    /\ started' \in Nat /\ builds' \in Nat

LEMMA BeginStep ==
  ASSUME TypeOK, NEW p \in Processes, Begin(p)
  PROVE  Begun(p)
<1> PICK v \in Versions :
       \/ \E audited \in BOOLEAN : StartPublish(p, v, audited) \/ StartRollback(p, v, audited)
       \/ \E to \in {"validation", "review", "approved"} : StartAdvance(p, v, to)
       \/ \E text \in Notes : StartNotes(p, v, text)
       \/ \E text \in Notes \cup {NoNotes} : StartExport(p, v, text)
  BY DEF Begin
<1>n. NoOp \in Op /\ builds \in Nat /\ NoOp.action = "publish" /\ NoOp.file = 0
  BY NoOpType DEF TypeOK, NoOp
<1>1. ASSUME NEW audited \in BOOLEAN, StartPublish(p, v, audited) PROVE Begun(p)
  <2> DEFINE new == [NoOp EXCEPT !.pc = IF audited THEN "ready" ELSE "get",
                                 !.version = v, !.audited = audited]
  <2>1. new \in Op /\ new.pc \in {"ready", "get"} /\ new.action = "publish"
    BY <1>n DEF Op
  <2>2. Start(p, new) /\ builds' = builds
    BY <1>1 DEF StartPublish
  <2> HIDE DEF new
  <2>3. QED
    BY <2>1, <2>2, <1>n, StartStep DEF Begun
<1>2. ASSUME NEW audited \in BOOLEAN, StartRollback(p, v, audited) PROVE Begun(p)
  <2> DEFINE new == [NoOp EXCEPT !.pc = "get", !.action = "rollback",
                                 !.version = v, !.audited = audited]
  <2>1. new \in Op /\ new.pc = "get" /\ new.action = "rollback"
    BY <1>n DEF Op, Action
  <2>2. Start(p, new) /\ builds' = builds
    BY <1>2 DEF StartRollback
  <2> HIDE DEF new
  <2>3. QED
    BY <2>1, <2>2, <1>n, StartStep DEF Begun
<1>3. ASSUME NEW to \in {"validation", "review", "approved"}, StartAdvance(p, v, to)
      PROVE  Begun(p)
  <2> DEFINE new == [NoOp EXCEPT !.pc = "get", !.action = "advance",
                                 !.version = v, !.audited = TRUE, !.to = to]
  <2>1. new \in Op /\ new.pc = "get" /\ new.to = to
    BY <1>n DEF Op, Action, Status
  <2>2. Start(p, new) /\ builds' = builds
    BY <1>3 DEF StartAdvance
  <2> HIDE DEF new
  <2>3. QED
    BY <2>1, <2>2, <1>n, StartStep DEF Begun
<1>4. ASSUME NEW text \in Notes, StartNotes(p, v, text) PROVE Begun(p)
  <2> DEFINE new == [NoOp EXCEPT !.pc = "get", !.action = "notes",
                                 !.version = v, !.audited = TRUE, !.notes = text]
  <2>1. new \in Op /\ new.pc = "get" /\ new.action = "notes"
    BY <1>n DEF Op, Action
  <2>2. Start(p, new) /\ builds' = builds
    BY <1>4 DEF StartNotes
  <2> HIDE DEF new
  <2>3. QED
    BY <2>1, <2>2, <1>n, StartStep DEF Begun
<1>5. ASSUME NEW text \in Notes \cup {NoNotes}, StartExport(p, v, text) PROVE Begun(p)
  <2> DEFINE new == [NoOp EXCEPT !.pc = "write", !.action = "export", !.version = v,
                                 !.notes = text, !.build = builds + 1]
  <2>b. builds + 1 \in Nat
    BY <1>n
  <2>c. new \in Op
    BY <1>n, <2>b DEF Op, Action
  <2>1. /\ new \in Op /\ new.pc = "write" /\ new.action = "export"
        /\ new.build = builds + 1 /\ new.file = 0 /\ new.version = v
    BY <1>n, <2>c DEF Op
  <2>2. Start(p, new) /\ builds' = builds + 1
    BY <1>5 DEF StartExport
  <2> HIDE DEF new
  <2>3. QED
    BY <2>1, <2>2, <1>n, StartStep DEF Begun
<1>6. QED
  BY <1>1, <1>2, <1>3, <1>4, <1>5

-----------------------------------------------------------------------------
\* The documents that steps write are documents.
LEMMA ActivatedType ==
  ASSUME TypeOK, NEW p \in Processes
  PROVE  Activated(catalogue, p) \in [Versions -> Doc]
<1> op[p] \in Op
  BY DEF TypeOK
<1>1. op[p].doc \in Doc /\ op[p].live \in [Versions -> Doc]
  BY DEF Op
<1>2. \A d \in Doc : /\ [d EXCEPT !.status = "published"] \in Doc
                     /\ [d EXCEPT !.status = "rolled_back"] \in Doc
  BY DEF Doc, Status
<1>3. QED
  BY <1>1, <1>2 DEF Activated, TypeOK

LEMMA EditedType ==
  ASSUME TypeOK, NEW p \in Processes
  PROVE  Edited(p) \in Doc
<1> op[p] \in Op
  BY DEF TypeOK
<1>1. op[p].doc \in Doc /\ op[p].to \in Status /\ op[p].notes \in Notes \cup {NoNotes}
  BY DEF Op
<1>2. QED
  BY <1>1 DEF Edited, Doc

LEMMA ContestType ==
  ASSUME TypeOK, NEW p \in Processes, NEW met, Contest(p, met)
  PROVE  contested' \subseteq Versions
BY ItsDoc DEF Contest, TypeOK

LEMMA TypeStep == ASSUME TypeOK, [Next]_vars PROVE TypeOK'
<1>0. CASE UNCHANGED vars
  BY <1>0 DEF vars, TypeOK
<1>1. ASSUME NEW p \in Processes, Begin(p) PROVE TypeOK'
  BY <1>1, BeginStep DEF Begun, TypeOK
<1>2. ASSUME NEW p \in Processes, CheckReady(p) PROVE TypeOK'
  <2>1. CASE Refuse(p)
    BY <2>1, <1>2, RefuseStep DEF CheckReady, TypeOK
  <2>2. CASE op' = [op EXCEPT ![p].pc = "get"] /\ UNCHANGED evidence
    <3>1. op[p] \in Op
      BY DEF TypeOK
    <3> DEFINE new == [op[p] EXCEPT !.pc = "get"]
    <3>2. new \in Op
      BY <3>1 DEF Op
    <3>3. op' = [op EXCEPT ![p] = new]
      BY <2>2 DEF TypeOK
    <3> HIDE DEF new
    <3>4. op' \in [Processes -> Op]
      BY <3>2, <3>3, ReplaceOp
    <3>5. UNCHANGED <<catalogue, files, outbox, evidence, builds, started, contested>>
      BY <2>2, <1>2 DEF CheckReady
    <3>6. QED
      BY <3>4, <3>5 DEF TypeOK
  <2>3. QED
    BY <2>1, <2>2, <1>2 DEF CheckReady
<1>3. ASSUME NEW p \in Processes, GetTarget(p) PROVE TypeOK'
  <2>1. CASE Refuse(p)
    BY <2>1, <1>3, RefuseStep DEF GetTarget, TypeOK
  <2>2. CASE Return(p)
    BY <2>2, <1>3, ReturnStep DEF GetTarget, TypeOK
  <2>3. CASE /\ op' = [op EXCEPT ![p].pc = "list", ![p].doc = catalogue[op[p].version]]
             /\ UNCHANGED evidence
    BY <2>3, <1>3, ReadStep, ItsDoc DEF GetTarget, TypeOK
  <2>4. QED
    BY <2>1, <2>2, <2>3, <1>3 DEF GetTarget
<1>4. ASSUME NEW p \in Processes, ListLive(p) PROVE TypeOK'
  <2>1. CASE Refuse(p)
    BY <2>1, <1>4, RefuseStep DEF ListLive, TypeOK
  <2>2. CASE op' = [op EXCEPT ![p].pc = "commit", ![p].live = ListPublished] /\ UNCHANGED evidence
    BY <2>2, <1>4, ListType, ListStep DEF ListLive, TypeOK
  <2>3. QED
    BY <2>1, <2>2, <1>4 DEF ListLive
<1>5. ASSUME NEW p \in Processes, Activate(p) PROVE TypeOK'
  <2>1. catalogue' \in [Versions -> Doc]
    BY <1>5, ActivatedType DEF Activate
  <2>2. outbox' \in Seq(Versions)
    BY <1>5 DEF Activate, TypeOK, Op
  <2>3. op' \in [Processes -> Op]
    BY <1>5, FinishStep, RecordStep DEF Activate
  <2>4. EvidenceRow(p, "approved", "published", TRUE) \in Row
    BY RowType DEF Status
  <2>5. evidence' \in Seq(Row)
    BY <1>5, <2>4, AppendEvidence DEF Activate, TypeOK
  <2>6. QED
    BY <1>5, <2>1, <2>2, <2>3, <2>5 DEF Activate, TypeOK
<1>6. ASSUME NEW p \in Processes, GetForEdit(p) PROVE TypeOK'
  <2>1. CASE Finish(p)
    BY <2>1, <1>6, FinishStep DEF GetForEdit, TypeOK
  <2>2. CASE op' = [op EXCEPT ![p].pc = "commit", ![p].doc = catalogue[op[p].version]]
    BY <2>2, <1>6, ReadStep, ItsDoc DEF GetForEdit, TypeOK
  <2>3. QED
    BY <2>1, <2>2, <1>6 DEF GetForEdit
<1>7. ASSUME NEW p \in Processes, UpdateAudited(p) PROVE TypeOK'
  <2>1. op' \in [Processes -> Op]
    BY <1>7, FinishStep DEF UpdateAudited
  <2>2. op[p].doc.status \in Status /\ Edited(p).status \in Status
    <3>1. op[p].doc \in Doc
      BY DEF TypeOK, Op
    <3>2. QED
      BY <3>1, EditedType DEF Doc
  <2>3. EvidenceRow(p, op[p].doc.status, Edited(p).status, TRUE) \in Row
    BY <2>2, RowType
  <2>4. evidence' \in Seq(Row)
    BY <1>7, <2>3, AppendEvidence DEF UpdateAudited, TypeOK
  <2>5. catalogue' \in [Versions -> Doc]
    BY <1>7, EditedType DEF UpdateAudited, TypeOK
  <2>6. QED
    BY <1>7, <2>1, <2>4, <2>5 DEF UpdateAudited, TypeOK
<1>8. ASSUME NEW p \in Processes, Fail(p) PROVE TypeOK'
  BY <1>8, RefuseStep, FinishStep, ContestType DEF Fail, TypeOK
<1>9. ASSUME NEW p \in Processes, WriteFile(p) PROVE TypeOK'
  <2>1. op[p] \in Op
    BY DEF TypeOK
  <2>2. op[p].build \in Nat /\ op[p].file \in Nat /\ op[p].version \in Versions
    BY <2>1 DEF Op
  <2>3. files' \in [Versions -> [1..Files -> Nat]]
    BY <1>9, <2>2 DEF WriteFile, TypeOK
  <2>4. op' \in [Processes -> Op]
    BY <1>9, FileStep DEF WriteFile
  <2>5. QED
    BY <1>9, <2>3, <2>4, ContestType DEF WriteFile, TypeOK
<1>10. ASSUME NEW p \in Processes, UpsertRelease(p) PROVE TypeOK'
  <2>1. op[p] \in Op
    BY DEF TypeOK
  <2>2. [status |-> "approved", notes |-> op[p].notes, build |-> op[p].build] \in Doc
    BY <2>1 DEF Op, Doc, Status
  <2>3. QED
    BY <1>10, <2>2, RecordStep, ContestType DEF UpsertRelease, TypeOK
<1>11. ASSUME NEW p \in Processes, RecordAudit(p) PROVE TypeOK'
  <2>1. AttemptRow(p, op[p].ok) \in Row
    BY RowType DEF AttemptRow, Status, TypeOK, Op
  <2>2. evidence' \in Seq(Row)
    BY <1>11, <2>1, AppendEvidence DEF RecordAudit, TypeOK
  <2>3. QED
    BY <1>11, <2>2, FinishStep DEF RecordAudit, TypeOK
<1>12. ASSUME NEW p \in Processes, Crash(p) PROVE TypeOK'
  BY <1>12, FinishStep, ContestType DEF Crash, TypeOK
<1>13. QED
  BY <1>0, <1>1, <1>2, <1>3, <1>4, <1>5, <1>6, <1>7, <1>8, <1>9, <1>10, <1>11, <1>12
     DEF Next

(***************************************************************************)
(* Every reachable state is well typed.                                    *)
(***************************************************************************)
THEOREM TypeCorrect == Spec => []TypeOK
<1>1. Init => TypeOK
  BY Constants, NoOpType DEF Init, TypeOK
<1>2. TypeOK /\ [Next]_vars => TypeOK'
  BY TypeStep
<1>3. QED
  BY <1>1, <1>2, PTL DEF Spec

-----------------------------------------------------------------------------
\* The conditions of the inductive invariant that a step of p can disturb
\* when it changes nothing but op[p].
OwnPart(p) ==
    /\ ReadHolds(p)
    /\ HeldFilesExist(p)

LEMMA Frame ==
  ASSUME LifecycleInv, NEW p \in Processes, TypeOK', UNCHANGED <<catalogue, files, outbox>>,
         \A q \in Processes : q # p => op'[q] = op[q],
         OwnPart(p)'
  PROVE  LifecycleInv'
<1>1. OneLive' /\ LiveHasEvent'
  BY DEF LifecycleInv, OneLive, LiveHasEvent, Live, HasEvent
<1>2. ReadsHold'
  <2> SUFFICES ASSUME NEW q \in Processes PROVE ReadHolds(q)'
    BY DEF ReadsHold
  <2>1. CASE q = p
    BY <2>1 DEF OwnPart
  <2>2. CASE q # p
    BY <2>2 DEF LifecycleInv, ReadsHold, ReadHolds, HasEvent, Activating, HasArtifacts
  <2>3. QED
    BY <2>1, <2>2
<1>3. FilesExist'
  <2>1. CatalogueFilesExist'
    BY DEF LifecycleInv, FilesExist, CatalogueFilesExist, HasArtifacts
  <2>2. ASSUME NEW q \in Processes PROVE HeldFilesExist(q)'
    <3>1. CASE q = p
      BY <3>1 DEF OwnPart
    <3>2. CASE q # p
      BY <3>2 DEF LifecycleInv, FilesExist, HeldFilesExist, Activating, HasArtifacts
    <3>3. QED
      BY <3>1, <3>2
  <2>3. QED
    BY <2>1, <2>2 DEF FilesExist
<1>4. QED
  BY <1>1, <1>2, <1>3 DEF LifecycleInv

\* A process that ends up idle, or recording, holds nothing.
LEMMA LetGo ==
  ASSUME LifecycleInv, NEW p \in Processes, TypeOK', UNCHANGED <<catalogue, files, outbox>>,
         \A q \in Processes : q # p => op'[q] = op[q],
         op'[p].pc \in {"idle", "record"}
  PROVE  LifecycleInv'
<1>1. OwnPart(p)'
  BY DEF OwnPart, ReadHolds, HeldFilesExist
<1>2. QED
  BY <1>1, Frame

\* The document a use case gets is about files that exist.
LEMMA Gotten ==
  ASSUME LifecycleInv, NEW p \in Processes, NEW doc, doc = catalogue[op[p].version],
         NEW pc \in {"list", "commit"},
         op'[p] = [op[p] EXCEPT !.pc = pc, !.doc = doc],
         UNCHANGED <<catalogue, files, outbox>>,
         pc = "list" => Activating(p) /\ HasArtifacts(doc),
         pc = "commit" => /\ op[p].action \in {"advance", "notes"}
                          /\ op[p].pc = "get"
                          /\ doc.status \in {"draft", "validation", "review", "approved"},
         \A q \in Processes : q # p => op'[q] = op[q]
  PROVE  OwnPart(p)'
<1>0. op[p] \in Op
  BY DEF LifecycleInv, TypeOK
<1>1. /\ op'[p].pc = pc /\ op'[p].doc = doc /\ op'[p].version = op[p].version
      /\ op'[p].action = op[p].action /\ op'[p].to = op[p].to
  BY <1>0 DEF Op
<1>2. ReadHolds(p)'
  <2>1. ReadHolds(p)
    BY DEF LifecycleInv, ReadsHold
  <2>2. QED
    BY <1>1, <2>1 DEF ReadHolds, Activating
<1>3. HeldFilesExist(p)'
  <2>1. HasArtifacts(doc) => files[op[p].version][1] > 0
    BY <1>0 DEF LifecycleInv, FilesExist, CatalogueFilesExist, Op
  <2>2. QED
    BY <1>1, <2>1 DEF HeldFilesExist, Activating, HasArtifacts
<1>4. QED
  BY <1>2, <1>3 DEF OwnPart

\* So is the list of live documents.
LEMMA Listed ==
  ASSUME LifecycleInv, NEW p \in Processes, op[p].pc = "list",
         op'[p] = [op[p] EXCEPT !.pc = "commit", !.live = ListPublished],
         UNCHANGED <<catalogue, files, outbox>>,
         \A q \in Processes : q # p => op'[q] = op[q]
  PROVE  OwnPart(p)'
<1>0. op[p] \in Op
  BY DEF LifecycleInv, TypeOK
<1>1. /\ op'[p].pc = "commit" /\ op'[p].doc = op[p].doc /\ op'[p].version = op[p].version
      /\ op'[p].action = op[p].action /\ op'[p].to = op[p].to
      /\ op'[p].live = ListPublished
  BY <1>0 DEF Op
<1>p. Activating(p) /\ HasArtifacts(op[p].doc)
  BY DEF LifecycleInv, ReadsHold, ReadHolds
<1>l. ASSUME NEW v \in Versions, ListPublished[v] # NoDoc
      PROVE  /\ HasEvent(v) /\ files[v][1] > 0
             /\ ListPublished[v] = catalogue[v] /\ HasArtifacts(ListPublished[v])
  <2>1. v \in Live(catalogue) /\ ListPublished[v] = catalogue[v]
    BY <1>l DEF ListPublished
  <2>2. catalogue[v].status = "published"
    BY <2>1 DEF Live
  <2>3. HasEvent(v) /\ HasArtifacts(catalogue[v]) /\ files[v][1] > 0
    BY <2>2 DEF LifecycleInv, LiveHasEvent, FilesExist, CatalogueFilesExist
  <2>4. QED
    BY <2>1, <2>3
<1>2. ReadHolds(p)'
  BY <1>1, <1>p, <1>l DEF ReadHolds, Activating, HasEvent, HasArtifacts
<1>3. HeldFilesExist(p)'
  <2>1. files[op[p].version][1] > 0
    BY <1>p DEF LifecycleInv, FilesExist, HeldFilesExist
  <2>2. QED
    BY <1>1, <1>l, <2>1 DEF HeldFilesExist, Activating, HasArtifacts
<1>4. QED
  BY <1>2, <1>3 DEF OwnPart

\* A started use case holds nothing.
LEMMA BeginHolds ==
  ASSUME LifecycleInv, NEW p \in Processes, Begin(p)
  PROVE  OwnPart(p)'
<1>0. TypeOK
  BY DEF LifecycleInv
<1>1. Begun(p)
  BY <1>0, BeginStep
<1>2. ReadHolds(p)'
  BY <1>1 DEF Begun, ReadHolds
<1>3. HeldFilesExist(p)'
  BY <1>0, <1>1 DEF Begun, HeldFilesExist, TypeOK
<1>4. QED
  BY <1>2, <1>3 DEF OwnPart

\* A commit, or an export, that ends the use case of p: the others hold what
\* they held, and it is still about files that exist.
LEMMA Ended ==
  ASSUME LifecycleInv, NEW p \in Processes, TypeOK', UNCHANGED files,
         \A q \in Processes : q # p => op'[q] = op[q],
         op'[p].pc \in {"idle", "record"},
         \A v \in Versions : HasEvent(v) => HasEvent(v)',
         OneLive', LiveHasEvent', CatalogueFilesExist'
  PROVE  LifecycleInv'
<1>1. ASSUME NEW q \in Processes PROVE ReadHolds(q)' /\ HeldFilesExist(q)'
  <2>1. CASE q = p
    BY <2>1 DEF ReadHolds, HeldFilesExist
  <2>2. CASE q # p
    <3>1. op'[q] = op[q]
      BY <2>2
    <3>2. ReadHolds(q)'
      BY <3>1 DEF LifecycleInv, ReadsHold, ReadHolds, Activating, HasArtifacts
    <3>3. HeldFilesExist(q)'
      BY <3>1 DEF LifecycleInv, FilesExist, HeldFilesExist, Activating, HasArtifacts
    <3>4. QED
      BY <3>2, <3>3
  <2>3. QED
    BY <2>1, <2>2
<1>2. QED
  BY <1>1 DEF LifecycleInv, ReadsHold, FilesExist

LEMMA AppendEvent ==
  ASSUME TypeOK, NEW w \in Versions, outbox' = Append(outbox, w)
  PROVE  /\ HasEvent(w)'
         /\ \A v \in Versions : HasEvent(v) => HasEvent(v)'
<1>1. /\ DOMAIN outbox' = 1..(Len(outbox) + 1) /\ DOMAIN outbox = 1..Len(outbox)
      /\ Len(outbox) \in Nat
      /\ outbox'[Len(outbox) + 1] = w
      /\ \A k \in 1..Len(outbox) : outbox'[k] = outbox[k]
  BY DEF TypeOK
<1>2. QED
  BY <1>1 DEF HasEvent

\* What an activation leaves in each document.
LEMMA ActivateEffect ==
  ASSUME LifecycleInv, NEW p \in Processes, Activate(p), NEW v \in Versions
  PROVE  \/ /\ v = op[p].version
            /\ catalogue'[v].status = "published"
            /\ HasArtifacts(catalogue'[v]) /\ HasArtifacts(op[p].doc)
            /\ files[v][1] > 0
         \/ /\ v # op[p].version /\ op[p].live[v] # NoDoc
            /\ catalogue'[v].status = "rolled_back"
            /\ HasArtifacts(catalogue'[v])
            /\ files[v][1] > 0 /\ HasEvent(v)
         \/ v # op[p].version /\ op[p].live[v] = NoDoc /\ catalogue'[v] = catalogue[v]
<1>0. op[p] \in Op
  BY DEF LifecycleInv, TypeOK
<1>1. op[p].doc \in Doc /\ op[p].live \in [Versions -> Doc]
  BY <1>0 DEF Op
<1>2. op[p].pc = "commit" /\ Activating(p) /\ catalogue' = Activated(catalogue, p)
  BY DEF Activate, Activating
<1>3. /\ HasArtifacts(op[p].doc) /\ files[op[p].version][1] > 0
      /\ op[p].live[v] # NoDoc => /\ HasEvent(v) /\ HasArtifacts(op[p].live[v])
                                  /\ files[v][1] > 0
  BY <1>2 DEF LifecycleInv, ReadsHold, ReadHolds, FilesExist, HeldFilesExist
<1>4. \A d \in Doc : /\ [d EXCEPT !.status = "published"].status = "published"
                     /\ [d EXCEPT !.status = "published"].build = d.build
                     /\ [d EXCEPT !.status = "rolled_back"].status = "rolled_back"
                     /\ [d EXCEPT !.status = "rolled_back"].build = d.build
  BY DEF Doc
<1>5. op[p].live[v] \in Doc
  BY <1>1
<1>6. catalogue'[v] =
        IF v = op[p].version THEN [op[p].doc EXCEPT !.status = "published"]
        ELSE IF op[p].live[v] # NoDoc THEN [op[p].live[v] EXCEPT !.status = "rolled_back"]
        ELSE catalogue[v]
  BY <1>2 DEF Activated
<1>7. CASE v = op[p].version
  BY <1>1, <1>3, <1>4, <1>6, <1>7 DEF HasArtifacts
<1>8. CASE v # op[p].version /\ op[p].live[v] # NoDoc
  BY <1>3, <1>4, <1>5, <1>6, <1>8 DEF HasArtifacts
<1>9. CASE v # op[p].version /\ op[p].live[v] = NoDoc
  BY <1>6, <1>9
<1>10. QED
  BY <1>7, <1>8, <1>9

LEMMA ActivateKeeps ==
  ASSUME LifecycleInv, NEW p \in Processes, Activate(p), TypeOK'
  PROVE  LifecycleInv'
<1>0. TypeOK /\ op[p] \in Op /\ op[p].version \in Versions
  BY DEF LifecycleInv, TypeOK, Op
<1>1. /\ op'[p].pc \in {"idle", "record"} /\ UNCHANGED files
      /\ \A q \in Processes : q # p => op'[q] = op[q]
  BY <1>0, FinishStep, RecordStep, NoOpType DEF Activate
<1> PICK w \in Versions : w = op[p].version
  BY <1>0
<1>2. HasEvent(w)' /\ \A v \in Versions : HasEvent(v) => HasEvent(v)'
  BY <1>0, AppendEvent DEF Activate
<1>3. OneLive'
  BY DEF Activate, IndexAccepts, OneLive
<1>4. ASSUME NEW v \in Versions, catalogue'[v].status \in {"published", "rolled_back"}
      PROVE  HasEvent(v)'
  <2>1. catalogue'[v] = catalogue[v] => HasEvent(v)
    BY <1>4 DEF LifecycleInv, LiveHasEvent
  <2>2. QED
    BY <2>1, <1>2, ActivateEffect
<1>5. LiveHasEvent'
  BY <1>4 DEF LiveHasEvent
<1>6. ASSUME NEW v \in Versions
      PROVE  /\ catalogue'[v].status = "published" => HasArtifacts(catalogue'[v])
             /\ HasArtifacts(catalogue'[v]) => files[v][1] > 0
  <2>1. /\ catalogue[v].status = "published" => HasArtifacts(catalogue[v])
        /\ HasArtifacts(catalogue[v]) => files[v][1] > 0
    BY DEF LifecycleInv, FilesExist, CatalogueFilesExist
  <2>2. QED
    BY <2>1, ActivateEffect
<1>7. CatalogueFilesExist'
  BY <1>1, <1>6 DEF CatalogueFilesExist, HasArtifacts
<1>8. QED
  BY <1>1, <1>2, <1>3, <1>5, <1>7, Ended

\* The release a compare-and-swap writes: not live, with the read artifacts.
LEMMA EditKeeps ==
  ASSUME LifecycleInv, NEW p \in Processes, UpdateAudited(p), TypeOK'
  PROVE  LifecycleInv'
<1>0. /\ TypeOK /\ op[p] \in Op /\ op[p].version \in Versions /\ op[p].doc \in Doc
      /\ op[p].action \in {"advance", "notes"} /\ op[p].pc = "commit"
  BY DEF LifecycleInv, TypeOK, Op, UpdateAudited
<1>1. /\ op'[p].pc = "idle" /\ UNCHANGED <<files, outbox>>
      /\ \A q \in Processes : q # p => op'[q] = op[q]
  BY <1>0, FinishStep, NoOpType DEF UpdateAudited
<1>2. /\ Edited(p).status \in {"draft", "validation", "review", "approved"}
      /\ Edited(p).build = op[p].doc.build
  <2>1. /\ op[p].action = "advance" => op[p].to \in {"validation", "review", "approved"}
        /\ op[p].doc.status \in {"draft", "validation", "review", "approved"}
    BY <1>0 DEF LifecycleInv, ReadsHold, ReadHolds
  <2>2. QED
    BY <1>0, <2>1 DEF Edited, Doc
<1>3. ASSUME NEW v \in Versions
      PROVE  \/ catalogue'[v] = catalogue[v]
             \/ v = op[p].version /\ catalogue'[v] = Edited(p)
  BY DEF UpdateAudited, LifecycleInv, TypeOK
<1>4. HasArtifacts(op[p].doc) => files[op[p].version][1] > 0
  BY <1>0 DEF LifecycleInv, FilesExist, HeldFilesExist
<1>5. \A v \in Versions : HasEvent(v)' <=> HasEvent(v)
  BY <1>1 DEF HasEvent
<1>6. OneLive'
  <2>1. \A v \in Versions : catalogue'[v].status = "published" => catalogue[v].status = "published"
    BY <1>2, <1>3
  <2>2. QED
    BY <2>1 DEF LifecycleInv, OneLive, Live
<1>7. LiveHasEvent'
  <2>1. ASSUME NEW v \in Versions, catalogue'[v].status \in {"published", "rolled_back"}
        PROVE  HasEvent(v)
    BY <2>1, <1>2, <1>3 DEF LifecycleInv, LiveHasEvent
  <2>2. QED
    BY <2>1, <1>5 DEF LiveHasEvent
<1>8. CatalogueFilesExist'
  <2>1. ASSUME NEW v \in Versions
        PROVE  /\ catalogue'[v].status = "published" => HasArtifacts(catalogue'[v])
               /\ HasArtifacts(catalogue'[v]) => files[v][1] > 0
    <3>1. /\ catalogue[v].status = "published" => HasArtifacts(catalogue[v])
          /\ HasArtifacts(catalogue[v]) => files[v][1] > 0
      BY DEF LifecycleInv, FilesExist, CatalogueFilesExist
    <3>2. QED
      BY <3>1, <1>2, <1>3, <1>4 DEF HasArtifacts
  <2>2. QED
    BY <1>1, <2>1 DEF CatalogueFilesExist, HasArtifacts
<1>9. QED
  BY <1>1, <1>5, <1>6, <1>7, <1>8, Ended

LEMMA UpsertKeeps ==
  ASSUME LifecycleInv, NEW p \in Processes, UpsertRelease(p), TypeOK'
  PROVE  LifecycleInv'
<1>0. /\ TypeOK /\ op[p] \in Op /\ op[p].version \in Versions
      /\ op[p].pc = "write" /\ op[p].file = Files
  BY DEF LifecycleInv, TypeOK, Op, UpsertRelease
<1>1. /\ op'[p].pc = "record" /\ UNCHANGED <<files, outbox>>
      /\ \A q \in Processes : q # p => op'[q] = op[q]
  BY <1>0, RecordStep DEF UpsertRelease
<1>2. op[p].build > 0 /\ files[op[p].version][1] > 0
  BY <1>0 DEF LifecycleInv, FilesExist, HeldFilesExist
<1>3. ASSUME NEW v \in Versions
      PROVE  \/ v # op[p].version /\ catalogue'[v] = catalogue[v]
             \/ v = op[p].version /\ catalogue'[v].status = "approved"
  BY DEF UpsertRelease, LifecycleInv, TypeOK
<1>4. \A v \in Versions : HasEvent(v)' <=> HasEvent(v)
  BY <1>1 DEF HasEvent
<1>5. OneLive'
  <2>1. \A v \in Versions : catalogue'[v].status = "published" => catalogue[v].status = "published"
    BY <1>3
  <2>2. QED
    BY <2>1 DEF LifecycleInv, OneLive, Live
<1>6. LiveHasEvent'
  <2>1. ASSUME NEW v \in Versions, catalogue'[v].status \in {"published", "rolled_back"}
        PROVE  HasEvent(v)
    BY <2>1, <1>3 DEF LifecycleInv, LiveHasEvent
  <2>2. QED
    BY <2>1, <1>4 DEF LiveHasEvent
<1>7. CatalogueFilesExist'
  <2>1. ASSUME NEW v \in Versions
        PROVE  /\ catalogue'[v].status = "published" => HasArtifacts(catalogue'[v])
               /\ HasArtifacts(catalogue'[v]) => files[v][1] > 0
    BY <1>2, <1>3 DEF LifecycleInv, FilesExist, CatalogueFilesExist
  <2>2. QED
    BY <1>1, <2>1 DEF CatalogueFilesExist, HasArtifacts
<1>8. QED
  BY <1>1, <1>4, <1>5, <1>6, <1>7, Ended

\* A written file is a file: what was on disk stays, in the sense of FilesExist.
LEMMA WriteKeeps ==
  ASSUME LifecycleInv, NEW p \in Processes, WriteFile(p), TypeOK'
  PROVE  LifecycleInv'
<1>0. /\ TypeOK /\ op[p] \in Op /\ op[p].version \in Versions
      /\ op[p].pc = "write" /\ op[p].file < Files /\ op[p].file \in Nat /\ op[p].build \in Nat
      /\ UNCHANGED <<catalogue, outbox>>
  BY DEF LifecycleInv, TypeOK, Op, WriteFile
<1>1. /\ op'[p] = [op[p] EXCEPT !.file = @ + 1]
      /\ \A q \in Processes : q # p => op'[q] = op[q]
  BY <1>0, FileStep DEF WriteFile
<1>2. /\ op'[p].pc = "write" /\ op'[p].file = op[p].file + 1 /\ op'[p].version = op[p].version
      /\ op'[p].build = op[p].build
  BY <1>0, <1>1 DEF Op
<1>3. op[p].build > 0 /\ (op[p].file > 0 => files[op[p].version][1] > 0)
  BY <1>0 DEF LifecycleInv, FilesExist, HeldFilesExist
<1>4. \A v \in Versions : files[v][1] > 0 => files'[v][1] > 0
  BY <1>0, <1>3 DEF WriteFile, TypeOK
<1>5. files'[op[p].version][1] > 0
  <2>1. CASE op[p].file = 0
    <3>1. op[p].file + 1 = 1 /\ 1 \in 1..Files
      BY <2>1
    <3>2. QED
      BY <1>0, <1>3, <3>1 DEF WriteFile, TypeOK
  <2>2. CASE op[p].file > 0
    BY <1>0, <1>3, <1>4, <2>2
  <2>3. QED
    BY <1>0, <2>1, <2>2
<1>6. OneLive' /\ LiveHasEvent'
  BY <1>0 DEF LifecycleInv, OneLive, LiveHasEvent, Live, HasEvent
<1>7. CatalogueFilesExist'
  BY <1>0, <1>4 DEF LifecycleInv, FilesExist, CatalogueFilesExist, HasArtifacts
<1>8. ASSUME NEW q \in Processes PROVE ReadHolds(q)' /\ HeldFilesExist(q)'
  <2>1. CASE q = p
    <3>1. ReadHolds(p)'
      BY <1>2 DEF ReadHolds
    <3>2. HeldFilesExist(p)'
      BY <1>0, <1>2, <1>3, <1>5 DEF HeldFilesExist
    <3>3. QED
      BY <2>1, <3>1, <3>2
  <2>2. CASE q # p
    <3>1. op'[q] = op[q] /\ op[q].version \in Versions
      BY <1>0, <1>1, <2>2 DEF TypeOK, Op
    <3>2. ReadHolds(q)'
      BY <1>0, <3>1 DEF LifecycleInv, ReadsHold, ReadHolds, Activating, HasArtifacts, HasEvent
    <3>3. HeldFilesExist(q)'
      BY <1>4, <3>1 DEF LifecycleInv, FilesExist, HeldFilesExist, Activating, HasArtifacts
    <3>4. QED
      BY <3>2, <3>3
  <2>3. QED
    BY <2>1, <2>2
<1>9. QED
  BY <1>6, <1>7, <1>8 DEF LifecycleInv, ReadsHold, FilesExist

\* Steps that change only the state of the use case, and perhaps the evidence.
LEMMA QuietKeeps ==
  ASSUME LifecycleInv, NEW p \in Processes, TypeOK',
         \/ Begin(p) \/ CheckReady(p) \/ GetTarget(p) \/ ListLive(p)
         \/ GetForEdit(p) \/ Fail(p) \/ RecordAudit(p) \/ Crash(p)
  PROVE  LifecycleInv' /\ UNCHANGED catalogue
<1>0. TypeOK /\ op[p] \in Op
  BY DEF LifecycleInv, TypeOK
<1>1. CASE Begin(p)
  <2>1. Begun(p)
    BY <1>0, <1>1, BeginStep
  <2>2. OwnPart(p)'
    BY <1>1, BeginHolds
  <2>3. QED
    BY <2>1, <2>2, Frame DEF Begun
<1>2. CASE CheckReady(p)
  <2>1. CASE Refuse(p)
    BY <1>0, <1>2, <2>1, RefuseStep, LetGo DEF CheckReady
  <2>2. CASE op' = [op EXCEPT ![p].pc = "get"]
    <3>1. /\ op'[p].pc = "get" /\ op'[p].action = op[p].action /\ op'[p].to = op[p].to
          /\ \A q \in Processes : q # p => op'[q] = op[q]
          /\ op[p].pc = "ready" /\ UNCHANGED <<catalogue, files, outbox>>
      BY <1>0, <1>2, <2>2 DEF CheckReady, TypeOK, Op
    <3>2. ReadHolds(p)
      BY DEF LifecycleInv, ReadsHold
    <3>3. OwnPart(p)'
      BY <3>1, <3>2 DEF OwnPart, ReadHolds, HeldFilesExist
    <3>4. QED
      BY <3>1, <3>3, Frame
  <2>3. QED
    BY <1>2, <2>1, <2>2 DEF CheckReady
<1>3. CASE GetTarget(p)
  <2>1. CASE Refuse(p)
    BY <1>0, <1>3, <2>1, RefuseStep, LetGo DEF GetTarget
  <2>2. CASE Return(p)
    BY <1>0, <1>3, <2>2, ReturnStep, LetGo DEF GetTarget
  <2>3. CASE /\ op' = [op EXCEPT ![p].pc = "list", ![p].doc = catalogue[op[p].version]]
             /\ op[p].action \in {"publish", "rollback"}
             /\ HasArtifacts(catalogue[op[p].version])
    <3>1. UNCHANGED <<catalogue, files, outbox>>
      BY <1>3 DEF GetTarget
    <3>2. PICK doc : doc = catalogue[op[p].version]
      OBVIOUS
    <3>3. /\ op'[p] = [op[p] EXCEPT !.pc = "list", !.doc = doc]
          /\ \A q \in Processes : q # p => op'[q] = op[q]
      BY <1>0, <2>3, <3>2, ReadStep, ItsDoc
    <3>4. Activating(p) /\ HasArtifacts(doc)
      BY <2>3, <3>2 DEF Activating
    <3>5. OwnPart(p)'
      BY <3>1, <3>2, <3>3, <3>4, Gotten
    <3>6. QED
      BY <3>1, <3>3, <3>5, Frame
  <2>4. QED
    BY <1>3, <2>1, <2>2, <2>3 DEF GetTarget, MayPublish, MayRollBackTo
<1>4. CASE ListLive(p)
  <2>1. CASE Refuse(p)
    BY <1>0, <1>4, <2>1, RefuseStep, LetGo DEF ListLive
  <2>2. CASE op' = [op EXCEPT ![p].pc = "commit", ![p].live = ListPublished]
    <3>1. UNCHANGED <<catalogue, files, outbox>> /\ op[p].pc = "list"
      BY <1>4 DEF ListLive
    <3>2. /\ op'[p] = [op[p] EXCEPT !.pc = "commit", !.live = ListPublished]
          /\ \A q \in Processes : q # p => op'[q] = op[q]
      BY <1>0, <2>2, ListType, ListStep
    <3>3. OwnPart(p)'
      BY <3>1, <3>2, Listed
    <3>4. QED
      BY <3>1, <3>2, <3>3, Frame
  <2>3. QED
    BY <1>4, <2>1, <2>2 DEF ListLive
<1>5. CASE GetForEdit(p)
  <2>1. CASE Finish(p)
    BY <1>0, <1>5, <2>1, FinishStep, NoOpType, LetGo DEF GetForEdit
  <2>2. CASE /\ op' = [op EXCEPT ![p].pc = "commit", ![p].doc = catalogue[op[p].version]]
             /\ \/ op[p].action = "advance" /\ MayAdvance(catalogue[op[p].version], op[p].to)
                \/ op[p].action = "notes" /\ MayEditNotes(catalogue[op[p].version])
    <3>1. /\ UNCHANGED <<catalogue, files, outbox>> /\ op[p].pc = "get"
          /\ op[p].action \in {"advance", "notes"}
      BY <1>5 DEF GetForEdit
    <3>2. PICK doc : doc = catalogue[op[p].version]
      OBVIOUS
    <3>3. /\ op'[p] = [op[p] EXCEPT !.pc = "commit", !.doc = doc]
          /\ \A q \in Processes : q # p => op'[q] = op[q]
      BY <1>0, <2>2, <3>2, ReadStep, ItsDoc
    <3>4. doc \in Doc
      BY <1>0, <3>2, ItsDoc
    <3>5. doc.status \in {"draft", "validation", "review", "approved"}
      BY <2>2, <3>2, <3>4 DEF MayAdvance, Legal, MayEditNotes, Doc, Status
    <3>6. OwnPart(p)'
      BY <3>1, <3>2, <3>3, <3>5, Gotten
    <3>7. QED
      BY <3>1, <3>3, <3>6, Frame
  <2>3. QED
    BY <1>5, <2>1, <2>2 DEF GetForEdit
<1>6. CASE Fail(p)
  BY <1>0, <1>6, RefuseStep, FinishStep, NoOpType, LetGo DEF Fail
<1>7. CASE RecordAudit(p)
  BY <1>0, <1>7, FinishStep, NoOpType, LetGo DEF RecordAudit
<1>8. CASE Crash(p)
  BY <1>0, <1>8, FinishStep, NoOpType, LetGo DEF Crash
<1>9. QED
  BY <1>1, <1>2, <1>3, <1>4, <1>5, <1>6, <1>7, <1>8

LEMMA LifecycleStep ==
  ASSUME LifecycleInv, [Next]_vars
  PROVE  LifecycleInv'
<1>0. TypeOK'
  BY TypeStep DEF LifecycleInv
<1>1. CASE UNCHANGED vars
  BY <1>0, <1>1 DEF vars, LifecycleInv, OneLive, LiveHasEvent, Live, HasEvent, ReadsHold, ReadHolds,
     FilesExist, CatalogueFilesExist, HeldFilesExist, HasArtifacts, Activating
<1>2. ASSUME NEW p \in Processes,
             \/ Begin(p) \/ CheckReady(p) \/ GetTarget(p) \/ ListLive(p)
             \/ GetForEdit(p) \/ Fail(p) \/ RecordAudit(p) \/ Crash(p)
      PROVE  LifecycleInv'
  BY <1>0, <1>2, QuietKeeps
<1>3. ASSUME NEW p \in Processes,
             Activate(p) \/ UpdateAudited(p) \/ WriteFile(p) \/ UpsertRelease(p)
      PROVE  LifecycleInv'
  BY <1>0, <1>3, ActivateKeeps, EditKeeps, WriteKeeps, UpsertKeeps
<1>4. QED
  BY <1>1, <1>2, <1>3 DEF Next

LEMMA LifecycleInit == ASSUME Init PROVE LifecycleInv
<1>1. TypeOK
  BY Constants, NoOpType DEF Init, TypeOK
<1>2. \A v \in Versions : catalogue[v].status \in {"absent", "draft"} /\ catalogue[v].build = 0
  BY DEF Init, NoDoc, Draft
<1>3. \A p \in Processes : op[p].pc = "idle"
  BY NoOpType DEF Init
<1>4. OneLive /\ LiveHasEvent /\ CatalogueFilesExist
  BY <1>2 DEF OneLive, LiveHasEvent, Live, CatalogueFilesExist, HasArtifacts
<1>5. ReadsHold /\ FilesExist
  BY <1>3, <1>4 DEF ReadsHold, ReadHolds, FilesExist, HeldFilesExist
<1>6. QED
  BY <1>1, <1>4, <1>5 DEF LifecycleInv

(***************************************************************************)
(* The inductive invariant: what every use case holds, at every step, is   *)
(* good enough for the whole-document writes it is about to make.          *)
(***************************************************************************)
THEOREM LifecycleIsSound == Spec => []LifecycleInv
<1>1. Init => LifecycleInv
  BY LifecycleInit
<1>2. LifecycleInv /\ [Next]_vars => LifecycleInv'
  BY LifecycleStep
<1>3. QED
  BY <1>1, <1>2, PTL DEF Spec

(***************************************************************************)
(* Any number of publishers, rollbacks, edits and exports, whatever they   *)
(* read and however stale it is, leave at most one version live.           *)
(***************************************************************************)
THEOREM AtMostOneLive == Spec => []OneLive
<1>1. LifecycleInv => OneLive
  BY DEF LifecycleInv
<1>2. QED
  BY <1>1, LifecycleIsSound, PTL

(***************************************************************************)
(* No version is, or ever was, live without its reindex event.             *)
(***************************************************************************)
THEOREM EveryReleaseHasEvent == Spec => []LiveHasEvent
<1>1. LifecycleInv => LiveHasEvent
  BY DEF LifecycleInv
<1>2. QED
  BY <1>1, LifecycleIsSound, PTL

-----------------------------------------------------------------------------
\* What a commit of the review gate leaves of the live versions: all of them.
LEMMA EditLeavesLive ==
  ASSUME LifecycleInv, NEW p \in Processes, UpdateAudited(p)
  PROVE  Live(catalogue') = Live(catalogue)
<1>0. TypeOK /\ op[p] \in Op /\ op[p].version \in Versions /\ op[p].doc \in Doc
  BY DEF LifecycleInv, TypeOK, Op
<1>1. /\ op[p].doc.status \in {"draft", "validation", "review", "approved"}
      /\ op[p].action = "advance" => op[p].to \in {"validation", "review", "approved"}
  BY DEF LifecycleInv, ReadsHold, ReadHolds, UpdateAudited
<1>2. Edited(p).status # "published"
  BY <1>0, <1>1 DEF Edited, Doc
<1>3. ASSUME NEW v \in Versions
      PROVE  \/ catalogue'[v] = catalogue[v]
             \/ catalogue'[v].status # "published" /\ catalogue[v].status # "published"
  BY <1>0, <1>1, <1>2 DEF UpdateAudited, Matches, TypeOK
<1>4. QED
  BY <1>3 DEF Live

\* The end of an export takes its own version out of the live ones.
LEMMA UpsertLeavesLive ==
  ASSUME LifecycleInv, NEW p \in Processes, UpsertRelease(p)
  PROVE  Live(catalogue') = Live(catalogue) \ {op[p].version}
<1>1. ASSUME NEW v \in Versions
      PROVE  \/ v # op[p].version /\ catalogue'[v] = catalogue[v]
             \/ v = op[p].version /\ catalogue'[v].status = "approved"
  BY DEF UpsertRelease, LifecycleInv, TypeOK
<1>2. QED
  BY <1>1 DEF Live

\* An activation leaves one live version, its own.
LEMMA ActivateLeavesLive ==
  ASSUME LifecycleInv, NEW p \in Processes, Activate(p)
  PROVE  op[p].version \in Versions /\ Live(catalogue') = {op[p].version}
<1>1. op[p].version \in Versions
  BY ItsDoc DEF LifecycleInv
<1>2. op[p].version \in Live(catalogue')
  BY <1>1, ActivateEffect DEF Live
<1>3. \A u, v \in Live(catalogue') : u = v
  BY DEF Activate, IndexAccepts
<1>4. QED
  BY <1>1, <1>2, <1>3

\* The last live version is taken away only by an export of it.
LEMMA LiveStays ==
  ASSUME LifecycleInv, [Next]_vars, Live(catalogue) # {}
  PROVE  Live(catalogue') # {} \/ ExportOfLive
<1>1. CASE UNCHANGED catalogue
  BY <1>1
<1>2. ASSUME NEW p \in Processes, Activate(p) PROVE Live(catalogue') # {}
  BY <1>2, ActivateLeavesLive
<1>3. ASSUME NEW p \in Processes, UpdateAudited(p) PROVE Live(catalogue') # {}
  BY <1>3, EditLeavesLive
<1>4. ASSUME NEW p \in Processes, UpsertRelease(p)
      PROVE  Live(catalogue') # {} \/ ExportOfLive
  <2>1. CASE op[p].version \in Live(catalogue)
    BY <1>4, <2>1 DEF ExportOfLive
  <2>2. CASE op[p].version \notin Live(catalogue)
    BY <1>4, <2>2, UpsertLeavesLive
  <2>3. QED
    BY <2>1, <2>2
<1>5. CASE UNCHANGED vars
  BY <1>1, <1>5 DEF vars
<1>6. ASSUME NEW p \in Processes,
             \/ Begin(p) \/ CheckReady(p) \/ GetTarget(p) \/ ListLive(p)
             \/ GetForEdit(p) \/ Fail(p) \/ RecordAudit(p) \/ Crash(p)
      PROVE  Live(catalogue') # {}
  <2>1. TypeOK'
    BY TypeStep DEF LifecycleInv
  <2>2. UNCHANGED catalogue
    BY <1>6, <2>1, QuietKeeps
  <2>3. QED
    BY <1>1, <2>2
<1>7. ASSUME NEW p \in Processes, WriteFile(p) PROVE Live(catalogue') # {}
  BY <1>1, <1>7 DEF WriteFile
<1>8. QED
  BY <1>2, <1>3, <1>4, <1>5, <1>6, <1>7 DEF Next

(***************************************************************************)
(* Once a version is live there is always one, whatever is published,      *)
(* rolled back, edited, exported and cut off in the meantime: the one step *)
(* that leaves none is the end of an export of the live version itself.    *)
(***************************************************************************)
THEOREM AlwaysALiveVersion == Spec => StaysLive
<1>1. LifecycleInv /\ [Next]_vars =>
        [Live(catalogue) # {} => Live(catalogue') # {} \/ ExportOfLive]_vars
  BY LiveStays
<1>2. QED
  BY <1>1, LifecycleIsSound, PTL DEF Spec, StaysLive

-----------------------------------------------------------------------------
(***************************************************************************)
(* The public catalogue.                                                   *)
(***************************************************************************)

\* A step of p that does not leave it writing: others write what they wrote.
LEMMA ExportingLeft ==
  ASSUME NEW p \in Processes, \A q \in Processes : q # p => op'[q] = op[q],
         op'[p].pc # "write"
  PROVE  /\ op[p].pc # "write" => Exporting' = Exporting
         /\ op[p].pc = "write" => /\ op[p].version \in Exporting
                                  /\ Exporting' \in {Exporting, Exporting \ {op[p].version}}
<1>1. ASSUME NEW v PROVE v \in Exporting' => v \in Exporting
  BY DEF Exporting
<1>2. ASSUME NEW v, v \in Exporting, v # op[p].version \/ op[p].pc # "write" PROVE v \in Exporting'
  <2>1. PICK q \in Processes : op[q].pc = "write" /\ op[q].version = v
    BY <1>2 DEF Exporting
  <2>2. q # p
    BY <1>2, <2>1
  <2>3. QED
    BY <2>1, <2>2 DEF Exporting
<1>3. CASE op[p].pc # "write"
  BY <1>1, <1>2, <1>3
<1>4. CASE op[p].pc = "write"
  <2>1. op[p].version \in Exporting
    BY <1>4 DEF Exporting
  <2>2. CASE op[p].version \in Exporting'
    <3>1. \A v : v \in Exporting' <=> v \in Exporting
      BY <1>1, <1>2, <2>2
    <3>2. Exporting' = Exporting
      BY <3>1
    <3>3. QED
      BY <1>4, <2>1, <3>2
  <2>3. CASE op[p].version \notin Exporting'
    <3>1. \A v : v \in Exporting' <=> v \in Exporting /\ v # op[p].version
      BY <1>1, <1>2, <2>3
    <3>2. Exporting' = Exporting \ {op[p].version}
      BY <3>1
    <3>3. QED
      BY <1>4, <2>1, <3>2
  <2>4. QED
    BY <2>2, <2>3
<1>5. QED
  BY <1>3, <1>4

\* A use case that begins may be an export.
LEMMA BeginRefines ==
  ASSUME LifecycleInv, NEW p \in Processes, Begin(p)
  PROVE  \/ UNCHANGED <<Live(catalogue), Exporting>>
         \/ \E v \in Versions : Catalogue!StartExport(v)
<1>1. Begun(p) /\ op'[p] \in Op
  BY BeginStep DEF LifecycleInv, Begun
<1>2. Live(catalogue)' = Live(catalogue)
  BY <1>1 DEF Begun, Live
<1>3. /\ op[p].pc = "idle" /\ \A q \in Processes : q # p => op'[q] = op[q]
  BY <1>1 DEF Begun
<1>4. CASE op'[p].pc # "write"
  BY <1>2, <1>3, <1>4, ExportingLeft
<1>5. CASE op'[p].pc = "write"
  <2>1. PICK w \in Versions : w = op'[p].version
    BY <1>1 DEF Op
  <2>2. \A v : v \in Exporting' <=> v \in Exporting \/ v = w
    BY <1>3, <1>5, <2>1 DEF Exporting
  <2>3. Exporting' = Exporting \cup {w}
    BY <2>2
  <2>4. QED
    BY <1>2, <2>3 DEF Catalogue!StartExport
<1>6. QED
  BY <1>4, <1>5

\* The reads, and the row of the CLI: nothing the public sees.
LEMMA ReadsRefine ==
  ASSUME LifecycleInv, NEW p \in Processes,
         CheckReady(p) \/ GetTarget(p) \/ ListLive(p) \/ GetForEdit(p) \/ RecordAudit(p)
  PROVE  UNCHANGED <<Live(catalogue), Exporting>>
<1>1. /\ TypeOK /\ op[p] \in Op /\ op[p].pc # "write" /\ UNCHANGED catalogue
  BY DEF LifecycleInv, TypeOK, CheckReady, GetTarget, ListLive, GetForEdit, RecordAudit
<1>2. \A q \in Processes : q # p => op'[q] = op[q]
  <2>1. CASE CheckReady(p)
    BY <1>1, <2>1, RefuseStep DEF CheckReady, TypeOK
  <2>2. CASE GetTarget(p)
    BY <1>1, <2>2, RefuseStep, ReturnStep DEF GetTarget, TypeOK
  <2>3. CASE ListLive(p)
    BY <1>1, <2>3, RefuseStep DEF ListLive, TypeOK
  <2>4. CASE GetForEdit(p) \/ RecordAudit(p)
    BY <1>1, <2>4, FinishStep DEF GetForEdit, RecordAudit, TypeOK
  <2>5. QED
    BY <2>1, <2>2, <2>3, <2>4
<1>3. op'[p].pc # "write"
  <2>1. CASE CheckReady(p)
    BY <1>1, <2>1, RefuseStep DEF CheckReady, TypeOK, Op
  <2>2. CASE GetTarget(p)
    BY <1>1, <2>2, RefuseStep, ReturnStep DEF GetTarget, TypeOK, Op
  <2>3. CASE ListLive(p)
    BY <1>1, <2>3, RefuseStep DEF ListLive, TypeOK, Op
  <2>4. CASE GetForEdit(p) \/ RecordAudit(p)
    BY <1>1, <2>4, FinishStep, NoOpType DEF GetForEdit, RecordAudit, TypeOK, Op
  <2>5. QED
    BY <2>1, <2>2, <2>3, <2>4
<1>4. QED
  BY <1>1, <1>2, <1>3, ExportingLeft DEF Live

\* An export, or another use case, that is given up.
LEMMA LeaveRefines ==
  ASSUME LifecycleInv, NEW p \in Processes, Fail(p) \/ Crash(p)
  PROVE  \/ UNCHANGED <<Live(catalogue), Exporting>>
         \/ \E v \in Versions : Catalogue!EndExport(v)
<1>1. /\ TypeOK /\ op[p].version \in Versions /\ Live(catalogue)' = Live(catalogue)
  BY ItsDoc DEF LifecycleInv, Fail, Crash, Live
<1>2. /\ op'[p].pc # "write" /\ \A q \in Processes : q # p => op'[q] = op[q]
  BY <1>1, RefuseStep, FinishStep, NoOpType DEF Fail, Crash
<1>3. CASE op[p].pc # "write"
  BY <1>1, <1>2, <1>3, ExportingLeft
<1>4. CASE op[p].pc = "write"
  <2>1. Catalogue!EndExport(op[p].version)
    BY <1>1, <1>2, <1>4, ExportingLeft DEF Catalogue!EndExport
  <2>2. QED
    BY <1>1, <2>1
<1>5. QED
  BY <1>3, <1>4

\* The writes of documents and files.
LEMMA CommitRefines ==
  ASSUME LifecycleInv, NEW p \in Processes,
         Activate(p) \/ UpdateAudited(p) \/ WriteFile(p) \/ UpsertRelease(p)
  PROVE  \/ UNCHANGED <<Live(catalogue), Exporting>>
         \/ Catalogue!Next
<1>0. TypeOK /\ op[p] \in Op /\ op[p].version \in Versions
  BY DEF LifecycleInv, TypeOK, Op
<1>1. CASE Activate(p)
  <2>1. op'[p].pc # "write" /\ \A q \in Processes : q # p => op'[q] = op[q]
    BY <1>0, <1>1, FinishStep, RecordStep, NoOpType DEF Activate
  <2>2. Exporting' = Exporting
    BY <1>1, <2>1, ExportingLeft DEF Activate
  <2>3. Live(catalogue)' = {op[p].version}
    BY <1>1, ActivateLeavesLive DEF Live
  <2>4. QED
    BY <1>0, <2>2, <2>3 DEF Catalogue!Next, Catalogue!Release
<1>2. CASE UpdateAudited(p)
  <2>1. op'[p].pc # "write" /\ \A q \in Processes : q # p => op'[q] = op[q]
    BY <1>0, <1>2, FinishStep, NoOpType DEF UpdateAudited
  <2>2. Exporting' = Exporting
    BY <1>2, <2>1, ExportingLeft DEF UpdateAudited
  <2>3. Live(catalogue)' = Live(catalogue)
    BY <1>2, EditLeavesLive DEF Live
  <2>4. QED
    BY <2>2, <2>3
<1>3. CASE WriteFile(p)
  <2>1. op'[p] = [op[p] EXCEPT !.file = @ + 1] /\ \A q \in Processes : q # p => op'[q] = op[q]
    BY <1>0, <1>3, FileStep DEF WriteFile
  <2>2. op'[p].pc = op[p].pc /\ op'[p].version = op[p].version
    BY <1>0, <2>1 DEF Op
  <2>3. ASSUME NEW q \in Processes PROVE op'[q].pc = op[q].pc /\ op'[q].version = op[q].version
    BY <2>1, <2>2
  <2>4. Exporting' = Exporting
    <3>1. \A v : v \in Exporting' <=> v \in Exporting
      BY <2>3 DEF Exporting
    <3>2. QED
      BY <3>1
  <2>5. Live(catalogue)' = Live(catalogue)
    BY <1>3 DEF WriteFile, Live
  <2>6. QED
    BY <2>4, <2>5
<1>4. CASE UpsertRelease(p)
  <2>1. op'[p].pc # "write" /\ \A q \in Processes : q # p => op'[q] = op[q]
    BY <1>0, <1>4, RecordStep DEF UpsertRelease
  <2>2. Live(catalogue)' = Live(catalogue) \ {op[p].version}
    BY <1>4, UpsertLeavesLive DEF Live
  <2>3. Catalogue!EndExport(op[p].version)
    BY <1>4, <2>1, <2>2, ExportingLeft DEF Catalogue!EndExport, UpsertRelease
  <2>4. QED
    BY <1>0, <2>3 DEF Catalogue!Next
<1>5. QED
  BY <1>1, <1>2, <1>3, <1>4

(***************************************************************************)
(* The lifecycle implements the public catalogue: a release replaces the   *)
(* current dataset in one step, and a dataset goes away only at the end of *)
(* an export of that same version.                                         *)
(***************************************************************************)
THEOREM CatalogueRefined == Spec => ImplementsPublicCatalogue
<1>1. Init => Catalogue!Init
  BY NoOpType DEF Init, Catalogue!Init, Live, NoDoc, Draft, Exporting
<1>2. LifecycleInv /\ [Next]_vars => [Catalogue!Next]_<<Live(catalogue), Exporting>>
  <2> SUFFICES ASSUME LifecycleInv, [Next]_vars
               PROVE  Catalogue!Next \/ UNCHANGED <<Live(catalogue), Exporting>>
    OBVIOUS
  <2>1. CASE UNCHANGED vars
    BY <2>1 DEF vars, Live, Exporting
  <2>2. ASSUME NEW p \in Processes, Begin(p) \/ Fail(p) \/ Crash(p)
        PROVE  Catalogue!Next \/ UNCHANGED <<Live(catalogue), Exporting>>
    BY <2>2, BeginRefines, LeaveRefines DEF Catalogue!Next
  <2>3. ASSUME NEW p \in Processes,
               CheckReady(p) \/ GetTarget(p) \/ ListLive(p) \/ GetForEdit(p) \/ RecordAudit(p)
        PROVE  UNCHANGED <<Live(catalogue), Exporting>>
    BY <2>3, ReadsRefine
  <2>4. ASSUME NEW p \in Processes,
               Activate(p) \/ UpdateAudited(p) \/ WriteFile(p) \/ UpsertRelease(p)
        PROVE  Catalogue!Next \/ UNCHANGED <<Live(catalogue), Exporting>>
    BY <2>4, CommitRefines
  <2>5. QED
    BY <2>1, <2>2, <2>3, <2>4 DEF Next
<1>3. QED
  BY <1>1, <1>2, LifecycleIsSound, PTL
     DEF Spec, ImplementsPublicCatalogue, Catalogue!Spec, Catalogue!catalogueVars

-----------------------------------------------------------------------------
(***************************************************************************)
(* What is described is on disk, for a version that no export contested.   *)
(***************************************************************************)
LEMMA OpParts ==
  ASSUME TypeOK, NEW p \in Processes
  PROVE  /\ op[p] \in Op /\ op[p].version \in Versions /\ op[p].doc \in Doc
         /\ op[p].live \in [Versions -> Doc] /\ op[p].file \in Nat /\ op[p].build \in Nat
BY DEF TypeOK, Op


\* A step of p that touches no document and no file.
LEMMA QuietWritten ==
  ASSUME NEW v \in Versions, DownloadsHold(v), NEW p \in Processes,
         UNCHANGED <<catalogue, files>>, \A q \in Processes : q # p => op'[q] = op[q],
         op[p].pc # "write", op'[p].pc = "write" => op'[p].file = 0,
         ~ Overwritten(v) => HeldIsWritten(p, v)'
  PROVE  DownloadsHold(v)'
<1>1. Overwritten(v)' => Overwritten(v)
  BY DEF Overwritten
<1>2. Overwritten(v) => Overwritten(v)'
  BY DEF Overwritten
<1>3. ASSUME NEW q \in Processes PROVE CountsHold(q, v)'
  BY DEF DownloadsHold, CountsHold
<1>4. ASSUME ~ Overwritten(v)
      PROVE  Written(v, catalogue[v])' /\ \A q \in Processes : HeldIsWritten(q, v)'
  <2>1. Written(v, catalogue[v])'
    BY <1>4 DEF DownloadsHold, Written, BytesVerified, HasArtifacts
  <2>2. ASSUME NEW q \in Processes, q # p PROVE HeldIsWritten(q, v)'
    BY <1>4, <2>2 DEF DownloadsHold, HeldIsWritten, Written, BytesVerified, HasArtifacts, Activating
  <2>3. QED
    BY <1>4, <2>1, <2>2
<1>5. QED
  BY <1>1, <1>2, <1>3, <1>4 DEF DownloadsHold

LEMMA GoneWritten ==
  ASSUME NEW v, NEW p \in Processes, op'[p].pc \notin {"list", "commit"} PROVE HeldIsWritten(p, v)'
BY DEF HeldIsWritten

LEMMA BeginWritten ==
  ASSUME LifecycleInv, NEW v \in Versions, DownloadsHold(v), NEW p \in Processes, Begin(p)
  PROVE  DownloadsHold(v)'
<1>1. Begun(p)
  BY BeginStep DEF LifecycleInv
<1>2. HeldIsWritten(p, v)'
  BY <1>1, GoneWritten DEF Begun
<1>3. QED
  BY <1>1, <1>2, QuietWritten DEF Begun

LEMMA CheckReadyWritten ==
  ASSUME LifecycleInv, NEW v \in Versions, DownloadsHold(v), NEW p \in Processes, CheckReady(p)
  PROVE  DownloadsHold(v)'
<1>0. TypeOK /\ UNCHANGED <<catalogue, files>> /\ op[p].pc # "write"
  BY DEF LifecycleInv, CheckReady
<1>1. CASE Refuse(p)
  BY <1>0, <1>1, RefuseStep, GoneWritten, QuietWritten
<1>2. CASE op' = [op EXCEPT ![p].pc = "get"]
  <2>1. op'[p].pc = "get" /\ \A q \in Processes : q # p => op'[q] = op[q]
    BY <1>0, <1>2 DEF TypeOK, Op
  <2>2. QED
    BY <1>0, <2>1, GoneWritten, QuietWritten
<1>3. QED
  BY <1>1, <1>2 DEF CheckReady

\* A document as read is described as the catalogue describes it.
LEMMA GottenWritten ==
  ASSUME LifecycleInv, NEW v \in Versions, DownloadsHold(v), NEW p \in Processes,
         NEW pc \in {"list", "commit"}, NEW doc, doc = catalogue[op[p].version],
         UNCHANGED <<catalogue, files>>, op[p].pc # "write",
         op' = [op EXCEPT ![p].pc = pc, ![p].doc = doc],
         pc = "commit" => op[p].action \in {"advance", "notes"}
  PROVE  DownloadsHold(v)'
<1>1. TypeOK /\ doc \in Doc
  BY ItsDoc DEF LifecycleInv
<1>2. op'[p] = [op[p] EXCEPT !.pc = pc, !.doc = doc] /\ \A q \in Processes : q # p => op'[q] = op[q]
  BY <1>1, ReadStep
<1>3. op[p] \in Op
  BY <1>1, OpParts
<1>4. /\ op'[p].pc = pc /\ op'[p].doc = doc /\ op'[p].version = op[p].version
      /\ op'[p].action = op[p].action
  <2> DEFINE new == [op[p] EXCEPT !.pc = pc, !.doc = doc]
  <2>1. new.pc = pc /\ new.doc = doc /\ new.version = op[p].version /\ new.action = op[p].action
    BY <1>3 DEF Op
  <2> HIDE DEF new
  <2>2. op'[p] = new
    BY <1>2 DEF new
  <2>3. QED
    BY <2>1, <2>2
<1>5. ASSUME ~ Overwritten(v) PROVE HeldIsWritten(p, v)'
  <2>1. v = op[p].version => Written(v, doc)
    BY <1>5 DEF DownloadsHold
  <2>2. v = op'[p].version => Written(v, op[p].doc)'
    BY <1>4, <2>1 DEF Written, BytesVerified, HasArtifacts
  <2>3. QED
    BY <1>4, <2>2 DEF HeldIsWritten, Activating
<1>6. QED
  BY <1>2, <1>4, <1>5, QuietWritten

LEMMA GetTargetWritten ==
  ASSUME LifecycleInv, NEW v \in Versions, DownloadsHold(v), NEW p \in Processes, GetTarget(p)
  PROVE  DownloadsHold(v)'
<1>0. TypeOK /\ UNCHANGED <<catalogue, files>> /\ op[p].pc # "write"
  BY DEF LifecycleInv, GetTarget
<1>1. CASE Refuse(p)
  BY <1>0, <1>1, RefuseStep, GoneWritten, QuietWritten
<1>2. CASE Return(p)
  BY <1>0, <1>2, ReturnStep, GoneWritten, QuietWritten
<1>3. CASE op' = [op EXCEPT ![p].pc = "list", ![p].doc = catalogue[op[p].version]]
  BY <1>0, <1>3, GottenWritten
<1>4. QED
  BY <1>1, <1>2, <1>3 DEF GetTarget

LEMMA GetForEditWritten ==
  ASSUME LifecycleInv, NEW v \in Versions, DownloadsHold(v), NEW p \in Processes, GetForEdit(p)
  PROVE  DownloadsHold(v)'
<1>0. /\ TypeOK /\ UNCHANGED <<catalogue, files>> /\ op[p].action \in {"advance", "notes"}
      /\ op[p].pc # "write"
  BY DEF LifecycleInv, GetForEdit
<1>1. CASE Finish(p)
  BY <1>0, <1>1, FinishStep, NoOpType, GoneWritten, QuietWritten
<1>2. CASE op' = [op EXCEPT ![p].pc = "commit", ![p].doc = catalogue[op[p].version]]
  BY <1>0, <1>2, GottenWritten
<1>3. QED
  BY <1>1, <1>2 DEF GetForEdit

LEMMA ListLiveWritten ==
  ASSUME LifecycleInv, NEW v \in Versions, DownloadsHold(v), NEW p \in Processes, ListLive(p)
  PROVE  DownloadsHold(v)'
<1>0. TypeOK /\ UNCHANGED <<catalogue, files>> /\ op[p].pc = "list"
  BY DEF LifecycleInv, ListLive
<1>1. CASE Refuse(p)
  BY <1>0, <1>1, RefuseStep, GoneWritten, QuietWritten
<1>2. CASE op' = [op EXCEPT ![p].pc = "commit", ![p].live = ListPublished]
  <2>1. /\ op'[p] = [op[p] EXCEPT !.pc = "commit", !.live = ListPublished]
        /\ \A q \in Processes : q # p => op'[q] = op[q]
    BY <1>0, <1>2, ListType, ListStep
  <2>2. op[p] \in Op
    BY <1>0, OpParts
  <2>3. /\ op'[p].pc = "commit" /\ op'[p].doc = op[p].doc /\ op'[p].version = op[p].version
        /\ op'[p].live = ListPublished
    BY <2>1, <2>2 DEF Op
  <2>4. ASSUME ~ Overwritten(v) PROVE HeldIsWritten(p, v)'
    <3>1. PICK doc, listed : doc = op[p].doc /\ listed = ListPublished[v]
      OBVIOUS
    <3>2. v = op[p].version => Written(v, doc)
      BY <1>0, <2>4, <3>1 DEF DownloadsHold, HeldIsWritten
    <3>3. Written(v, listed)
      <4>1. listed \in {catalogue[v], NoDoc}
        BY <3>1 DEF ListPublished
      <4>2. Written(v, catalogue[v])
        BY <2>4 DEF DownloadsHold
      <4>3. Written(v, NoDoc)
        BY DEF Written, HasArtifacts, NoDoc
      <4>4. QED
        BY <4>1, <4>2, <4>3
    <3>4. op'[p].doc = doc /\ op'[p].live[v] = listed
      BY <2>3, <3>1
    <3>5. QED
      BY <1>0, <2>3, <3>2, <3>3, <3>4 DEF HeldIsWritten, Written, BytesVerified, HasArtifacts
  <2>5. QED
    BY <1>0, <2>1, <2>3, <2>4, QuietWritten
<1>3. QED
  BY <1>1, <1>2 DEF ListLive

LEMMA RecordWritten ==
  ASSUME LifecycleInv, NEW v \in Versions, DownloadsHold(v), NEW p \in Processes, RecordAudit(p)
  PROVE  DownloadsHold(v)'
<1>1. TypeOK /\ UNCHANGED <<catalogue, files>> /\ op[p].pc # "write" /\ Finish(p)
  BY DEF LifecycleInv, RecordAudit
<1>2. QED
  BY <1>1, FinishStep, NoOpType, GoneWritten, QuietWritten

\* Nobody else works with v: what they hold of it describes no artifacts.
LEMMA AloneWritten ==
  ASSUME NEW v \in Versions, NEW p \in Processes, ~ InUse(p, v),
         \A q \in Processes : q # p => op'[q] = op[q], op'[p].pc \notin {"list", "commit"}
  PROVE  \A q \in Processes : HeldIsWritten(q, v)'
<1>1. ASSUME NEW q \in Processes, q # p PROVE HeldIsWritten(q, v)'
  <2>1. ~ WorksWith(q, v) /\ op'[q] = op[q]
    BY <1>1 DEF InUse
  <2>2. QED
    BY <2>1 DEF WorksWith, HeldIsWritten, Written, HasArtifacts
<1>2. QED
  BY <1>1, GoneWritten

\* An export is given up over files that nothing describes, or v is contested.
LEMMA LeaveWritten ==
  ASSUME LifecycleInv, NEW v \in Versions, DownloadsHold(v), NEW p \in Processes,
         Fail(p) \/ Crash(p), v \notin contested'
  PROVE  DownloadsHold(v)'
<1>0. TypeOK /\ UNCHANGED <<catalogue, files>>
  BY DEF LifecycleInv, Fail, Crash
<1>1. op'[p].pc \in {"idle", "record"} /\ \A q \in Processes : q # p => op'[q] = op[q]
  BY <1>0, RefuseStep, FinishStep, NoOpType DEF Fail, Crash
<1>2. CASE op[p].pc # "write"
  BY <1>0, <1>1, <1>2, GoneWritten, QuietWritten
<1>3. CASE op[p].pc = "write"
  <2>1. ASSUME NEW q \in Processes PROVE CountsHold(q, v)'
    BY <1>0, <1>1 DEF DownloadsHold, CountsHold
  <2>2. ASSUME ~ Overwritten(v)'
        PROVE  Written(v, catalogue[v])' /\ \A q \in Processes : HeldIsWritten(q, v)'
    <3>1. CASE ~ Overwritten(v)
      <4>1. Written(v, catalogue[v])'
        BY <1>0, <3>1 DEF DownloadsHold, Written, BytesVerified, HasArtifacts
      <4>2. ASSUME NEW q \in Processes, q # p PROVE HeldIsWritten(q, v)'
        BY <1>0, <1>1, <3>1, <4>2
           DEF DownloadsHold, HeldIsWritten, Written, BytesVerified, HasArtifacts, Activating
      <4>3. HeldIsWritten(p, v)'
        BY <1>1, GoneWritten
      <4>4. QED
        BY <4>1, <4>2, <4>3
    <3>2. CASE Overwritten(v)
      <4>1. op[p].version = v /\ op[p].file > 0
        BY <1>1, <2>2, <3>2 DEF Overwritten
      <4>2. ~ CutOff(p)
        BY <4>1 DEF Fail, Crash, Contest
      <4>3. ~ HasArtifacts(catalogue[v]) /\ ~ InUse(p, v)
        BY <1>3, <4>1, <4>2 DEF CutOff
      <4>4. Written(v, catalogue[v])'
        BY <1>0, <4>3 DEF Written, HasArtifacts
      <4>5. QED
        BY <1>1, <4>3, <4>4, AloneWritten
    <3>3. QED
      BY <3>1, <3>2
  <2>3. QED
    BY <2>1, <2>2 DEF DownloadsHold
<1>4. QED
  BY <1>2, <1>3

-----------------------------------------------------------------------------
\* A write of documents: what the others hold is as it was.
LEMMA CommitWritten ==
  ASSUME NEW v \in Versions, DownloadsHold(v), NEW p \in Processes, UNCHANGED files,
         \A q \in Processes : q # p => op'[q] = op[q], op'[p].pc \in {"idle", "record"},
         op[p].pc # "write", ~ Overwritten(v) => Written(v, catalogue[v])'
  PROVE  DownloadsHold(v)'
<1>1. Overwritten(v)' <=> Overwritten(v)
  BY DEF Overwritten
<1>2. ASSUME NEW q \in Processes PROVE CountsHold(q, v)'
  BY DEF DownloadsHold, CountsHold
<1>3. HeldIsWritten(p, v)'
  BY GoneWritten
<1>4. ASSUME ~ Overwritten(v), NEW q \in Processes, q # p PROVE HeldIsWritten(q, v)'
  BY <1>4 DEF DownloadsHold, HeldIsWritten, Written, BytesVerified, HasArtifacts, Activating
<1>5. QED
  BY <1>1, <1>2, <1>3, <1>4 DEF DownloadsHold

\* Another status, or other notes, describe the same artifacts.
LEMMA SameBuild ==
  ASSUME NEW v, NEW d, NEW e, d.build = e.build, Written(v, d) PROVE Written(v, e)
BY DEF Written, HasArtifacts, BytesVerified

LEMMA StillWritten ==
  ASSUME UNCHANGED files, NEW v, NEW d, catalogue'[v] = d, Written(v, d) PROVE Written(v, catalogue[v])'
BY DEF Written, HasArtifacts, BytesVerified

LEMMA ActivateWritten ==
  ASSUME LifecycleInv, NEW v \in Versions, DownloadsHold(v), NEW p \in Processes, Activate(p)
  PROVE  DownloadsHold(v)'
<1>0. TypeOK /\ op[p].pc = "commit" /\ Activating(p) /\ UNCHANGED files
  BY DEF LifecycleInv, Activate, Activating
<1>1. op'[p].pc \in {"idle", "record"} /\ \A q \in Processes : q # p => op'[q] = op[q]
  BY <1>0, FinishStep, RecordStep, NoOpType DEF Activate
<1>2. op[p].version \in Versions /\ op[p].doc \in Doc /\ op[p].live \in [Versions -> Doc]
  BY <1>0, OpParts
<1>3. ASSUME ~ Overwritten(v) PROVE Written(v, catalogue[v])'
  <2>0. /\ v = op[p].version => Written(v, op[p].doc)
        /\ Written(v, op[p].live[v]) /\ Written(v, catalogue[v])
    BY <1>0, <1>3 DEF DownloadsHold, HeldIsWritten
  <2>1. catalogue'[v] =
          IF v = op[p].version THEN [op[p].doc EXCEPT !.status = "published"]
          ELSE IF op[p].live[v] # NoDoc THEN [op[p].live[v] EXCEPT !.status = "rolled_back"]
          ELSE catalogue[v]
    BY DEF Activate, Activated
  <2>2. \A d \in Doc : /\ [d EXCEPT !.status = "published"].build = d.build
                       /\ [d EXCEPT !.status = "rolled_back"].build = d.build
    BY DEF Doc
  <2>3. CASE v = op[p].version
    <3>1. PICK e : e = [op[p].doc EXCEPT !.status = "published"]
      OBVIOUS
    <3>2. e.build = op[p].doc.build /\ catalogue'[v] = e
      BY <1>2, <2>1, <2>2, <2>3, <3>1
    <3>3. Written(v, e)
      BY <2>0, <2>3, <3>2, SameBuild
    <3>4. QED
      BY <1>0, <3>2, <3>3, StillWritten
  <2>4. CASE v # op[p].version /\ op[p].live[v] # NoDoc
    <3>1. PICK e : e = [op[p].live[v] EXCEPT !.status = "rolled_back"]
      OBVIOUS
    <3>2. e.build = op[p].live[v].build /\ catalogue'[v] = e
      BY <1>2, <2>1, <2>2, <2>4, <3>1
    <3>3. Written(v, e)
      BY <2>0, <3>2, SameBuild
    <3>4. QED
      BY <1>0, <3>2, <3>3, StillWritten
  <2>5. CASE v # op[p].version /\ op[p].live[v] = NoDoc
    BY <1>0, <2>0, <2>1, <2>5, StillWritten
  <2>6. QED
    BY <2>3, <2>4, <2>5
<1>4. QED
  BY <1>0, <1>1, <1>3, CommitWritten

LEMMA EditWritten ==
  ASSUME LifecycleInv, NEW v \in Versions, DownloadsHold(v), NEW p \in Processes, UpdateAudited(p)
  PROVE  DownloadsHold(v)'
<1>0. TypeOK /\ op[p].pc = "commit" /\ UNCHANGED files
  BY DEF LifecycleInv, UpdateAudited
<1>1. op'[p].pc = "idle" /\ \A q \in Processes : q # p => op'[q] = op[q]
  BY <1>0, FinishStep, NoOpType DEF UpdateAudited
<1>2. op[p].version \in Versions /\ op[p].doc \in Doc
  BY <1>0, OpParts
<1>3. Edited(p).build = op[p].doc.build
  BY <1>2 DEF Edited, Doc
<1>4. PICK e : e = Edited(p)
  OBVIOUS
<1>5. ASSUME ~ Overwritten(v) PROVE Written(v, catalogue[v])'
  <2>1. Written(v, catalogue[v]) /\ (v = op[p].version => Written(v, op[p].doc))
    BY <1>0, <1>5 DEF DownloadsHold, HeldIsWritten
  <2>2. v = op[p].version => Written(v, e)
    BY <1>3, <1>4, <2>1, SameBuild
  <2>3. catalogue'[v] = catalogue[v] \/ (v = op[p].version /\ catalogue'[v] = e)
    BY <1>0, <1>4 DEF UpdateAudited, TypeOK
  <2>4. QED
    BY <1>0, <2>1, <2>2, <2>3, StillWritten
<1>6. QED
  BY <1>0, <1>1, <1>5, CommitWritten

\* An export that met nobody has written all the files it now describes.
LEMMA UpsertWritten ==
  ASSUME LifecycleInv, NEW v \in Versions, DownloadsHold(v), NEW p \in Processes,
         UpsertRelease(p), v \notin contested'
  PROVE  DownloadsHold(v)'
<1>0. TypeOK /\ op[p].pc = "write" /\ op[p].file = Files /\ UNCHANGED files
  BY DEF LifecycleInv, UpsertRelease
<1>1. op'[p].pc = "record" /\ \A q \in Processes : q # p => op'[q] = op[q]
  BY <1>0, RecordStep DEF UpsertRelease
<1>2. PICK e : e = [status |-> "approved", notes |-> op[p].notes, build |-> op[p].build]
  OBVIOUS
<1>3. ASSUME NEW q \in Processes PROVE CountsHold(q, v)'
  BY <1>0, <1>1 DEF DownloadsHold, CountsHold
<1>4. CASE v = op[p].version
  <2>1. ~ InUse(p, v)
    BY <1>4 DEF UpsertRelease, Contest
  <2>2. \A k \in 1..Files : files[v][k] = op[p].build
    BY <1>0, <1>4 DEF DownloadsHold, CountsHold
  <2>3. Written(v, e)
    BY <1>2, <2>2 DEF Written, BytesVerified
  <2>4. catalogue'[v] = e
    BY <1>0, <1>2, <1>4 DEF UpsertRelease, TypeOK
  <2>5. Written(v, catalogue[v])'
    BY <1>0, <2>3, <2>4, StillWritten
  <2>6. \A q \in Processes : HeldIsWritten(q, v)'
    BY <1>1, <2>1, AloneWritten
  <2>7. QED
    BY <1>3, <2>5, <2>6 DEF DownloadsHold
<1>5. CASE v # op[p].version
  <2>1. catalogue'[v] = catalogue[v]
    BY <1>0, <1>5 DEF UpsertRelease, TypeOK
  <2>2. Overwritten(v)' <=> Overwritten(v)
    BY <1>1, <1>5 DEF Overwritten
  <2>3. ~ Overwritten(v) => Written(v, catalogue[v])'
    BY <1>0, <2>1, StillWritten DEF DownloadsHold
  <2>4. ASSUME ~ Overwritten(v), NEW q \in Processes PROVE HeldIsWritten(q, v)'
    <3>1. CASE q = p
      BY <1>1, <3>1, GoneWritten
    <3>2. CASE q # p
      BY <1>0, <1>1, <2>4, <3>2
         DEF DownloadsHold, HeldIsWritten, Written, BytesVerified, HasArtifacts, Activating
    <3>3. QED
      BY <3>1, <3>2
  <2>5. QED
    BY <1>3, <2>2, <2>3, <2>4 DEF DownloadsHold
<1>6. QED
  BY <1>4, <1>5

\* From the first file on, the version is being overwritten.
LEMMA FileWritten ==
  ASSUME LifecycleInv, NEW v \in Versions, DownloadsHold(v), NEW p \in Processes,
         WriteFile(p), v \notin contested'
  PROVE  DownloadsHold(v)'
<1>0. TypeOK /\ op[p].pc = "write" /\ op[p].file < Files /\ UNCHANGED catalogue
  BY DEF LifecycleInv, WriteFile
<1>1. op'[p] = [op[p] EXCEPT !.file = @ + 1] /\ \A q \in Processes : q # p => op'[q] = op[q]
  BY <1>0, FileStep DEF WriteFile
<1>2. op[p] \in Op /\ op[p].version \in Versions /\ op[p].file \in Nat
  BY <1>0, OpParts
<1>3. PICK w, n, b : w = op[p].version /\ n = op[p].file /\ b = op[p].build
  OBVIOUS
<1>4. /\ op'[p].pc = "write" /\ op'[p].file = n + 1 /\ op'[p].version = w /\ op'[p].build = b
  BY <1>0, <1>1, <1>2, <1>3 DEF Op
<1>5. files' = [files EXCEPT ![w][n + 1] = b]
  BY <1>3 DEF WriteFile
<1>6. v # w => files'[v] = files[v]
  BY <1>0, <1>5 DEF TypeOK
<1>7. w \in Versions /\ n \in Nat /\ n + 1 \in 1..Files
  BY <1>0, <1>2, <1>3
<1>8. /\ files'[w][n + 1] = b
      /\ \A k \in 1..Files : k # n + 1 => files'[w][k] = files[w][k]
  BY <1>0, <1>5, <1>7 DEF TypeOK
<1>9. CASE v = w
  <2>1. Overwritten(v)'
    BY <1>4, <1>7, <1>9 DEF Overwritten
  <2>2. ~ InUse(p, v)
    BY <1>3, <1>9 DEF WriteFile, Contest
  <2>3. \A k \in 1..n : files[w][k] = b
    BY <1>0, <1>3, <1>9 DEF DownloadsHold, CountsHold
  <2>4. ASSUME NEW k \in 1..(n + 1) PROVE files'[w][k] = b
    <3>1. CASE k = n + 1
      BY <1>8, <3>1
    <3>2. CASE k # n + 1
      <4>1. k \in 1..n /\ k \in 1..Files
        BY <1>7, <3>2
      <4>2. QED
        BY <1>8, <2>3, <3>2, <4>1
    <3>3. QED
      BY <3>1, <3>2
  <2>5. CountsHold(p, v)'
    BY <1>4, <1>9, <2>4 DEF CountsHold
  <2>6. ASSUME NEW q \in Processes, q # p PROVE CountsHold(q, v)'
    <3>1. ~ WorksWith(q, v) /\ op'[q] = op[q]
      BY <1>1, <2>2, <2>6 DEF InUse
    <3>2. QED
      BY <3>1 DEF WorksWith, CountsHold
  <2>7. QED
    BY <2>1, <2>5, <2>6 DEF DownloadsHold
<1>10. CASE v # w
  <2>1. Overwritten(v)' <=> Overwritten(v)
    BY <1>1, <1>3, <1>4, <1>10 DEF Overwritten
  <2>2. ASSUME NEW q \in Processes PROVE CountsHold(q, v)'
    <3>1. CASE q = p
      BY <1>4, <1>10, <3>1 DEF CountsHold
    <3>2. CASE q # p
      <4>1. op'[q] = op[q] /\ CountsHold(q, v)
        BY <1>1, <3>2 DEF DownloadsHold
      <4>2. QED
        BY <1>6, <1>10, <4>1 DEF CountsHold
    <3>3. QED
      BY <3>1, <3>2
  <2>3. ASSUME ~ Overwritten(v)
        PROVE  Written(v, catalogue[v])' /\ \A q \in Processes : HeldIsWritten(q, v)'
    <3>1. Written(v, catalogue[v])'
      BY <1>0, <1>6, <1>10, <2>3 DEF DownloadsHold, Written, BytesVerified, HasArtifacts
    <3>2. ASSUME NEW q \in Processes, q # p PROVE HeldIsWritten(q, v)'
      <4>1. op'[q] = op[q] /\ HeldIsWritten(q, v)
        BY <1>1, <2>3, <3>2 DEF DownloadsHold
      <4>2. QED
        BY <1>6, <1>10, <4>1 DEF HeldIsWritten, Written, BytesVerified, HasArtifacts, Activating
    <3>3. HeldIsWritten(p, v)'
      BY <1>4, GoneWritten
    <3>4. QED
      BY <3>1, <3>2, <3>3
  <2>4. QED
    BY <2>1, <2>2, <2>3 DEF DownloadsHold
<1>11. QED
  BY <1>9, <1>10

\* Once contested, a version stays contested.
LEMMA ContestedGrows == ASSUME [Next]_vars PROVE contested \subseteq contested'
<1>1. CASE UNCHANGED vars
  BY <1>1 DEF vars
<1>2. ASSUME NEW p \in Processes, Begin(p) PROVE UNCHANGED contested
  BY <1>2 DEF Begin, StartPublish, StartRollback, StartAdvance, StartNotes, StartExport, Start
<1>3. ASSUME NEW p \in Processes,
             \/ CheckReady(p) \/ GetTarget(p) \/ ListLive(p) \/ Activate(p)
             \/ GetForEdit(p) \/ UpdateAudited(p) \/ RecordAudit(p)
      PROVE  UNCHANGED contested
  BY <1>3 DEF CheckReady, GetTarget, ListLive, Activate, GetForEdit, UpdateAudited, RecordAudit
<1>4. ASSUME NEW p \in Processes, Fail(p) \/ WriteFile(p) \/ UpsertRelease(p) \/ Crash(p)
      PROVE  contested \subseteq contested'
  BY <1>4 DEF Fail, WriteFile, UpsertRelease, Crash, Contest
<1>5. QED
  BY <1>1, <1>2, <1>3, <1>4 DEF Next

LEMMA DownloadsStep ==
  ASSUME LifecycleInv, DownloadsInv, [Next]_vars PROVE DownloadsInv'
<1> SUFFICES ASSUME NEW v \in Versions, v \notin contested' PROVE DownloadsHold(v)'
  BY DEF DownloadsInv
<1>0. DownloadsHold(v)
  BY ContestedGrows DEF DownloadsInv
<1>1. CASE UNCHANGED vars
  BY <1>0, <1>1 DEF vars, DownloadsHold, Overwritten, CountsHold, HeldIsWritten, Written,
     BytesVerified, HasArtifacts, Activating
<1>2. ASSUME NEW p \in Processes,
             \/ Begin(p) \/ CheckReady(p) \/ GetTarget(p) \/ ListLive(p)
             \/ GetForEdit(p) \/ RecordAudit(p) \/ Fail(p) \/ Crash(p)
      PROVE  DownloadsHold(v)'
  BY <1>0, <1>2, BeginWritten, CheckReadyWritten, GetTargetWritten, ListLiveWritten,
     GetForEditWritten, RecordWritten, LeaveWritten
<1>3. ASSUME NEW p \in Processes,
             Activate(p) \/ UpdateAudited(p) \/ WriteFile(p) \/ UpsertRelease(p)
      PROVE  DownloadsHold(v)'
  BY <1>0, <1>3, ActivateWritten, EditWritten, FileWritten, UpsertWritten
<1>4. QED
  BY <1>1, <1>2, <1>3 DEF Next

LEMMA DownloadsInit == ASSUME Init PROVE DownloadsInv
<1>1. \A v \in Versions : catalogue[v].build = 0
  BY DEF Init, NoDoc, Draft
<1>2. \A p \in Processes : op[p].pc = "idle"
  BY NoOpType DEF Init
<1>3. QED
  BY <1>1, <1>2 DEF DownloadsInv, DownloadsHold, CountsHold, HeldIsWritten, Written, HasArtifacts

(***************************************************************************)
(* A live version is described by the sizes and digests of the bytes on    *)
(* disk, however stale the documents that publishers, editors and          *)
(* rollbacks write and however often it is exported (BuildWithChangelog,   *)
(* Ready), except while an export writes over its files, and after one     *)
(* that met another use case with artifacts of the version or was cut off  *)
(* over described files.                                                   *)
(***************************************************************************)
THEOREM DownloadsAreDescribed == Spec => []DownloadsMatch
<1>1. Init => DownloadsInv
  BY DownloadsInit
<1>2. LifecycleInv /\ DownloadsInv /\ [Next]_vars => DownloadsInv'
  BY DownloadsStep
<1>3. LifecycleInv /\ DownloadsInv => DownloadsMatch
  <2> SUFFICES ASSUME LifecycleInv, DownloadsInv, NEW v \in Live(catalogue) \ contested,
                      ~ Overwritten(v)
               PROVE  BytesVerified(v, catalogue[v])
    BY DEF DownloadsMatch
  <2>1. v \in Versions \ contested /\ HasArtifacts(catalogue[v])
    BY DEF Live, LifecycleInv, FilesExist, CatalogueFilesExist
  <2>2. Written(v, catalogue[v])
    BY <2>1 DEF DownloadsInv, DownloadsHold
  <2>3. QED
    BY <2>1, <2>2 DEF Written
<1>4. QED
  BY <1>1, <1>2, <1>3, LifecycleIsSound, PTL DEF Spec

-----------------------------------------------------------------------------
(***************************************************************************)
(* The rows of the review gate.                                            *)
(***************************************************************************)
RowHolds(p) ==
    /\ op[p].pc = "ready" => op[p].action = "publish"
    /\ op[p].pc = "write" => op[p].action = "export"
    /\ op[p].pc = "record" => op[p].action # "advance"
    /\ op[p].pc = "commit" /\ op[p].action = "advance" => Legal(op[p].doc.status, op[p].to)

\* A row that is not of the gate is appended, or none.
Silent ==
    evidence' # evidence => evidence'[Len(evidence')].action # "advance"

LEMMA LastRow ==
  ASSUME TypeOK, NEW r \in Row, evidence' = Append(evidence, r)
  PROVE  evidence'[Len(evidence')] = r
BY DEF TypeOK

LEMMA SilentRow ==
  ASSUME TypeOK, NEW p \in Processes, NEW ok \in BOOLEAN, op[p].action # "advance",
         evidence' \in {evidence, Append(evidence, AttemptRow(p, ok))}
  PROVE  Silent
<1>1. AttemptRow(p, ok) \in Row
  BY RowType DEF AttemptRow, Status
<1>2. AttemptRow(p, ok).action = op[p].action
  BY DEF AttemptRow, EvidenceRow
<1>3. CASE evidence' = Append(evidence, AttemptRow(p, ok))
  BY <1>1, <1>2, <1>3, LastRow DEF Silent
<1>4. QED
  BY <1>3 DEF Silent

LEMMA RowsKept ==
  ASSUME RowsInv, NEW p \in Processes, \A q \in Processes : q # p => op'[q] = op[q], RowHolds(p)'
  PROVE  RowsInv'
BY DEF RowsInv, RowHolds

LEMMA IdleRows ==
  ASSUME RowsInv, NEW p \in Processes, \A q \in Processes : q # p => op'[q] = op[q],
         \/ op'[p].pc \in {"idle", "get", "list"}
         \/ op'[p].pc = "record" /\ op'[p].action = op[p].action /\ op[p].action # "advance"
  PROVE  RowsInv'
<1>1. RowHolds(p)'
  BY DEF RowHolds
<1>2. QED
  BY <1>1, RowsKept

LEMMA RefuseRows ==
  ASSUME TypeOK, RowsInv, NEW p \in Processes, Refuse(p), op[p].action # "advance"
  PROVE  RowsInv' /\ Silent
<1>1. RowsInv'
  BY RefuseStep, IdleRows
<1>2. evidence' \in {evidence, Append(evidence, AttemptRow(p, FALSE))}
  BY DEF Refuse
<1>3. QED
  BY <1>1, <1>2, SilentRow

LEMMA FinishRows ==
  ASSUME TypeOK, RowsInv, NEW p \in Processes, Finish(p) PROVE RowsInv'
BY FinishStep, NoOpType, IdleRows

LEMMA QuietRows ==
  ASSUME LifecycleInv, RowsInv, NEW p \in Processes,
         \/ Begin(p) \/ CheckReady(p) \/ GetTarget(p) \/ ListLive(p)
         \/ GetForEdit(p) \/ Fail(p) \/ RecordAudit(p) \/ Crash(p)
  PROVE  RowsInv' /\ Silent
<1>0. TypeOK /\ op[p] \in Op /\ ReadHolds(p) /\ RowHolds(p)
  BY DEF LifecycleInv, TypeOK, ReadsHold, RowsInv, RowHolds
<1>1. CASE Begin(p)
  <2>1. Begun(p)
    BY <1>0, <1>1, BeginStep
  <2>2. RowHolds(p)'
    BY <2>1 DEF Begun, RowHolds
  <2>3. QED
    BY <2>1, <2>2, RowsKept DEF Begun, Silent
<1>2. CASE CheckReady(p)
  <2>1. op[p].action # "advance"
    BY <1>0, <1>2 DEF CheckReady, RowHolds
  <2>2. CASE Refuse(p)
    BY <1>0, <2>1, <2>2, RefuseRows
  <2>3. CASE op' = [op EXCEPT ![p].pc = "get"] /\ UNCHANGED evidence
    <3>1. op'[p].pc = "get" /\ \A q \in Processes : q # p => op'[q] = op[q]
      BY <1>0, <2>3 DEF TypeOK, Op
    <3>2. QED
      BY <2>3, <3>1, IdleRows DEF Silent
  <2>4. QED
    BY <1>2, <2>2, <2>3 DEF CheckReady
<1>3. CASE GetTarget(p)
  <2>1. op[p].action # "advance"
    BY <1>3 DEF GetTarget
  <2>2. CASE Refuse(p)
    BY <1>0, <2>1, <2>2, RefuseRows
  <2>3. CASE Return(p)
    BY <1>0, <2>1, <2>3, ReturnStep, IdleRows DEF Return, Silent
  <2>4. CASE op' = [op EXCEPT ![p].pc = "list", ![p].doc = catalogue[op[p].version]] /\ UNCHANGED evidence
    <3>1. PICK doc \in Doc : doc = catalogue[op[p].version]
      BY <1>0, ItsDoc
    <3>2. op'[p] = [op[p] EXCEPT !.pc = "list", !.doc = doc] /\ \A q \in Processes : q # p => op'[q] = op[q]
      BY <1>0, <2>4, <3>1, ReadStep
    <3>3. op'[p].pc = "list"
      BY <1>0, <3>2 DEF Op
    <3>4. QED
      BY <2>4, <3>2, <3>3, IdleRows DEF Silent
  <2>5. QED
    BY <1>3, <2>2, <2>3, <2>4 DEF GetTarget
<1>4. CASE ListLive(p)
  <2>1. Activating(p)
    BY <1>0, <1>4 DEF ListLive, ReadHolds
  <2>2. CASE Refuse(p)
    BY <1>0, <2>1, <2>2, RefuseRows DEF Activating
  <2>3. CASE op' = [op EXCEPT ![p].pc = "commit", ![p].live = ListPublished] /\ UNCHANGED evidence
    <3>1. /\ op'[p] = [op[p] EXCEPT !.pc = "commit", !.live = ListPublished]
          /\ \A q \in Processes : q # p => op'[q] = op[q]
      BY <1>0, <2>3, ListType, ListStep
    <3>2. op'[p].pc = "commit" /\ op'[p].action = op[p].action
      BY <1>0, <3>1 DEF Op
    <3>3. RowHolds(p)'
      BY <2>1, <3>2 DEF RowHolds, Activating
    <3>4. QED
      BY <2>3, <3>1, <3>3, RowsKept DEF Silent
  <2>4. QED
    BY <1>4, <2>2, <2>3 DEF ListLive
<1>5. CASE GetForEdit(p)
  <2>1. CASE Finish(p)
    BY <1>0, <1>5, <2>1, FinishRows DEF GetForEdit, Silent
  <2>2. CASE /\ op' = [op EXCEPT ![p].pc = "commit", ![p].doc = catalogue[op[p].version]]
             /\ \/ op[p].action = "advance" /\ MayAdvance(catalogue[op[p].version], op[p].to)
                \/ op[p].action = "notes"
    <3>1. PICK doc \in Doc : doc = catalogue[op[p].version]
      BY <1>0, ItsDoc
    <3>2. op'[p] = [op[p] EXCEPT !.pc = "commit", !.doc = doc] /\ \A q \in Processes : q # p => op'[q] = op[q]
      BY <1>0, <2>2, <3>1, ReadStep
    <3>3. /\ op'[p].pc = "commit" /\ op'[p].action = op[p].action /\ op'[p].doc = doc
          /\ op'[p].to = op[p].to
      <4> DEFINE new == [op[p] EXCEPT !.pc = "commit", !.doc = doc]
      <4>1. new.pc = "commit" /\ new.doc = doc /\ new.to = op[p].to /\ new.action = op[p].action
        BY <1>0 DEF Op
      <4> HIDE DEF new
      <4>2. op'[p] = new
        BY <3>2 DEF new
      <4>3. QED
        BY <4>1, <4>2
    <3>4. op[p].action = "advance" => Legal(doc.status, op[p].to)
      BY <2>2, <3>1 DEF MayAdvance
    <3>5. RowHolds(p)'
      BY <3>3, <3>4 DEF RowHolds
    <3>6. QED
      BY <1>5, <3>2, <3>5, RowsKept DEF GetForEdit, Silent
  <2>3. QED
    BY <1>5, <2>1, <2>2 DEF GetForEdit
<1>6. CASE Fail(p)
  BY <1>0, <1>6, RefuseRows, FinishRows DEF Fail, Silent
<1>7. CASE RecordAudit(p)
  <2>1. op[p].action # "advance" /\ Finish(p) /\ op[p].ok \in BOOLEAN
    BY <1>0, <1>7 DEF RecordAudit, RowHolds, Op
  <2>2. evidence' \in {evidence, Append(evidence, AttemptRow(p, op[p].ok))}
    BY <1>7 DEF RecordAudit
  <2>3. QED
    BY <1>0, <2>1, <2>2, FinishRows, SilentRow
<1>8. CASE Crash(p)
  BY <1>0, <1>8, FinishRows DEF Crash, Silent
<1>9. QED
  BY <1>1, <1>2, <1>3, <1>4, <1>5, <1>6, <1>7, <1>8

LEMMA CommitRows ==
  ASSUME LifecycleInv, RowsInv, NEW p \in Processes,
         Activate(p) \/ UpdateAudited(p) \/ WriteFile(p) \/ UpsertRelease(p)
  PROVE  RowsInv'
<1>0. TypeOK /\ op[p] \in Op /\ RowHolds(p)
  BY DEF LifecycleInv, TypeOK, RowsInv, RowHolds
<1>1. CASE Activate(p)
  <2>1. op[p].action # "advance" /\ (Finish(p) \/ ThenRecord(p, TRUE))
    BY <1>1 DEF Activate
  <2>2. QED
    BY <1>0, <2>1, FinishRows, RecordStep, IdleRows
<1>2. CASE UpdateAudited(p)
  BY <1>0, <1>2, FinishRows DEF UpdateAudited
<1>3. CASE WriteFile(p)
  <2>1. op'[p] = [op[p] EXCEPT !.file = @ + 1] /\ \A q \in Processes : q # p => op'[q] = op[q]
    BY <1>0, <1>3, FileStep DEF WriteFile
  <2>2. op'[p].pc = op[p].pc /\ op'[p].action = op[p].action /\ op[p].pc = "write"
    BY <1>0, <1>3, <2>1 DEF Op, WriteFile
  <2>3. RowHolds(p)'
    BY <1>0, <2>2 DEF RowHolds
  <2>4. QED
    BY <2>1, <2>3, RowsKept
<1>4. CASE UpsertRelease(p)
  <2>1. op[p].action # "advance" /\ ThenRecord(p, TRUE)
    BY <1>0, <1>4 DEF UpsertRelease, RowHolds
  <2>2. QED
    BY <1>0, <2>1, RecordStep, IdleRows
<1>5. QED
  BY <1>1, <1>2, <1>3, <1>4

\* The row of an edit of the gate says what the compare-and-swap did.
LEMMA AdvanceRow ==
  ASSUME LifecycleInv, RowsInv, NEW p \in Processes, UpdateAudited(p),
         evidence' # evidence, evidence'[Len(evidence')].action = "advance"
  PROVE  LET r == evidence'[Len(evidence')]
         IN /\ catalogue[r.version].status = r.from
            /\ catalogue'[r.version].status = r.to
            /\ Legal(r.from, r.to)
<1>0. TypeOK /\ op[p] \in Op /\ RowHolds(p) /\ op[p].pc = "commit"
  BY DEF LifecycleInv, TypeOK, RowsInv, RowHolds, UpdateAudited
<1>1. op[p].doc \in Doc /\ op[p].version \in Versions /\ op[p].to \in Status
  BY <1>0 DEF Op
<1>2. PICK e : e = Edited(p)
  OBVIOUS
<1>3. e \in Doc
  BY <1>0, <1>2, EditedType
<1>4. /\ catalogue[op[p].version].status = op[p].doc.status
      /\ catalogue' = [catalogue EXCEPT ![op[p].version] = e]
      /\ evidence' = Append(evidence, EvidenceRow(p, op[p].doc.status, e.status, TRUE))
  BY <1>2 DEF UpdateAudited, Matches
<1>5. PICK r : r = EvidenceRow(p, op[p].doc.status, e.status, TRUE)
  OBVIOUS
<1>6. r \in Row
  BY <1>0, <1>1, <1>3, <1>5, RowType DEF Doc
<1>7. evidence'[Len(evidence')] = r
  BY <1>0, <1>4, <1>5, <1>6, LastRow
<1>8. /\ r.action = op[p].action /\ r.version = op[p].version /\ r.from = op[p].doc.status
      /\ r.to = e.status
  BY <1>5 DEF EvidenceRow
<1>9. op[p].action = "advance"
  BY <1>7, <1>8
<1>10. e.status = op[p].to
  BY <1>1, <1>2, <1>9 DEF Edited, Doc
<1>11. catalogue'[op[p].version] = e
  BY <1>0, <1>1, <1>4 DEF TypeOK
<1>12. Legal(r.from, r.to)
  BY <1>0, <1>8, <1>9, <1>10 DEF RowHolds
<1>13. QED
  BY <1>4, <1>7, <1>8, <1>11, <1>12

LEMMA RowsStep ==
  ASSUME LifecycleInv, RowsInv, [Next]_vars PROVE RowsInv'
<1>1. CASE UNCHANGED vars
  BY <1>1 DEF vars, RowsInv
<1>2. QED
  BY <1>1, QuietRows, CommitRows DEF Next

LEMMA ActivationRow ==
  ASSUME LifecycleInv, NEW p \in Processes, Activate(p) PROVE Silent
<1>0. TypeOK
  BY DEF LifecycleInv
<1>1. CASE UNCHANGED evidence
  BY <1>1 DEF Silent
<1>2. CASE evidence' = Append(evidence, EvidenceRow(p, "approved", "published", TRUE))
  <2>1. PICK r : r = EvidenceRow(p, "approved", "published", TRUE)
    OBVIOUS
  <2>2. r \in Row
    BY <1>0, <2>1, RowType DEF Status
  <2>3. r.action = op[p].action
    BY <2>1 DEF EvidenceRow
  <2>4. QED
    BY <1>0, <1>2, <2>1, <2>2, <2>3, LastRow DEF Activate, Silent
<1>3. QED
  BY <1>1, <1>2 DEF Activate

(***************************************************************************)
(* A row of the review gate is the truth: the compare-and-swap found the   *)
(* version in the row's from state and left it in its to state, and the    *)
(* gate allows that step (AdvanceAs, UpdateAudited).                       *)
(***************************************************************************)
THEOREM GateRowsAreTrue == Spec => EvidenceIsTrue
<1> DEFINE True == (evidence' # evidence /\ evidence'[Len(evidence')].action = "advance") =>
                      LET r == evidence'[Len(evidence')]
                      IN /\ catalogue[r.version].status = r.from
                         /\ catalogue'[r.version].status = r.to
                         /\ Legal(r.from, r.to)
<1>1. Init => RowsInv
  BY NoOpType DEF Init, RowsInv
<1>2. LifecycleInv /\ RowsInv /\ [Next]_vars => RowsInv'
  BY RowsStep
<1>3. LifecycleInv /\ RowsInv /\ [Next]_vars => [True]_vars
  <2> SUFFICES ASSUME LifecycleInv, RowsInv, Next PROVE True
    OBVIOUS
  <2>1. PICK p \in Processes :
          \/ Begin(p) \/ CheckReady(p) \/ GetTarget(p) \/ ListLive(p) \/ Activate(p)
          \/ GetForEdit(p) \/ UpdateAudited(p) \/ Fail(p) \/ WriteFile(p) \/ UpsertRelease(p)
          \/ RecordAudit(p) \/ Crash(p)
    BY DEF Next
  <2>2. CASE UpdateAudited(p)
    BY <2>2, AdvanceRow
  <2>3. CASE Activate(p)
    BY <2>3, ActivationRow DEF Silent
  <2>4. CASE WriteFile(p) \/ UpsertRelease(p)
    BY <2>4 DEF WriteFile, UpsertRelease
  <2>5. QED
    BY <2>1, <2>2, <2>3, <2>4, QuietRows DEF Silent
<1>4. QED
  BY <1>1, <1>2, <1>3, LifecycleIsSound, PTL DEF Spec, EvidenceIsTrue
=============================================================================
