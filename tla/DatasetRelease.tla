--------------------------- MODULE DatasetRelease ---------------------------
(***************************************************************************)
(* The release lifecycle of a dataset version: the use cases of            *)
(* internal/app/dataset/usecases.go, the exporter of export.go and the     *)
(* repository of internal/adapters/mongo/datasets.go, run by the admin     *)
(* API's replicas and the operator CLI (the processes).                    *)
(*                                                                         *)
(* Every use case reads documents first and writes whole documents later;  *)
(* each read, each file and each transaction is a step, and the steps of   *)
(* different processes interleave.  A transaction is one step, since its   *)
(* closure reads no release document; a retried closure is a later step.   *)
(* The audit row a transaction appends is only named here (AuditLog models *)
(* the log): an append that fails makes the transaction fail.              *)
(***************************************************************************)
EXTENDS Integers, Sequences, FiniteSets

CONSTANTS
    Versions,
    Processes,
    Drafts,     \* versions recorded as drafts before the model starts
    Notes,      \* release notes (changelogs)
    NoNotes,    \* the empty changelog
    Files,      \* number of artifact files of a release
    MaxBuilds,  \* bound: exports started
    MaxOps      \* bound: use cases started

ASSUME VersionAssumption == Versions # {}
ASSUME DraftAssumption == Drafts \subseteq Versions
ASSUME NotesAssumption == NoNotes \notin Notes
ASSUME FilesAssumption == Files \in Nat \ {0}
ASSUME BoundAssumption == MaxBuilds \in Nat /\ MaxOps \in Nat

VARIABLES
    catalogue,  \* dataset_versions: the document of every version
    files,      \* files[v][k]: the export whose bytes are in file k of v
    outbox,     \* the dataset.published events enqueued, by version
    evidence,   \* the audit rows of the lifecycle, in commit order
    op,         \* op[p]: the use case p is running
    builds,     \* exports started
    started,    \* use cases started
    contested   \* history: versions exported while another use case worked with
                \* their artifacts, or by an export that was cut off over them

vars == <<catalogue, files, outbox, evidence, op, builds, started, contested>>

-----------------------------------------------------------------------------
Status == {"absent", "draft", "validation", "review", "approved",
           "published", "rolled_back"}

\* build: the export the artifact metadata describes, 0 when there is none.
Doc == [status : Status, notes : Notes \cup {NoNotes}, build : Nat]

NoDoc == [status |-> "absent", notes |-> NoNotes, build |-> 0]

Draft == [status |-> "draft", notes |-> NoNotes, build |-> 0]

Action == {"publish", "rollback", "advance", "notes", "export"}

Row == [action : Action, version : Versions, from : Status, to : Status,
        ok : BOOLEAN]

Op ==
    [pc : {"idle", "ready", "get", "list", "commit", "write", "record"},
     action : Action,
     version : Versions,
     audited : BOOLEAN,                           \* by a named console actor
     doc : Doc,                                   \* the version as read
     live : [Versions -> Doc],                    \* the live documents as read
     to : Status,                                 \* advance: the next status
     notes : Notes \cup {NoNotes},                \* notes, export: the text
     build : Nat,                                 \* export: its number
     file : Nat,                                  \* export: files written
     ok : BOOLEAN]                                \* the outcome the CLI records

AnyVersion == CHOOSE v \in Versions : TRUE

NoOp ==
    [pc |-> "idle", action |-> "publish", version |-> AnyVersion,
     audited |-> FALSE, doc |-> NoDoc, live |-> [v \in Versions |-> NoDoc], to |-> "absent",
     notes |-> NoNotes, build |-> 0, file |-> 0, ok |-> FALSE]

TypeOK ==
    /\ catalogue \in [Versions -> Doc]
    /\ files \in [Versions -> [1..Files -> Nat]]
    /\ outbox \in Seq(Versions)
    /\ evidence \in Seq(Row)
    /\ op \in [Processes -> Op]
    /\ builds \in Nat
    /\ started \in Nat
    /\ contested \subseteq Versions

-----------------------------------------------------------------------------
Live(cat) == {v \in Versions : cat[v].status = "published"}

HasArtifacts(doc) == doc.build > 0

\* The stored sizes and digests are those of the bytes on disk.
BytesVerified(v, doc) ==
    /\ HasArtifacts(doc)
    /\ \A k \in 1..Files : files[v][k] = doc.build

Ready(v) ==
    /\ catalogue[v].status \in {"approved", "rolled_back", "published"}
    /\ BytesVerified(v, catalogue[v])

\* The review gate: the one legal next status.
Legal(from, to) ==
    <<from, to>> \in {<<"draft", "validation">>, <<"validation", "review">>,
                      <<"review", "approved">>}

MayPublish(doc) == doc.status \in {"approved", "rolled_back"} /\ HasArtifacts(doc)

MayRollBackTo(doc) == doc.status = "rolled_back" /\ HasArtifacts(doc)

MayAdvance(doc, to) ==
    /\ Legal(doc.status, to)
    /\ to \in {"review", "approved"} => doc.notes # NoNotes

MayEditNotes(doc) == doc.status \notin {"absent", "published", "rolled_back"}

EvidenceRow(p, from, to, ok) ==
    [action |-> op[p].action, version |-> op[p].version, from |-> from, to |-> to,
     ok |-> ok]

AttemptRow(p, ok) == EvidenceRow(p, "absent", "absent", ok)

Finish(p) == op' = [op EXCEPT ![p] = NoOp]

\* The CLI records a row after the use case, whatever it returned.
ThenRecord(p, ok) == op' = [op EXCEPT ![p].pc = "record", ![p].ok = ok]

\* A publish or rollback that is refused or fails leaves a failed row, if the
\* audit log can be appended to.
Refuse(p) ==
    IF op[p].audited
    THEN /\ Finish(p)
         /\ \/ UNCHANGED evidence
            \/ evidence' = Append(evidence, AttemptRow(p, FALSE))
    ELSE ThenRecord(p, FALSE) /\ UNCHANGED evidence

Return(p) ==
    /\ IF op[p].audited THEN Finish(p) ELSE ThenRecord(p, TRUE)
    /\ UNCHANGED evidence

-----------------------------------------------------------------------------
Init ==
    /\ catalogue = [v \in Versions |->
                      IF v \in Drafts THEN Draft ELSE NoDoc]
    /\ files = [v \in Versions |-> [k \in 1..Files |-> 0]]
    /\ outbox = << >>
    /\ evidence = << >>
    /\ op = [p \in Processes |-> NoOp]
    /\ builds = 0
    /\ started = 0
    /\ contested = {}

Start(p, new) ==
    /\ op[p].pc = "idle"
    /\ started < MaxOps
    /\ started' = started + 1
    /\ op' = [op EXCEPT ![p] = new]
    /\ UNCHANGED <<catalogue, files, outbox, evidence, contested>>

\* PublishAs checks readiness first; the CLI's Publish does not.
StartPublish(p, v, audited) ==
    /\ Start(p, [NoOp EXCEPT !.pc = IF audited THEN "ready" ELSE "get",
                             !.version = v, !.audited = audited])
    /\ UNCHANGED builds

StartRollback(p, v, audited) ==
    /\ Start(p, [NoOp EXCEPT !.pc = "get", !.action = "rollback",
                             !.version = v, !.audited = audited])
    /\ UNCHANGED builds

StartAdvance(p, v, to) ==
    /\ Start(p, [NoOp EXCEPT !.pc = "get", !.action = "advance",
                             !.version = v, !.audited = TRUE, !.to = to])
    /\ UNCHANGED builds

StartNotes(p, v, text) ==
    /\ Start(p, [NoOp EXCEPT !.pc = "get", !.action = "notes",
                             !.version = v, !.audited = TRUE, !.notes = text])
    /\ UNCHANGED builds

StartExport(p, v, text) ==
    /\ builds < MaxBuilds
    /\ builds' = builds + 1
    /\ Start(p, [NoOp EXCEPT !.pc = "write", !.action = "export", !.version = v,
                             !.notes = text, !.build = builds + 1])

CheckReady(p) ==
    /\ op[p].pc = "ready"
    /\ IF Ready(op[p].version)
       THEN op' = [op EXCEPT ![p].pc = "get"] /\ UNCHANGED evidence
       ELSE Refuse(p)
    /\ UNCHANGED <<catalogue, files, outbox, builds, started, contested>>

\* Get, in publish and rollback.
GetTarget(p) ==
    /\ op[p].pc = "get"
    /\ LET doc == catalogue[op[p].version]
           Proceed == op' = [op EXCEPT ![p].pc = "list", ![p].doc = doc] /\ UNCHANGED evidence
       IN \/ /\ op[p].action = "publish"
             /\ IF doc.status = "published" THEN Return(p)
                ELSE IF MayPublish(doc) THEN Proceed
                ELSE Refuse(p)
          \/ /\ op[p].action = "rollback"
             /\ IF MayRollBackTo(doc) THEN Proceed ELSE Refuse(p)
    /\ UNCHANGED <<catalogue, files, outbox, builds, started, contested>>

ListPublished ==
    [v \in Versions |-> IF v \in Live(catalogue) THEN catalogue[v] ELSE NoDoc]

\* ListPublished, in publish and rollback.
ListLive(p) ==
    /\ op[p].pc = "list"
    /\ IF op[p].action = "rollback" /\ ListPublished[op[p].version] # NoDoc
       THEN Refuse(p)
       ELSE op' = [op EXCEPT ![p].pc = "commit", ![p].live = ListPublished] /\ UNCHANGED evidence
    /\ UNCHANGED <<catalogue, files, outbox, builds, started, contested>>

\* The whole documents activation writes over those of cat.
Activated(cat, p) ==
    [v \in Versions |->
       IF v = op[p].version THEN [op[p].doc EXCEPT !.status = "published"]
       ELSE IF op[p].live[v] # NoDoc THEN [op[p].live[v] EXCEPT !.status = "rolled_back"]
       ELSE cat[v]]

\* The partial unique index on status = published.
IndexAccepts(cat) == \A u, v \in Live(cat) : u = v

\* Without the transaction: the promotion can fail after the demotion is written.
Activate_DemoteFirst(p) ==
    /\ op[p].pc = "commit"
    /\ op[p].action \in {"publish", "rollback"}
    /\ \E promoted \in BOOLEAN :
          catalogue' = [v \in Versions |->
             IF v # op[p].version \/ promoted THEN Activated(catalogue, p)[v] ELSE catalogue[v]]
    /\ IndexAccepts(catalogue')
    /\ Refuse(p)
    /\ UNCHANGED <<files, outbox, builds, started, contested>>

\* Activate and ActivateAudited: demote, promote, enqueue and append evidence.
Activate(p) ==
    /\ op[p].pc = "commit"
    /\ op[p].action \in {"publish", "rollback"}
    /\ IndexAccepts(Activated(catalogue, p))
    /\ catalogue' = Activated(catalogue, p)
    /\ outbox' = Append(outbox, op[p].version)
    /\ IF op[p].audited
       THEN Finish(p) /\ evidence' = Append(evidence, EvidenceRow(p, "approved", "published", TRUE))
       ELSE ThenRecord(p, TRUE) /\ UNCHANGED evidence
    /\ UNCHANGED <<files, builds, started, contested>>

\* Get, in AdvanceAs and UpdateChangelogAs; a refusal leaves no row.
GetForEdit(p) ==
    /\ op[p].pc = "get"
    /\ op[p].action \in {"advance", "notes"}
    /\ LET doc == catalogue[op[p].version]
           allowed == \/ op[p].action = "advance" /\ MayAdvance(doc, op[p].to)
                      \/ op[p].action = "notes" /\ MayEditNotes(doc)
       IN IF allowed
          THEN op' = [op EXCEPT ![p].pc = "commit", ![p].doc = doc]
          ELSE Finish(p)
    /\ UNCHANGED <<catalogue, files, outbox, evidence, builds, started, contested>>

Edited(p) ==
    IF op[p].action = "advance" THEN [op[p].doc EXCEPT !.status = op[p].to]
                                ELSE [op[p].doc EXCEPT !.notes = op[p].notes]

\* A filter that forgets the status.
Matches_NotesOnly(doc, read) == doc.notes = read.notes

\* The compare-and-swap filter of UpdateAudited.
Matches(doc, read) == doc.status = read.status /\ doc.notes = read.notes

UpdateAudited(p) ==
    /\ op[p].pc = "commit"
    /\ op[p].action \in {"advance", "notes"}
    /\ Finish(p)
    /\ IF Matches(catalogue[op[p].version], op[p].doc)
       THEN /\ catalogue' = [catalogue EXCEPT ![op[p].version] = Edited(p)]
            /\ evidence' = Append(evidence, EvidenceRow(p, op[p].doc.status, Edited(p).status, TRUE))
       ELSE UNCHANGED <<catalogue, evidence>>
    /\ UNCHANGED <<files, outbox, builds, started, contested>>

\* Use case q works with artifacts of v: it writes them, or holds a document
\* that describes them.
WorksWith(q, v) ==
    \/ op[q].pc = "write" /\ op[q].version = v
    \/ op[q].pc \in {"list", "commit"} /\ op[q].version = v /\ HasArtifacts(op[q].doc)
    \/ op[q].pc = "commit" /\ HasArtifacts(op[q].live[v])

InUse(p, v) == \E q \in Processes \ {p} : WorksWith(q, v)

\* The export p met another use case, or was cut off over described files.
Contest(p, met) ==
    contested' = IF met THEN contested \cup {op[p].version} ELSE contested

CutOff(p) ==
    /\ op[p].pc = "write" /\ op[p].file > 0
    /\ HasArtifacts(catalogue[op[p].version]) \/ InUse(p, op[p].version)

\* An unconfirmed or unexplained request, a read, a file or a transaction that
\* fails (a duplicate key, a failed append, a lost link).
Fail(p) ==
    /\ op[p].pc \in {"ready", "get", "list", "commit", "write"}
    /\ IF op[p].action \in {"publish", "rollback"} THEN Refuse(p)
       ELSE Finish(p) /\ UNCHANGED evidence
    /\ Contest(p, CutOff(p))
    /\ UNCHANGED <<catalogue, files, outbox, builds, started>>

\* A file is written in place, over the one of an earlier export.
WriteFile(p) ==
    /\ op[p].pc = "write"
    /\ op[p].file < Files
    /\ files' = [files EXCEPT ![op[p].version][op[p].file + 1] = op[p].build]
    /\ op' = [op EXCEPT ![p].file = @ + 1]
    /\ Contest(p, InUse(p, op[p].version))
    /\ UNCHANGED <<catalogue, outbox, evidence, builds, started>>

\* The catalogue is updated before the files are on disk.
UpsertRelease_Early(p) ==
    /\ op[p].pc = "write"
    /\ catalogue' = [catalogue EXCEPT ![op[p].version] =
                       [status |-> "approved", notes |-> op[p].notes, build |-> op[p].build]]
    /\ ThenRecord(p, TRUE)
    /\ Contest(p, InUse(p, op[p].version))
    /\ UNCHANGED <<files, outbox, evidence, builds, started>>

\* Upsert at the end of BuildWithChangelog, whatever the document said before.
UpsertRelease(p) ==
    /\ op[p].pc = "write"
    /\ op[p].file = Files
    /\ catalogue' = [catalogue EXCEPT ![op[p].version] =
                       [status |-> "approved", notes |-> op[p].notes, build |-> op[p].build]]
    /\ ThenRecord(p, TRUE)
    /\ Contest(p, InUse(p, op[p].version))
    /\ UNCHANGED <<files, outbox, evidence, builds, started>>

\* recordAudit of the CLI: an append that fails is only a warning.
RecordAudit(p) ==
    /\ op[p].pc = "record"
    /\ Finish(p)
    /\ evidence' \in {evidence, Append(evidence, AttemptRow(p, op[p].ok))}
    /\ UNCHANGED <<catalogue, files, outbox, builds, started, contested>>

\* The process dies, or its request is cut off.
Crash(p) ==
    /\ op[p].pc # "idle"
    /\ Finish(p)
    /\ Contest(p, CutOff(p))
    /\ UNCHANGED <<catalogue, files, outbox, evidence, builds, started>>

Begin(p) ==
    \E v \in Versions :
       \/ \E audited \in BOOLEAN : StartPublish(p, v, audited) \/ StartRollback(p, v, audited)
       \/ \E to \in {"validation", "review", "approved"} : StartAdvance(p, v, to)
       \/ \E text \in Notes : StartNotes(p, v, text)
       \/ \E text \in Notes \cup {NoNotes} : StartExport(p, v, text)

Next ==
    \E p \in Processes :
       \/ Begin(p)
       \/ CheckReady(p)
       \/ GetTarget(p)
       \/ ListLive(p)
       \/ Activate(p)
       \/ GetForEdit(p)
       \/ UpdateAudited(p)
       \/ Fail(p)
       \/ WriteFile(p)
       \/ UpsertRelease(p)
       \/ RecordAudit(p)
       \/ Crash(p)

Spec == Init /\ [][Next]_vars

-----------------------------------------------------------------------------
(***************************************************************************)
(* At most one version is live, whatever stale documents two publishers    *)
(* hold (migrate.go: "can never leave two live catalogues").               *)
(***************************************************************************)
OneLive == \A u, v \in Live(catalogue) : u = v

HasEvent(v) == \E k \in DOMAIN outbox : outbox[k] = v

(***************************************************************************)
(* A version that is or was live has its reindex event: publication and    *)
(* event commit together, and nothing else makes a version rolled_back.    *)
(***************************************************************************)
LiveHasEvent ==
    \A v \in Versions :
       catalogue[v].status \in {"published", "rolled_back"} => HasEvent(v)

\* An export has written some of the files of v.
Overwritten(v) ==
    \E p \in Processes : op[p].pc = "write" /\ op[p].version = v /\ op[p].file > 0

(***************************************************************************)
(* A live version is described by the sizes and digests of the bytes that  *)
(* are on disk (export.go: "the catalogue can never describe a file that   *)
(* was not written"), however often it is exported, except while an export *)
(* writes over its files, and after one that met another use case with     *)
(* artifacts of the version or that was cut off.                           *)
(***************************************************************************)
DownloadsMatch ==
    \A v \in Live(catalogue) \ contested :
       BytesVerified(v, catalogue[v]) \/ Overwritten(v)

\* The end of an export of a live version.
ExportOfLive == \E p \in Processes : UpsertRelease(p) /\ op[p].version \in Live(catalogue)

(***************************************************************************)
(* Once a version is live there is always one (usecases.go: "Exactly one   *)
(* version is published at a time"): only an export of the live version    *)
(* itself takes it away.                                                   *)
(***************************************************************************)
StaysLive == [][Live(catalogue) # {} => Live(catalogue') # {} \/ ExportOfLive]_vars

(***************************************************************************)
(* A lifecycle row of the console is the truth: the version was in the     *)
(* row's from state when the row was committed and is in its to state.     *)
(***************************************************************************)
EvidenceIsTrue ==
    [][(evidence' # evidence /\ evidence'[Len(evidence')].action = "advance") =>
         LET r == evidence'[Len(evidence')]
         IN /\ catalogue[r.version].status = r.from
            /\ catalogue'[r.version].status = r.to
            /\ Legal(r.from, r.to)]_vars

Exporting == {op[p].version : p \in {q \in Processes : op[q].pc = "write"}}

(***************************************************************************)
(* The lifecycle implements the public catalogue: the current dataset is   *)
(* replaced in one step, and disappears only by an export of it.           *)
(***************************************************************************)
Catalogue == INSTANCE PublicCatalogue
             WITH current <- Live(catalogue), exporting <- Exporting

ImplementsPublicCatalogue == Catalogue!Spec

-----------------------------------------------------------------------------
(***************************************************************************)
(* The inductive invariant of the proofs.                                  *)
(***************************************************************************)
Activating(p) == op[p].action \in {"publish", "rollback"}

\* What a use case holds passed the checks made when it was read.
ReadHolds(p) ==
    /\ op[p].action = "advance" /\ op[p].pc \in {"ready", "get", "commit"} =>
          op[p].to \in {"validation", "review", "approved"}
    /\ op[p].pc = "list" => Activating(p)
    /\ op[p].pc = "commit" /\ op[p].action \in {"advance", "notes"} =>
          op[p].doc.status \in {"draft", "validation", "review", "approved"}
    /\ op[p].pc \in {"list", "commit"} /\ Activating(p) => HasArtifacts(op[p].doc)
    /\ op[p].pc = "commit" /\ Activating(p) =>
          \A v \in Versions : op[p].live[v] # NoDoc =>
             HasEvent(v) /\ HasArtifacts(op[p].live[v])

ReadsHold == \A p \in Processes : ReadHolds(p)

\* Metadata in the catalogue is of files that were written ...
CatalogueFilesExist ==
    \A v \in Versions :
       /\ catalogue[v].status = "published" => HasArtifacts(catalogue[v])
       /\ HasArtifacts(catalogue[v]) => files[v][1] > 0

\* ... and so is metadata that a use case holds.
HeldFilesExist(p) ==
    /\ op[p].pc = "write" =>
          /\ op[p].build > 0 /\ op[p].file <= Files
          /\ op[p].file > 0 => files[op[p].version][1] > 0
    /\ op[p].pc \in {"list", "commit"} /\ HasArtifacts(op[p].doc) =>
          files[op[p].version][1] > 0
    /\ op[p].pc = "commit" /\ Activating(p) =>
          \A v \in Versions : op[p].live[v] # NoDoc => files[v][1] > 0

FilesExist == CatalogueFilesExist /\ \A p \in Processes : HeldFilesExist(p)

LifecycleInv ==
    /\ TypeOK
    /\ OneLive
    /\ LiveHasEvent
    /\ ReadsHold
    /\ FilesExist

-----------------------------------------------------------------------------
\* The artifacts doc describes, if any, are the bytes in the files of v.
Written(v, doc) == HasArtifacts(doc) => BytesVerified(v, doc)

\* So are those of the documents of v that a use case holds.
HeldIsWritten(p, v) ==
    /\ op[p].pc \in {"list", "commit"} /\ op[p].version = v => Written(v, op[p].doc)
    /\ op[p].pc = "commit" /\ Activating(p) => Written(v, op[p].live[v])

\* An export has written the files it counts.
CountsHold(p, v) ==
    op[p].pc = "write" /\ op[p].version = v =>
       \A k \in 1..op[p].file : files[v][k] = op[p].build

\* With LifecycleInv, inductive: as long as no export of v met another use case,
\* all that is known of v is true until an export writes over it.
DownloadsHold(v) ==
    /\ ~ Overwritten(v) => /\ Written(v, catalogue[v])
                           /\ \A p \in Processes : HeldIsWritten(p, v)
    /\ \A p \in Processes : CountsHold(p, v)

DownloadsInv == \A v \in Versions \ contested : DownloadsHold(v)

\* With LifecycleInv, inductive: what the rows of the lifecycle will say.
RowsInv ==
    \A p \in Processes :
       /\ op[p].pc = "ready" => op[p].action = "publish"
       /\ op[p].pc = "write" => op[p].action = "export"
       /\ op[p].pc = "record" => op[p].action # "advance"
       /\ op[p].pc = "commit" /\ op[p].action = "advance" => Legal(op[p].doc.status, op[p].to)
=============================================================================
