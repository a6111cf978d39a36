--------------------------- MODULE SearchPipeline ---------------------------
(***************************************************************************)
(* From a release to the search index.  Workers (Outbox, extended here)    *)
(* handle dataset.published by Service.Reindex of internal/app/search, and *)
(* the CLI's reindex runs the same code without an event.  A rebuild drops *)
(* and recreates the Typesense collection, reads the canonical records a   *)
(* page at a time and imports them a batch at a time; every request is a   *)
(* step, and rebuilds of different processes interleave with each other    *)
(* and with the console's changes to the records.                          *)
(***************************************************************************)
EXTENDS Outbox

CONSTANTS
    Operators,  \* CLI processes that reindex
    Pages,      \* pages of canonical records
    MaxChanges  \* bound: changes to the canonical records

ASSUME PagesAssumption == Pages \in Nat \ {0}
ASSUME ChangesAssumption == MaxChanges \in Nat
ASSUME OperatorAssumption == Operators \cap Workers = {}

VARIABLES
    db,       \* db[k]: the content of page k, 0 when nothing of it is searchable
    index,    \* the collection: does it exist, and the content it has of a page
    rebuild,  \* rebuild[p]: the rebuild p is running
    changes,  \* changes so far
    last      \* ghost: about the rebuild begun last

searchVars == <<db, index, rebuild, changes, last>>

Rebuilders == Workers \cup Operators

PageNumbers == 1..Pages

Content == [PageNumbers -> Nat]

Rebuild == [pc : {"none", "drop", "create", "read", "import"}, docs : Content,
            next : PageNumbers]

NoDocs == [k \in PageNumbers |-> 0]

NoRebuild == [pc |-> "none", docs |-> NoDocs, next |-> 1]

SearchTypeOK ==
    /\ OutboxTypeOK
    /\ db \in Content
    /\ index \in [exists : BOOLEAN, docs : Content]
    /\ rebuild \in [Rebuilders -> Rebuild]
    /\ changes \in Nat
    \* built: has a rebuild ended well since; changed: pages changed since;
    \* shared: was another one under way; held: was it begun under a lease.
    /\ last \in [built : BOOLEAN, changed : SUBSET PageNumbers, shared : BOOLEAN,
                 held : BOOLEAN]

Running(p) == rebuild[p].pc \in {"create", "read", "import"}

-----------------------------------------------------------------------------
SearchInit ==
    /\ OutboxInit
    /\ db = [k \in PageNumbers |-> 1]
    /\ index = [exists |-> TRUE, docs |-> db]
    /\ rebuild = [p \in Rebuilders |-> NoRebuild]
    /\ changes = 0
    /\ last = [built |-> TRUE, changed |-> {}, shared |-> FALSE, held |-> FALSE]

\* An activation (DatasetRelease) commits its event.
Publish(e) == Enqueue(e) /\ UNCHANGED searchVars

\* The console edits a page, or merges its records away.
Change(k) ==
    /\ changes < MaxChanges
    /\ changes' = changes + 1
    /\ db' \in {[db EXCEPT ![k] = 0], [db EXCEPT ![k] = changes + 2]}
    /\ last' = [last EXCEPT !.changed = @ \cup {k}]
    /\ UNCHANGED <<outboxVars, index, rebuild>>

ClaimWork(w) ==
    /\ Claim(w)
    /\ rebuild' = [rebuild EXCEPT ![w] = [NoRebuild EXCEPT !.pc = "drop"]]
    /\ UNCHANGED <<db, index, changes, last>>

StartReindex(p) ==
    /\ p \in Operators
    /\ rebuild[p].pc = "none"
    /\ rebuild' = [rebuild EXCEPT ![p] = [NoRebuild EXCEPT !.pc = "drop"]]
    /\ UNCHANGED <<outboxVars, db, index, changes, last>>

Begun(p) == [built |-> FALSE, changed |-> {},
             shared |-> \E q \in Rebuilders \ {p} : Running(q),
             held |-> p \in Workers /\ Owns(p)]

\* Only EnsureSchema: what is indexed stays.
Drop_Upsert(p) ==
    /\ rebuild[p].pc = "drop"
    /\ rebuild' = [rebuild EXCEPT ![p].pc = "create"]
    /\ last' = Begun(p)
    /\ UNCHANGED <<outboxVars, db, index, changes>>

\* Rebuild, the DELETE request; a missing collection will do.
Drop(p) ==
    /\ rebuild[p].pc = "drop"
    /\ index' = [exists |-> FALSE, docs |-> NoDocs]
    /\ rebuild' = [rebuild EXCEPT ![p].pc = "create"]
    /\ last' = Begun(p)
    /\ UNCHANGED <<outboxVars, db, changes>>

\* EnsureSchema; a collection that exists already will do.
Create(p) ==
    /\ rebuild[p].pc = "create"
    /\ index' = [index EXCEPT !.exists = TRUE]
    /\ rebuild' = [rebuild EXCEPT ![p].pc = "read"]
    /\ UNCHANGED <<outboxVars, db, changes, last>>

ReadPage(p) ==
    /\ rebuild[p].pc = "read"
    /\ LET k == rebuild[p].next
           read == [rebuild[p] EXCEPT !.docs[k] = db[k]]
       IN rebuild' = [rebuild EXCEPT ![p] =
                        IF k < Pages THEN [read EXCEPT !.next = k + 1]
                                     ELSE [read EXCEPT !.pc = "import", !.next = 1]]
    /\ UNCHANGED <<outboxVars, db, index, changes, last>>

\* The handler returns; the CLI exits.
Return(p, ok) ==
    /\ rebuild' = [rebuild EXCEPT ![p] = NoRebuild]
    /\ IF p \in Workers THEN Handle(p, ok) ELSE UNCHANGED outboxVars

\* The server upserts what the batch has.
Upserted(p) ==
    LET k == rebuild[p].next
        doc == rebuild[p].docs[k]
    IN [index EXCEPT !.docs[k] = IF doc # 0 THEN doc ELSE @]

\* Index, one batch; importing documents of a missing collection is an error.
ImportBatch(p) ==
    /\ rebuild[p].pc = "import"
    /\ index.exists \/ rebuild[p].docs[rebuild[p].next] = 0
    /\ index' = Upserted(p)
    /\ IF rebuild[p].next < Pages
       THEN /\ rebuild' = [rebuild EXCEPT ![p].next = @ + 1]
            /\ UNCHANGED <<outboxVars, last>>
       ELSE /\ Return(p, TRUE)
            /\ last' = [last EXCEPT !.built = TRUE]
    /\ UNCHANGED <<db, changes>>

\* What the server does with the request of p, answered or not.
Served(p) ==
    CASE rebuild[p].pc = "drop"   -> [exists |-> FALSE, docs |-> NoDocs]
      [] rebuild[p].pc = "create" -> [index EXCEPT !.exists = TRUE]
      [] rebuild[p].pc = "import" /\ index.exists -> Upserted(p)
      [] OTHER -> index

\* A request to the database or the search server fails; it may have been
\* served all the same.
FailRebuild(p) ==
    /\ rebuild[p].pc # "none"
    /\ Return(p, FALSE)
    /\ \/ UNCHANGED <<index, last>>
       \/ /\ index' = Served(p)
          /\ last' = IF rebuild[p].pc = "drop" THEN Begun(p) ELSE last
    /\ UNCHANGED <<db, changes>>

AcknowledgeWork(w) == Acknowledge(w) /\ UNCHANGED searchVars

\* A worker dies, at work or acknowledging.
CrashWorker(w) ==
    /\ Crash(w)
    /\ rebuild' = [rebuild EXCEPT ![w] = NoRebuild]
    /\ UNCHANGED <<db, index, changes, last>>

TimePasses == Tick /\ UNCHANGED searchVars

RebuildStep(p) == Drop(p) \/ Create(p) \/ ReadPage(p) \/ ImportBatch(p) \/ FailRebuild(p)

PollWork(w) == Poll(w) /\ UNCHANGED searchVars

SearchNext ==
    \/ \E e \in Events : Publish(e)
    \/ \E k \in PageNumbers : Change(k)
    \/ \E w \in Workers : ClaimWork(w) \/ PollWork(w) \/ AcknowledgeWork(w) \/ CrashWorker(w)
    \/ \E p \in Operators : StartReindex(p)
    \/ \E p \in Rebuilders : RebuildStep(p)
    \/ TimePasses

pipelineVars == <<outboxVars, searchVars>>

SearchSpec == SearchInit /\ [][SearchNext]_pipelineVars

\* Run polls for ever, a rebuild returns, a finished handler is acknowledged,
\* and time passes.
SearchFairness ==
    /\ \A w \in Workers : WF_pipelineVars(ClaimWork(w)) /\ WF_pipelineVars(AcknowledgeWork(w))
    /\ \A p \in Rebuilders : WF_pipelineVars(RebuildStep(p))
    /\ WF_pipelineVars(TimePasses)

FairSearchSpec == SearchSpec /\ SearchFairness

-----------------------------------------------------------------------------
Resting == \A p \in Rebuilders : ~ Running(p)

Fresh ==
    /\ index.exists
    /\ \A k \in PageNumbers : k \notin last.changed => index.docs[k] = db[k]

(***************************************************************************)
(* A rebuild that ended well leaves exactly what the database has, but for *)
(* what changed after it began: nothing merged away is found any more.     *)
(* (search.go: "anything merged or deleted since the last run would        *)
(* otherwise linger".)  Holds when no other rebuild was under way.         *)
(***************************************************************************)
LoneRebuildIsTrue == (Resting /\ last.built /\ ~ last.shared) => Fresh

\* What a rebuild that is alone has done so far, but for pages changed since.
Progress(p) ==
    LET next == rebuild[p].next
        Read(k) == k \notin last.changed => rebuild[p].docs[k] = db[k]
    IN \/ /\ rebuild[p].pc = "create"
          /\ next = 1 /\ index.docs = NoDocs
       \/ /\ rebuild[p].pc = "read"
          /\ index.exists /\ index.docs = NoDocs
          /\ \A k \in 1..(next - 1) : Read(k)
       \/ /\ rebuild[p].pc = "import"
          /\ index.exists
          /\ \A k \in PageNumbers :
                Read(k) /\ index.docs[k] = IF k < next THEN rebuild[p].docs[k] ELSE 0

(***************************************************************************)
(* The inductive invariant of the proofs: if no other rebuild was under    *)
(* way when the last one was begun, it is the only one under way.          *)
(***************************************************************************)
LoneRebuildInv ==
    /\ \A p \in Rebuilders : rebuild[p].pc = "drop" => rebuild[p].next = 1
    /\ ~ last.shared =>
          /\ \A p, q \in Rebuilders : Running(p) /\ Running(q) => p = q
          /\ \A p \in Rebuilders : Running(p) => ~ last.built /\ Progress(p)
          /\ Resting /\ last.built => Fresh

(***************************************************************************)
(* A rebuild that was begun under a lease and cut short does not leave     *)
(* search empty for good: the event is handled again, by whoever claims    *)
(* it next, until the index is built or an event is dead.  Nothing is      *)
(* promised of one begun without: by the CLI, or by a worker that lost its *)
(* lease before it dropped the collection.                                 *)
(***************************************************************************)
SearchReturns ==
    (~ last.built /\ last.held) ~>
       \/ last.built
       \/ ~ last.held
       \/ \E e \in Events : row[e].status = "dead"
=============================================================================
