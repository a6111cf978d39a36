------------------------------- MODULE ImportRun -------------------------------
(***************************************************************************)
(* The import of one source file: internal/app/ingest/reconcile.go over    *)
(* the run ledger of internal/adapters/mongo/import_runs.go.               *)
(*                                                                         *)
(* The command "import" (cmd/ghanageo-admin) may run several times on the  *)
(* same file, also at once; the id of the run comes from the file, so all  *)
(* of them work on one ledger.  A record of the file commits its place, a  *)
(* row of the ledger and the counter of the run in one transaction; what   *)
(* comes before, the check of the existing place included, is a call of    *)
(* its own.  Meanwhile stewards review places.                             *)
(***************************************************************************)
EXTENDS Integers, FiniteSets

CONSTANTS
    Importers,  \* processes that run the command
    Records,    \* number of records in the file, in its order
    Rejects,    \* those without a known region, or not valid
    Limits,     \* the values of --limit
    MaxFaults   \* bound: calls that fail, processes that die

ASSUME RecordsAssumption == Records \in Nat
ASSUME RejectsAssumption == Rejects \subseteq 1..Records
ASSUME LimitsAssumption == Limits \subseteq 1..Records
ASSUME FaultsAssumption == MaxFaults \in Nat

VARIABLES
    run,     \* the row of source_runs
    source,  \* source[r]: the row of record r in source_records
    place,   \* place[r]: the place that record r describes
    proc,    \* proc[p]: where importer p is
    faults   \* calls that failed and processes that died

vars == <<run, source, place, proc, faults>>

Items == 1..Records

Outcomes == {"created", "updated", "skipped", "rejected"}

Idle == [pc |-> "idle"]

\* covered: the limit of the import that completed the run (history).
Run == [status : {"absent", "queued", "running", "succeeded", "failed"},
        processed : 0..Records, covered : 0..Records]

\* next: the record it is at; outcome: what it is about to record, whether a
\* place is new being told by the transaction.
Proc == [pc : {"queue", "read", "start", "check", "index", "look", "commit", "complete",
               "finish", "fail"},
         limit : Limits, next : 1..(Records + 1), outcome : Outcomes \ {"created"}]

\* "reference" also stands for the other states that an import may replace.
TypeOK ==
    /\ run \in Run
    /\ source \in [Items -> Outcomes \cup {"none"}]
    /\ place \in [Items -> {"absent", "reference", "reviewed"}]
    /\ proc \in [Importers -> {Idle} \cup Proc]
    /\ faults \in 0..MaxFaults

-----------------------------------------------------------------------------
Goto(p, pc) == proc' = [proc EXCEPT ![p].pc = pc]

End(p) == proc' = [proc EXCEPT ![p] = Idle]

durable == <<run, source, place>>

\* An operator starts the command.
Begin(p) ==
    /\ proc[p] = Idle
    /\ \E l \in Limits :
          proc' = [proc EXCEPT ![p] = [pc |-> "queue", limit |-> l, next |-> 1,
                                       outcome |-> "updated"]]
    /\ UNCHANGED <<durable, faults>>

\* An upsert that inserts or leaves the row alone.
Queue(p) ==
    /\ proc[p].pc = "queue"
    /\ IF run.status = "absent"
       THEN run' = [run EXCEPT !.status = "queued"] /\ Goto(p, "start")
       ELSE UNCHANGED run /\ Goto(p, "read")
    /\ UNCHANGED <<source, place, faults>>

\* The row that was there: a run that succeeded is not repeated.
ReadRun(p) ==
    /\ proc[p].pc = "read"
    /\ IF run.status = "succeeded" THEN End(p) ELSE Goto(p, "start")
    /\ UNCHANGED <<durable, faults>>

Start(p) ==
    /\ proc[p].pc = "start"
    /\ IF run.status = "queued"
       THEN run' = [run EXCEPT !.status = "running"] /\ Goto(p, "index")
       ELSE UNCHANGED run /\ Goto(p, "check")
    /\ UNCHANGED <<source, place, faults>>

\* A run under way is not joined.
Startable_OnlyDone(status) == status = "succeeded"

\* The states in which Start takes a run that was not queued.
Startable(status) == status \in {"running", "succeeded"}

CheckStarted(p) ==
    /\ proc[p].pc = "check"
    /\ IF Startable(run.status) THEN Goto(p, "index") ELSE End(p)
    /\ UNCHANGED <<durable, faults>>

BuildIndex(p) ==
    /\ proc[p].pc = "index"
    /\ Goto(p, "look")
    /\ UNCHANGED <<durable, faults>>

ToCommit(p, outcome) == proc' = [proc EXCEPT ![p].pc = "commit", ![p].outcome = outcome]

\* Fetch hands over the next record.  The place it describes is read; that
\* the read fails is taken for a place that is not there.
Look(p) ==
    /\ proc[p].pc = "look"
    /\ LET r == proc[p].next
       IN \/ /\ r > proc[p].limit
             /\ Goto(p, "complete")
             /\ UNCHANGED faults
          \/ /\ r <= proc[p].limit /\ r \in Rejects
             /\ ToCommit(p, "rejected")
             /\ UNCHANGED faults
          \/ /\ r <= proc[p].limit /\ r \notin Rejects
             /\ ToCommit(p, IF place[r] = "reviewed" THEN "skipped" ELSE "updated")
             /\ UNCHANGED faults
          \/ /\ r <= proc[p].limit /\ r \notin Rejects
             /\ faults < MaxFaults /\ faults' = faults + 1
             /\ ToCommit(p, "updated")
    /\ UNCHANGED durable

\* The counter moves for a record that was there already.
Recorded_Counted(r, outcome) ==
    IF source[r] # "none"
    THEN run' = [run EXCEPT !.processed = @ + 1] /\ UNCHANGED <<source, place>>
    ELSE /\ source' = [source EXCEPT ![r] = IF outcome = "updated" /\ place[r] = "absent"
                                            THEN "created" ELSE outcome]
         /\ place' = [place EXCEPT ![r] = IF outcome = "updated" THEN "reference" ELSE @]
         /\ run' = [run EXCEPT !.processed = @ + 1]

\* CommitRecord, one transaction: the place, the row and the counter of the
\* run; a record that has its row is left alone.
Recorded(r, outcome) ==
    IF source[r] # "none" THEN UNCHANGED durable
    ELSE /\ source' = [source EXCEPT ![r] = IF outcome = "updated" /\ place[r] = "absent"
                                            THEN "created" ELSE outcome]
         /\ place' = [place EXCEPT ![r] = IF outcome = "updated" THEN "reference" ELSE @]
         /\ run' = [run EXCEPT !.processed = @ + 1]

\* The transaction aborts when it has a row to write and the run is not running.
Aborts(r) == source[r] = "none" /\ run.status # "running"

\* After a record that could not be written, the next one.
AfterError_NextRecord(p) == proc' = [proc EXCEPT ![p].pc = "look", ![p].next = @ + 1]

\* The error of a record ends Fetch.
AfterError(p) == Goto(p, "fail")

Commit(p) ==
    /\ proc[p].pc = "commit"
    /\ IF Aborts(proc[p].next) THEN UNCHANGED durable /\ AfterError(p)
       ELSE /\ Recorded(proc[p].next, proc[p].outcome)
            /\ proc' = [proc EXCEPT ![p].pc = "look", ![p].next = @ + 1]
    /\ UNCHANGED faults

\* The transaction fails, or its answer is lost after it committed.
CommitFails(p) ==
    /\ proc[p].pc = "commit"
    /\ faults < MaxFaults /\ faults' = faults + 1
    /\ \/ UNCHANGED durable
       \/ ~ Aborts(proc[p].next) /\ Recorded(proc[p].next, proc[p].outcome)
    /\ AfterError(p)

\* The first half of Complete; its errors do not fail the run.
ReadComplete(p) ==
    /\ proc[p].pc = "complete"
    /\ IF run.status = "running" THEN Goto(p, "finish") ELSE End(p)
    /\ UNCHANGED <<durable, faults>>

Finish(p) ==
    /\ proc[p].pc = "finish"
    /\ run' = IF run.status = "running"
              THEN [run EXCEPT !.status = "succeeded", !.covered = proc[p].limit]
              ELSE run
    /\ End(p)
    /\ UNCHANGED <<source, place, faults>>

\* failRun; what it returns is dropped.
FailRun(p) ==
    /\ proc[p].pc = "fail"
    /\ run' = IF run.status \in {"queued", "running"} THEN [run EXCEPT !.status = "failed"]
              ELSE run
    /\ End(p)
    /\ UNCHANGED <<source, place, faults>>

\* Another call fails, with or without an effect that shows later as that of
\* a process that died: the index and Fetch fail the run, the rest end the command.
CallFails(p) ==
    /\ proc[p] # Idle /\ proc[p].pc # "commit"
    /\ faults < MaxFaults /\ faults' = faults + 1
    /\ IF proc[p].pc \in {"index", "look"} THEN Goto(p, "fail") ELSE End(p)
    /\ UNCHANGED durable

Crash(p) ==
    /\ proc[p] # Idle
    /\ faults < MaxFaults /\ faults' = faults + 1
    /\ End(p)
    /\ UNCHANGED durable

\* A steward sets the verification status of a place (UpdatePlace).
Review(r) ==
    /\ place[r] = "reference"
    /\ place' = [place EXCEPT ![r] = "reviewed"]
    /\ UNCHANGED <<run, source, proc, faults>>

\* The places may be there from an earlier file of the source.
Init ==
    /\ run = [status |-> "absent", processed |-> 0, covered |-> 0]
    /\ source = [r \in Items |-> "none"]
    /\ place \in [Items -> {"absent", "reference", "reviewed"}]
    /\ \A r \in Rejects : place[r] = "absent"
    /\ proc = [p \in Importers |-> Idle]
    /\ faults = 0

Step(p) ==
    \/ Queue(p) \/ ReadRun(p) \/ Start(p) \/ CheckStarted(p) \/ BuildIndex(p) \/ Look(p)
    \/ Commit(p) \/ ReadComplete(p) \/ Finish(p) \/ FailRun(p)

Fault(p) == CommitFails(p) \/ CallFails(p) \/ Crash(p)

Next ==
    \/ \E p \in Importers : Begin(p) \/ Step(p) \/ Fault(p)
    \/ \E r \in Items : Review(r)

Spec == Init /\ [][Next]_vars

\* A process that runs goes on, and the command is repeated.
FairSpec == Spec /\ \A p \in Importers : WF_vars(Step(p)) /\ WF_vars(Begin(p))

-----------------------------------------------------------------------------
Ledger == {r \in Items : source[r] # "none"}

CounterIsLedger == run.processed = Cardinality(Ledger)

WrittenExist == \A r \in Items : source[r] \in {"created", "updated"} => place[r] # "absent"

\* An importer leaves no record behind without a row, and ends after its limit.
NoneLeftBehind ==
    \A p \in Importers : proc[p] # Idle =>
       /\ \A r \in Items : r < proc[p].next => r \in Ledger
       /\ proc[p].pc = "commit" => proc[p].next <= proc[p].limit
       /\ proc[p].pc \in {"complete", "finish"} => proc[p].next > proc[p].limit

(***************************************************************************)
(* The counter of the run is the number of records in its ledger, however  *)
(* many imports of the file overlap, fail and are repeated; a record that  *)
(* says a place was written has its place; and no importer passes over a   *)
(* record that has no row (CommitRecord).                                  *)
(***************************************************************************)
ImportInv == TypeOK /\ CounterIsLedger /\ WrittenExist /\ NoneLeftBehind

(***************************************************************************)
(* A run that succeeded has every record up to the limit of the import     *)
(* that completed it, whatever other imports did meanwhile (Complete).     *)
(***************************************************************************)
SucceededIsComplete ==
    run.status = "succeeded" => \A r \in 1..run.covered : source[r] # "none"

(***************************************************************************)
(* An import that was queued ends, succeeded or failed, when the command   *)
(* is repeated until then: one that died holds up no other (Start).        *)
(***************************************************************************)
ImportsFinish == run.status # "absent" ~> run.status \in {"succeeded", "failed"}

(***************************************************************************)
(* "It may not overwrite one a human has reviewed or published": no import *)
(* takes back the review of a place (reconcile.go).                        *)
(***************************************************************************)
ReviewedStands == [][\A r \in Items : place[r] = "reviewed" => place'[r] = "reviewed"]_vars
=============================================================================
