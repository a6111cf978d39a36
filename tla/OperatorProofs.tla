----------------------------- MODULE OperatorProofs -----------------------------
(***************************************************************************)
(* Proofs about what operators set off: imports (ImportRun), for any       *)
(* importers, files, limits and faults; and policies and grants of fair    *)
(* use (FairUse), for any replicas, clocks, handlers, bursts and refills.  *)
(* The two share no state, and nothing of one is used for the other.       *)
(***************************************************************************)
EXTENDS ImportRun, FairUse, FiniteSetTheorems, TLAPS

-----------------------------------------------------------------------------
(***************************************************************************)
(* Imports.                                                                *)
(***************************************************************************)
USE RecordsAssumption, RejectsAssumption, LimitsAssumption, FaultsAssumption

LEMMA LedgerIsFinite ==
  /\ IsFiniteSet(Items) /\ Cardinality(Items) = Records
  /\ \A S \in SUBSET Items : IsFiniteSet(S) /\ Cardinality(S) \in 0..Records
<1>1. IsFiniteSet(Items) /\ Cardinality(Items) = Records
  BY FS_Interval DEF Items
<1>2. ASSUME NEW S \in SUBSET Items PROVE IsFiniteSet(S) /\ Cardinality(S) \in 0..Records
  <2>1. IsFiniteSet(S) /\ Cardinality(S) <= Records
    BY <1>1, FS_Subset
  <2>2. Cardinality(S) \in Nat
    BY <2>1, FS_CardinalityType
  <2>3. QED
    BY <2>1, <2>2
<1>3. QED
  BY <1>1, <1>2

LEMMA IdleIsNoProc == Idle \notin Proc
BY DEF Idle, Proc

LEMMA ProcsOf ==
  ASSUME TypeOK, NEW p \in Importers, proc[p] # Idle
  PROVE  /\ proc[p] \in Proc
         /\ proc[p].limit \in Items
         /\ proc[p].next \in 1..(Records + 1)
BY DEF TypeOK, Proc, Items

\* What a step of importer p, or of none, has to keep for the invariant.
LEMMA Frame ==
  ASSUME ImportInv, NEW p \in Importers, NEW new \in Proc \cup {Idle},
         proc' = [proc EXCEPT ![p] = new],
         run' \in Run, source' \in [Items -> Outcomes \cup {"none"}],
         place' \in [Items -> {"absent", "reference", "reviewed"}],
         faults' \in 0..MaxFaults,
         CounterIsLedger', WrittenExist', Ledger \subseteq Ledger',
         new # Idle =>
            /\ \A r \in Items : r < new.next => r \in Ledger'
            /\ new.pc = "commit" => new.next <= new.limit
            /\ new.pc \in {"complete", "finish"} => new.next > new.limit
  PROVE  ImportInv'
<1>1. TypeOK'
  BY DEF ImportInv, TypeOK
<1>2. NoneLeftBehind'
  <2> SUFFICES ASSUME NEW q \in Importers, proc'[q] # Idle
               PROVE  /\ \A r \in Items : r < proc'[q].next => r \in Ledger'
                      /\ proc'[q].pc = "commit" => proc'[q].next <= proc'[q].limit
                      /\ proc'[q].pc \in {"complete", "finish"} => proc'[q].next > proc'[q].limit
    BY DEF NoneLeftBehind
  <2>1. CASE q = p
    <3>1. proc'[q] = new
      BY <2>1 DEF ImportInv, TypeOK
    <3>2. QED
      BY <3>1
  <2>2. CASE q # p
    <3>1. proc'[q] = proc[q]
      BY <2>2 DEF ImportInv, TypeOK
    <3>2. QED
      BY <3>1 DEF ImportInv, NoneLeftBehind
  <2>3. QED
    BY <2>1, <2>2
<1>3. QED
  BY <1>1, <1>2 DEF ImportInv

\* A step that leaves the collections alone.
LEMMA LocalStep ==
  ASSUME ImportInv, NEW p \in Importers, NEW new \in Proc \cup {Idle},
         proc' = [proc EXCEPT ![p] = new],
         UNCHANGED <<source, place>>, run' \in Run, run'.processed = run.processed,
         faults' \in 0..MaxFaults,
         new # Idle =>
            /\ \A r \in Items : r < new.next => r \in Ledger
            /\ new.pc = "commit" => new.next <= new.limit
            /\ new.pc \in {"complete", "finish"} => new.next > new.limit
  PROVE  ImportInv'
<1>1. Ledger' = Ledger
  BY DEF Ledger
<1>2. CounterIsLedger' /\ WrittenExist'
  BY <1>1 DEF ImportInv, CounterIsLedger, WrittenExist
<1>3. QED
  BY <1>1, <1>2, Frame DEF ImportInv, TypeOK

\* CommitRecord: the row, its place and the counter move together.
LEMMA RecordedKeeps ==
  ASSUME ImportInv, NEW r \in Items, NEW outcome \in Outcomes \ {"created"},
         Recorded(r, outcome)
  PROVE  /\ run' \in Run /\ run'.status = run.status /\ run'.covered = run.covered
         /\ source' \in [Items -> Outcomes \cup {"none"}]
         /\ place' \in [Items -> {"absent", "reference", "reviewed"}]
         /\ Ledger' = Ledger \cup {r}
         /\ CounterIsLedger' /\ WrittenExist'
<1> USE DEF ImportInv, TypeOK
<1>1. CASE source[r] # "none"
  <2>1. UNCHANGED <<run, source, place>> /\ r \in Ledger
    BY <1>1 DEF Recorded, durable, Ledger
  <2>2. Ledger' = Ledger
    BY <2>1 DEF Ledger
  <2>3. CounterIsLedger' /\ WrittenExist'
    BY <2>1, <2>2 DEF CounterIsLedger, WrittenExist
  <2>4. QED
    BY <2>1, <2>2, <2>3
<1>2. CASE source[r] = "none"
  <2> DEFINE row == IF outcome = "updated" /\ place[r] = "absent" THEN "created" ELSE outcome
  <2>1. /\ source' = [source EXCEPT ![r] = row]
        /\ place' = [place EXCEPT ![r] = IF outcome = "updated" THEN "reference" ELSE @]
        /\ run' = [run EXCEPT !.processed = @ + 1]
    BY <1>2 DEF Recorded
  <2>2. row \in Outcomes /\ row # "none"
    BY DEF Outcomes
  <2>3. /\ source' \in [Items -> Outcomes \cup {"none"}]
        /\ source'[r] = row
        /\ \A q \in Items : q # r => source'[q] = source[q]
    BY <2>1, <2>2
  <2>4. /\ place' \in [Items -> {"absent", "reference", "reviewed"}]
        /\ place'[r] = IF outcome = "updated" THEN "reference" ELSE place[r]
        /\ \A q \in Items : q # r => place'[q] = place[q]
    BY <2>1
  <2>5. Ledger' = Ledger \cup {r} /\ r \notin Ledger
    BY <1>2, <2>2, <2>3 DEF Ledger
  <2>6. IsFiniteSet(Ledger) /\ Cardinality(Ledger') \in 0..Records
    BY LedgerIsFinite DEF Ledger
  <2>7. Cardinality(Ledger') = Cardinality(Ledger) + 1
    BY <2>5, <2>6, FS_AddElement
  <2>8. /\ run' \in Run /\ run'.status = run.status /\ run'.covered = run.covered
        /\ run'.processed = Cardinality(Ledger')
    BY <2>1, <2>6, <2>7 DEF Run, CounterIsLedger
  <2>9. WrittenExist'
    BY <2>2, <2>3, <2>4 DEF WrittenExist, Outcomes
  <2>10. QED
    BY <2>3, <2>4, <2>5, <2>8, <2>9 DEF CounterIsLedger
<1>3. QED
  BY <1>1, <1>2

\* A step that moves importer p and changes no collection but perhaps the run.
LEMMA MoveStep ==
  ASSUME ImportInv, NEW p \in Importers, proc[p] # Idle,
         NEW pc \in {"queue", "read", "start", "check", "index", "look", "fail"},
         Goto(p, pc),
         UNCHANGED <<source, place>>, run' \in Run, run'.processed = run.processed,
         faults' \in 0..MaxFaults
  PROVE  ImportInv'
<1> DEFINE new == [proc[p] EXCEPT !.pc = pc]
<1>1. proc[p] \in Proc
  BY ProcsOf DEF ImportInv
<1>2. /\ new \in Proc /\ new.pc = pc /\ new.next = proc[p].next
      /\ proc' = [proc EXCEPT ![p] = new]
  BY <1>1 DEF Proc, Goto
<1>3. \A r \in Items : r < proc[p].next => r \in Ledger
  BY DEF ImportInv, NoneLeftBehind
<1>4. QED
  BY <1>2, <1>3, LocalStep

LEMMA EndStep ==
  ASSUME ImportInv, NEW p \in Importers, End(p),
         UNCHANGED <<source, place>>, run' \in Run, run'.processed = run.processed,
         faults' \in 0..MaxFaults
  PROVE  ImportInv'
BY LocalStep DEF End

LEMMA InitHolds == Init => ImportInv
<1> SUFFICES ASSUME Init PROVE ImportInv
  OBVIOUS
<1>1. TypeOK
  BY DEF Init, TypeOK, Run
<1>2. Ledger = {}
  BY DEF Init, Ledger
<1>3. CounterIsLedger
  BY <1>2, FS_EmptySet DEF Init, CounterIsLedger
<1>4. WrittenExist /\ NoneLeftBehind
  BY DEF Init, WrittenExist, NoneLeftBehind
<1>5. QED
  BY <1>1, <1>3, <1>4 DEF ImportInv

LEMMA StartKeeps ==
  ASSUME ImportInv, NEW p \in Importers,
         Begin(p) \/ Queue(p) \/ ReadRun(p) \/ Start(p) \/ CheckStarted(p) \/ BuildIndex(p)
  PROVE  ImportInv'
<1>1. run \in Run /\ faults \in 0..MaxFaults
  BY DEF ImportInv, TypeOK
<1>2. CASE Begin(p)
  <2>1. PICK l \in Limits : proc' = [proc EXCEPT ![p] = [pc |-> "queue", limit |-> l,
                                       next |-> 1, outcome |-> "updated"]]
    BY <1>2 DEF Begin
  <2> DEFINE new == [pc |-> "queue", limit |-> l, next |-> 1, outcome |-> "updated"]
  <2>2. new \in Proc
    BY DEF Proc, Outcomes
  <2>3. \A r \in Items : ~ (r < 1)
    BY DEF Items
  <2>4. QED
    BY <1>1, <1>2, <2>1, <2>2, <2>3, LocalStep DEF Begin, durable
<1>3. CASE Queue(p)
  <2>1. proc[p] # Idle /\ UNCHANGED <<source, place, faults>>
    BY <1>3 DEF Queue, Idle
  <2>2. run' \in Run /\ run'.processed = run.processed
    BY <1>1, <1>3 DEF Queue, Run
  <2>3. Goto(p, "start") \/ Goto(p, "read")
    BY <1>3 DEF Queue
  <2>4. QED
    BY <1>1, <2>1, <2>2, <2>3, MoveStep
<1>4. CASE ReadRun(p)
  <2>1. proc[p] # Idle /\ UNCHANGED <<run, source, place, faults>>
    BY <1>4 DEF ReadRun, Idle, durable
  <2>2. Goto(p, "start") \/ End(p)
    BY <1>4 DEF ReadRun
  <2>3. QED
    BY <1>1, <2>1, <2>2, MoveStep, EndStep
<1>5. CASE Start(p)
  <2>1. proc[p] # Idle /\ UNCHANGED <<source, place, faults>>
    BY <1>5 DEF Start, Idle
  <2>2. run' \in Run /\ run'.processed = run.processed
    BY <1>1, <1>5 DEF Start, Run
  <2>3. Goto(p, "index") \/ Goto(p, "check")
    BY <1>5 DEF Start
  <2>4. QED
    BY <1>1, <2>1, <2>2, <2>3, MoveStep
<1>6. CASE CheckStarted(p) \/ BuildIndex(p)
  <2>1. proc[p] # Idle /\ UNCHANGED <<run, source, place, faults>>
    BY <1>6 DEF CheckStarted, BuildIndex, Idle, durable
  <2>2. Goto(p, "index") \/ Goto(p, "look") \/ End(p)
    BY <1>6 DEF CheckStarted, BuildIndex
  <2>3. QED
    BY <1>1, <2>1, <2>2, MoveStep, EndStep
<1>7. QED
  BY <1>2, <1>3, <1>4, <1>5, <1>6

\* Look stops at the limit of its import.
LEMMA LookKeeps == ASSUME ImportInv, NEW p \in Importers, Look(p) PROVE ImportInv'
<1>1. proc[p] # Idle
  BY DEF Look, Idle
<1>2. /\ proc[p] \in Proc /\ proc[p].next \in Nat /\ proc[p].limit \in Nat
      /\ run \in Run /\ faults \in Nat /\ faults \in 0..MaxFaults
  BY <1>1, ProcsOf DEF ImportInv, TypeOK, Items
<1>3. faults' \in 0..MaxFaults /\ UNCHANGED <<run, source, place>>
  BY <1>2 DEF Look, durable
<1>4. \A r \in Items : r < proc[p].next => r \in Ledger
  BY <1>1 DEF ImportInv, NoneLeftBehind
<1>5. CASE proc[p].next > proc[p].limit
  <2> DEFINE new == [proc[p] EXCEPT !.pc = "complete"]
  <2>1. /\ new \in Proc /\ new.pc = "complete"
        /\ new.next = proc[p].next /\ new.limit = proc[p].limit
        /\ proc' = [proc EXCEPT ![p] = new]
    BY <1>2, <1>5 DEF Look, Proc, Goto
  <2>2. QED
    BY <1>2, <1>3, <1>4, <1>5, <2>1, LocalStep
<1>6. CASE proc[p].next <= proc[p].limit
  <2>1. PICK outcome \in {"rejected", "skipped", "updated"} : ToCommit(p, outcome)
    BY <1>2, <1>6 DEF Look
  <2> DEFINE new == [proc[p] EXCEPT !.pc = "commit", !.outcome = outcome]
  <2>2. /\ new \in Proc /\ new.pc = "commit"
        /\ new.next = proc[p].next /\ new.limit = proc[p].limit
        /\ proc' = [proc EXCEPT ![p] = new]
    BY <1>2, <2>1 DEF ToCommit, Proc, Outcomes
  <2>3. QED
    BY <1>2, <1>3, <1>4, <1>6, <2>2, LocalStep
<1>7. QED
  BY <1>2, <1>5, <1>6

\* The record an importer commits has its row afterwards, so it can go on.
LEMMA RecordKeeps ==
  ASSUME ImportInv, NEW p \in Importers, Commit(p) \/ CommitFails(p)
  PROVE  ImportInv' /\ Ledger \subseteq Ledger'
                    /\ run'.status = run.status /\ run'.covered = run.covered
<1>1. proc[p] # Idle /\ proc[p].pc = "commit"
  BY DEF Commit, CommitFails, Idle
<1> DEFINE r == proc[p].next
           over == [proc[p] EXCEPT !.pc = "look", !.next = r + 1]
           failed == [proc[p] EXCEPT !.pc = "fail"]
<1>2. /\ proc[p] \in Proc /\ proc[p].limit \in Items /\ r \in Nat
      /\ proc[p].outcome \in Outcomes \ {"created"}
      /\ run \in Run /\ faults \in 0..MaxFaults
      /\ source \in [Items -> Outcomes \cup {"none"}]
      /\ place \in [Items -> {"absent", "reference", "reviewed"}]
  BY <1>1, ProcsOf DEF ImportInv, TypeOK, Proc, Items
<1>3. r <= proc[p].limit /\ \A q \in Items : q < r => q \in Ledger
  BY <1>1 DEF ImportInv, NoneLeftBehind
<1>4. r \in Items
  BY <1>1, <1>2, <1>3, ProcsOf DEF ImportInv, Items
<1>5. over \in Proc /\ over.pc = "look" /\ over.next = r + 1
  <2>1. r + 1 \in 1..(Records + 1)
    BY <1>4 DEF Items
  <2>2. ASSUME NEW n \in 1..(Records + 1), NEW c \in Proc
        PROVE  LET d == [c EXCEPT !.pc = "look", !.next = n]
               IN d \in Proc /\ d.pc = "look" /\ d.next = n
    BY DEF Proc
  <2>3. QED
    BY <1>2, <2>1, <2>2
<1>6. failed \in Proc /\ failed.pc = "fail" /\ failed.next = r
  BY <1>2 DEF Proc
<1>7. faults' \in 0..MaxFaults
  BY <1>2 DEF Commit, CommitFails
<1>8. CASE UNCHANGED durable /\ proc' = [proc EXCEPT ![p] = failed]
  <2>1. UNCHANGED <<run, source, place>> /\ Ledger' = Ledger
    BY <1>8 DEF durable, Ledger
  <2>2. ImportInv'
    BY <1>2, <1>3, <1>6, <1>7, <1>8, <2>1, LocalStep
  <2>3. QED
    BY <2>1, <2>2
<1>9. CASE Recorded(r, proc[p].outcome) /\ proc' = [proc EXCEPT ![p] = over]
  <2>1. /\ run' \in Run /\ run'.status = run.status /\ run'.covered = run.covered
        /\ source' \in [Items -> Outcomes \cup {"none"}]
        /\ place' \in [Items -> {"absent", "reference", "reviewed"}]
        /\ Ledger' = Ledger \cup {r} /\ CounterIsLedger' /\ WrittenExist'
    BY <1>2, <1>4, <1>9, RecordedKeeps
  <2>2. \A q \in Items : q < r + 1 => q \in Ledger'
    BY <1>2, <1>3, <2>1 DEF Items
  <2>3. ImportInv'
    BY <1>5, <1>7, <1>9, <2>1, <2>2, Frame
  <2>4. QED
    BY <2>1, <2>3
<1>10. CASE Recorded(r, proc[p].outcome) /\ proc' = [proc EXCEPT ![p] = failed]
  <2>1. /\ run' \in Run /\ run'.status = run.status /\ run'.covered = run.covered
        /\ source' \in [Items -> Outcomes \cup {"none"}]
        /\ place' \in [Items -> {"absent", "reference", "reviewed"}]
        /\ Ledger' = Ledger \cup {r} /\ CounterIsLedger' /\ WrittenExist'
    BY <1>2, <1>4, <1>10, RecordedKeeps
  <2>2. ImportInv'
    BY <1>3, <1>6, <1>7, <1>10, <2>1, Frame
  <2>3. QED
    BY <2>1, <2>2
<1>11. QED
  BY <1>8, <1>9, <1>10 DEF Commit, CommitFails, AfterError, Goto

LEMMA EndKeeps ==
  ASSUME ImportInv, NEW p \in Importers,
         ReadComplete(p) \/ Finish(p) \/ FailRun(p) \/ CallFails(p) \/ Crash(p)
  PROVE  ImportInv' /\ Ledger' = Ledger
<1>1. run \in Run /\ faults \in 0..MaxFaults
  BY DEF ImportInv, TypeOK
<1>2. proc[p] # Idle
  BY DEF ReadComplete, Finish, FailRun, CallFails, Crash, Idle
<1>3. UNCHANGED <<source, place>> /\ faults' \in 0..MaxFaults
  BY <1>1 DEF ReadComplete, Finish, FailRun, CallFails, Crash, durable
<1>4. run' \in Run /\ run'.processed = run.processed
  <2>1. CASE Finish(p)
    <3>1. proc[p].limit \in 0..Records
      BY <1>2, ProcsOf DEF ImportInv, Items
    <3>2. run' = run \/ run' = [run EXCEPT !.status = "succeeded", !.covered = proc[p].limit]
      BY <2>1 DEF Finish
    <3>3. QED
      BY <1>1, <3>1, <3>2 DEF Run
  <2>2. CASE FailRun(p)
    BY <1>1, <2>2 DEF FailRun, Run
  <2>3. CASE ReadComplete(p) \/ CallFails(p) \/ Crash(p)
    BY <1>1, <2>3 DEF ReadComplete, CallFails, Crash, durable
  <2>4. QED
    BY <2>1, <2>2, <2>3
<1>5. CASE Goto(p, "finish") /\ proc[p].pc = "complete"
  <2> DEFINE new == [proc[p] EXCEPT !.pc = "finish"]
  <2>1. proc[p] \in Proc
    BY <1>2, ProcsOf DEF ImportInv
  <2>2. /\ new \in Proc /\ new.pc = "finish"
        /\ new.next = proc[p].next /\ new.limit = proc[p].limit
        /\ proc' = [proc EXCEPT ![p] = new]
    BY <1>5, <2>1 DEF Goto, Proc
  <2>3. /\ \A r \in Items : r < proc[p].next => r \in Ledger
        /\ proc[p].next > proc[p].limit
    BY <1>2, <1>5 DEF ImportInv, NoneLeftBehind
  <2>4. ImportInv'
    BY <1>3, <1>4, <2>2, <2>3, LocalStep
  <2>5. QED
    BY <1>3, <2>4 DEF Ledger
<1>6. CASE Goto(p, "fail") \/ End(p)
  <2>1. ImportInv'
    BY <1>2, <1>3, <1>4, <1>6, MoveStep, EndStep
  <2>2. QED
    BY <1>3, <2>1 DEF Ledger
<1>7. QED
  BY <1>5, <1>6 DEF ReadComplete, Finish, FailRun, CallFails, Crash

\* A review touches no record of the ledger and takes no place away.
LEMMA ReviewKeeps ==
  ASSUME ImportInv, NEW r \in Items, Review(r)
  PROVE  ImportInv' /\ Ledger' = Ledger
<1>1. UNCHANGED <<run, source, proc, faults>> /\ Ledger' = Ledger
  BY DEF Review, Ledger
<1>2. /\ place' \in [Items -> {"absent", "reference", "reviewed"}]
      /\ \A q \in Items : place'[q] = "absent" => place[q] = "absent"
  BY DEF Review, ImportInv, TypeOK
<1>3. QED
  BY <1>1, <1>2 DEF ImportInv, TypeOK, CounterIsLedger, WrittenExist, NoneLeftBehind

\* How an action leaves the ledger, and what it may make of the status.
LEMMA StepLemma ==
  ASSUME ImportInv, [Next]_vars
  PROVE  /\ ImportInv' /\ Ledger \subseteq Ledger'
         /\ \/ run'.status = "succeeded" => run.status = "succeeded" /\ run'.covered = run.covered
            \/ \E p \in Importers : Finish(p)
<1>0. run \in Run
  BY DEF ImportInv, TypeOK
<1>1. CASE UNCHANGED vars
  BY <1>1 DEF vars, ImportInv, TypeOK, CounterIsLedger, WrittenExist, NoneLeftBehind, Ledger
<1>2. ASSUME NEW p \in Importers,
             Begin(p) \/ Queue(p) \/ ReadRun(p) \/ Start(p) \/ CheckStarted(p) \/ BuildIndex(p)
      PROVE  /\ ImportInv' /\ Ledger \subseteq Ledger'
             /\ run'.status = "succeeded" => run.status = "succeeded" /\ run'.covered = run.covered
  <2>1. Ledger' = Ledger
    BY <1>2 DEF Begin, Queue, ReadRun, Start, CheckStarted, BuildIndex, durable, Ledger
  <2>2. run'.status = "succeeded" => run.status = "succeeded" /\ run'.covered = run.covered
    BY <1>0, <1>2 DEF Begin, Queue, ReadRun, Start, CheckStarted, BuildIndex, durable, Run
  <2>3. QED
    BY <1>2, <2>1, <2>2, StartKeeps
<1>3. ASSUME NEW p \in Importers, Look(p)
      PROVE  ImportInv' /\ Ledger' = Ledger /\ run' = run
  BY <1>3, LookKeeps DEF Look, durable, Ledger
<1>4. ASSUME NEW p \in Importers, Commit(p) \/ CommitFails(p)
      PROVE  /\ ImportInv' /\ Ledger \subseteq Ledger'
             /\ run'.status = run.status /\ run'.covered = run.covered
  BY <1>4, RecordKeeps
<1>5. ASSUME NEW p \in Importers,
             ReadComplete(p) \/ FailRun(p) \/ CallFails(p) \/ Crash(p)
      PROVE  /\ ImportInv' /\ Ledger' = Ledger
             /\ run'.status = "succeeded" => run.status = "succeeded" /\ run'.covered = run.covered
  <2>1. run'.status = "succeeded" => run.status = "succeeded" /\ run'.covered = run.covered
    BY <1>0, <1>5 DEF ReadComplete, FailRun, CallFails, Crash, durable, Run
  <2>2. QED
    BY <1>5, <2>1, EndKeeps
<1>6. ASSUME NEW p \in Importers, Finish(p) PROVE ImportInv' /\ Ledger' = Ledger
  BY <1>6, EndKeeps
<1>7. ASSUME NEW r \in Items, Review(r) PROVE ImportInv' /\ Ledger' = Ledger /\ run' = run
  BY <1>7, ReviewKeeps DEF Review
<1>8. QED
  BY <1>1, <1>2, <1>3, <1>4, <1>5, <1>6, <1>7 DEF Next, Step, Fault

(***************************************************************************)
(* The ledger of a run is sound for any number of imports of its file: the *)
(* counter is the number of rows, places that were written exist, and no   *)
(* importer passes over a record.                                          *)
(***************************************************************************)
THEOREM LedgerIsSound == Spec => []ImportInv
<1>1. Init => ImportInv
  BY InitHolds
<1>2. ImportInv /\ [Next]_vars => ImportInv'
  BY StepLemma
<1>3. QED
  BY <1>1, <1>2, PTL DEF Spec

(***************************************************************************)
(* A run that succeeded has every record up to the limit of the import     *)
(* that completed it: an importer at its end has left none behind, and     *)
(* rows are never taken back (Complete).                                   *)
(***************************************************************************)
THEOREM SuccessIsComplete == Spec => []SucceededIsComplete
<1>1. Init => SucceededIsComplete
  BY DEF Init, SucceededIsComplete
<1>2. ImportInv /\ SucceededIsComplete /\ [Next]_vars => SucceededIsComplete'
  <2> SUFFICES ASSUME ImportInv, SucceededIsComplete, [Next]_vars, run'.status = "succeeded",
                      NEW r \in 1..run'.covered
               PROVE  source'[r] # "none"
    BY DEF SucceededIsComplete
  <2>1. Ledger \subseteq Ledger' /\ run \in Run
    BY StepLemma DEF ImportInv, TypeOK
  <2>2. CASE run.status = "succeeded" /\ run'.covered = run.covered
    <3>1. r \in Items /\ source[r] # "none"
      BY <2>1, <2>2 DEF SucceededIsComplete, Items, Run
    <3>2. QED
      BY <2>1, <3>1 DEF Ledger
  <2>3. ASSUME NEW p \in Importers, Finish(p) PROVE source'[r] # "none"
    <3>1. proc[p] # Idle /\ proc[p].pc = "finish"
      BY <2>3 DEF Finish, Idle
    <3>2. CASE run' = run
      <4>1. run.status = "succeeded" /\ run'.covered = run.covered
        BY <3>2
      <4>2. QED
        BY <2>2, <4>1
    <3>3. CASE run' # run
      <4>1. run'.covered = proc[p].limit
        BY <2>1, <2>3, <3>3 DEF Finish, Run
      <4>2. /\ proc[p].limit \in Items /\ proc[p].next \in Nat
            /\ proc[p].next > proc[p].limit
            /\ \A q \in Items : q < proc[p].next => q \in Ledger
        BY <3>1, ProcsOf DEF ImportInv, NoneLeftBehind
      <4>3. r \in Items /\ r < proc[p].next
        BY <4>1, <4>2 DEF Items
      <4>4. QED
        BY <2>1, <4>2, <4>3 DEF Ledger
    <3>4. QED
      BY <3>2, <3>3
  <2>4. QED
    BY <2>2, <2>3, StepLemma
<1>3. QED
  BY <1>1, <1>2, LedgerIsSound, PTL DEF Spec

-----------------------------------------------------------------------------
(***************************************************************************)
(* Fair use.                                                               *)
(***************************************************************************)
USE TimesAssumption, UnitsAssumption, NothingAssumption, BoundsAssumption

-----------------------------------------------------------------------------
(***************************************************************************)
(* Least and largest elements: what the CHOOSEs of the model pick.         *)
(***************************************************************************)
LEMMA LeastNatural ==
  ASSUME NEW T \in SUBSET Nat, T # {} PROVE \E m \in T : \A n \in T : m <= n
<1> DEFINE R == OpToRel(<, Nat)
<1>1. IsWellFoundedOn(R, Nat)
  BY NatLessThanWellFounded
<1>2. \A m, n \in Nat : m < n => <<m, n>> \in R
  BY DEF OpToRel
<1> HIDE DEF R
<1>3. PICK m \in T : \A n \in T : ~ (<<n, m>> \in R)
  BY <1>1, WFMin
<1>4. ASSUME NEW n \in T PROVE m <= n
  <2>1. m \in Nat /\ n \in Nat /\ ~ (n < m)
    BY <1>2, <1>3
  <2>2. QED
    BY <2>1
<1>5. QED
  BY <1>4

\* R is a strict order: whatever has the most below it has nothing above.
LEMMA LargestOf ==
  ASSUME NEW S, IsFiniteSet(S), S # {}, NEW R,
         \A i \in S : <<i, i>> \notin R,
         \A i, j, k \in S : <<i, j>> \in R /\ <<j, k>> \in R => <<i, k>> \in R
  PROVE  \E m \in S : \A k \in S : <<m, k>> \notin R
<1> DEFINE Below(j) == {i \in S : <<i, j>> \in R}
           N == Cardinality(S)
           T == {N - Cardinality(Below(j)) : j \in S}
<1>1. \A j \in S : /\ IsFiniteSet(Below(j)) /\ Cardinality(Below(j)) \in Nat
                   /\ Cardinality(Below(j)) <= N
  <2> SUFFICES ASSUME NEW j \in S
               PROVE  /\ IsFiniteSet(Below(j)) /\ Cardinality(Below(j)) \in Nat
                      /\ Cardinality(Below(j)) <= N
    OBVIOUS
  <2>1. IsFiniteSet(Below(j)) /\ Cardinality(Below(j)) <= N
    BY FS_Subset
  <2>2. QED
    BY <2>1, FS_CardinalityType
<1>2. N \in Nat
  BY FS_CardinalityType
<1>3. T \in SUBSET Nat /\ T # {}
  <2>1. ASSUME NEW j \in S PROVE N - Cardinality(Below(j)) \in Nat
    <3>1. Cardinality(Below(j)) \in Nat /\ Cardinality(Below(j)) <= N
      BY <1>1
    <3> HIDE DEF Below, N
    <3>2. QED
      BY <1>2, <3>1
  <2>2. \A j \in S : N - Cardinality(Below(j)) \in Nat
    BY <2>1
  <2>3. PICK j \in S : TRUE
    OBVIOUS
  <2>4. N - Cardinality(Below(j)) \in T
    <3> HIDE DEF Below, N
    <3>1. QED
      OBVIOUS
  <2> HIDE DEF Below, N
  <2>5. T # {}
    BY <2>4
  <2>6. QED
    BY <2>2, <2>5
<1>4. PICK m \in S : \A j \in S : N - Cardinality(Below(m)) <= N - Cardinality(Below(j))
  <2>1. PICK t \in T : \A u \in T : t <= u
    BY <1>3, LeastNatural
  <2>2. PICK m \in S : t = N - Cardinality(Below(m))
    OBVIOUS
  <2> HIDE DEF Below, N
  <2>3. \A j \in S : N - Cardinality(Below(j)) \in T
    OBVIOUS
  <2> HIDE DEF T
  <2>4. QED
    BY <2>1, <2>2, <2>3
<1>5. ASSUME NEW k \in S, <<m, k>> \in R PROVE FALSE
  <2>1. Below(m) \subseteq Below(k) /\ m \in Below(k) /\ m \notin Below(m)
    BY <1>5
  <2>2. /\ Cardinality(Below(m)) <= Cardinality(Below(k))
        /\ Cardinality(Below(m)) # Cardinality(Below(k))
    BY <1>1, <2>1, FS_Subset
  <2>3. N - Cardinality(Below(m)) <= N - Cardinality(Below(k))
    BY <1>4
  <2> HIDE DEF Below, N
  <2>4. QED
    BY <1>1, <1>2, <2>2, <2>3
<1>6. QED
  BY <1>5

LEMMA LargestNatural ==
  ASSUME NEW S \in SUBSET Nat, IsFiniteSet(S), S # {} PROVE \E m \in S : \A n \in S : m >= n
<1> DEFINE R == {p \in Nat \X Nat : p[1] < p[2]}
<1>1. \A m, n \in Nat : <<m, n>> \in R <=> m < n
  OBVIOUS
<1> HIDE DEF R
<1>2. /\ \A i \in S : <<i, i>> \notin R
      /\ \A i, j, k \in S : <<i, j>> \in R /\ <<j, k>> \in R => <<i, k>> \in R
  BY <1>1
<1>3. PICK m \in S : \A n \in S : <<m, n>> \notin R
  BY <1>2, LargestOf
<1>4. ASSUME NEW n \in S PROVE m >= n
  <2>1. m \in Nat /\ n \in Nat /\ ~ (m < n)
    BY <1>1, <1>3
  <2>2. QED
    BY <2>1
<1>5. QED
  BY <1>4

\* The burst that bounds them all exists.
LEMMA MaxBurstBounds == MaxBurst \in Bursts /\ \A b \in Bursts : b <= MaxBurst
<1>1. Bursts \in SUBSET Nat /\ Bursts # {} /\ IsFiniteSet(Bursts)
  BY DEF UnitsAssumption
<1>2. \E b \in Bursts : \A c \in Bursts : b >= c
  BY <1>1, LargestNatural
<1>3. QED
  BY <1>1, <1>2 DEF MaxBurst

LEMMA DefaultPolicyType == DefaultPolicy \in Policy
<1>1. \E c \in Ceilings : \A d \in Ceilings : c >= d
  BY LargestNatural DEF UnitsAssumption
<1>2. (CHOOSE c \in Ceilings : \A d \in Ceilings : c >= d) \in Ceilings
  BY <1>1
<1>3. DefaultBurst \in Bursts
  BY DEF UnitsAssumption
<1>4. QED
  BY <1>2, <1>3 DEF DefaultPolicy, Policy

-----------------------------------------------------------------------------
(***************************************************************************)
(* The policy and the grant in force.                                      *)
(***************************************************************************)
LEMMA ElementsAreFinite ==
  ASSUME NEW D, NEW s \in Seq(D) PROVE IsFiniteSet(Elements(s)) /\ Elements(s) \subseteq D
<1>1. Len(s) \in Nat /\ DOMAIN s = 1..Len(s) /\ \A i \in 1..Len(s) : s[i] \in D
  OBVIOUS
<1> DEFINE f == [i \in 1..Len(s) |-> s[i]]
<1>2. f \in Surjection(1..Len(s), Elements(s))
  BY <1>1 DEF Surjection, Elements
<1>3. IsFiniteSet(1..Len(s))
  BY <1>1, FS_Interval
<1>4. IsFiniteSet(Elements(s))
  BY <1>2, <1>3, FS_Surjection
<1>5. QED
  BY <1>1, <1>4 DEF Elements

LEMMA PolicyInForceIsLatest ==
  ASSUME FairUseTypeOK, NEW at \in Nat
  PROVE  LET effective == {p \in Elements(policies) : p.from <= at}
         IN  IF effective = {} THEN CurrentPolicy(at) = Nothing
             ELSE /\ CurrentPolicy(at) \in effective /\ CurrentPolicy(at) \in Policy
                  /\ \A q \in effective : Supersedes(CurrentPolicy(at), q)
<1> DEFINE S == {p \in Elements(policies) : p.from <= at}
           R == {x \in Policy \X Policy : ~ Supersedes(x[1], x[2])}
<1>1. IsFiniteSet(Elements(policies)) /\ Elements(policies) \subseteq Policy
  BY ElementsAreFinite DEF FairUseTypeOK
<1>2. S \subseteq Policy /\ IsFiniteSet(S)
  BY <1>1, FS_Subset
<1>3. CASE S = {}
  BY <1>3 DEF CurrentPolicy
<1>4. CASE S # {}
  <2>1. \A p, q \in Policy : <<p, q>> \in R <=> ~ Supersedes(p, q)
    OBVIOUS
  <2>2. \A p \in Policy : p.from \in Nat /\ p.revision \in Nat
    BY DEF Policy
  <2> HIDE DEF R
  <2>3. /\ \A p \in S : <<p, p>> \notin R
        /\ \A p, q, r \in S : <<p, q>> \in R /\ <<q, r>> \in R => <<p, r>> \in R
    BY <1>2, <2>1, <2>2 DEF Supersedes
  <2>4. PICK p \in S : \A q \in S : <<p, q>> \notin R
    BY <1>2, <1>4, <2>3, LargestOf
  <2>5. \A q \in S : Supersedes(p, q)
    BY <1>2, <2>1, <2>4
  <2>6. CurrentPolicy(at) = CHOOSE x \in S : \A q \in S : Supersedes(x, q)
    BY <1>4 DEF CurrentPolicy
  <2>7. CurrentPolicy(at) \in S /\ \A q \in S : Supersedes(CurrentPolicy(at), q)
    BY <2>5, <2>6
  <2>8. QED
    BY <1>2, <1>4, <2>7
<1>5. QED
  BY <1>3, <1>4

LEMMA GrantInForceIsLatest ==
  ASSUME FairUseTypeOK, NEW at \in Nat
  PROVE  LET known == {g \in Elements(grants) : g.created <= at}
         IN  IF known = {} THEN CurrentGrant(at) = Nothing
             ELSE /\ CurrentGrant(at) \in known /\ CurrentGrant(at) \in Grant
                  /\ \A d \in known : Later(CurrentGrant(at), d)
<1> DEFINE S == {g \in Elements(grants) : g.created <= at}
           R == {x \in Grant \X Grant : ~ Later(x[1], x[2])}
<1>1. IsFiniteSet(Elements(grants)) /\ Elements(grants) \subseteq Grant
  BY ElementsAreFinite DEF FairUseTypeOK
<1>2. S \subseteq Grant /\ IsFiniteSet(S)
  BY <1>1, FS_Subset
<1>3. CASE S = {}
  BY <1>3 DEF CurrentGrant
<1>4. CASE S # {}
  <2>1. \A p, q \in Grant : <<p, q>> \in R <=> ~ Later(p, q)
    OBVIOUS
  <2>2. \A p \in Grant : p.created \in Nat /\ p.id \in Nat
    BY DEF Grant
  <2> HIDE DEF R
  <2>3. /\ \A p \in S : <<p, p>> \notin R
        /\ \A p, q, r \in S : <<p, q>> \in R /\ <<q, r>> \in R => <<p, r>> \in R
    BY <1>2, <2>1, <2>2 DEF Later
  <2>4. PICK p \in S : \A q \in S : <<p, q>> \notin R
    BY <1>2, <1>4, <2>3, LargestOf
  <2>5. \A q \in S : Later(p, q)
    BY <1>2, <2>1, <2>4
  <2>6. CurrentGrant(at) = CHOOSE x \in S : \A q \in S : Later(x, q)
    BY <1>4 DEF CurrentGrant
  <2>7. CurrentGrant(at) \in S /\ \A q \in S : Later(CurrentGrant(at), q)
    BY <2>5, <2>6
  <2>8. QED
    BY <1>2, <1>4, <2>7
<1>5. QED
  BY <1>3, <1>4

\* Where a handler may be.
Pcs == {"readPolicy", "storePolicy", "grant", "readGrant", "storeGrant", "decide",
        "charge", "persistPolicy", "persistGrant", "invalidate"}

LEMMA ClockIsTime ==
  ASSUME FairUseTypeOK, NEW r \in Replicas
  PROVE  Clock(r) \in Nat /\ Clock(r) = now + Skew[r] /\ Skew[r] \in Nat /\ now \in Nat
BY DEF FairUseTypeOK, Clock, TimesAssumption

LEMMA TaskAtWork ==
  ASSUME FairUseTypeOK, NEW h \in Handlers
  PROVE  /\ task[h] # AtRest => task[h] \in Task
         /\ task[h].pc # "idle" => task[h] \in Task
         /\ task[h] \in Task => /\ task[h] # AtRest /\ task[h].pc \in Pcs
                                /\ task[h].replica \in Replicas /\ task[h].at \in Nat
                                /\ task[h].cost \in Costs
                                /\ task[h].policy \in Policy \cup {Nothing}
                                /\ task[h].grant \in Grant \cup {Nothing}
                                /\ task[h].failed \in BOOLEAN /\ task[h].stamp \in Nat
                                /\ task[h].began \in Nat
<1>1. task[h] \in {AtRest} \cup Task
  BY DEF FairUseTypeOK
<1>2. AtRest.pc = "idle"
  BY DEF AtRest
<1>3. ASSUME task[h] \in Task
      PROVE  /\ task[h].pc \in Pcs
             /\ task[h].replica \in Replicas /\ task[h].at \in Nat
             /\ task[h].cost \in Costs
             /\ task[h].policy \in Policy \cup {Nothing}
             /\ task[h].grant \in Grant \cup {Nothing}
             /\ task[h].failed \in BOOLEAN /\ task[h].stamp \in Nat
             /\ task[h].began \in Nat
  BY <1>3 DEF Task, Pcs
<1>4. task[h] \in Task => task[h] # AtRest
  BY <1>2, <1>3 DEF Pcs
<1>5. QED
  BY <1>1, <1>2, <1>3, <1>4

LEMMA TaskIsSet ==
  ASSUME FairUseTypeOK, NEW h \in Handlers, NEW t \in {AtRest} \cup Task,
         task' = [task EXCEPT ![h] = t]
  PROVE  /\ task' \in [Handlers -> {AtRest} \cup Task]
         /\ task'[h] = t
         /\ \A k \in Handlers \ {h} : task'[k] = task[k]
BY DEF FairUseTypeOK

\* The steps that are a goto, or set a field too.
LEMMA TaskFields ==
  ASSUME NEW t \in Task
  PROVE  /\ \A pc \in Pcs : [t EXCEPT !.pc = pc] \in Task
         /\ \A p \in Policy : [t EXCEPT !.pc = "storePolicy", !.policy = p] \in Task
         /\ \A pc \in Pcs : [t EXCEPT !.pc = pc, !.failed = TRUE] \in Task
         /\ \A pc \in Pcs, g \in Grant \cup {Nothing} : [t EXCEPT !.pc = pc, !.grant = g] \in Task
         /\ \A n \in Nat : [t EXCEPT !.pc = "charge", !.stamp = n] \in Task
<1>1. \A pc \in Pcs : [t EXCEPT !.pc = pc] \in Task
  BY DEF Task, Pcs
<1>2. \A p \in Policy : [t EXCEPT !.pc = "storePolicy", !.policy = p] \in Task
  BY DEF Task, Pcs
<1>3. \A pc \in Pcs : [t EXCEPT !.pc = pc, !.failed = TRUE] \in Task
  BY DEF Task, Pcs
<1>4. \A pc \in Pcs, g \in Grant \cup {Nothing} : [t EXCEPT !.pc = pc, !.grant = g] \in Task
  BY DEF Task, Pcs
<1>5. \A n \in Nat : [t EXCEPT !.pc = "charge", !.stamp = n] \in Task
  BY DEF Task, Pcs
<1>6. QED
  BY <1>1, <1>2, <1>3, <1>4, <1>5

\* The resolver of a replica.
LEMMA CacheFields ==
  ASSUME FairUseTypeOK, NEW r \in Replicas
  PROVE  /\ cache[r].policy \in Policy
         /\ cache[r].loaded \in Nat \cup {Nothing}
         /\ cache[r].grant # Nothing => /\ cache[r].grant.value \in Grant \cup {Nothing}
                                        /\ cache[r].grant.loaded \in Nat
BY DEF FairUseTypeOK, Cache

-----------------------------------------------------------------------------
\* What was in force CacheTTL before a request began does not supersede p.
PolicyKnown(p, began, at) ==
    \A q \in Elements(policies) :
       (q.appended + CacheTTL <= began /\ q.from + CacheTTL <= at) => Supersedes(p, q)

GrantKnown(g, began, at) ==
    \A d \in Elements(grants) :
       (d.appended + CacheTTL <= began /\ d.created + CacheTTL <= at)
          => g # Nothing /\ Later(g, d)

\* All that is claimed of a handler.
HandlerInv(h) ==
    /\ RequestInv(h)
    /\ LoadInv(h)
    /\ HasPolicy(h) => PolicyKnown(task[h].policy, task[h].began, task[h].at)
    /\ HasGrant(h) => GrantKnown(task[h].grant, task[h].began, task[h].at)

LEMMA FairUseInvParts ==
  FairUseInv <=> /\ BucketInv /\ LevelInv
                 /\ \A r \in Replicas : CacheInv(r)
                 /\ \A h \in Handlers : HandlerInv(h)
BY DEF FairUseInv, AllowanceIsRecent, PolicyIsRecent, GrantIsRecent, HandlerInv,
       PolicyKnown, GrantKnown

\* What any step does to the database and the time.
DataGrows ==
    /\ now' \in Nat /\ now' >= now
    /\ \/ policies' = policies
       \/ \E p \in Policy : p.appended = now /\ policies' = Append(policies, p)
    /\ \/ grants' = grants
       \/ \E g \in Grant : g.appended = now /\ grants' = Append(grants, g)

LEMMA ElementsGrow ==
  ASSUME NEW D, NEW s \in Seq(D), NEW x \in D
  PROVE  Elements(Append(s, x)) = Elements(s) \cup {x}
<1>1. Len(s) \in Nat /\ DOMAIN s = 1..Len(s) /\ Append(s, x) \in Seq(D)
  OBVIOUS
<1>2. /\ DOMAIN Append(s, x) = 1..(Len(s) + 1)
      /\ \A i \in 1..Len(s) : Append(s, x)[i] = s[i]
      /\ Append(s, x)[Len(s) + 1] = x
  OBVIOUS
<1>3. 1..(Len(s) + 1) = 1..Len(s) \cup {Len(s) + 1}
  BY <1>1
<1>4. QED
  BY <1>1, <1>2, <1>3 DEF Elements

LEMMA DataAfter ==
  ASSUME FairUseTypeOK, DataGrows
  PROVE  /\ policies' \in Seq(Policy) /\ grants' \in Seq(Grant)
         /\ \A q \in Elements(policies') : q \in Elements(policies) \/ (q \in Policy /\ q.appended = now)
         /\ \A d \in Elements(grants') : d \in Elements(grants) \/ (d \in Grant /\ d.appended = now)
         /\ Elements(policies) \subseteq Policy /\ Elements(grants) \subseteq Grant
<1>1. policies \in Seq(Policy) /\ grants \in Seq(Grant)
  BY DEF FairUseTypeOK
<1>2. /\ policies' \in Seq(Policy)
      /\ \A q \in Elements(policies') : q \in Elements(policies) \/ (q \in Policy /\ q.appended = now)
  <2>1. CASE policies' = policies
    BY <1>1, <2>1
  <2>2. CASE \E p \in Policy : p.appended = now /\ policies' = Append(policies, p)
    <3>1. PICK p \in Policy : p.appended = now /\ policies' = Append(policies, p)
      BY <2>2
    <3>2. Elements(policies') = Elements(policies) \cup {p}
      BY <1>1, <3>1, ElementsGrow
    <3>3. policies' \in Seq(Policy)
      BY <1>1, <3>1
    <3>4. QED
      BY <3>1, <3>2, <3>3
  <2>3. QED
    BY <2>1, <2>2 DEF DataGrows
<1>3. /\ grants' \in Seq(Grant)
      /\ \A d \in Elements(grants') : d \in Elements(grants) \/ (d \in Grant /\ d.appended = now)
  <2>1. CASE grants' = grants
    BY <1>1, <2>1
  <2>2. CASE \E g \in Grant : g.appended = now /\ grants' = Append(grants, g)
    <3>1. PICK g \in Grant : g.appended = now /\ grants' = Append(grants, g)
      BY <2>2
    <3>2. Elements(grants') = Elements(grants) \cup {g}
      BY <1>1, <3>1, ElementsGrow
    <3>3. grants' \in Seq(Grant)
      BY <1>1, <3>1
    <3>4. QED
      BY <3>1, <3>2, <3>3
  <2>3. QED
    BY <2>1, <2>2 DEF DataGrows
<1>4. Elements(policies) \subseteq Policy /\ Elements(grants) \subseteq Grant
  BY <1>1, ElementsAreFinite
<1>5. QED
  BY <1>2, <1>3, <1>4

\* What comes later does not undo what is covered, or known.
LEMMA CoversGrow ==
  ASSUME FairUseTypeOK, DataGrows, NEW p, NEW began \in Int, NEW at, began <= now
  PROVE  /\ PolicyCovers(p, began, at) => PolicyCovers(p, began, at)'
         /\ GrantCovers(p, began, at) => GrantCovers(p, began, at)'
         /\ PolicyKnown(p, began, at) => PolicyKnown(p, began, at)'
         /\ GrantKnown(p, began, at) => GrantKnown(p, began, at)'
<1>1. now \in Nat /\ CacheTTL \in Nat \ {0}
  BY DEF FairUseTypeOK, TimesAssumption
<1>2. ~ (now < began) /\ ~ (now + CacheTTL <= began)
  BY <1>1
<1>3. /\ \A q \in Elements(policies)' : q \in Elements(policies) \/ q.appended = now
      /\ \A d \in Elements(grants)' : d \in Elements(grants) \/ d.appended = now
  BY DataAfter DEF Elements
<1>4. PolicyCovers(p, began, at) => PolicyCovers(p, began, at)'
  BY <1>2, <1>3 DEF PolicyCovers, Supersedes
<1>5. GrantCovers(p, began, at) => GrantCovers(p, began, at)'
  BY <1>2, <1>3 DEF GrantCovers, Later
<1>6. PolicyKnown(p, began, at) => PolicyKnown(p, began, at)'
  BY <1>2, <1>3 DEF PolicyKnown, Supersedes
<1>7. GrantKnown(p, began, at) => GrantKnown(p, began, at)'
  BY <1>2, <1>3 DEF GrantKnown, Later
<1>8. QED
  BY <1>4, <1>5, <1>6, <1>7

LEMMA HandlerKept ==
  ASSUME FairUseTypeOK, DataGrows, NEW h \in Handlers, HandlerInv(h), task'[h] = task[h]
  PROVE  HandlerInv(h)'
<1>1. CASE task[h] = AtRest
  BY <1>1 DEF HandlerInv, RequestInv, LoadInv, HasPolicy, HasGrant, AtRest
<1>2. CASE task[h] # AtRest
  <2>1. task[h].began \in Int /\ task[h].began <= now /\ now' >= now /\ now' \in Nat /\ now \in Nat
    BY <1>2, TaskAtWork DEF HandlerInv, RequestInv, DataGrows, FairUseTypeOK
  <2>2. task[h].began <= now'
    BY <2>1
  <2>3. RequestInv(h)'
    BY <1>2, <2>2 DEF HandlerInv, RequestInv
  <2>4. LoadInv(h)'
    BY <1>2, <2>1, CoversGrow DEF HandlerInv, LoadInv
  <2>5. HasPolicy(h)' => PolicyKnown(task[h].policy, task[h].began, task[h].at)'
    BY <1>2, <2>1, CoversGrow DEF HandlerInv, HasPolicy
  <2>6. HasGrant(h)' => GrantKnown(task[h].grant, task[h].began, task[h].at)'
    BY <1>2, <2>1, CoversGrow DEF HandlerInv, HasGrant
  <2>7. QED
    BY <2>3, <2>4, <2>5, <2>6 DEF HandlerInv
<1>3. QED
  BY <1>1, <1>2

LEMMA CacheKept ==
  ASSUME FairUseTypeOK, DataGrows, NEW r \in Replicas, CacheInv(r), cache'[r] = cache[r]
  PROVE  CacheInv(r)'
<1>1. now' \in Nat /\ now' >= now /\ now \in Nat /\ Skew[r] \in Nat
  BY DEF DataGrows, FairUseTypeOK, TimesAssumption
<1>2. ASSUME cache[r].loaded # Nothing
      PROVE  /\ cache[r].loaded <= now' + Skew[r]
             /\ PolicyCovers(cache[r].policy, cache[r].loaded - Skew[r], cache[r].loaded)'
  <2>1. cache[r].loaded \in Nat
    BY <1>2, CacheFields
  <2>2. cache[r].loaded - Skew[r] \in Int /\ cache[r].loaded - Skew[r] <= now
        /\ cache[r].loaded <= now' + Skew[r]
    BY <1>1, <1>2, <2>1 DEF CacheInv
  <2>3. PolicyCovers(cache[r].policy, cache[r].loaded - Skew[r], cache[r].loaded)
    BY <1>2 DEF CacheInv
  <2>4. QED
    BY <2>2, <2>3, CoversGrow
<1>3. ASSUME cache[r].grant # Nothing
      PROVE  /\ cache[r].grant.loaded <= now' + Skew[r]
             /\ GrantCovers(cache[r].grant.value, cache[r].grant.loaded - Skew[r],
                            cache[r].grant.loaded)'
  <2>1. cache[r].grant.loaded \in Nat
    BY <1>3, CacheFields
  <2>2. cache[r].grant.loaded - Skew[r] \in Int /\ cache[r].grant.loaded - Skew[r] <= now
        /\ cache[r].grant.loaded <= now' + Skew[r]
    BY <1>1, <1>3, <2>1 DEF CacheInv
  <2>3. GrantCovers(cache[r].grant.value, cache[r].grant.loaded - Skew[r], cache[r].grant.loaded)
    BY <1>3 DEF CacheInv
  <2>4. QED
    BY <2>2, <2>3, CoversGrow
<1>4. QED
  BY <1>2, <1>3 DEF CacheInv

LEMMA PartsAfter ==
  ASSUME BucketInv', LevelInv', \A r \in Replicas : CacheInv(r)', \A h \in Handlers : HandlerInv(h)'
  PROVE  FairUseInv'
BY DEF FairUseInv, AllowanceIsRecent, PolicyIsRecent, GrantIsRecent, HandlerInv,
       PolicyKnown, GrantKnown

LEMMA RestingHandler ==
  ASSUME NEW h \in Handlers, task'[h] = AtRest PROVE HandlerInv(h)'
BY DEF HandlerInv, RequestInv, LoadInv, HasPolicy, HasGrant, AtRest

LEMMA HandlersAfter ==
  ASSUME FairUseInv, DataGrows, NEW h \in Handlers, NEW t \in {AtRest} \cup Task,
         task' = [task EXCEPT ![h] = t], HandlerInv(h)'
  PROVE  task' \in [Handlers -> {AtRest} \cup Task] /\ \A k \in Handlers : HandlerInv(k)'
<1>1. FairUseTypeOK /\ \A k \in Handlers : HandlerInv(k)
  BY FairUseInvParts DEF BucketInv
<1>2. /\ task' \in [Handlers -> {AtRest} \cup Task]
      /\ \A k \in Handlers \ {h} : task'[k] = task[k]
  BY <1>1, TaskIsSet
<1>3. \A k \in Handlers \ {h} : HandlerInv(k)'
  BY <1>1, <1>2, HandlerKept
<1>4. QED
  BY <1>2, <1>3

LEMMA LevelKept ==
  ASSUME FairUseInv, UNCHANGED <<bucket, history>> PROVE LevelInv' /\ BucketHoldsRate'
<1>1. LevelInv /\ BucketHoldsRate
  BY DEF FairUseInv, BucketInv
<1>2. UNCHANGED <<bucket, excess, last, inOrder>>
  BY DEF history
<1>3. QED
  BY <1>1, <1>2 DEF LevelInv, BucketHoldsRate

\* A step that changes nothing but what a handler does.
LEMMA OnlyTask ==
  ASSUME FairUseInv, NEW h \in Handlers, NEW t \in {AtRest} \cup Task,
         task' = [task EXCEPT ![h] = t], HandlerInv(h)', sent' \in Nat,
         UNCHANGED <<now, policies, grants, cache, bucket, history>>
  PROVE  FairUseInv'
<1>1. FairUseTypeOK
  BY DEF FairUseInv, BucketInv
<1>2. DataGrows
  BY <1>1 DEF DataGrows, FairUseTypeOK
<1>3. task' \in [Handlers -> {AtRest} \cup Task] /\ \A k \in Handlers : HandlerInv(k)'
  BY <1>2, HandlersAfter
<1>4. FairUseTypeOK'
  BY <1>1, <1>3 DEF FairUseTypeOK, history
<1>5. \A r \in Replicas : CacheInv(r)'
  BY <1>1, <1>2, FairUseInvParts, CacheKept
<1>6. BucketInv' /\ LevelInv'
  BY <1>4, LevelKept DEF BucketInv
<1>7. QED
  BY <1>3, <1>5, <1>6, PartsAfter

LEMMA ReturnKeeps ==
  ASSUME FairUseInv, NEW h \in Handlers, Return(h),
         UNCHANGED <<now, policies, grants, cache, bucket, sent, history>>
  PROVE  FairUseInv'
<1>1. FairUseTypeOK
  BY DEF FairUseInv, BucketInv
<1>2. task' = [task EXCEPT ![h] = AtRest] /\ sent' \in Nat
  BY <1>1 DEF Return, FairUseTypeOK
<1>3. task'[h] = AtRest
  BY <1>1, <1>2, TaskIsSet
<1>4. HandlerInv(h)'
  BY <1>3, RestingHandler
<1>5. QED
  BY <1>2, <1>4, OnlyTask

-----------------------------------------------------------------------------
\* What is cached and fresh covers what was in force CacheTTL before.
LEMMA FreshPolicyIsKnown ==
  ASSUME FairUseInv, NEW r \in Replicas, NEW at \in Nat, Fresh(cache[r].loaded, at)
  PROVE  PolicyKnown(cache[r].policy, at - Skew[r], at)
<1>1. FairUseTypeOK /\ CacheInv(r)
  BY FairUseInvParts DEF BucketInv
<1>2. /\ cache[r].loaded \in Nat /\ Skew[r] \in Nat /\ CacheTTL \in Nat
      /\ at - cache[r].loaded < CacheTTL
      /\ PolicyCovers(cache[r].policy, cache[r].loaded - Skew[r], cache[r].loaded)
  BY <1>1, CacheFields DEF Fresh, CacheInv, TimesAssumption
<1>3. Elements(policies) \subseteq Policy
  BY <1>1, ElementsAreFinite DEF FairUseTypeOK
<1>4. ASSUME NEW q \in Elements(policies), q.appended + CacheTTL <= at - Skew[r],
             q.from + CacheTTL <= at
      PROVE  Supersedes(cache[r].policy, q)
  <2>1. q.appended \in Nat /\ q.from \in Nat
    BY <1>3 DEF Policy
  <2>2. q.appended < cache[r].loaded - Skew[r] /\ q.from <= cache[r].loaded
    BY <1>2, <1>4, <2>1
  <2>3. QED
    BY <1>2, <2>2 DEF PolicyCovers
<1>5. QED
  BY <1>4 DEF PolicyKnown

LEMMA FreshGrantIsKnown ==
  ASSUME FairUseInv, NEW r \in Replicas, NEW at \in Nat, GrantFresh(cache[r].grant, at)
  PROVE  GrantKnown(cache[r].grant.value, at - Skew[r], at)
<1>1. FairUseTypeOK /\ CacheInv(r)
  BY FairUseInvParts DEF BucketInv
<1>2. /\ cache[r].grant.loaded \in Nat /\ Skew[r] \in Nat /\ CacheTTL \in Nat
      /\ at - cache[r].grant.loaded < CacheTTL
      /\ GrantCovers(cache[r].grant.value, cache[r].grant.loaded - Skew[r], cache[r].grant.loaded)
  BY <1>1, CacheFields DEF Fresh, GrantFresh, CacheInv, TimesAssumption
<1>3. Elements(grants) \subseteq Grant
  BY <1>1, ElementsAreFinite DEF FairUseTypeOK
<1>4. ASSUME NEW d \in Elements(grants), d.appended + CacheTTL <= at - Skew[r],
             d.created + CacheTTL <= at
      PROVE  cache[r].grant.value # Nothing /\ Later(cache[r].grant.value, d)
  <2>1. d.appended \in Nat /\ d.created \in Nat
    BY <1>3 DEF Grant
  <2>2. d.appended < cache[r].grant.loaded - Skew[r] /\ d.created <= cache[r].grant.loaded
    BY <1>2, <1>4, <2>1
  <2>3. QED
    BY <1>2, <2>2 DEF GrantCovers
<1>5. QED
  BY <1>4 DEF GrantKnown

\* A load covers what is in force when it reads.
LEMMA ReadPolicyCovers ==
  ASSUME FairUseTypeOK, NEW at \in Nat, NEW began \in Nat
  PROVE  /\ CurrentPolicy(at) # Nothing => /\ CurrentPolicy(at) \in Policy
                                           /\ PolicyCovers(CurrentPolicy(at), began, at)
         /\ CurrentPolicy(at) = Nothing => \A p : PolicyKnown(p, began, at)
<1> DEFINE S == {p \in Elements(policies) : p.from <= at}
<1>1. IF S = {} THEN CurrentPolicy(at) = Nothing
      ELSE /\ CurrentPolicy(at) \in S /\ CurrentPolicy(at) \in Policy
           /\ \A q \in S : Supersedes(CurrentPolicy(at), q)
  BY PolicyInForceIsLatest
<1>2. Elements(policies) \subseteq Policy
  BY ElementsAreFinite DEF FairUseTypeOK
<1>3. ASSUME CurrentPolicy(at) # Nothing
      PROVE  CurrentPolicy(at) \in Policy /\ PolicyCovers(CurrentPolicy(at), began, at)
  BY <1>1, <1>3 DEF PolicyCovers
<1>4. ASSUME CurrentPolicy(at) = Nothing, NEW p PROVE PolicyKnown(p, began, at)
  <2>1. S = {}
    BY <1>1, <1>4, NothingAssumption DEF NothingAssumption
  <2>2. ASSUME NEW q \in Elements(policies), q.from + CacheTTL <= at PROVE FALSE
    <3>1. q.from \in Nat /\ CacheTTL \in Nat
      BY <1>2 DEF Policy, TimesAssumption
    <3>2. q.from <= at
      BY <2>2, <3>1
    <3>3. QED
      BY <2>1, <3>2
  <2>3. QED
    BY <2>2 DEF PolicyKnown
<1>5. QED
  BY <1>3, <1>4

LEMMA ReadGrantCovers ==
  ASSUME FairUseTypeOK, NEW at \in Nat, NEW began \in Nat
  PROVE  /\ CurrentGrant(at) \in Grant \cup {Nothing}
         /\ GrantCovers(CurrentGrant(at), began, at)
<1> DEFINE S == {g \in Elements(grants) : g.created <= at}
<1>1. IF S = {} THEN CurrentGrant(at) = Nothing
      ELSE /\ CurrentGrant(at) \in S /\ CurrentGrant(at) \in Grant
           /\ \A d \in S : Later(CurrentGrant(at), d)
  BY GrantInForceIsLatest
<1>2. CurrentGrant(at) \in Grant \cup {Nothing}
  BY <1>1
<1>3. ASSUME NEW d \in Elements(grants), d.created <= at
      PROVE  CurrentGrant(at) # Nothing /\ Later(CurrentGrant(at), d)
  BY <1>1, <1>3, NothingAssumption DEF NothingAssumption
<1>4. QED
  BY <1>2, <1>3 DEF GrantCovers

\* What is covered at the time of a load is known.
LEMMA CoveredIsKnown ==
  ASSUME FairUseTypeOK, NEW p, NEW began \in Nat, NEW at \in Nat
  PROVE  /\ PolicyCovers(p, began, at) => PolicyKnown(p, began, at)
         /\ GrantCovers(p, began, at) => GrantKnown(p, began, at)
<1>1. Elements(policies) \subseteq Policy /\ Elements(grants) \subseteq Grant
  BY ElementsAreFinite DEF FairUseTypeOK
<1>2. CacheTTL \in Nat \ {0}
  BY DEF TimesAssumption
<1>3. ASSUME NEW q \in Elements(policies), q.appended + CacheTTL <= began, q.from + CacheTTL <= at
      PROVE  q.appended < began /\ q.from <= at
  <2>1. q.appended \in Nat /\ q.from \in Nat
    BY <1>1 DEF Policy
  <2>2. QED
    BY <1>2, <1>3, <2>1
<1>4. ASSUME NEW d \in Elements(grants), d.appended + CacheTTL <= began, d.created + CacheTTL <= at
      PROVE  d.appended < began /\ d.created <= at
  <2>1. d.appended \in Nat /\ d.created \in Nat
    BY <1>1 DEF Grant
  <2>2. QED
    BY <1>2, <1>4, <2>1
<1>5. QED
  BY <1>3, <1>4 DEF PolicyCovers, PolicyKnown, GrantCovers, GrantKnown

LEMMA ArriveKeeps ==
  ASSUME FairUseInv, NEW h \in Handlers, NEW r \in Replicas, NEW cost \in Costs, Arrive(h, r, cost)
  PROVE  FairUseInv'
<1> DEFINE t == [pc |-> IF Fresh(cache[r].loaded, Clock(r)) THEN "grant" ELSE "readPolicy",
                 replica |-> r, at |-> Clock(r), cost |-> cost, policy |-> cache[r].policy,
                 grant |-> Nothing, failed |-> FALSE, stamp |-> 0, began |-> now]
<1>1. FairUseTypeOK
  BY DEF FairUseInv, BucketInv
<1>2. /\ Clock(r) \in Nat /\ Clock(r) = now + Skew[r] /\ now \in Nat /\ Skew[r] \in Nat
      /\ cache[r].policy \in Policy
  BY <1>1, ClockIsTime, CacheFields
<1>3. t \in Task
  BY <1>2 DEF Task
<1>4. task' = [task EXCEPT ![h] = t] /\ sent' \in Nat
      /\ UNCHANGED <<now, policies, grants, cache, bucket, history>>
  BY <1>1 DEF Arrive, FairUseTypeOK
<1>5. task'[h] = t
  BY <1>1, <1>3, <1>4, TaskIsSet
<1>6. RequestInv(h)' /\ LoadInv(h)' /\ ~ HasGrant(h)'
  BY <1>2, <1>4, <1>5 DEF RequestInv, LoadInv, HasGrant
<1>7. HasPolicy(h)' => PolicyKnown(task[h].policy, task[h].began, task[h].at)'
  <2>1. HasPolicy(h)' => Fresh(cache[r].loaded, Clock(r))
    BY <1>5 DEF HasPolicy
  <2>2. now = Clock(r) - Skew[r]
    BY <1>2
  <2>3. Fresh(cache[r].loaded, Clock(r)) => PolicyKnown(cache[r].policy, now, Clock(r))
    BY <1>2, <2>2, FreshPolicyIsKnown
  <2>4. task'[h].policy = cache[r].policy /\ task'[h].began = now /\ task'[h].at = Clock(r)
    BY <1>5
  <2>5. QED
    BY <1>4, <2>1, <2>3, <2>4 DEF PolicyKnown
<1>8. HandlerInv(h)'
  BY <1>6, <1>7 DEF HandlerInv
<1>9. QED
  BY <1>3, <1>4, <1>8, OnlyTask

LEMMA ReadPolicyKeeps ==
  ASSUME FairUseInv, NEW h \in Handlers, ReadPolicy(h) PROVE FairUseInv'
<1>1. FairUseTypeOK /\ HandlerInv(h)
  BY FairUseInvParts DEF BucketInv
<1>2. /\ task[h].pc = "readPolicy" /\ task[h] \in Task /\ task[h].at \in Nat /\ task[h].began \in Nat
      /\ task[h] # AtRest
      /\ UNCHANGED <<now, policies, grants, cache, bucket, history>> /\ sent' \in Nat
  BY <1>1, TaskAtWork DEF ReadPolicy, FairUseTypeOK
<1>3. RequestInv(h)
  BY <1>1 DEF HandlerInv
<1> DEFINE fresh == CurrentPolicy(task[h].at)
<1>4. /\ fresh # Nothing => /\ fresh \in Policy
                            /\ PolicyCovers(fresh, task[h].began, task[h].at)
      /\ fresh = Nothing => PolicyKnown(task[h].policy, task[h].began, task[h].at)
  BY <1>1, <1>2, ReadPolicyCovers
<1> HIDE DEF fresh
<1>5. CASE /\ fresh # Nothing
           /\ task' = [task EXCEPT ![h].pc = "storePolicy", ![h].policy = fresh]
  <2> DEFINE t == [task[h] EXCEPT !.pc = "storePolicy", !.policy = fresh]
  <2>1. t \in Task
    BY <1>2, <1>4, <1>5, TaskFields
  <2>2. task' = [task EXCEPT ![h] = t]
    BY <1>1, <1>5 DEF FairUseTypeOK
  <2>3. task'[h] = t
    BY <1>1, <2>1, <2>2, TaskIsSet
  <2>4. /\ t.pc = "storePolicy" /\ t.policy = fresh /\ t.began = task[h].began /\ t.at = task[h].at
        /\ t.replica = task[h].replica
    BY <1>2 DEF Task
  <2> HIDE DEF t
  <2>5. RequestInv(h)' /\ ~ HasPolicy(h)' /\ ~ HasGrant(h)'
    BY <1>2, <1>3, <1>4, <1>5, <2>3, <2>4 DEF RequestInv, HasPolicy, HasGrant
  <2>6. LoadInv(h)'
    BY <1>2, <1>4, <1>5, <2>3, <2>4 DEF LoadInv, PolicyCovers
  <2>7. HandlerInv(h)'
    BY <2>5, <2>6 DEF HandlerInv
  <2>8. QED
    BY <1>2, <2>1, <2>2, <2>7, OnlyTask
<1>6. CASE fresh = Nothing /\ Proceed(h, "grant")
  <2> DEFINE t == [task[h] EXCEPT !.pc = "grant"]
  <2>1. t \in Task
    BY <1>2, TaskFields DEF Pcs
  <2>2. task' = [task EXCEPT ![h] = t]
    BY <1>1, <1>6 DEF FairUseTypeOK, Proceed
  <2>3. task'[h] = t
    BY <1>1, <2>1, <2>2, TaskIsSet
  <2>4. /\ t.pc = "grant" /\ t.policy = task[h].policy /\ t.began = task[h].began
        /\ t.at = task[h].at /\ t.replica = task[h].replica
    BY <1>2 DEF Task
  <2> HIDE DEF t
  <2>5. RequestInv(h)' /\ LoadInv(h)' /\ ~ HasGrant(h)'
    BY <1>2, <1>3, <2>3, <2>4 DEF RequestInv, LoadInv, HasGrant
  <2>6. PolicyKnown(task[h].policy, task[h].began, task[h].at)'
    BY <1>2, <1>4, <1>6, <2>3, <2>4 DEF PolicyKnown
  <2>7. HandlerInv(h)'
    BY <2>5, <2>6 DEF HandlerInv
  <2>8. QED
    BY <1>2, <2>1, <2>2, <2>7, OnlyTask
<1>7. CASE task' = [task EXCEPT ![h].pc = "grant", ![h].failed = TRUE]
  <2> DEFINE t == [task[h] EXCEPT !.pc = "grant", !.failed = TRUE]
  <2>1. t \in Task
    BY <1>2, TaskFields DEF Pcs
  <2>2. task' = [task EXCEPT ![h] = t]
    BY <1>1, <1>7 DEF FairUseTypeOK
  <2>3. task'[h] = t
    BY <1>1, <2>1, <2>2, TaskIsSet
  <2>4. /\ t.pc = "grant" /\ t.policy = task[h].policy /\ t.began = task[h].began
        /\ t.at = task[h].at /\ t.replica = task[h].replica /\ t.failed = TRUE
    BY <1>2 DEF Task
  <2> HIDE DEF t
  <2>5. RequestInv(h)' /\ LoadInv(h)' /\ ~ HasGrant(h)' /\ ~ HasPolicy(h)'
    BY <1>2, <1>3, <2>3, <2>4 DEF RequestInv, LoadInv, HasGrant, HasPolicy
  <2>6. HandlerInv(h)'
    BY <2>5 DEF HandlerInv
  <2>7. QED
    BY <1>2, <2>1, <2>2, <2>6, OnlyTask
<1>8. QED
  BY <1>5, <1>6, <1>7 DEF ReadPolicy, fresh

LEMMA CheckGrantKeeps ==
  ASSUME FairUseInv, NEW h \in Handlers, CheckGrant(h) PROVE FairUseInv'
<1> DEFINE cached == cache[task[h].replica].grant
           goes == IF GrantFresh(cached, task[h].at) THEN "decide" ELSE "readGrant"
           value == IF cached = Nothing THEN Nothing ELSE cached.value
           t == [task[h] EXCEPT !.pc = goes, !.grant = value]
<1>1. FairUseTypeOK /\ HandlerInv(h)
  BY FairUseInvParts DEF BucketInv
<1>2. /\ task[h].pc = "grant" /\ task[h] \in Task /\ task[h].at \in Nat /\ task[h].began \in Nat
      /\ task[h] # AtRest /\ task[h].replica \in Replicas
      /\ UNCHANGED <<now, policies, grants, cache, bucket, history>> /\ sent' \in Nat
  BY <1>1, TaskAtWork DEF CheckGrant, FairUseTypeOK
<1>3. RequestInv(h) /\ (HasPolicy(h) => PolicyKnown(task[h].policy, task[h].began, task[h].at))
  BY <1>1 DEF HandlerInv
<1>4. value \in Grant \cup {Nothing} /\ goes \in Pcs
  BY <1>1, <1>2, CacheFields DEF Pcs
<1>5. ASSUME goes = "decide" PROVE GrantKnown(value, task[h].began, task[h].at)
  <2>1. GrantFresh(cached, task[h].at) /\ cached # Nothing
    BY <1>5 DEF GrantFresh
  <2>2. GrantKnown(cached.value, task[h].at - Skew[task[h].replica], task[h].at)
    BY <1>2, <2>1, FreshGrantIsKnown
  <2>3. task[h].at = task[h].began + Skew[task[h].replica] /\ Skew[task[h].replica] \in Nat
    BY <1>2, <1>3 DEF RequestInv, TimesAssumption
  <2>4. task[h].at - Skew[task[h].replica] = task[h].began
    BY <1>2, <2>3
  <2>5. QED
    BY <2>1, <2>2, <2>4
<1>6. goes \in {"decide", "readGrant"}
  OBVIOUS
<1>7. task' = [task EXCEPT ![h].pc = goes, ![h].grant = value]
  BY DEF CheckGrant
<1> HIDE DEF goes, value
<1>8. t \in Task
  BY <1>2, <1>4, TaskFields
<1>9. task' = [task EXCEPT ![h] = t]
  BY <1>1, <1>7 DEF FairUseTypeOK
<1>10. task'[h] = t
  BY <1>1, <1>8, <1>9, TaskIsSet
<1>11. /\ t.pc = goes /\ t.policy = task[h].policy /\ t.began = task[h].began
       /\ t.at = task[h].at /\ t.replica = task[h].replica /\ t.grant = value
       /\ t.failed = task[h].failed
  BY <1>2 DEF Task
<1> HIDE DEF t
<1>12. RequestInv(h)' /\ LoadInv(h)'
  BY <1>2, <1>3, <1>6, <1>10, <1>11 DEF RequestInv, LoadInv
<1>13. HasPolicy(h)' => PolicyKnown(task[h].policy, task[h].began, task[h].at)'
  BY <1>2, <1>3, <1>10, <1>11 DEF HasPolicy, PolicyKnown
<1>14. HasGrant(h)' => GrantKnown(task[h].grant, task[h].began, task[h].at)'
  BY <1>2, <1>5, <1>6, <1>10, <1>11 DEF HasGrant, GrantKnown
<1>15. HandlerInv(h)'
  BY <1>12, <1>13, <1>14 DEF HandlerInv
<1>16. QED
  BY <1>2, <1>8, <1>9, <1>15, OnlyTask

LEMMA ReadGrantKeeps ==
  ASSUME FairUseInv, NEW h \in Handlers, ReadGrant(h) PROVE FairUseInv'
<1>1. FairUseTypeOK /\ HandlerInv(h)
  BY FairUseInvParts DEF BucketInv
<1>2. /\ task[h].pc = "readGrant" /\ task[h] \in Task /\ task[h].at \in Nat /\ task[h].began \in Nat
      /\ task[h] # AtRest
      /\ UNCHANGED <<now, policies, grants, cache, bucket, history>> /\ sent' \in Nat
  BY <1>1, TaskAtWork DEF ReadGrant, FairUseTypeOK
<1>3. RequestInv(h) /\ (HasPolicy(h) => PolicyKnown(task[h].policy, task[h].began, task[h].at))
  BY <1>1 DEF HandlerInv
<1> DEFINE fresh == CurrentGrant(task[h].at)
<1>4. fresh \in Grant \cup {Nothing} /\ GrantCovers(fresh, task[h].began, task[h].at)
  BY <1>1, <1>2, ReadGrantCovers
<1>5. \/ task' = [task EXCEPT ![h].pc = "storeGrant", ![h].grant = fresh]
      \/ task' = [task EXCEPT ![h].pc = "decide", ![h].failed = TRUE]
  BY DEF ReadGrant
<1> HIDE DEF fresh
<1>6. CASE task' = [task EXCEPT ![h].pc = "storeGrant", ![h].grant = fresh]
  <2> DEFINE t == [task[h] EXCEPT !.pc = "storeGrant", !.grant = fresh]
  <2>1. t \in Task
    BY <1>2, <1>4, TaskFields DEF Pcs
  <2>2. task' = [task EXCEPT ![h] = t]
    BY <1>1, <1>6 DEF FairUseTypeOK
  <2>3. task'[h] = t
    BY <1>1, <2>1, <2>2, TaskIsSet
  <2>4. /\ t.pc = "storeGrant" /\ t.policy = task[h].policy /\ t.began = task[h].began
        /\ t.at = task[h].at /\ t.replica = task[h].replica /\ t.grant = fresh
        /\ t.failed = task[h].failed
    BY <1>2 DEF Task
  <2> HIDE DEF t
  <2>5. RequestInv(h)' /\ ~ HasGrant(h)'
    BY <1>2, <1>3, <2>3, <2>4 DEF RequestInv, HasGrant
  <2>6. LoadInv(h)'
    BY <1>2, <1>4, <2>3, <2>4 DEF LoadInv, GrantCovers
  <2>7. HasPolicy(h)' => PolicyKnown(task[h].policy, task[h].began, task[h].at)'
    BY <1>2, <1>3, <2>3, <2>4 DEF HasPolicy, PolicyKnown
  <2>8. HandlerInv(h)'
    BY <2>5, <2>6, <2>7 DEF HandlerInv
  <2>9. QED
    BY <1>2, <2>1, <2>2, <2>8, OnlyTask
<1>7. CASE task' = [task EXCEPT ![h].pc = "decide", ![h].failed = TRUE]
  <2> DEFINE t == [task[h] EXCEPT !.pc = "decide", !.failed = TRUE]
  <2>1. t \in Task
    BY <1>2, TaskFields DEF Pcs
  <2>2. task' = [task EXCEPT ![h] = t]
    BY <1>1, <1>7 DEF FairUseTypeOK
  <2>3. task'[h] = t
    BY <1>1, <2>1, <2>2, TaskIsSet
  <2>4. /\ t.pc = "decide" /\ t.policy = task[h].policy /\ t.began = task[h].began
        /\ t.at = task[h].at /\ t.replica = task[h].replica /\ t.failed = TRUE
    BY <1>2 DEF Task
  <2> HIDE DEF t
  <2>5. RequestInv(h)' /\ LoadInv(h)' /\ ~ HasGrant(h)' /\ ~ HasPolicy(h)'
    BY <1>2, <1>3, <2>3, <2>4 DEF RequestInv, LoadInv, HasGrant, HasPolicy
  <2>6. HandlerInv(h)'
    BY <2>5 DEF HandlerInv
  <2>7. QED
    BY <1>2, <2>1, <2>2, <2>6, OnlyTask
<1>8. QED
  BY <1>5, <1>6, <1>7

LEMMA DecideKeeps ==
  ASSUME FairUseInv, NEW h \in Handlers, Decide(h) PROVE FairUseInv'
<1>1. FairUseTypeOK /\ HandlerInv(h)
  BY FairUseInvParts DEF BucketInv
<1>2. /\ task[h].pc = "decide" /\ task[h] \in Task /\ task[h].at \in Nat /\ task[h].began \in Nat
      /\ task[h] # AtRest /\ task[h].replica \in Replicas
      /\ UNCHANGED <<now, policies, grants, cache, bucket, sent, history>> /\ sent' \in Nat
  BY <1>1, TaskAtWork DEF Decide, FairUseTypeOK
<1>3. /\ RequestInv(h)
      /\ HasPolicy(h) => PolicyKnown(task[h].policy, task[h].began, task[h].at)
      /\ HasGrant(h) => GrantKnown(task[h].grant, task[h].began, task[h].at)
  BY <1>1 DEF HandlerInv
<1>4. CASE Return(h)
  BY <1>2, <1>4, ReturnKeeps
<1>5. CASE task' = [task EXCEPT ![h].pc = "charge", ![h].stamp = Clock(task[h].replica)]
  <2> DEFINE n == Clock(task[h].replica)
             t == [task[h] EXCEPT !.pc = "charge", !.stamp = n]
  <2>1. n \in Nat
    BY <1>1, <1>2, ClockIsTime
  <2>2. task' = [task EXCEPT ![h] = t]
    BY <1>1, <1>5 DEF FairUseTypeOK
  <2> HIDE DEF n
  <2>3. t \in Task
    BY <1>2, <2>1, TaskFields
  <2>4. task'[h] = t
    BY <1>1, <2>3, <2>2, TaskIsSet
  <2>5. /\ t.pc = "charge" /\ t.policy = task[h].policy /\ t.began = task[h].began
        /\ t.at = task[h].at /\ t.replica = task[h].replica /\ t.grant = task[h].grant
        /\ t.failed = task[h].failed
    BY <1>2 DEF Task
  <2> HIDE DEF t
  <2>6. RequestInv(h)' /\ LoadInv(h)'
    BY <1>2, <1>3, <2>4, <2>5 DEF RequestInv, LoadInv
  <2>7. HasPolicy(h)' => PolicyKnown(task[h].policy, task[h].began, task[h].at)'
    BY <1>2, <1>3, <2>4, <2>5 DEF HasPolicy, PolicyKnown
  <2>8. HasGrant(h)' => GrantKnown(task[h].grant, task[h].began, task[h].at)'
    BY <1>2, <1>3, <2>4, <2>5 DEF HasGrant, GrantKnown
  <2>9. HandlerInv(h)'
    BY <2>6, <2>7, <2>8 DEF HandlerInv
  <2>10. QED
    BY <1>2, <2>2, <2>3, <2>9, OnlyTask
<1>6. QED
  BY <1>4, <1>5 DEF Decide

LEMMA ProposeKeeps ==
  ASSUME FairUseInv, NEW h \in Handlers, NEW r \in Replicas,
         \/ \E p \in [revision : 2..(MaxPolicies + 1), from : 1..MaxTime, burst : Bursts,
                      ceiling : Ceilings, appended : {0}] : ProposePolicy(h, r, p)
         \/ \E g \in [id : 1..MaxGrants, burst : Bursts, ceiling : Ceilings,
                      enabled : BOOLEAN, created : {Clock(r)},
                      expires : 1..(MaxTime + 1), appended : {0}] : ProposeGrant(h, r, g)
  PROVE  FairUseInv'
<1>1. FairUseTypeOK
  BY DEF FairUseInv, BucketInv
<1>2. Clock(r) \in Nat /\ Clock(r) = now + Skew[r] /\ now \in Nat
  BY <1>1, ClockIsTime
<1>3. PICK pc \in {"persistPolicy", "persistGrant"}, p \in Policy \cup {Nothing},
           g \in Grant \cup {Nothing} :
        /\ pc = "persistPolicy" => p \in Policy
        /\ pc = "persistGrant" => g \in Grant
        /\ task' = [task EXCEPT ![h] = Change(r, pc, p, g)]
        /\ UNCHANGED <<now, policies, grants, cache, bucket, sent, history>>
  <2>1. ASSUME NEW p \in [revision : 2..(MaxPolicies + 1), from : 1..MaxTime, burst : Bursts,
                          ceiling : Ceilings, appended : {0}], ProposePolicy(h, r, p)
        PROVE  /\ p \in Policy /\ task' = [task EXCEPT ![h] = Change(r, "persistPolicy", p, Nothing)]
               /\ UNCHANGED <<now, policies, grants, cache, bucket, sent, history>>
    <3>1. p \in Policy
      BY BoundsAssumption DEF Policy, BoundsAssumption
    <3>2. QED
      BY <2>1, <3>1 DEF ProposePolicy
  <2>2. ASSUME NEW g \in [id : 1..MaxGrants, burst : Bursts, ceiling : Ceilings,
                          enabled : BOOLEAN, created : {Clock(r)},
                          expires : 1..(MaxTime + 1), appended : {0}], ProposeGrant(h, r, g)
        PROVE  /\ g \in Grant /\ task' = [task EXCEPT ![h] = Change(r, "persistGrant", Nothing, g)]
               /\ UNCHANGED <<now, policies, grants, cache, bucket, sent, history>>
    <3>1. g \in Grant
      BY <1>2, BoundsAssumption DEF Grant, BoundsAssumption
    <3>2. QED
      BY <2>2, <3>1 DEF ProposeGrant
  <2>3. QED
    BY <2>1, <2>2
<1> DEFINE t == Change(r, pc, p, g)
<1>4. t \in Task
  <2>1. (CHOOSE c \in Costs : TRUE) \in Costs
    BY UnitsAssumption DEF UnitsAssumption
  <2>2. QED
    BY <1>2, <2>1 DEF Change, Task
<1>5. task' = [task EXCEPT ![h] = t] /\ task'[h] = t
  BY <1>1, <1>3, <1>4, TaskIsSet
<1>6. /\ t.pc = pc /\ t.policy = p /\ t.grant = g /\ t.began = now /\ t.at = Clock(r)
      /\ t.replica = r
  BY DEF Change
<1> HIDE DEF t
<1>7. RequestInv(h)' /\ LoadInv(h)' /\ ~ HasGrant(h)' /\ ~ HasPolicy(h)'
  BY <1>2, <1>3, <1>5, <1>6 DEF RequestInv, LoadInv, HasGrant, HasPolicy
<1>8. HandlerInv(h)'
  BY <1>7 DEF HandlerInv
<1>9. sent' \in Nat
  BY <1>1, <1>3 DEF FairUseTypeOK
<1>10. QED
  BY <1>3, <1>4, <1>5, <1>8, <1>9, OnlyTask

\* A step of a handler that sets the cache of a replica.
LEMMA OnlyCache ==
  ASSUME FairUseInv, NEW h \in Handlers, NEW t \in {AtRest} \cup Task,
         task' = [task EXCEPT ![h] = t], HandlerInv(h)',
         NEW r \in Replicas, NEW c \in Cache, cache' = [cache EXCEPT ![r] = c], CacheInv(r)',
         UNCHANGED <<now, policies, grants, bucket, sent, history>>
  PROVE  FairUseInv'
<1>1. FairUseTypeOK
  BY DEF FairUseInv, BucketInv
<1>2. DataGrows
  BY <1>1 DEF DataGrows, FairUseTypeOK
<1>3. task' \in [Handlers -> {AtRest} \cup Task] /\ \A k \in Handlers : HandlerInv(k)'
  BY <1>2, HandlersAfter
<1>4. cache' \in [Replicas -> Cache] /\ \A s \in Replicas \ {r} : cache'[s] = cache[s]
  BY <1>1 DEF FairUseTypeOK
<1>5. FairUseTypeOK'
  BY <1>1, <1>3, <1>4 DEF FairUseTypeOK, history
<1>6. \A s \in Replicas : CacheInv(s)'
  BY <1>1, <1>2, <1>4, FairUseInvParts, CacheKept
<1>7. BucketInv' /\ LevelInv'
  BY <1>5, LevelKept DEF BucketInv
<1>8. QED
  BY <1>3, <1>6, <1>7, PartsAfter

LEMMA StorePolicyKeeps ==
  ASSUME FairUseInv, NEW h \in Handlers, StorePolicy(h) PROVE FairUseInv'
<1>1. FairUseTypeOK /\ HandlerInv(h)
  BY FairUseInvParts DEF BucketInv
<1>2. /\ task[h].pc = "storePolicy" /\ task[h] \in Task /\ task[h].at \in Nat /\ task[h].began \in Nat
      /\ task[h] # AtRest /\ task[h].replica \in Replicas
      /\ UNCHANGED <<now, policies, grants, bucket, sent, history>>
  BY <1>1, TaskAtWork DEF StorePolicy
<1>3. PICK r \in Replicas : r = task[h].replica
  BY <1>2
<1> DEFINE c == [cache[r] EXCEPT !.policy = task[h].policy, !.loaded = task[h].at]
           t == [task[h] EXCEPT !.pc = "grant"]
<1>4. RequestInv(h) /\ PolicyCovers(task[h].policy, task[h].began, task[h].at)
  BY <1>1, <1>2 DEF HandlerInv, LoadInv
<1>5. /\ task[h].policy \in Policy /\ task[h].at = task[h].began + Skew[r] /\ task[h].began <= now
      /\ Skew[r] \in Nat /\ now \in Nat
  BY <1>1, <1>2, <1>3, <1>4 DEF RequestInv, TimesAssumption, FairUseTypeOK
<1>6. /\ c \in Cache /\ c.policy = task[h].policy /\ c.loaded = task[h].at
      /\ c.grant = cache[r].grant
  <2>1. cache[r] \in Cache
    BY <1>1 DEF FairUseTypeOK
  <2>2. QED
    BY <1>2, <1>5, <2>1 DEF Cache
<1>7. cache' = [cache EXCEPT ![r] = c] /\ cache'[r] = c
  BY <1>1, <1>3 DEF StorePolicy, FairUseTypeOK, Loaded
<1>8. t \in Task
  BY <1>2, TaskFields DEF Pcs
<1>9. task' = [task EXCEPT ![h] = t]
  BY <1>1 DEF FairUseTypeOK, StorePolicy, Proceed
<1>10. task'[h] = t
  BY <1>1, <1>8, <1>9, TaskIsSet
<1>11. /\ t.pc = "grant" /\ t.policy = task[h].policy /\ t.began = task[h].began
       /\ t.at = task[h].at /\ t.replica = task[h].replica
  BY <1>2 DEF Task
<1> HIDE DEF t, c
<1>12. RequestInv(h)' /\ LoadInv(h)' /\ ~ HasGrant(h)'
  BY <1>2, <1>4, <1>10, <1>11 DEF RequestInv, LoadInv, HasGrant
<1>13. PolicyKnown(task[h].policy, task[h].began, task[h].at)'
  <2>1. PolicyKnown(task[h].policy, task[h].began, task[h].at)
    BY <1>1, <1>2, <1>4, CoveredIsKnown
  <2>2. QED
    BY <2>1, <1>2, <1>10, <1>11 DEF PolicyKnown
<1>14. HandlerInv(h)'
  BY <1>12, <1>13 DEF HandlerInv
<1>15. CacheInv(r)'
  <2>1. c.loaded <= now + Skew[r] /\ c.loaded - Skew[r] = task[h].began
    BY <1>2, <1>5, <1>6
  <2>2. PolicyCovers(c.policy, c.loaded - Skew[r], c.loaded)
    BY <1>4, <1>6, <2>1
  <2>3. cache[r].grant # Nothing =>
          /\ cache[r].grant.loaded <= now + Skew[r]
          /\ GrantCovers(cache[r].grant.value, cache[r].grant.loaded - Skew[r], cache[r].grant.loaded)
    BY FairUseInvParts DEF CacheInv
  <2>4. QED
    BY <1>2, <1>6, <1>7, <2>1, <2>2, <2>3 DEF CacheInv, PolicyCovers, GrantCovers
<1>16. QED
  BY <1>2, <1>6, <1>7, <1>8, <1>9, <1>14, <1>15, OnlyCache

LEMMA StoreGrantKeeps ==
  ASSUME FairUseInv, NEW h \in Handlers, StoreGrant(h) PROVE FairUseInv'
<1>1. FairUseTypeOK /\ HandlerInv(h)
  BY FairUseInvParts DEF BucketInv
<1>2. /\ task[h].pc = "storeGrant" /\ task[h] \in Task /\ task[h].at \in Nat /\ task[h].began \in Nat
      /\ task[h] # AtRest /\ task[h].replica \in Replicas
      /\ UNCHANGED <<now, policies, grants, bucket, sent, history>>
  BY <1>1, TaskAtWork DEF StoreGrant
<1>3. PICK r \in Replicas : r = task[h].replica
  BY <1>2
<1> DEFINE v == [value |-> task[h].grant, loaded |-> task[h].at]
           c == [cache[r] EXCEPT !.grant = v]
           t == [task[h] EXCEPT !.pc = "decide"]
<1>4. /\ RequestInv(h) /\ GrantCovers(task[h].grant, task[h].began, task[h].at)
      /\ HasPolicy(h) => PolicyKnown(task[h].policy, task[h].began, task[h].at)
  BY <1>1, <1>2 DEF HandlerInv, LoadInv
<1>5. /\ task[h].grant \in Grant \cup {Nothing} /\ task[h].at = task[h].began + Skew[r]
      /\ task[h].began <= now /\ Skew[r] \in Nat /\ now \in Nat
  BY <1>1, <1>2, <1>3, <1>4, TaskAtWork DEF RequestInv, TimesAssumption, FairUseTypeOK
<1>6. /\ c \in Cache /\ c.policy = cache[r].policy /\ c.loaded = cache[r].loaded /\ c.grant = v
  <2>1. cache[r] \in Cache /\ v \in [value : Grant \cup {Nothing}, loaded : Nat]
    BY <1>1, <1>2, <1>5 DEF FairUseTypeOK
  <2> HIDE DEF v
  <2>2. QED
    BY <2>1 DEF Cache
<1>7. cache' = [cache EXCEPT ![r] = c] /\ cache'[r] = c
  BY <1>1, <1>3 DEF StoreGrant, FairUseTypeOK
<1>8. t \in Task
  BY <1>2, TaskFields DEF Pcs
<1>9. task' = [task EXCEPT ![h] = t]
  BY <1>1 DEF FairUseTypeOK, StoreGrant, Proceed
<1>10. task'[h] = t
  BY <1>1, <1>8, <1>9, TaskIsSet
<1>11. /\ t.pc = "decide" /\ t.policy = task[h].policy /\ t.began = task[h].began
       /\ t.at = task[h].at /\ t.replica = task[h].replica /\ t.grant = task[h].grant
       /\ t.failed = task[h].failed
  BY <1>2 DEF Task
<1>12. v.value = task[h].grant /\ v.loaded = task[h].at
  OBVIOUS
<1> HIDE DEF t, c, v
<1>13. RequestInv(h)' /\ LoadInv(h)'
  BY <1>2, <1>4, <1>10, <1>11 DEF RequestInv, LoadInv
<1>14. HasPolicy(h)' => PolicyKnown(task[h].policy, task[h].began, task[h].at)'
  BY <1>2, <1>4, <1>10, <1>11 DEF HasPolicy, PolicyKnown
<1>15. GrantKnown(task[h].grant, task[h].began, task[h].at)'
  <2>1. GrantKnown(task[h].grant, task[h].began, task[h].at)
    BY <1>1, <1>2, <1>4, CoveredIsKnown
  <2>2. QED
    BY <2>1, <1>2, <1>10, <1>11 DEF GrantKnown
<1>16. HandlerInv(h)'
  BY <1>13, <1>14, <1>15 DEF HandlerInv
<1>17. CacheInv(r)'
  <2>1. v.loaded <= now + Skew[r] /\ v.loaded - Skew[r] = task[h].began
    BY <1>2, <1>5, <1>12
  <2>2. GrantCovers(v.value, v.loaded - Skew[r], v.loaded)
    BY <1>4, <1>12, <2>1
  <2>3. cache[r].loaded # Nothing =>
          /\ cache[r].loaded <= now + Skew[r]
          /\ PolicyCovers(cache[r].policy, cache[r].loaded - Skew[r], cache[r].loaded)
    BY FairUseInvParts DEF CacheInv
  <2>4. QED
    BY <1>2, <1>6, <1>7, <2>1, <2>2, <2>3 DEF CacheInv, PolicyCovers, GrantCovers
<1>18. QED
  BY <1>2, <1>6, <1>7, <1>8, <1>9, <1>16, <1>17, OnlyCache

LEMMA InvalidateKeeps ==
  ASSUME FairUseInv, NEW h \in Handlers, Invalidate(h) PROVE FairUseInv'
<1>1. FairUseTypeOK
  BY DEF FairUseInv, BucketInv
<1>2. /\ task[h] \in Task /\ task[h].replica \in Replicas
      /\ UNCHANGED <<now, policies, grants, bucket, sent, history>>
  BY <1>1, TaskAtWork DEF Invalidate
<1>3. PICK r \in Replicas : r = task[h].replica
  BY <1>2
<1> DEFINE c == [cache[r] EXCEPT !.loaded = Nothing, !.grant = Nothing]
<1>4. c \in Cache /\ c.loaded = Nothing /\ c.grant = Nothing
  <2>1. cache[r] \in Cache
    BY <1>1 DEF FairUseTypeOK
  <2>2. QED
    BY <2>1 DEF Cache
<1>5. cache' = [cache EXCEPT ![r] = c] /\ cache'[r] = c
  BY <1>1, <1>3 DEF Invalidate, FairUseTypeOK
<1>6. task' = [task EXCEPT ![h] = AtRest] /\ task'[h] = AtRest
  BY <1>1, TaskIsSet DEF Invalidate, Return
<1> HIDE DEF c
<1>7. HandlerInv(h)' /\ CacheInv(r)'
  BY <1>4, <1>5, <1>6, RestingHandler DEF CacheInv
<1>8. QED
  BY <1>2, <1>4, <1>5, <1>6, <1>7, OnlyCache

LEMMA RestartKeeps ==
  ASSUME FairUseInv, NEW r \in Replicas, Restart(r) PROVE FairUseInv'
<1>1. FairUseTypeOK
  BY DEF FairUseInv, BucketInv
<1>2. DataGrows /\ UNCHANGED <<now, policies, grants, bucket, sent, history>>
  BY <1>1 DEF DataGrows, FairUseTypeOK, Restart
<1>3. EmptyCache \in Cache /\ EmptyCache.loaded = Nothing /\ EmptyCache.grant = Nothing
  BY DefaultPolicyType DEF EmptyCache, Cache
<1>4. /\ cache' \in [Replicas -> Cache] /\ cache'[r] = EmptyCache
      /\ \A s \in Replicas \ {r} : cache'[s] = cache[s]
  BY <1>1, <1>3 DEF Restart, FairUseTypeOK
<1>5. \A s \in Replicas : CacheInv(s)'
  <2>1. CacheInv(r)'
    BY <1>3, <1>4 DEF CacheInv
  <2>2. \A s \in Replicas \ {r} : CacheInv(s)'
    BY <1>1, <1>2, <1>4, FairUseInvParts, CacheKept
  <2>3. QED
    BY <2>1, <2>2
<1>6. /\ task' \in [Handlers -> {AtRest} \cup Task]
      /\ \A h \in Handlers : task'[h] = AtRest \/ task'[h] = task[h]
  BY <1>1 DEF Restart, FairUseTypeOK
<1>7. \A h \in Handlers : HandlerInv(h)'
  BY <1>1, <1>2, <1>6, RestingHandler, HandlerKept, FairUseInvParts
<1>8. FairUseTypeOK'
  BY <1>1, <1>2, <1>4, <1>6 DEF FairUseTypeOK, history
<1>9. QED
  BY <1>2, <1>5, <1>7, <1>8, LevelKept, PartsAfter DEF BucketInv

-----------------------------------------------------------------------------
\* A step of a handler that appends to the database.
LEMMA OnlyData ==
  ASSUME FairUseInv, DataGrows, NEW h \in Handlers, NEW t \in {AtRest} \cup Task,
         task' = [task EXCEPT ![h] = t], HandlerInv(h)',
         UNCHANGED <<now, cache, bucket, sent, history>>
  PROVE  FairUseInv'
<1>1. FairUseTypeOK
  BY DEF FairUseInv, BucketInv
<1>2. task' \in [Handlers -> {AtRest} \cup Task] /\ \A k \in Handlers : HandlerInv(k)'
  BY HandlersAfter
<1>3. policies' \in Seq(Policy) /\ grants' \in Seq(Grant)
  BY <1>1, DataAfter
<1>4. FairUseTypeOK'
  BY <1>1, <1>2, <1>3 DEF FairUseTypeOK, history
<1>5. \A s \in Replicas : CacheInv(s)'
  BY <1>1, FairUseInvParts, CacheKept
<1>6. QED
  BY <1>2, <1>4, <1>5, LevelKept, PartsAfter DEF BucketInv

\* A change that was persisted is followed by an invalidation.
LEMMA Persisted ==
  ASSUME FairUseInv, NEW h \in Handlers, task[h] \in Task, DataGrows, Proceed(h, "invalidate"),
         UNCHANGED <<now, cache, bucket, sent, history>>
  PROVE  FairUseInv'
<1> DEFINE t == [task[h] EXCEPT !.pc = "invalidate"]
<1>1. FairUseTypeOK /\ HandlerInv(h) /\ task[h] # AtRest
  BY FairUseInvParts, TaskAtWork DEF BucketInv
<1>2. t \in Task
  BY TaskFields DEF Pcs
<1>3. task' = [task EXCEPT ![h] = t]
  BY <1>1 DEF FairUseTypeOK, Proceed
<1>4. task'[h] = t
  BY <1>1, <1>2, <1>3, TaskIsSet
<1>5. /\ t.pc = "invalidate" /\ t.began = task[h].began /\ t.at = task[h].at
      /\ t.replica = task[h].replica
  BY DEF Task
<1> HIDE DEF t
<1>6. RequestInv(h)' /\ LoadInv(h)' /\ ~ HasPolicy(h)' /\ ~ HasGrant(h)'
  BY <1>1, <1>4, <1>5 DEF HandlerInv, RequestInv, LoadInv, HasPolicy, HasGrant
<1>7. QED
  BY <1>2, <1>3, <1>6, OnlyData DEF HandlerInv

LEMMA PersistPolicyKeeps ==
  ASSUME FairUseInv, NEW h \in Handlers, PersistPolicy(h) PROVE FairUseInv'
<1>1. FairUseTypeOK /\ HandlerInv(h)
  BY FairUseInvParts DEF BucketInv
<1>2. /\ task[h].pc = "persistPolicy" /\ task[h] \in Task /\ task[h] # AtRest
      /\ UNCHANGED <<now, grants, cache, bucket, sent, history>>
  BY <1>1, TaskAtWork DEF PersistPolicy
<1>3. CASE Return(h) /\ UNCHANGED policies
  BY <1>2, <1>3, ReturnKeeps
<1>4. CASE /\ policies' = Append(policies, [task[h].policy EXCEPT !.appended = now])
           /\ Proceed(h, "invalidate")
  <2>1. task[h].policy \in Policy /\ now \in Nat
    BY <1>1, <1>2 DEF HandlerInv, RequestInv, FairUseTypeOK
  <2> DEFINE p == [task[h].policy EXCEPT !.appended = now]
  <2>2. p \in Policy /\ p.appended = now
    BY <2>1 DEF Policy
  <2>3. policies' = Append(policies, p)
    BY <1>4
  <2> HIDE DEF p
  <2>4. DataGrows
    BY <1>2, <2>1, <2>2, <2>3 DEF DataGrows
  <2>5. QED
    BY <1>2, <1>4, <2>4, Persisted
<1>5. QED
  BY <1>3, <1>4 DEF PersistPolicy

LEMMA PersistGrantKeeps ==
  ASSUME FairUseInv, NEW h \in Handlers, PersistGrant(h) PROVE FairUseInv'
<1>1. FairUseTypeOK /\ HandlerInv(h)
  BY FairUseInvParts DEF BucketInv
<1>2. /\ task[h].pc = "persistGrant" /\ task[h] \in Task /\ task[h] # AtRest
      /\ UNCHANGED <<now, policies, cache, bucket, sent, history>>
  BY <1>1, TaskAtWork DEF PersistGrant
<1>3. CASE Return(h) /\ UNCHANGED grants
  BY <1>2, <1>3, ReturnKeeps
<1>4. CASE /\ grants' = Append(grants, [task[h].grant EXCEPT !.appended = now])
           /\ Proceed(h, "invalidate")
  <2>1. task[h].grant \in Grant /\ now \in Nat
    BY <1>1, <1>2 DEF HandlerInv, RequestInv, FairUseTypeOK
  <2> DEFINE g == [task[h].grant EXCEPT !.appended = now]
  <2>2. g \in Grant /\ g.appended = now
    BY <2>1 DEF Grant
  <2>3. grants' = Append(grants, g)
    BY <1>4
  <2> HIDE DEF g
  <2>4. DataGrows
    BY <1>2, <2>1, <2>2, <2>3 DEF DataGrows
  <2>5. QED
    BY <1>2, <1>4, <2>4, Persisted
<1>5. QED
  BY <1>3, <1>4 DEF PersistGrant

\* Of the time, and of what expires, no handler takes notice.
LEMMA TickKeeps ==
  ASSUME FairUseInv, Tick PROVE FairUseInv'
<1>1. FairUseTypeOK
  BY DEF FairUseInv, BucketInv
<1>2. /\ now \in Nat /\ now' = now + 1
      /\ UNCHANGED <<policies, grants, cache, bucket, task, sent, history>>
  BY <1>1 DEF FairUseTypeOK, Tick
<1>3. DataGrows
  BY <1>2 DEF DataGrows
<1>4. FairUseTypeOK'
  BY <1>1, <1>2 DEF FairUseTypeOK, history
<1>5. (\A h \in Handlers : HandlerInv(h)') /\ (\A r \in Replicas : CacheInv(r)')
  BY <1>1, <1>2, <1>3, FairUseInvParts, HandlerKept, CacheKept
<1>6. QED
  BY <1>2, <1>4, <1>5, LevelKept, PartsAfter DEF BucketInv

LEMMA ExpireKeeps ==
  ASSUME FairUseInv, Expire PROVE FairUseInv'
<1>1. FairUseTypeOK /\ LevelInv /\ BucketHoldsRate
  BY DEF FairUseInv, BucketInv
<1>2. /\ bucket # Nothing /\ bucket' = Nothing
      /\ UNCHANGED <<now, policies, grants, cache, task, sent, excess, last, inOrder>>
  BY DEF Expire, history
<1>3. DataGrows
  BY <1>1, <1>2 DEF DataGrows, FairUseTypeOK
<1>4. FairUseTypeOK' /\ LevelInv' /\ BucketHoldsRate'
  BY <1>1, <1>2 DEF FairUseTypeOK, LevelInv, BucketHoldsRate
<1>5. (\A h \in Handlers : HandlerInv(h)') /\ (\A r \in Replicas : CacheInv(r)')
  BY <1>1, <1>2, <1>3, FairUseInvParts, HandlerKept, CacheKept
<1>6. QED
  BY <1>4, <1>5, PartsAfter DEF BucketInv

\* What comes in grows with the time it takes.
LEMMA MoreTimeMoreUnits ==
  ASSUME NEW m \in Nat, NEW n \in Nat, m <= n
  PROVE  Refill * m \in Nat /\ Refill * n \in Nat /\ Refill * m <= Refill * n
<1>1. Refill \in Nat
  BY DEF TimesAssumption
<1>2. \A a \in Nat : a * m <= a * n
  <2>1. PICK d \in Nat : n = m + d
    <3>1. n - m \in Nat /\ n = m + (n - m)
      OBVIOUS
    <3>2. QED
      BY <3>1
  <2>2. ASSUME NEW a \in Nat PROVE a * m <= a * n
    <3>1. a * n = a * m + a * d
      BY <2>1
    <3>2. a * m \in Nat /\ a * d \in Nat
      OBVIOUS
    <3>3. QED
      BY <3>1, <3>2
  <2>3. QED
    BY <2>2
<1>3. QED
  BY <1>1, <1>2

LEMMA ElapsedType ==
  ASSUME NEW m \in Nat, NEW n \in Nat
  PROVE  Elapsed(m, n) \in Nat /\ Refill * Elapsed(m, n) \in Nat
         /\ (n >= m => Elapsed(m, n) = n - m)
<1>1. Elapsed(m, n) \in Nat /\ (n >= m => Elapsed(m, n) = n - m)
  BY DEF Elapsed
<1>2. QED
  BY <1>1, MoreTimeMoreUnits

\* The burst of the allowance that holds is one of the bursts.
LEMMA AllowanceType ==
  ASSUME FairUseTypeOK, NEW h \in Handlers, RequestInv(h), task[h].pc = "charge"
  PROVE  Allowance(h).burst \in Nat /\ Allowance(h).burst <= MaxBurst
<1>1. /\ task[h].policy \in Policy /\ task[h].grant \in Grant \cup {Nothing}
  BY TaskAtWork DEF RequestInv
<1>2. Allowance(h) \in Policy \cup Grant
  BY <1>1 DEF Allowance, Applies
<1>3. Allowance(h).burst \in Bursts
  BY <1>2 DEF Policy, Grant
<1>4. QED
  BY <1>3, MaxBurstBounds DEF UnitsAssumption

\* What an expiry puts in before its time makes up for the life of a bucket.
LEMMA EarlyType ==
  /\ MaxBurst \in Nat /\ Early \in Nat /\ Refill * BucketTTL \in Nat
  /\ MaxBurst <= Refill * BucketTTL + Early
<1>1. MaxBurst \in Nat
  BY MaxBurstBounds DEF UnitsAssumption
<1>2. Refill * BucketTTL \in Nat
  <2>1. Refill \in Nat /\ BucketTTL \in Nat
    BY DEF TimesAssumption
  <2>2. QED
    BY <2>1
<1>3. PICK life \in Nat : life = Refill * BucketTTL
  BY <1>2
<1>4. Early = Positive(MaxBurst - life)
  BY <1>3 DEF Early
<1>5. Early \in Nat /\ MaxBurst <= life + Early
  BY <1>1, <1>4 DEF Positive
<1>6. QED
  BY <1>1, <1>3, <1>5

\* What is left of the excess before a charge.
Rest(stamp) == IF last = Nothing THEN 0 ELSE Positive(excess - Income(stamp))

LEMMA FilledBesideRest ==
  ASSUME FairUseTypeOK, LevelInv, BucketHoldsRate, NEW capacity \in Nat, capacity <= MaxBurst,
         NEW stamp \in Nat
  PROVE  /\ Filled(bucket, capacity, stamp) \in Nat /\ Rest(stamp) \in Nat
         /\ (inOrder /\ Follows(stamp)) => Filled(bucket, capacity, stamp) + Rest(stamp) <= MaxBurst
<1>1. MaxBurst \in Nat /\ Early \in Nat
  BY EarlyType
<1>2. excess \in Nat /\ last \in Nat \cup {Nothing}
  BY DEF FairUseTypeOK
<1>3. CASE last = Nothing
  <2>1. bucket = Nothing
    BY <1>3 DEF LevelInv
  <2>2. QED
    BY <1>1, <1>3, <2>1 DEF Filled, Rest
<1>4. CASE last # Nothing
  <2> DEFINE gain == Refill * Elapsed(last, stamp)
  <2>1. last \in Nat
    BY <1>2, <1>4
  <2>2. gain \in Nat
    BY <2>1, ElapsedType
  <2>3. Rest(stamp) = Positive(excess - Income(stamp))
    BY <1>4 DEF Rest
  <2>4. CASE bucket = Nothing
    <3>1. Filled(bucket, capacity, stamp) = capacity
      BY <2>4 DEF Filled
    <3>2. Income(stamp) = gain + Early
      BY <2>4 DEF Income
    <3>3. ASSUME inOrder, Follows(stamp) PROVE excess <= gain + Early
      <4>1. stamp >= last + BucketTTL /\ BucketTTL \in Nat
        BY <1>4, <2>4, <3>3 DEF Follows, TimesAssumption
      <4>2. Elapsed(last, stamp) = stamp - last /\ BucketTTL <= stamp - last /\ stamp - last \in Nat
        <5>1. stamp >= last /\ BucketTTL <= stamp - last /\ stamp - last \in Nat
          BY <2>1, <4>1
        <5>2. QED
          BY <2>1, <5>1, ElapsedType
      <4>3. Refill * BucketTTL \in Nat /\ Refill * BucketTTL <= gain
        BY <4>1, <4>2, MoreTimeMoreUnits
      <4>4. MaxBurst <= Refill * BucketTTL + Early
        BY EarlyType
      <4>5. excess <= MaxBurst
        BY <3>3 DEF BucketHoldsRate
      <4> HIDE DEF gain
      <4>6. QED
        BY <1>1, <1>2, <2>2, <4>3, <4>4, <4>5
    <3> HIDE DEF gain
    <3>4. QED
      BY <1>1, <1>2, <2>2, <2>3, <3>1, <3>2, <3>3 DEF Positive
  <2>5. CASE bucket # Nothing
    <3>1. bucket.tokens \in Nat /\ bucket.updated = last
      BY <2>5 DEF LevelInv, FairUseTypeOK, Bucket
    <3>2. Filled(bucket, capacity, stamp) = Least(capacity, bucket.tokens + gain)
      BY <2>5, <3>1 DEF Filled
    <3>3. inOrder => bucket.tokens + excess <= MaxBurst
      BY <2>5 DEF LevelInv
    <3>4. Income(stamp) = gain
      BY <2>2, <2>5 DEF Income
    <3> HIDE DEF gain
    <3>5. QED
      BY <1>1, <1>2, <2>2, <2>3, <3>1, <3>2, <3>3, <3>4 DEF Positive, Least
  <2>6. QED
    BY <2>4, <2>5
<1>5. QED
  BY <1>3, <1>4

LEMMA ChargeKeeps ==
  ASSUME FairUseInv, NEW h \in Handlers, Charge(h) PROVE FairUseInv'
<1> DEFINE stamp == task[h].stamp
           tokens == Filled(bucket, Allowance(h).burst, stamp)
           cost == IF tokens >= task[h].cost THEN task[h].cost ELSE 0
<1>1. FairUseTypeOK /\ HandlerInv(h) /\ LevelInv /\ BucketHoldsRate
  BY FairUseInvParts DEF BucketInv
<1>2. /\ task[h].pc = "charge" /\ task[h] \in Task /\ stamp \in Nat /\ task[h].cost \in Nat
  BY <1>1, TaskAtWork DEF Charge, UnitsAssumption
<1>3. Allowance(h).burst \in Nat /\ Allowance(h).burst <= MaxBurst
  BY <1>1, <1>2, AllowanceType DEF HandlerInv
<1>4. /\ tokens \in Nat /\ Rest(stamp) \in Nat
      /\ (inOrder /\ Follows(stamp)) => tokens + Rest(stamp) <= MaxBurst
  BY <1>1, <1>2, <1>3, FilledBesideRest
<1>5. /\ bucket' = [tokens |-> tokens - cost, updated |-> stamp, expires |-> now + BucketTTL]
      /\ excess' = cost + Rest(stamp)
      /\ last' = stamp
      /\ inOrder' = (inOrder /\ Follows(stamp))
      /\ Return(h)
      /\ UNCHANGED <<now, policies, grants, cache, sent>>
  BY DEF Charge, Rest
<1> HIDE DEF tokens, stamp
<1>6. cost \in Nat /\ tokens - cost \in Nat
  BY <1>2, <1>4
<1>7. MaxBurst \in Nat /\ now \in Nat /\ BucketTTL \in Nat /\ now + BucketTTL \in Nat
  <2>1. MaxBurst \in Nat
    BY MaxBurstBounds DEF UnitsAssumption
  <2>2. now \in Nat /\ BucketTTL \in Nat
    BY <1>1 DEF FairUseTypeOK, TimesAssumption
  <2>3. QED
    BY <2>1, <2>2
<1> HIDE DEF cost
<1>8. bucket' \in Bucket /\ bucket'.tokens = tokens - cost /\ bucket'.updated = stamp
      /\ bucket'.tokens >= 0
  BY <1>2, <1>5, <1>6, <1>7 DEF Bucket
<1>9. excess' \in Nat /\ last' \in Nat /\ last' # Nothing /\ inOrder' \in BOOLEAN
  <2>1. excess' \in Nat
    BY <1>4, <1>5, <1>6
  <2>2. inOrder' \in BOOLEAN
    BY <1>1, <1>5 DEF FairUseTypeOK, Follows
  <2>3. QED
    BY <1>2, <1>5, <2>1, <2>2 DEF NothingAssumption
<1>10. inOrder' => (tokens - cost) + excess' <= MaxBurst /\ excess' <= MaxBurst
  <2>1. ASSUME inOrder' PROVE tokens + Rest(stamp) <= MaxBurst
    BY <1>4, <1>5, <2>1
  <2>2. QED
    BY <1>4, <1>5, <1>6, <1>7, <2>1
<1>11. LevelInv' /\ BucketHoldsRate'
  BY <1>5, <1>8, <1>9, <1>10 DEF LevelInv, BucketHoldsRate, MaxBurst
<1>12. DataGrows
  BY <1>1, <1>5 DEF DataGrows, FairUseTypeOK
<1>13. task' = [task EXCEPT ![h] = AtRest] /\ task'[h] = AtRest
  BY <1>1, <1>5, TaskIsSet DEF Return
<1>14. HandlerInv(h)'
  BY <1>13, RestingHandler
<1>15. task' \in [Handlers -> {AtRest} \cup Task] /\ \A k \in Handlers : HandlerInv(k)'
  BY <1>12, <1>13, <1>14, HandlersAfter
<1>16. FairUseTypeOK'
  BY <1>1, <1>5, <1>8, <1>9, <1>15 DEF FairUseTypeOK
<1>17. \A r \in Replicas : CacheInv(r)'
  BY <1>1, <1>5, <1>12, FairUseInvParts, CacheKept
<1>18. QED
  BY <1>11, <1>15, <1>16, <1>17, PartsAfter DEF BucketInv

-----------------------------------------------------------------------------
LEMMA ServeKeeps ==
  ASSUME FairUseInv, NEW h \in Handlers, Serve(h) PROVE FairUseInv'
<1>1. CASE Degrade(h) \/ Abandon(h)
  BY <1>1, ReturnKeeps DEF Degrade, Abandon
<1>2. CASE ReadPolicy(h) \/ CheckGrant(h) \/ ReadGrant(h) \/ Decide(h)
  BY <1>2, ReadPolicyKeeps, CheckGrantKeeps, ReadGrantKeeps, DecideKeeps
<1>3. CASE StorePolicy(h) \/ StoreGrant(h) \/ Invalidate(h)
  BY <1>3, StorePolicyKeeps, StoreGrantKeeps, InvalidateKeeps
<1>4. CASE PersistPolicy(h) \/ PersistGrant(h) \/ Charge(h)
  BY <1>4, PersistPolicyKeeps, PersistGrantKeeps, ChargeKeeps
<1>5. QED
  BY <1>1, <1>2, <1>3, <1>4 DEF Serve

LEMMA FairUseInvStarts == FairUseInit => FairUseInv
<1> SUFFICES ASSUME FairUseInit PROVE FairUseInv
  OBVIOUS
<1>1. EmptyCache \in Cache /\ EmptyCache.loaded = Nothing /\ EmptyCache.grant = Nothing
  BY DefaultPolicyType DEF EmptyCache, Cache
<1>2. FairUseTypeOK
  BY <1>1 DEF FairUseInit, FairUseTypeOK
<1>3. LevelInv /\ BucketHoldsRate
  <2>1. MaxBurst \in Nat
    BY MaxBurstBounds DEF UnitsAssumption
  <2>2. QED
    BY <2>1 DEF FairUseInit, LevelInv, BucketHoldsRate
<1>4. \A r \in Replicas : CacheInv(r)
  BY <1>1 DEF FairUseInit, CacheInv
<1>5. \A h \in Handlers : HandlerInv(h)
  BY DEF FairUseInit, HandlerInv, RequestInv, LoadInv, HasPolicy, HasGrant, AtRest
<1>6. QED
  BY <1>2, <1>3, <1>4, <1>5, FairUseInvParts DEF BucketInv

LEMMA FairUseInvStays == FairUseInv /\ [FairUseNext]_fairUseVars => FairUseInv'
<1> SUFFICES ASSUME FairUseInv, [FairUseNext]_fairUseVars PROVE FairUseInv'
  OBVIOUS
<1>1. ASSUME NEW h \in Handlers, NEW r \in Replicas, NEW cost \in Costs, Arrive(h, r, cost)
      PROVE  FairUseInv'
  BY <1>1, ArriveKeeps
<1>2. ASSUME NEW h \in Handlers, NEW r \in Replicas,
             \/ \E p \in [revision : 2..(MaxPolicies + 1), from : 1..MaxTime, burst : Bursts,
                          ceiling : Ceilings, appended : {0}] : ProposePolicy(h, r, p)
             \/ \E g \in [id : 1..MaxGrants, burst : Bursts, ceiling : Ceilings,
                          enabled : BOOLEAN, created : {Clock(r)},
                          expires : 1..(MaxTime + 1), appended : {0}] : ProposeGrant(h, r, g)
      PROVE  FairUseInv'
  BY <1>2, ProposeKeeps
<1>3. ASSUME NEW h \in Handlers, Serve(h) PROVE FairUseInv'
  BY <1>3, ServeKeeps
<1>4. ASSUME NEW r \in Replicas, Restart(r) PROVE FairUseInv'
  BY <1>4, RestartKeeps
<1>5. CASE Expire \/ Tick
  BY <1>5, ExpireKeeps, TickKeeps
<1>6. CASE UNCHANGED fairUseVars
  BY <1>6 DEF fairUseVars, FairUseInv, BucketInv, FairUseTypeOK, BucketHoldsRate, LevelInv, CacheInv,
       RequestInv, LoadInv, AllowanceIsRecent, PolicyIsRecent, GrantIsRecent, HasPolicy, HasGrant,
       PolicyCovers, GrantCovers
<1>7. QED
  BY <1>1, <1>2, <1>3, <1>4, <1>5, <1>6 DEF FairUseNext

(***************************************************************************)
(* A handler knows when its request began, and goes by a policy it read or *)
(* was given; what a load found, and what the cache of a replica holds,    *)
(* covers all that was appended before the load began and in force by the  *)
(* clock of the replica (loadPolicy, loadOverride, Invalidate); and what a *)
(* bucket holds and what was charged beyond its refill share the largest   *)
(* burst (tokenBucket).                                                    *)
(***************************************************************************)
THEOREM FairUseIsSound == FairUseSpec => []FairUseInv
<1>1. FairUseInit => FairUseInv
  BY FairUseInvStarts
<1>2. FairUseInv /\ [FairUseNext]_fairUseVars => FairUseInv'
  BY FairUseInvStays
<1>3. QED
  BY <1>1, <1>2, PTL DEF FairUseSpec

(***************************************************************************)
(* In no stretch of time is more charged to a key than the largest burst   *)
(* and what came in, while charges arrive in order (tokenBucket).          *)
(***************************************************************************)
THEOREM BucketsHoldTheirRate == FairUseSpec => []BucketInv
<1>1. FairUseInv => BucketInv
  BY DEF FairUseInv
<1>2. QED
  BY <1>1, FairUseIsSound, PTL

(***************************************************************************)
(* No request goes by a policy, or a grant, that was replaced longer ago   *)
(* than a cache may be old (Resolver.Resolve).                             *)
(***************************************************************************)
THEOREM AllowancesAreRecent == FairUseSpec => []AllowanceIsRecent
<1>1. FairUseInv => AllowanceIsRecent
  BY DEF FairUseInv
<1>2. QED
  BY <1>1, FairUseIsSound, PTL

=============================================================================
