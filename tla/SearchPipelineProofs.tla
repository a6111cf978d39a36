------------------------ MODULE SearchPipelineProofs ------------------------
(***************************************************************************)
(* Proofs about Outbox for any workers, events, leases and retries, and    *)
(* about SearchPipeline, which runs it, for any operators and pages.       *)
(***************************************************************************)
EXTENDS SearchPipeline, TLAPS

USE EventsAssumption, TimeAssumption, AttemptsAssumption, FaultAssumption,
    NobodyAssumption, PagesAssumption, ChangesAssumption, OperatorAssumption

-----------------------------------------------------------------------------
(***************************************************************************)
(* The outbox.                                                             *)
(***************************************************************************)
LEMMA DelayType == \A n \in Nat \ {0} : RetryDelay(n) \in Nat
<1> SUFFICES ASSUME NEW n \in Nat \ {0} PROVE RetryDelay(n) \in Nat
  OBVIOUS
<1>1. PICK k \in 1..9 : k = IF n < 9 THEN n ELSE 9
  OBVIOUS
<1>2. Doubled[k] \in Nat
  BY DEF Doubled
<1>3. \A x, y \in Nat : x * y \in Nat
  OBVIOUS
<1>4. QED
  BY <1>1, <1>2, <1>3 DEF RetryDelay

LEMMA CountDownType == \A n \in Nat : CountDown(n) \in Nat
BY DEF CountDown

LEMMA RowsOf == ASSUME OutboxTypeOK, NEW e \in Events PROVE row[e] \in Row
BY DEF OutboxTypeOK

LEMMA FaultType == ASSUME OutboxTypeOK PROVE faults \in Nat /\ faults + 1 \in Nat
BY DEF OutboxTypeOK

\* A row that takes its place again: who is ahead of whom stays well typed.
LEMMA QueuedType ==
  ASSUME OutboxTypeOK, NEW e \in Events, NEW delay \in Nat
  PROVE  Queued(e, delay) \in [Events -> SUBSET Events]
BY DEF OutboxTypeOK, Queued, Before

LEMMA SettledType ==
  ASSUME OutboxTypeOK, NEW e \in Events, NEW status \in {"pending", "completed", "dead"}
  PROVE  /\ Settled(e, status) \in Row
         /\ Settled(e, status).status = status
         /\ Settled(e, status).by = Nobody
         /\ Settled(e, status).attempts = row[e].attempts
BY RowsOf DEF Settled, Row

\* One row changes; the others stay.
LEMMA ReplaceRow ==
  ASSUME OutboxTypeOK, NEW e \in Events, NEW new \in Row, row' = [row EXCEPT ![e] = new]
  PROVE  /\ row' \in [Events -> Row]
         /\ row'[e] = new
         /\ \A x \in Events : x # e => row'[x] = row[x]
BY DEF OutboxTypeOK

LEMMA ReplaceWorker ==
  ASSUME OutboxTypeOK, NEW w \in Workers, NEW new \in Claimed,
         worker' = [worker EXCEPT ![w] = new]
  PROVE  /\ worker' \in [Workers -> Claimed]
         /\ worker'[w] = new
         /\ \A v \in Workers : v # w => worker'[v] = worker[v]
BY DEF OutboxTypeOK

LEMMA IdleType == Idle \in Claimed /\ Idle.pc = "idle"
BY DEF Idle, Claimed

-----------------------------------------------------------------------------
(***************************************************************************)
(* Every step preserves the inductive invariant.                           *)
(***************************************************************************)
\* A worker whose claim and row stay the same keeps its part of it.
LEMMA KeepsClaim ==
  ASSUME OutboxInv, NEW v \in Workers, worker'[v] = worker[v],
         Busy(v) => row'[worker[v].event] = row[worker[v].event]
  PROVE  Busy(v)' => /\ worker'[v].event \in Events
                     /\ worker'[v].attempts > 0
                     /\ Owns(v)' => row'[worker'[v].event].attempts = worker'[v].attempts
BY DEF OutboxInv, ClaimsAreCurrent, Busy, Owns

LEMMA EnqueueKeeps == ASSUME OutboxInv, NEW e \in Events, Enqueue(e) PROVE OutboxInv'
<1> OutboxTypeOK
  BY DEF OutboxInv
<1> DEFINE new == [NoRow EXCEPT !.status = "pending"]
<1>1. new \in Row /\ new.status = "pending"
  BY DEF NoRow, Row
<1>2. row' = [row EXCEPT ![e] = new] /\ ahead' = Queued(e, 0) /\ UNCHANGED <<worker, faults>>
  BY DEF Enqueue
<1> HIDE DEF new
<1>3. row' \in [Events -> Row] /\ row'[e] = new /\ \A x \in Events : x # e => row'[x] = row[x]
  BY <1>1, <1>2, ReplaceRow
<1>4. OutboxTypeOK'
  BY <1>2, <1>3, QueuedType DEF OutboxTypeOK
<1>5. ClaimsAreCurrent'
  <2> SUFFICES ASSUME NEW w \in Workers, Busy(w)
               PROVE  /\ worker[w].event \in Events
                      /\ worker[w].attempts > 0
                      /\ Owns(w)' => row'[worker[w].event].attempts = worker[w].attempts
    BY <1>2 DEF ClaimsAreCurrent, Busy
  <2>1. worker[w].event \in Events /\ worker[w].attempts > 0
    BY DEF OutboxInv, ClaimsAreCurrent
  <2>2. CASE worker[w].event = e
    BY <2>1, <2>2, <1>1, <1>2, <1>3 DEF Owns
  <2>3. CASE worker[w].event # e
    BY <2>1, <2>3, <1>2, <1>3 DEF Owns, OutboxInv, ClaimsAreCurrent
  <2>4. QED
    BY <2>1, <2>2, <2>3
<1>6. DeadIsExhausted'
  BY <1>1, <1>3 DEF DeadIsExhausted, OutboxInv
<1>7. QED
  BY <1>4, <1>5, <1>6 DEF OutboxInv

\* What Claim does.
LEMMA ClaimEffect ==
  ASSUME OutboxTypeOK, NEW w \in Workers, Claim(w)
  PROVE  \E e \in Events :
           /\ row[e].status \in {"pending", "processing"}
           /\ row' \in [Events -> Row] /\ worker' \in [Workers -> Claimed]
           /\ row'[e].status = "processing" /\ row'[e].by = w
           /\ row'[e].attempts = row[e].attempts + 1
           /\ \A x \in Events : x # e => row'[x] = row[x]
           /\ worker'[w].pc # "idle" /\ worker'[w].event = e
           /\ worker'[w].attempts = row[e].attempts + 1
           /\ \A v \in Workers : v # w => worker'[v] = worker[v]
           /\ UNCHANGED <<ahead, faults>>
<1>1. PICK e \in Events :
         /\ Claimable(e)
         /\ row' = [row EXCEPT ![e].status = "processing", ![e].lease = Lease,
                               ![e].by = w, ![e].attempts = @ + 1]
         /\ worker' = [worker EXCEPT ![w] = [pc |-> "handling", event |-> e,
                                             attempts |-> row[e].attempts + 1]]
  BY DEF Claim
<1>2. row[e] \in Row
  BY RowsOf
<1> DEFINE new == [row[e] EXCEPT !.status = "processing", !.lease = Lease, !.by = w,
                                 !.attempts = @ + 1]
           claim == [pc |-> "handling", event |-> e, attempts |-> row[e].attempts + 1]
<1>3. /\ new \in Row /\ new.status = "processing" /\ new.by = w
      /\ new.attempts = row[e].attempts + 1
  <2> DEFINE n == row[e].attempts + 1
  <2>1. n \in Nat /\ Lease \in Nat
    BY <1>2 DEF Row
  <2>2. new = [row[e] EXCEPT !.status = "processing", !.lease = Lease, !.by = w, !.attempts = n]
    BY <1>2 DEF Row
  <2> HIDE DEF n
  <2>3. /\ new \in Row /\ new.status = "processing" /\ new.by = w /\ new.attempts = n
    BY <1>2, <2>1, <2>2 DEF Row
  <2>4. QED
    BY <2>3 DEF n
<1>4. /\ claim \in Claimed /\ claim.pc # "idle" /\ claim.event = e
      /\ claim.attempts = row[e].attempts + 1
  BY <1>2 DEF Row, Claimed, Events
<1>5. row' = [row EXCEPT ![e] = new] /\ worker' = [worker EXCEPT ![w] = claim]
  BY <1>1 DEF OutboxTypeOK
<1>6. row[e].status \in {"pending", "processing"} /\ UNCHANGED <<ahead, faults>>
  BY <1>1 DEF Claimable, Claim
<1> HIDE DEF new, claim
<1>7. row' \in [Events -> Row] /\ row'[e] = new /\ \A x \in Events : x # e => row'[x] = row[x]
  BY <1>3, <1>5, ReplaceRow
<1>8. /\ worker' \in [Workers -> Claimed] /\ worker'[w] = claim
      /\ \A v \in Workers : v # w => worker'[v] = worker[v]
  BY <1>4, <1>5, ReplaceWorker
<1>9. QED
  BY <1>3, <1>4, <1>6, <1>7, <1>8

LEMMA ClaimKeeps == ASSUME OutboxInv, NEW w \in Workers, Claim(w) PROVE OutboxInv'
<1> OutboxTypeOK
  BY DEF OutboxInv
<1>1. PICK e \in Events :
           /\ row[e].status \in {"pending", "processing"}
           /\ row' \in [Events -> Row] /\ worker' \in [Workers -> Claimed]
           /\ row'[e].status = "processing" /\ row'[e].by = w
           /\ row'[e].attempts = row[e].attempts + 1
           /\ \A x \in Events : x # e => row'[x] = row[x]
           /\ worker'[w].pc # "idle" /\ worker'[w].event = e
           /\ worker'[w].attempts = row[e].attempts + 1
           /\ \A v \in Workers : v # w => worker'[v] = worker[v]
           /\ UNCHANGED <<ahead, faults>>
  BY ClaimEffect
<1>2. row[e].attempts \in Nat
  BY RowsOf DEF Row
<1>3. OutboxTypeOK'
  BY <1>1 DEF OutboxTypeOK
<1>4. ClaimsAreCurrent'
  <2> SUFFICES ASSUME NEW v \in Workers, worker'[v].pc # "idle"
               PROVE  /\ worker'[v].event \in Events
                      /\ worker'[v].attempts > 0
                      /\ Owns(v)' => row'[worker'[v].event].attempts = worker'[v].attempts
    BY DEF ClaimsAreCurrent, Busy
  <2>1. CASE v = w
    BY <2>1, <1>1, <1>2
  <2>2. CASE v # w
    <3>1. worker'[v] = worker[v] /\ Busy(v)
      BY <2>2, <1>1 DEF Busy
    <3>2. worker[v].event \in Events /\ worker[v].attempts > 0
      BY <3>1 DEF OutboxInv, ClaimsAreCurrent
    <3>3. CASE worker[v].event = e
      BY <2>2, <3>1, <3>2, <3>3, <1>1 DEF Owns
    <3>4. CASE worker[v].event # e
      BY <3>1, <3>2, <3>4, <1>1 DEF Owns, OutboxInv, ClaimsAreCurrent
    <3>5. QED
      BY <3>1, <3>2, <3>3, <3>4
  <2>3. QED
    BY <2>1, <2>2
<1>5. DeadIsExhausted'
  BY <1>1 DEF DeadIsExhausted, OutboxInv
<1>6. QED
  BY <1>3, <1>4, <1>5 DEF OutboxInv

LEMMA HandleKeeps ==
  ASSUME OutboxInv, NEW w \in Workers, NEW ok \in BOOLEAN, Handle(w, ok)
  PROVE  OutboxInv'
<1> OutboxTypeOK
  BY DEF OutboxInv
<1> DEFINE new == [worker[w] EXCEPT !.pc = IF ok THEN "succeeded" ELSE "failed"]
<1>1. worker[w] \in Claimed /\ Busy(w)
  BY DEF OutboxTypeOK, Handle, Busy
<1>2. /\ new \in Claimed /\ new.event = worker[w].event
      /\ new.attempts = worker[w].attempts
  BY <1>1 DEF Claimed
<1>3. worker' = [worker EXCEPT ![w] = new] /\ UNCHANGED <<row, ahead, faults>>
  BY DEF Handle, OutboxTypeOK
<1> HIDE DEF new
<1>4. /\ worker' \in [Workers -> Claimed] /\ worker'[w] = new
      /\ \A v \in Workers : v # w => worker'[v] = worker[v]
  BY <1>2, <1>3, ReplaceWorker
<1>5. OutboxTypeOK'
  BY <1>3, <1>4 DEF OutboxTypeOK
<1>6. ClaimsAreCurrent'
  BY <1>1, <1>2, <1>3, <1>4 DEF OutboxInv, ClaimsAreCurrent, Busy, Owns
<1>7. DeadIsExhausted'
  BY <1>3 DEF DeadIsExhausted, OutboxInv
<1>8. QED
  BY <1>5, <1>6, <1>7 DEF OutboxInv

\* A worker lets go of its claim and no row changes.
LEMMA LetGoKeeps ==
  ASSUME OutboxInv, NEW w \in Workers, worker' = [worker EXCEPT ![w] = Idle],
         UNCHANGED <<row, ahead>>, faults' \in Nat
  PROVE  OutboxInv'
<1> OutboxTypeOK
  BY DEF OutboxInv
<1>1. /\ worker' \in [Workers -> Claimed] /\ worker'[w] = Idle
      /\ \A v \in Workers : v # w => worker'[v] = worker[v]
  BY IdleType, ReplaceWorker
<1>2. OutboxTypeOK'
  BY <1>1 DEF OutboxTypeOK
<1>3. ClaimsAreCurrent'
  BY <1>1, IdleType DEF OutboxInv, ClaimsAreCurrent, Busy, Owns
<1>4. DeadIsExhausted'
  BY DEF DeadIsExhausted, OutboxInv
<1>5. QED
  BY <1>2, <1>3, <1>4 DEF OutboxInv

\* The owner of a row settles it.
LEMMA SettleKeeps ==
  ASSUME OutboxInv, NEW w \in Workers, Owns(w), Busy(w), NEW new \in Row,
         new.status # "processing", new.attempts = row[worker[w].event].attempts,
         new.status = "dead" => worker[w].attempts >= MaxAttempts,
         row' = [row EXCEPT ![worker[w].event] = new],
         worker' = [worker EXCEPT ![w] = Idle],
         ahead' \in [Events -> SUBSET Events], UNCHANGED faults
  PROVE  OutboxInv'
<1> OutboxTypeOK
  BY DEF OutboxInv
<1> DEFINE e == worker[w].event
<1>1. e \in Events /\ row[e].attempts = worker[w].attempts
  BY DEF OutboxInv, ClaimsAreCurrent
<1>2. row' = [row EXCEPT ![e] = new] /\ new.attempts = row[e].attempts
  OBVIOUS
<1> HIDE DEF e
<1>3. row' \in [Events -> Row] /\ row'[e] = new /\ \A x \in Events : x # e => row'[x] = row[x]
  BY <1>1, <1>2, ReplaceRow
<1>4. /\ worker' \in [Workers -> Claimed] /\ worker'[w] = Idle
      /\ \A v \in Workers : v # w => worker'[v] = worker[v]
  BY IdleType, ReplaceWorker
<1>5. OutboxTypeOK'
  BY <1>3, <1>4 DEF OutboxTypeOK
<1>6. ClaimsAreCurrent'
  <2> SUFFICES ASSUME NEW v \in Workers, worker'[v].pc # "idle"
               PROVE  /\ worker'[v].event \in Events
                      /\ worker'[v].attempts > 0
                      /\ Owns(v)' => row'[worker'[v].event].attempts = worker'[v].attempts
    BY DEF ClaimsAreCurrent, Busy
  <2>1. v # w /\ worker'[v] = worker[v] /\ Busy(v)
    BY <1>4, IdleType DEF Busy
  <2>2. worker[v].event \in Events /\ worker[v].attempts > 0
    BY <2>1 DEF OutboxInv, ClaimsAreCurrent
  <2>3. CASE worker[v].event = e
    BY <2>1, <2>2, <2>3, <1>3 DEF Owns
  <2>4. CASE worker[v].event # e
    BY <2>1, <2>2, <2>4, <1>3 DEF Owns, OutboxInv, ClaimsAreCurrent
  <2>5. QED
    BY <2>1, <2>2, <2>3, <2>4
<1>7. DeadIsExhausted'
  BY <1>1, <1>2, <1>3 DEF DeadIsExhausted, OutboxInv
<1>8. QED
  BY <1>5, <1>6, <1>7 DEF OutboxInv

LEMMA CompleteKeeps == ASSUME OutboxInv, NEW w \in Workers, Complete(w) PROVE OutboxInv'
<1> OutboxTypeOK
  BY DEF OutboxInv
<1>1. Busy(w) /\ worker' = [worker EXCEPT ![w] = Idle] /\ UNCHANGED <<ahead, faults>>
  BY DEF Complete, Busy
<1>2. worker[w].event \in Events
  BY <1>1 DEF OutboxInv, ClaimsAreCurrent
<1>3. CASE Owns(w)
  <2> DEFINE new == Settled(worker[w].event, "completed")
  <2>1. row' = [row EXCEPT ![worker[w].event] = new]
    BY <1>3 DEF Complete
  <2>2. new \in Row /\ new.status = "completed" /\ new.attempts = row[worker[w].event].attempts
    BY <1>2, SettledType
  <2> HIDE DEF new
  <2>3. QED
    BY <1>1, <1>3, <2>1, <2>2, SettleKeeps DEF OutboxTypeOK
<1>4. CASE ~ Owns(w)
  <2>1. UNCHANGED row
    BY <1>4 DEF Complete
  <2>2. QED
    BY <1>1, <2>1, LetGoKeeps DEF OutboxTypeOK
<1>5. QED
  BY <1>3, <1>4

LEMMA FailKeeps == ASSUME OutboxInv, NEW w \in Workers, Fail(w) PROVE OutboxInv'
<1> OutboxTypeOK
  BY DEF OutboxInv
<1> DEFINE e == worker[w].event
           status == IF Exhausted(worker[w].attempts) THEN "dead" ELSE "pending"
           delay == RetryDelay(worker[w].attempts)
           new == [Settled(e, status) EXCEPT !.wait = delay]
<1>1. Busy(w) /\ worker' = [worker EXCEPT ![w] = Idle] /\ UNCHANGED faults
  BY DEF Fail, Busy
<1>2. worker[w] \in Claimed
  BY DEF OutboxTypeOK
<1>3. e \in Events /\ worker[w].attempts \in Nat \ {0}
  BY <1>1, <1>2 DEF OutboxInv, ClaimsAreCurrent, Claimed
<1>4. delay \in Nat
  BY <1>3, DelayType
<1>5. CASE Owns(w)
  <2>1. row' = [row EXCEPT ![e] = new] /\ ahead' = Queued(e, delay)
    BY <1>5 DEF Fail
  <2>2. status \in {"pending", "dead"} /\ (status = "dead" => worker[w].attempts >= MaxAttempts)
    BY DEF Exhausted
  <2> HIDE DEF e, delay, status
  <2>3. /\ Settled(e, status) \in Row /\ Settled(e, status).status = status
        /\ Settled(e, status).attempts = row[e].attempts
    BY <1>3, <2>2, SettledType
  <2>4. new \in Row /\ new.status = status /\ new.attempts = row[e].attempts
    BY <1>4, <2>3 DEF Row
  <2>5. ahead' \in [Events -> SUBSET Events]
    BY <1>3, <1>4, <2>1, QueuedType
  <2> HIDE DEF new
  <2>6. row' = [row EXCEPT ![worker[w].event] = new] /\ new.attempts = row[worker[w].event].attempts
    BY <2>1, <2>4 DEF e
  <2>7. QED
    BY <1>1, <1>5, <2>2, <2>4, <2>5, <2>6, SettleKeeps
<1>6. CASE ~ Owns(w)
  <2>1. UNCHANGED <<row, ahead>>
    BY <1>6 DEF Fail
  <2>2. QED
    BY <1>1, <2>1, LetGoKeeps DEF OutboxTypeOK
<1>7. QED
  BY <1>5, <1>6

LEMMA TickKeeps == ASSUME OutboxInv, Tick PROVE OutboxInv'
<1> OutboxTypeOK
  BY DEF OutboxInv
<1>1. ASSUME NEW e \in Events
      PROVE  /\ row'[e] \in Row /\ row'[e].status = row[e].status
             /\ row'[e].by = row[e].by /\ row'[e].attempts = row[e].attempts
  <2>1. row[e] \in Row
    BY RowsOf
  <2>2. row'[e] = [row[e] EXCEPT !.wait = CountDown(@), !.lease = CountDown(@)]
    BY DEF Tick
  <2>3. CountDown(row[e].wait) \in Nat /\ CountDown(row[e].lease) \in Nat
    BY <2>1, CountDownType DEF Row
  <2>4. QED
    BY <2>1, <2>2, <2>3 DEF Row
<1>2. row' \in [Events -> Row]
  <2>1. row' = [e \in Events |-> row'[e]]
    BY DEF Tick
  <2>2. QED
    BY <1>1, <2>1
<1>3. faults' \in Nat /\ UNCHANGED <<ahead, worker>>
  <2>1. faults' \in {faults, faults + 1} /\ UNCHANGED <<ahead, worker>>
    BY DEF Tick
  <2>2. QED
    BY <2>1, FaultType
<1>4. OutboxTypeOK'
  BY <1>2, <1>3 DEF OutboxTypeOK
<1>5. ClaimsAreCurrent'
  BY <1>1, <1>3 DEF OutboxInv, ClaimsAreCurrent, Busy, Owns
<1>6. DeadIsExhausted'
  BY <1>1 DEF DeadIsExhausted, OutboxInv
<1>7. QED
  BY <1>4, <1>5, <1>6 DEF OutboxInv

LEMMA OutboxStep == ASSUME OutboxInv, [OutboxNext]_outboxVars PROVE OutboxInv'
<1>1. ASSUME NEW w \in Workers, Crash(w) PROVE OutboxInv'
  <2>1. /\ faults' = faults + 1 /\ worker' = [worker EXCEPT ![w] = Idle]
        /\ UNCHANGED <<row, ahead>>
    BY <1>1 DEF Crash
  <2>2. faults' \in Nat
    BY <2>1, FaultType DEF OutboxInv
  <2>3. QED
    BY <2>1, <2>2, LetGoKeeps
<1>2. CASE UNCHANGED outboxVars
  BY <1>2 DEF outboxVars, OutboxInv, OutboxTypeOK, ClaimsAreCurrent, DeadIsExhausted, Busy, Owns
<1>3. QED
  BY <1>1, <1>2, EnqueueKeeps, ClaimKeeps, HandleKeeps, CompleteKeeps, FailKeeps, TickKeeps
     DEF OutboxNext, Acknowledge, Poll

(***************************************************************************)
(* Rows and claims stay well typed, a claim that owns its row is the row's *)
(* last, and dead rows are exhausted: for any workers and any events.      *)
(***************************************************************************)
THEOREM OutboxIsSound == OutboxSpec => []OutboxInv
<1>1. OutboxInit => OutboxInv
  <2> SUFFICES ASSUME OutboxInit PROVE OutboxInv
    OBVIOUS
  <2>1. NoRow \in Row /\ NoRow.status = "absent"
    BY DEF NoRow, Row
  <2>2. QED
    BY <2>1, IdleType DEF OutboxInit, OutboxInv, OutboxTypeOK, ClaimsAreCurrent,
                          DeadIsExhausted, Busy
<1>2. QED
  BY <1>1, OutboxStep, PTL DEF OutboxSpec

(***************************************************************************)
(* The state stays well typed.                                             *)
(***************************************************************************)
THEOREM TypeCorrect == OutboxSpec => []OutboxTypeOK
<1>1. OutboxInv => OutboxTypeOK
  BY DEF OutboxInv
<1>2. QED
  BY <1>1, OutboxIsSound, PTL

(***************************************************************************)
(* No event is given up before its last attempt.                           *)
(***************************************************************************)
THEOREM NoEarlyBurial == OutboxSpec => []DeadIsExhausted
<1>1. OutboxInv => DeadIsExhausted
  BY DEF OutboxInv
<1>2. QED
  BY <1>1, OutboxIsSound, PTL

(***************************************************************************)
(* A late acknowledgement has no effect: one that changes a row is of the  *)
(* row's last claim.                                                       *)
(***************************************************************************)
THEOREM LateAcksAreHarmless == OutboxSpec => AcksAreCurrent
<1>1. ASSUME OutboxInv, NEW w \in Workers, Complete(w) \/ Fail(w), row' # row
      PROVE  row[worker[w].event].attempts = worker[w].attempts
  <2>1. Busy(w) /\ Owns(w)
    BY <1>1 DEF Complete, Fail, Busy
  <2>2. QED
    BY <1>1, <2>1 DEF OutboxInv, ClaimsAreCurrent
<1>2. OutboxInv /\ [OutboxNext]_outboxVars =>
        [\A w \in Workers :
           ((Complete(w) \/ Fail(w)) /\ row' # row) =>
              row[worker[w].event].attempts = worker[w].attempts]_outboxVars
  BY <1>1
<1>3. QED
  BY <1>2, OutboxIsSound, PTL DEF OutboxSpec, AcksAreCurrent

-----------------------------------------------------------------------------
(***************************************************************************)
(* Refinement: every step of the outbox is a step of the work queue or     *)
(* none.                                                                   *)
(***************************************************************************)
LEMMA StandingOf ==
  ASSUME OutboxTypeOK, NEW e \in Events
  PROVE  /\ row[e].status = "absent" <=> Standing(e) = "absent"
         /\ row[e].status \in {"pending", "processing"} <=> Standing(e) = "open"
         /\ row[e].status = "completed" <=> Standing(e) = "done"
         /\ row[e].status = "dead" <=> Standing(e) = "dead"
BY RowsOf DEF Standing, Row

\* Only the status of a row matters.
LEMMA SameStanding ==
  ASSUME NEW e \in Events, row'[e].status = row[e].status
  PROVE  Standing(e)' = Standing(e)
BY DEF Standing

\* One event gets another standing, the others keep theirs.
LEMMA QueueStep ==
  ASSUME NEW e \in Events, \A x \in Events : x # e => row'[x].status = row[x].status
  PROVE  [x \in Events |-> Standing(x)]'
           = [[x \in Events |-> Standing(x)] EXCEPT ![e] = Standing(e)']
BY SameStanding

LEMMA EnqueueMaps ==
  ASSUME OutboxInv, OutboxInv', NEW e \in Events, Enqueue(e)
  PROVE  Queue!Enqueue(e)
<1>1. row[e].status = "absent" /\ row'[e].status = "pending"
  BY RowsOf DEF Enqueue, Present, OutboxInv, OutboxTypeOK, Row
<1>2. \A x \in Events : x # e => row'[x] = row[x]
  BY DEF Enqueue, OutboxInv, OutboxTypeOK
<1>3. Standing(e) = "absent" /\ Standing(e)' = "open"
  BY <1>1 DEF Standing
<1>4. QED
  BY <1>2, <1>3, QueueStep DEF Queue!Enqueue

\* An acknowledgement settles the event, leaves it open or changes nothing.
LEMMA AcknowledgeMaps ==
  ASSUME OutboxInv, NEW w \in Workers, Acknowledge(w)
  PROVE  \/ \E e \in Events : Queue!Settle(e, "done") \/ Queue!Settle(e, "dead")
         \/ UNCHANGED [e \in Events |-> Standing(e)]
<1> OutboxTypeOK
  BY DEF OutboxInv
<1>1. Busy(w)
  BY DEF Acknowledge, Complete, Fail, Busy
<1>2. PICK e \in Events : e = worker[w].event
  BY <1>1 DEF OutboxInv, ClaimsAreCurrent
<1>3. CASE ~ Owns(w)
  <2>1. UNCHANGED row
    BY <1>3 DEF Acknowledge, Complete, Fail
  <2>2. QED
    BY <2>1, SameStanding
<1>4. CASE Owns(w)
  <2>1. \A x \in Events : x # e => row'[x] = row[x]
    BY <1>2, <1>4 DEF Acknowledge, Complete, Fail, OutboxTypeOK
  <2>2. row'[e].status \in {"completed", "dead", "pending"}
    <3>1. CASE Complete(w)
      BY <1>2, <1>4, <3>1, SettledType DEF Complete, OutboxTypeOK
    <3>2. CASE Fail(w)
      <4>1. PICK status \in {"dead", "pending"} :
               row' = [row EXCEPT ![e] = [Settled(e, status) EXCEPT
                                            !.wait = RetryDelay(worker[w].attempts)]]
        BY <1>2, <1>4, <3>2 DEF Fail
      <4>2. Settled(e, status) \in Row /\ Settled(e, status).status = status
        BY <1>2, SettledType
      <4>3. QED
        BY <1>2, <4>1, <4>2 DEF OutboxTypeOK, Row
    <3>3. QED
      BY <3>1, <3>2 DEF Acknowledge
  <2>3. Standing(e) = "open"
    BY <1>2, <1>4 DEF Owns, Standing
  <2>4. Standing(e)' \in {"done", "dead", "open"}
    BY <2>2 DEF Standing
  <2>5. [x \in Events |-> Standing(x)]'
          = [[x \in Events |-> Standing(x)] EXCEPT ![e] = Standing(e)']
    BY <1>2, <2>1, QueueStep
  <2>6. [x \in Events |-> Standing(x)][e] = "open"
    BY <1>2, <2>3
  <2>7. CASE Standing(e)' = "open"
    BY <2>5, <2>6, <2>7, <1>2
  <2>8. CASE Standing(e)' = "done"
    BY <1>2, <2>5, <2>6, <2>8 DEF Queue!Settle
  <2>9. CASE Standing(e)' = "dead"
    BY <1>2, <2>5, <2>6, <2>9 DEF Queue!Settle
  <2>10. QED
    BY <2>4, <2>7, <2>8, <2>9
<1>5. QED
  BY <1>3, <1>4

LEMMA ClaimMaps ==
  ASSUME OutboxInv, NEW w \in Workers, Claim(w)
  PROVE  UNCHANGED [e \in Events |-> Standing(e)]
<1>1. PICK e \in Events :
         /\ row[e].status \in {"pending", "processing"}
         /\ row'[e].status = "processing"
         /\ \A x \in Events : x # e => row'[x] = row[x]
  BY ClaimEffect DEF OutboxInv
<1>2. Standing(e)' = Standing(e)
  BY <1>1 DEF Standing
<1>3. QED
  BY <1>1, <1>2, SameStanding

LEMMA TickMaps == ASSUME OutboxInv, Tick PROVE UNCHANGED [e \in Events |-> Standing(e)]
<1>1. ASSUME NEW e \in Events PROVE row'[e].status = row[e].status
  <2>1. row[e] \in Row
    BY RowsOf DEF OutboxInv
  <2>2. row'[e] = [row[e] EXCEPT !.wait = CountDown(@), !.lease = CountDown(@)]
    BY DEF Tick
  <2>3. QED
    BY <2>1, <2>2 DEF Row
<1>2. QED
  BY <1>1, SameStanding

(***************************************************************************)
(* The outbox implements the work queue: an enqueued event is settled at   *)
(* most once, as done or as dead, for any workers and any delays.          *)
(***************************************************************************)
THEOREM OutboxIsAWorkQueue == OutboxSpec => ImplementsWorkQueue
<1>1. OutboxInit => Queue!Init
  BY DEF OutboxInit, Queue!Init, Standing, NoRow
<1>2. ASSUME OutboxInv, OutboxInv', [OutboxNext]_outboxVars
      PROVE  [Queue!Next]_([e \in Events |-> Standing(e)])
  <2>1. ASSUME NEW w \in Workers, NEW ok \in BOOLEAN, Crash(w) \/ Poll(w) \/ Handle(w, ok)
        PROVE  UNCHANGED [e \in Events |-> Standing(e)]
    BY <2>1, SameStanding DEF Crash, Poll, Handle, outboxVars
  <2>2. CASE UNCHANGED outboxVars
    BY <2>2, SameStanding DEF outboxVars
  <2>3. QED
    BY <1>2, <2>1, <2>2, EnqueueMaps, AcknowledgeMaps, ClaimMaps, TickMaps
       DEF OutboxNext, Queue!Next
<1>3. QED
  BY <1>1, <1>2, OutboxIsSound, PTL DEF OutboxSpec, ImplementsWorkQueue, Queue!Spec

-----------------------------------------------------------------------------
(***************************************************************************)
(* The pipeline runs the outbox: whatever rebuilds, operators and the      *)
(* console do, its rows and workers behave as Outbox says.                 *)
(***************************************************************************)
LEMMA ReturnIsHandle ==
  ASSUME NEW p \in Rebuilders, NEW ok \in BOOLEAN, Return(p, ok)
  PROVE  [OutboxNext]_outboxVars
BY DEF Return, OutboxNext, Rebuilders

LEMMA OutboxRuns == ASSUME [SearchNext]_pipelineVars PROVE [OutboxNext]_outboxVars
<1>1. ASSUME NEW e \in Events, Publish(e) PROVE OutboxNext
  BY <1>1 DEF Publish, OutboxNext
<1>2. ASSUME NEW k \in PageNumbers, Change(k) PROVE UNCHANGED outboxVars
  BY <1>2 DEF Change
<1>3. ASSUME NEW w \in Workers, ClaimWork(w) \/ PollWork(w) \/ AcknowledgeWork(w) \/ CrashWorker(w)
      PROVE  OutboxNext
  BY <1>3 DEF ClaimWork, PollWork, AcknowledgeWork, CrashWorker, OutboxNext
<1>4. ASSUME NEW p \in Operators, StartReindex(p) PROVE UNCHANGED outboxVars
  BY <1>4 DEF StartReindex
<1>5. ASSUME NEW p \in Rebuilders, Drop(p) \/ Create(p) \/ ReadPage(p)
      PROVE  UNCHANGED outboxVars
  BY <1>5 DEF Drop, Create, ReadPage
<1>6. ASSUME NEW p \in Rebuilders, ImportBatch(p) \/ FailRebuild(p)
      PROVE  [OutboxNext]_outboxVars
  BY <1>6, ReturnIsHandle DEF ImportBatch, FailRebuild
<1>7. CASE TimePasses
  BY <1>7 DEF TimePasses, OutboxNext
<1>8. CASE UNCHANGED pipelineVars
  BY <1>8 DEF pipelineVars
<1>9. QED
  BY <1>1, <1>2, <1>3, <1>4, <1>5, <1>6, <1>7, <1>8 DEF SearchNext, RebuildStep

THEOREM PipelineRunsTheOutbox == SearchSpec => OutboxSpec
<1>1. SearchInit => OutboxInit
  BY DEF SearchInit
<1>2. QED
  BY <1>1, OutboxRuns, PTL DEF SearchSpec, OutboxSpec

(***************************************************************************)
(* A settled event is settled for good: no late acknowledgement, reclaim,  *)
(* retry or rebuild reopens it, turns done into dead or dead into done.    *)
(***************************************************************************)
SettledForGood ==
    [][\A e \in Events : Standing(e) \in {"done", "dead"} => Standing(e)' = Standing(e)]_row

\* The work queue allows it no other step.
LEMMA QueueKeepsSettled ==
  ASSUME [Queue!Next]_([e \in Events |-> Standing(e)]),
         NEW e \in Events, Standing(e) \in {"done", "dead"}
  PROVE  Standing(e)' = Standing(e)
<1> DEFINE now == [x \in Events |-> Standing(x)]
<1>1. now[e] = Standing(e) /\ now'[e] = Standing(e)'
  OBVIOUS
<1> HIDE DEF now
<1>2. ASSUME NEW x \in Events, NEW s, now[x] \in {"absent", "open"}, now' = [now EXCEPT ![x] = s]
      PROVE  now'[e] = now[e]
  BY <1>1, <1>2
<1>3. ASSUME NEW x \in Events, Queue!Enqueue(x) \/ Queue!Settle(x, "done") \/ Queue!Settle(x, "dead")
      PROVE  now'[e] = now[e]
  BY <1>2, <1>3 DEF Queue!Enqueue, Queue!Settle, now
<1>4. CASE UNCHANGED [x \in Events |-> Standing(x)]
  BY <1>1, <1>4 DEF now
<1>5. QED
  BY <1>1, <1>3, <1>4 DEF Queue!Next

(***************************************************************************)
(* Under the pipeline as under the outbox alone: an event is settled once  *)
(* and for good, and only by the claim that holds it.                      *)
(***************************************************************************)
THEOREM SettledStaysSettled == SearchSpec => ImplementsWorkQueue /\ SettledForGood /\ AcksAreCurrent
<1>1. [Queue!Next]_([e \in Events |-> Standing(e)])
        => [\A e \in Events : Standing(e) \in {"done", "dead"} => Standing(e)' = Standing(e)]_row
  BY QueueKeepsSettled
<1>2. ImplementsWorkQueue => SettledForGood
  BY <1>1, PTL DEF ImplementsWorkQueue, SettledForGood, Queue!Spec
<1>3. QED
  BY <1>2, PipelineRunsTheOutbox, OutboxIsAWorkQueue, LateAcksAreHarmless, PTL

-----------------------------------------------------------------------------
(***************************************************************************)
(* What the steps do to the rebuilds and the index.                        *)
(***************************************************************************)
LEMMA Constants ==
  /\ 1 \in PageNumbers /\ Pages \in PageNumbers
  /\ NoDocs \in Content /\ \A k \in PageNumbers : NoDocs[k] = 0
  /\ NoRebuild \in Rebuild /\ NoRebuild.pc = "none" /\ NoRebuild.next = 1
BY DEF PageNumbers, NoDocs, Content, NoRebuild, Rebuild

\* One rebuild moves on; the others stay.
LEMMA ReplaceRebuild ==
  ASSUME SearchTypeOK, NEW p \in Rebuilders, NEW new \in Rebuild,
         rebuild' = [rebuild EXCEPT ![p] = new]
  PROVE  /\ rebuild' \in [Rebuilders -> Rebuild]
         /\ rebuild'[p] = new
         /\ \A q \in Rebuilders : q # p => rebuild'[q] = rebuild[q]
BY DEF SearchTypeOK

\* A rebuild that is about to drop the collection.
LEMMA ReadyType ==
  /\ [NoRebuild EXCEPT !.pc = "drop"] \in Rebuild
  /\ [NoRebuild EXCEPT !.pc = "drop"].pc = "drop"
  /\ [NoRebuild EXCEPT !.pc = "drop"].next = 1
BY Constants DEF NoRebuild, Rebuild

LEMMA BegunType ==
  ASSUME NEW p
  PROVE  /\ Begun(p) \in [built : BOOLEAN, changed : SUBSET PageNumbers, shared : BOOLEAN,
                           held : BOOLEAN]
         /\ Begun(p).built = FALSE
         /\ Begun(p).changed = {}
         /\ Begun(p).shared <=> \E q \in Rebuilders \ {p} : Running(q)
BY DEF Begun, Owns

LEMMA DropEffect ==
  ASSUME SearchTypeOK, NEW p \in Rebuilders, Drop(p)
  PROVE  \E new \in Rebuild :
           /\ rebuild[p].pc = "drop" /\ new.pc = "create" /\ new.next = rebuild[p].next
           /\ rebuild' = [rebuild EXCEPT ![p] = new]
<1>1. rebuild[p] \in Rebuild
  BY DEF SearchTypeOK
<1> DEFINE new == [rebuild[p] EXCEPT !.pc = "create"]
<1>2. new \in Rebuild /\ new.pc = "create" /\ new.next = rebuild[p].next
  BY <1>1 DEF Rebuild
<1>3. rebuild[p].pc = "drop" /\ rebuild' = [rebuild EXCEPT ![p] = new]
  BY DEF Drop, SearchTypeOK
<1>4. QED
  BY <1>2, <1>3

LEMMA CreateEffect ==
  ASSUME SearchTypeOK, NEW p \in Rebuilders, Create(p)
  PROVE  \E new \in Rebuild :
           /\ rebuild[p].pc = "create" /\ new.pc = "read" /\ new.next = rebuild[p].next
           /\ rebuild' = [rebuild EXCEPT ![p] = new]
<1>1. rebuild[p] \in Rebuild
  BY DEF SearchTypeOK
<1> DEFINE new == [rebuild[p] EXCEPT !.pc = "read"]
<1>2. new \in Rebuild /\ new.pc = "read" /\ new.next = rebuild[p].next
  BY <1>1 DEF Rebuild
<1>3. rebuild[p].pc = "create" /\ rebuild' = [rebuild EXCEPT ![p] = new]
  BY DEF Create, SearchTypeOK
<1>4. QED
  BY <1>2, <1>3

LEMMA ReadEffect ==
  ASSUME SearchTypeOK, NEW p \in Rebuilders, ReadPage(p)
  PROVE  \E new \in Rebuild :
           LET k == rebuild[p].next
           IN /\ rebuild[p].pc = "read" /\ k \in PageNumbers
              /\ new.docs = [rebuild[p].docs EXCEPT ![k] = db[k]]
              /\ k < Pages => new.pc = "read" /\ new.next = k + 1
              /\ k >= Pages => new.pc = "import" /\ new.next = 1
              /\ rebuild' = [rebuild EXCEPT ![p] = new]
<1>1. rebuild[p] \in Rebuild /\ db \in Content
  BY DEF SearchTypeOK
<1> DEFINE k == rebuild[p].next
           read == [rebuild[p] EXCEPT !.docs[k] = db[k]]
           new == IF k < Pages THEN [read EXCEPT !.next = k + 1]
                               ELSE [read EXCEPT !.pc = "import", !.next = 1]
<1>2. k \in PageNumbers /\ rebuild[p].docs \in Content /\ rebuild[p].pc = "read"
  BY <1>1 DEF Rebuild, ReadPage
<1>3. [rebuild[p].docs EXCEPT ![k] = db[k]] \in Content
  BY <1>1, <1>2 DEF Content
<1>4. /\ read \in Rebuild /\ read.pc = "read"
      /\ read.docs = [rebuild[p].docs EXCEPT ![k] = db[k]]
  BY <1>1, <1>2, <1>3 DEF Rebuild
<1> HIDE DEF read
<1>5. k < Pages => k + 1 \in PageNumbers
  BY <1>2 DEF PageNumbers
<1>6. /\ new \in Rebuild /\ new.docs = read.docs
      /\ k < Pages => new.pc = "read" /\ new.next = k + 1
      /\ k >= Pages => new.pc = "import" /\ new.next = 1
  <2>1. CASE k < Pages
    BY <1>2, <1>4, <1>5, <2>1 DEF Rebuild, PageNumbers
  <2>2. CASE ~ (k < Pages)
    BY <1>2, <1>4, <2>2, Constants DEF Rebuild, PageNumbers
  <2>3. QED
    BY <2>1, <2>2
<1>7. rebuild' = [rebuild EXCEPT ![p] = new]
  BY DEF ReadPage, SearchTypeOK, read
<1> HIDE DEF new
<1>8. QED
  BY <1>2, <1>4, <1>6, <1>7

LEMMA UpsertedType ==
  ASSUME SearchTypeOK, NEW p \in Rebuilders
  PROVE  /\ Upserted(p) \in [exists : BOOLEAN, docs : Content]
         /\ Upserted(p).exists = index.exists
         /\ \A k \in PageNumbers :
               Upserted(p).docs[k] =
                 IF k = rebuild[p].next /\ rebuild[p].docs[k] # 0 THEN rebuild[p].docs[k]
                 ELSE index.docs[k]
<1> DEFINE k == rebuild[p].next
           doc == IF rebuild[p].docs[k] # 0 THEN rebuild[p].docs[k] ELSE index.docs[k]
<1>1. /\ rebuild[p] \in Rebuild /\ index \in [exists : BOOLEAN, docs : Content]
      /\ k \in PageNumbers
  BY DEF SearchTypeOK, Rebuild
<1>2. index.docs \in Content /\ rebuild[p].docs \in Content
  BY <1>1 DEF Rebuild
<1>3. doc \in Nat
  BY <1>1, <1>2 DEF Content
<1>4. Upserted(p) = [index EXCEPT !.docs = [index.docs EXCEPT ![k] = doc]]
  BY <1>1 DEF Upserted
<1>5. [index.docs EXCEPT ![k] = doc] \in Content
  BY <1>2, <1>3 DEF Content
<1>6. \A j \in PageNumbers :
        [index.docs EXCEPT ![k] = doc][j] = IF j = k THEN doc ELSE index.docs[j]
  BY <1>2 DEF Content
<1> HIDE DEF doc
<1>7. /\ Upserted(p) \in [exists : BOOLEAN, docs : Content]
      /\ Upserted(p).exists = index.exists
      /\ Upserted(p).docs = [index.docs EXCEPT ![k] = doc]
  BY <1>1, <1>4, <1>5
<1>8. QED
  BY <1>6, <1>7 DEF doc
LEMMA ImportEffect ==
  ASSUME SearchTypeOK, NEW p \in Rebuilders, ImportBatch(p)
  PROVE  \E new \in Rebuild :
           /\ rebuild[p].pc = "import" /\ rebuild[p].next \in PageNumbers
           /\ index' = Upserted(p) /\ UNCHANGED <<db, changes>>
           /\ rebuild' = [rebuild EXCEPT ![p] = new]
           /\ \/ /\ rebuild[p].next < Pages
                 /\ new.pc = "import" /\ new.next = rebuild[p].next + 1
                 /\ new.docs = rebuild[p].docs /\ UNCHANGED last
              \/ /\ rebuild[p].next = Pages
                 /\ new.pc = "none" /\ last' = [last EXCEPT !.built = TRUE]
<1>1. rebuild[p] \in Rebuild /\ rebuild[p].next \in PageNumbers
  BY DEF SearchTypeOK, Rebuild
<1>2. rebuild[p].pc = "import" /\ index' = Upserted(p) /\ UNCHANGED <<db, changes>>
  BY DEF ImportBatch
<1>3. CASE rebuild[p].next < Pages
  <2> DEFINE new == [rebuild[p] EXCEPT !.next = rebuild[p].next + 1]
  <2>1. rebuild[p].next + 1 \in PageNumbers
    BY <1>1, <1>3 DEF PageNumbers
  <2>2. /\ new \in Rebuild /\ new.pc = "import" /\ new.next = rebuild[p].next + 1
        /\ new.docs = rebuild[p].docs
    BY <1>1, <1>2, <2>1 DEF Rebuild
  <2>3. rebuild' = [rebuild EXCEPT ![p] = new] /\ UNCHANGED last
    BY <1>3 DEF ImportBatch, SearchTypeOK
  <2> HIDE DEF new
  <2>4. QED
    BY <1>1, <1>2, <1>3, <2>2, <2>3
<1>4. CASE ~ (rebuild[p].next < Pages)
  <2>1. rebuild[p].next = Pages
    BY <1>1, <1>4 DEF PageNumbers
  <2>2. rebuild' = [rebuild EXCEPT ![p] = NoRebuild] /\ last' = [last EXCEPT !.built = TRUE]
    BY <1>4 DEF ImportBatch, Return
  <2>3. QED
    BY <1>1, <1>2, <2>1, <2>2, Constants
<1>5. QED
  BY <1>3, <1>4

LEMMA ServedType ==
  ASSUME SearchTypeOK, NEW p \in Rebuilders
  PROVE  Served(p) \in [exists : BOOLEAN, docs : Content]
<1>1. index \in [exists : BOOLEAN, docs : Content]
  BY DEF SearchTypeOK
<1>2. [index EXCEPT !.exists = TRUE] \in [exists : BOOLEAN, docs : Content]
  BY <1>1
<1>3. [exists |-> FALSE, docs |-> NoDocs] \in [exists : BOOLEAN, docs : Content]
  BY Constants
<1>4. QED
  BY <1>1, <1>2, <1>3, UpsertedType DEF Served

\* A rebuild goes back to its start or ends, in a worker or an operator.
LEMMA Stops ==
  ASSUME SearchNext
  PROVE  \/ UNCHANGED <<rebuild, index, last>> /\ UNCHANGED <<db, changes>>
         \/ \E k \in PageNumbers : Change(k)
         \/ \E p \in Rebuilders : Drop(p) \/ Create(p) \/ ReadPage(p) \/ ImportBatch(p)
         \/ \E p \in Rebuilders, new \in {NoRebuild, [NoRebuild EXCEPT !.pc = "drop"]} :
               /\ rebuild' = [rebuild EXCEPT ![p] = new] /\ UNCHANGED <<db, changes>>
               /\ \/ UNCHANGED <<index, last>>
                  \/ /\ new = NoRebuild /\ index' = Served(p)
                     /\ last' = IF rebuild[p].pc = "drop" THEN Begun(p) ELSE last
<1>1. ASSUME NEW w \in Workers, ClaimWork(w) \/ CrashWorker(w)
      PROVE  \E p \in Rebuilders, new \in {NoRebuild, [NoRebuild EXCEPT !.pc = "drop"]} :
               /\ rebuild' = [rebuild EXCEPT ![p] = new] /\ UNCHANGED <<db, changes>>
               /\ UNCHANGED <<index, last>>
  BY <1>1 DEF ClaimWork, CrashWorker, Rebuilders
<1>2. ASSUME NEW p \in Operators, StartReindex(p)
      PROVE  /\ p \in Rebuilders
             /\ rebuild' = [rebuild EXCEPT ![p] = [NoRebuild EXCEPT !.pc = "drop"]]
             /\ UNCHANGED <<db, changes, index, last>>
  BY <1>2 DEF StartReindex, Rebuilders
<1>3. ASSUME NEW p \in Rebuilders, FailRebuild(p)
      PROVE  /\ rebuild' = [rebuild EXCEPT ![p] = NoRebuild] /\ UNCHANGED <<db, changes>>
             /\ \/ UNCHANGED <<index, last>>
                \/ /\ index' = Served(p)
                   /\ last' = IF rebuild[p].pc = "drop" THEN Begun(p) ELSE last
  BY <1>3 DEF FailRebuild, Return
<1>4. ASSUME NEW e \in Events, Publish(e)
      PROVE  UNCHANGED <<rebuild, index, last, db, changes>>
  BY <1>4 DEF Publish, searchVars
<1>5. ASSUME NEW w \in Workers, PollWork(w) \/ AcknowledgeWork(w)
      PROVE  UNCHANGED <<rebuild, index, last, db, changes>>
  BY <1>5 DEF PollWork, AcknowledgeWork, searchVars
<1>6. CASE TimePasses
  BY <1>6 DEF TimePasses, searchVars
<1>7. QED
  BY <1>1, <1>2, <1>3, <1>4, <1>5, <1>6 DEF SearchNext, RebuildStep

LEMMA SearchTypeStep ==
  ASSUME SearchTypeOK, OutboxTypeOK', [SearchNext]_pipelineVars
  PROVE  SearchTypeOK'
<1>1. CASE UNCHANGED <<rebuild, index, last, db, changes>>
  BY <1>1 DEF SearchTypeOK
<1>2. ASSUME NEW k \in PageNumbers, Change(k) PROVE SearchTypeOK'
  <2>1. changes \in Nat /\ db \in Content
    BY DEF SearchTypeOK
  <2>2. db' \in Content /\ changes' \in Nat
    <3>1. 0 \in Nat /\ changes + 1 \in Nat /\ changes + 2 \in Nat
      BY <2>1
    <3>2. \A n \in Nat : [db EXCEPT ![k] = n] \in Content
      BY <2>1 DEF Content
    <3>3. QED
      BY <1>2, <3>1, <3>2 DEF Change
  <2>3. /\ last' \in [built : BOOLEAN, changed : SUBSET PageNumbers, shared : BOOLEAN,
                      held : BOOLEAN]
        /\ UNCHANGED <<index, rebuild>>
    BY <1>2 DEF Change, SearchTypeOK
  <2>4. QED
    BY <2>2, <2>3 DEF SearchTypeOK
<1>3. ASSUME NEW p \in Rebuilders, Drop(p) PROVE SearchTypeOK'
  <2>1. rebuild' \in [Rebuilders -> Rebuild]
    BY <1>3, DropEffect, ReplaceRebuild
  <2>2. index' = [exists |-> FALSE, docs |-> NoDocs] /\ last' = Begun(p) /\ UNCHANGED <<db, changes>>
    BY <1>3 DEF Drop
  <2>3. index' \in [exists : BOOLEAN, docs : Content]
    BY <2>2, Constants
  <2>4. last' \in [built : BOOLEAN, changed : SUBSET PageNumbers, shared : BOOLEAN,
                   held : BOOLEAN]
    BY <2>2, BegunType
  <2>5. QED
    BY <2>1, <2>2, <2>3, <2>4 DEF SearchTypeOK
<1>4. ASSUME NEW p \in Rebuilders, Create(p) PROVE SearchTypeOK'
  <2>1. rebuild' \in [Rebuilders -> Rebuild]
    BY <1>4, CreateEffect, ReplaceRebuild
  <2>2. index' = [index EXCEPT !.exists = TRUE] /\ UNCHANGED <<db, changes, last>>
    BY <1>4 DEF Create
  <2>3. QED
    BY <2>1, <2>2 DEF SearchTypeOK
<1>5. ASSUME NEW p \in Rebuilders, ReadPage(p) PROVE SearchTypeOK'
  <2>1. rebuild' \in [Rebuilders -> Rebuild]
    BY <1>5, ReadEffect, ReplaceRebuild
  <2>2. UNCHANGED <<db, index, changes, last>>
    BY <1>5 DEF ReadPage
  <2>3. QED
    BY <2>1, <2>2 DEF SearchTypeOK
<1>6. ASSUME NEW p \in Rebuilders, ImportBatch(p) PROVE SearchTypeOK'
  <2>1. /\ rebuild' \in [Rebuilders -> Rebuild] /\ index' = Upserted(p)
        /\ UNCHANGED <<db, changes>> /\ last' \in {last, [last EXCEPT !.built = TRUE]}
    BY <1>6, ImportEffect, ReplaceRebuild
  <2>2. QED
    BY <2>1, UpsertedType DEF SearchTypeOK
<1>7. ASSUME NEW p \in Rebuilders, NEW new \in {NoRebuild, [NoRebuild EXCEPT !.pc = "drop"]},
             rebuild' = [rebuild EXCEPT ![p] = new], UNCHANGED <<db, changes>>,
             \/ UNCHANGED <<index, last>>
             \/ index' = Served(p) /\ last' \in {Begun(p), last}
      PROVE  SearchTypeOK'
  <2>1. rebuild' \in [Rebuilders -> Rebuild]
    BY <1>7, ReplaceRebuild, Constants, ReadyType
  <2>2. index' \in [exists : BOOLEAN, docs : Content]
    BY <1>7, ServedType DEF SearchTypeOK
  <2>3. last' \in [built : BOOLEAN, changed : SUBSET PageNumbers, shared : BOOLEAN,
                   held : BOOLEAN]
    BY <1>7, BegunType DEF SearchTypeOK
  <2>4. db' \in Content /\ changes' \in Nat
    BY <1>7 DEF SearchTypeOK
  <2>5. QED
    BY <2>1, <2>2, <2>3, <2>4 DEF SearchTypeOK
<1>8. CASE UNCHANGED pipelineVars
  BY <1>1, <1>8 DEF pipelineVars, searchVars
<1>9. QED
  BY <1>1, <1>2, <1>3, <1>4, <1>5, <1>6, <1>7, <1>8, Stops
LEMMA SearchInitType == ASSUME SearchInit, OutboxTypeOK PROVE SearchTypeOK
<1>1. db \in Content /\ index \in [exists : BOOLEAN, docs : Content]
  BY DEF SearchInit, Content
<1>2. rebuild \in [Rebuilders -> Rebuild] /\ changes \in Nat
  BY Constants DEF SearchInit
<1>3. last \in [built : BOOLEAN, changed : SUBSET PageNumbers, shared : BOOLEAN,
                held : BOOLEAN]
  BY DEF SearchInit
<1>4. QED
  BY <1>1, <1>2, <1>3 DEF SearchTypeOK

(***************************************************************************)
(* The pipeline's state stays well typed.                                  *)
(***************************************************************************)
THEOREM SearchTypeCorrect == SearchSpec => []SearchTypeOK
<1>1. SearchSpec => []OutboxTypeOK
  BY PipelineRunsTheOutbox, TypeCorrect, PTL
<1>2. QED
  BY <1>1, SearchInitType, SearchTypeStep, PTL DEF SearchSpec

-----------------------------------------------------------------------------
(***************************************************************************)
(* A rebuild that is alone.                                                *)
(***************************************************************************)
\* A rebuild that was alone stops or starts over: nothing is under way.
LEMMA StopKeeps ==
  ASSUME SearchTypeOK, LoneRebuildInv, NEW p \in Rebuilders,
         NEW new \in {NoRebuild, [NoRebuild EXCEPT !.pc = "drop"]},
         rebuild' = [rebuild EXCEPT ![p] = new], UNCHANGED <<db, last>>,
         Running(p) \/ UNCHANGED index
  PROVE  LoneRebuildInv'
<1>1. new \in Rebuild /\ new.pc \in {"none", "drop"} /\ new.next = 1
  BY Constants, ReadyType
<1>2. /\ rebuild'[p] = new
      /\ \A q \in Rebuilders : q # p => rebuild'[q] = rebuild[q]
  BY <1>1, ReplaceRebuild
<1>3. ~ Running(p)' /\ \A q \in Rebuilders : q # p => (Running(q)' <=> Running(q))
  BY <1>1, <1>2 DEF Running
<1>4. \A q \in Rebuilders : rebuild'[q].pc = "drop" => rebuild'[q].next = 1
  BY <1>1, <1>2 DEF LoneRebuildInv
<1>5. ASSUME ~ last.shared
      PROVE  /\ \A q, r \in Rebuilders : Running(q)' /\ Running(r)' => q = r
             /\ \A q \in Rebuilders : Running(q)' => ~ last'.built /\ Progress(q)'
             /\ Resting' /\ last'.built => Fresh'
  <2>1. CASE Running(p)
    <3>1. \A q \in Rebuilders : ~ Running(q)'
      BY <1>3, <1>5, <2>1 DEF LoneRebuildInv
    <3>2. ~ last'.built
      BY <1>5, <2>1 DEF LoneRebuildInv
    <3>3. QED
      BY <3>1, <3>2
  <2>2. CASE ~ Running(p)
    <3>1. UNCHANGED index /\ \A q \in Rebuilders : Running(q)' <=> Running(q)
      BY <1>3, <2>2
    <3>2. \A q \in Rebuilders : Running(q)' => Progress(q)'
      <4> SUFFICES ASSUME NEW q \in Rebuilders, Running(q) PROVE Progress(q)'
        BY <3>1
      <4>1. Progress(q) /\ rebuild'[q] = rebuild[q]
        BY <1>2, <1>5, <2>2 DEF LoneRebuildInv
      <4>2. QED
        BY <3>1, <4>1 DEF Progress
    <3>3. Resting' /\ last'.built => Fresh'
      BY <1>5, <3>1 DEF LoneRebuildInv, Resting, Fresh
    <3>4. QED
      BY <1>5, <3>1, <3>2, <3>3 DEF LoneRebuildInv
  <2>3. QED
    BY <2>1, <2>2
<1>6. QED
  BY <1>4, <1>5 DEF LoneRebuildInv

\* The collection is dropped, by a rebuild that goes on or is cut short.
LEMMA DropKeeps ==
  ASSUME SearchTypeOK, LoneRebuildInv, NEW p \in Rebuilders, rebuild[p].pc = "drop",
         NEW new \in Rebuild, new.pc \in {"none", "create"}, new.next = 1,
         rebuild' = [rebuild EXCEPT ![p] = new], UNCHANGED db,
         index' = [exists |-> FALSE, docs |-> NoDocs], last' = Begun(p)
  PROVE  LoneRebuildInv'
<1>1. /\ rebuild'[p] = new
      /\ \A q \in Rebuilders : q # p => rebuild'[q] = rebuild[q]
  BY ReplaceRebuild
<1>2. \A q \in Rebuilders : q # p => (Running(q)' <=> Running(q))
  BY <1>1 DEF Running
<1>3. \A q \in Rebuilders : rebuild'[q].pc = "drop" => rebuild'[q].next = 1
  BY <1>1 DEF LoneRebuildInv
<1>4. ASSUME ~ last'.shared
      PROVE  /\ \A q \in Rebuilders : q # p => ~ Running(q)'
             /\ Running(p)' => ~ last'.built /\ Progress(p)'
             /\ ~ last'.built
  <2>1. ~ last'.built /\ \A q \in Rebuilders : q # p => ~ Running(q)
    BY <1>4, BegunType
  <2>2. Running(p)' => Progress(p)'
    BY <1>1 DEF Progress, Running
  <2>3. QED
    BY <1>2, <2>1, <2>2
<1>5. QED
  BY <1>3, <1>4 DEF LoneRebuildInv
\* A rebuild under way makes progress.
LEMMA AdvanceKeeps ==
  ASSUME SearchTypeOK, LoneRebuildInv, NEW p \in Rebuilders, Running(p),
         NEW new \in Rebuild, new.pc \in {"read", "import"},
         rebuild' = [rebuild EXCEPT ![p] = new], UNCHANGED <<db, last>>,
         Progress(p) => Progress(p)'
  PROVE  LoneRebuildInv'
<1>1. /\ rebuild'[p] = new
      /\ \A q \in Rebuilders : q # p => rebuild'[q] = rebuild[q]
  BY ReplaceRebuild
<1>2. Running(p)' /\ \A q \in Rebuilders : Running(q)' <=> Running(q)
  BY <1>1 DEF Running
<1>3. \A q \in Rebuilders : rebuild'[q].pc = "drop" => rebuild'[q].next = 1
  BY <1>1 DEF LoneRebuildInv
<1>4. ASSUME ~ last.shared
      PROVE  /\ \A q \in Rebuilders : Running(q)' => q = p
             /\ Progress(p)' /\ ~ last'.built
  BY <1>2, <1>4 DEF LoneRebuildInv
<1>5. QED
  BY <1>3, <1>4 DEF LoneRebuildInv

LEMMA CreateKeeps ==
  ASSUME SearchTypeOK, LoneRebuildInv, NEW p \in Rebuilders, Create(p)
  PROVE  LoneRebuildInv'
<1>1. PICK new \in Rebuild :
           /\ rebuild[p].pc = "create" /\ new.pc = "read" /\ new.next = rebuild[p].next
           /\ rebuild' = [rebuild EXCEPT ![p] = new]
  BY CreateEffect
<1>2. rebuild'[p] = new
  BY <1>1, ReplaceRebuild
<1>3. index' = [index EXCEPT !.exists = TRUE] /\ UNCHANGED <<db, last>>
  BY DEF Create
<1>4. index'.exists /\ index'.docs = index.docs
  BY <1>3 DEF SearchTypeOK
<1>5. ASSUME Progress(p) PROVE Progress(p)'
  <2>1. new.next = 1 /\ index'.docs = NoDocs
    BY <1>1, <1>4, <1>5 DEF Progress
  <2>2. 1..(new.next - 1) = {}
    BY <2>1
  <2>3. QED
    BY <1>1, <1>2, <1>4, <2>1, <2>2 DEF Progress
<1>6. QED
  BY <1>1, <1>3, <1>5, AdvanceKeeps DEF Running

LEMMA ReadKeeps ==
  ASSUME SearchTypeOK, LoneRebuildInv, NEW p \in Rebuilders, ReadPage(p)
  PROVE  LoneRebuildInv'
<1> DEFINE k == rebuild[p].next
<1>1. PICK new \in Rebuild :
           /\ rebuild[p].pc = "read" /\ k \in PageNumbers
           /\ new.docs = [rebuild[p].docs EXCEPT ![k] = db[k]]
           /\ k < Pages => new.pc = "read" /\ new.next = k + 1
           /\ k >= Pages => new.pc = "import" /\ new.next = 1
           /\ rebuild' = [rebuild EXCEPT ![p] = new]
  BY ReadEffect
<1>2. rebuild'[p] = new
  BY <1>1, ReplaceRebuild
<1>3. UNCHANGED <<db, index, last>>
  BY DEF ReadPage
<1>4. rebuild[p].docs \in Content
  BY DEF SearchTypeOK, Rebuild
<1>5. ASSUME Progress(p) PROVE Progress(p)'
  <2>1. /\ index.exists /\ index.docs = NoDocs
        /\ \A j \in 1..(k - 1) : j \notin last.changed => rebuild[p].docs[j] = db[j]
    BY <1>1, <1>5 DEF Progress
  <2>2. \A j \in 1..k : j \notin last.changed => new.docs[j] = db[j]
    <3>1. \A j \in PageNumbers : new.docs[j] = IF j = k THEN db[k] ELSE rebuild[p].docs[j]
      BY <1>1, <1>4 DEF Content
    <3>2. \A j \in 1..k : j \in PageNumbers /\ (j = k \/ j \in 1..(k - 1))
      BY <1>1 DEF PageNumbers
    <3>3. QED
      BY <2>1, <3>1, <3>2
  <2>3. CASE k < Pages
    <3>1. new.next - 1 = k /\ new.pc = "read"
      BY <1>1, <2>3 DEF PageNumbers
    <3>2. QED
      BY <1>2, <1>3, <2>1, <2>2, <3>1 DEF Progress
  <2>4. CASE ~ (k < Pages)
    <3>1. k = Pages /\ new.pc = "import" /\ new.next = 1
      BY <1>1, <2>4 DEF PageNumbers
    <3>2. \A j \in PageNumbers : j \in 1..k /\ ~ (j < new.next) /\ index.docs[j] = 0
      BY <2>1, <3>1, Constants DEF PageNumbers
    <3>3. QED
      BY <1>2, <1>3, <2>1, <2>2, <3>1, <3>2 DEF Progress
  <2>5. QED
    BY <2>3, <2>4
<1>6. new.pc \in {"read", "import"}
  BY <1>1 DEF PageNumbers
<1>7. QED
  BY <1>1, <1>3, <1>5, <1>6, AdvanceKeeps DEF Running

\* What a batch leaves of a collection that only this rebuild fills.
LEMMA Imported ==
  ASSUME SearchTypeOK, NEW p \in Rebuilders, rebuild[p].pc = "import", Progress(p)
  PROVE  \A j \in PageNumbers :
           Upserted(p).docs[j] = IF j <= rebuild[p].next THEN rebuild[p].docs[j] ELSE 0
<1>1. \A j \in PageNumbers : index.docs[j] = IF j < rebuild[p].next THEN rebuild[p].docs[j] ELSE 0
  BY DEF Progress
<1>2. rebuild[p].next \in PageNumbers /\ rebuild[p].docs \in Content
  BY DEF SearchTypeOK, Rebuild
<1>3. TAKE j \in PageNumbers
<1>4. CASE j = rebuild[p].next
  BY <1>1, <1>2, <1>4, UpsertedType DEF PageNumbers
<1>5. CASE j # rebuild[p].next
  <2>1. Upserted(p).docs[j] = index.docs[j]
    BY <1>5, UpsertedType
  <2>2. j <= rebuild[p].next <=> j < rebuild[p].next
    BY <1>2, <1>5 DEF PageNumbers
  <2>3. QED
    BY <1>1, <2>1, <2>2
<1>6. QED
  BY <1>4, <1>5
LEMMA ImportKeeps ==
  ASSUME SearchTypeOK, LoneRebuildInv, NEW p \in Rebuilders, ImportBatch(p)
  PROVE  LoneRebuildInv'
<1>1. PICK new \in Rebuild :
           /\ rebuild[p].pc = "import" /\ rebuild[p].next \in PageNumbers
           /\ index' = Upserted(p) /\ UNCHANGED <<db, changes>>
           /\ rebuild' = [rebuild EXCEPT ![p] = new]
           /\ \/ /\ rebuild[p].next < Pages
                 /\ new.pc = "import" /\ new.next = rebuild[p].next + 1
                 /\ new.docs = rebuild[p].docs /\ UNCHANGED last
              \/ /\ rebuild[p].next = Pages
                 /\ new.pc = "none" /\ last' = [last EXCEPT !.built = TRUE]
  BY ImportEffect
<1>2. /\ rebuild'[p] = new
      /\ \A q \in Rebuilders : q # p => rebuild'[q] = rebuild[q]
  BY <1>1, ReplaceRebuild
<1>3. Running(p)
  BY <1>1 DEF Running
<1>4. ASSUME Progress(p)
      PROVE  /\ index'.exists
             /\ \A j \in PageNumbers : j \notin last.changed => rebuild[p].docs[j] = db[j]
             /\ \A j \in PageNumbers :
                   index'.docs[j] = IF j <= rebuild[p].next THEN rebuild[p].docs[j] ELSE 0
  <2>1. /\ index.exists
        /\ \A j \in PageNumbers : j \notin last.changed => rebuild[p].docs[j] = db[j]
    BY <1>1, <1>4 DEF Progress
  <2>2. QED
    BY <1>1, <1>4, <2>1, Imported, UpsertedType
<1>5. CASE rebuild[p].next < Pages /\ UNCHANGED last
  <2>1. /\ new.pc = "import" /\ new.next = rebuild[p].next + 1
        /\ new.docs = rebuild[p].docs
    BY <1>1, <1>5
  <2>2. ASSUME Progress(p) PROVE Progress(p)'
    <3>1. \A j \in PageNumbers : j <= rebuild[p].next <=> j < new.next
      BY <1>1, <2>1 DEF PageNumbers
    <3>2. \A j \in PageNumbers : index'.docs[j] = IF j < new.next THEN new.docs[j] ELSE 0
      BY <1>4, <2>1, <2>2, <3>1
    <3>3. QED
      BY <1>1, <1>2, <1>4, <1>5, <2>1, <2>2, <3>2 DEF Progress
  <2>3. QED
    BY <1>1, <1>3, <1>5, <2>1, <2>2, AdvanceKeeps
<1>6. CASE rebuild[p].next = Pages /\ new.pc = "none" /\ last' = [last EXCEPT !.built = TRUE]
  <2>1. last'.shared = last.shared /\ last'.changed = last.changed
    BY <1>6 DEF SearchTypeOK
  <2>2. \A q \in Rebuilders : rebuild'[q].pc = "drop" => rebuild'[q].next = 1
    BY <1>2, <1>6 DEF LoneRebuildInv
  <2>3. ASSUME ~ last.shared
        PROVE  Fresh' /\ \A q \in Rebuilders : ~ Running(q)'
    <3>1. Progress(p) /\ \A q \in Rebuilders : Running(q) => q = p
      BY <1>3, <2>3 DEF LoneRebuildInv
    <3>2. \A q \in Rebuilders : ~ Running(q)'
      BY <1>2, <1>6, <3>1 DEF Running
    <3>3. \A j \in PageNumbers : j <= rebuild[p].next
      BY <1>6 DEF PageNumbers
    <3>4. Fresh'
      BY <1>1, <1>4, <2>1, <3>1, <3>3 DEF Fresh
    <3>5. QED
      BY <3>2, <3>4
  <2>4. QED
    BY <2>1, <2>2, <2>3 DEF LoneRebuildInv
<1>7. QED
  BY <1>1, <1>5, <1>6

\* A page that changes is one the last rebuild is not answerable for.
LEMMA ChangeKeeps ==
  ASSUME SearchTypeOK, LoneRebuildInv, NEW k \in PageNumbers, Change(k)
  PROVE  LoneRebuildInv'
<1>1. /\ last'.built = last.built /\ last'.shared = last.shared
      /\ last'.changed = last.changed \cup {k} /\ UNCHANGED <<index, rebuild>>
  BY DEF Change, SearchTypeOK
<1>2. \A j \in PageNumbers : j # k => db'[j] = db[j]
  <2>1. PICK n : db' = [db EXCEPT ![k] = n]
    BY DEF Change
  <2>2. QED
    BY <2>1 DEF SearchTypeOK, Content
<1>3. \A q \in Rebuilders : Running(q)' <=> Running(q)
  BY <1>1 DEF Running
<1>4. ASSUME NEW q \in Rebuilders, Progress(q) PROVE Progress(q)'
  <2>1. \A j \in PageNumbers :
          (j \notin last.changed => rebuild[q].docs[j] = db[j])
            => (j \notin last'.changed => rebuild'[q].docs[j] = db'[j])
    BY <1>1, <1>2
  <2>2. rebuild[q].next \in PageNumbers
    BY DEF SearchTypeOK, Rebuild
  <2>3. \A j \in 1..(rebuild[q].next - 1) : j \in PageNumbers
    BY <2>2 DEF PageNumbers
  <2>4. CASE rebuild[q].pc = "create"
    BY <1>1, <1>4, <2>4 DEF Progress
  <2>5. CASE rebuild[q].pc = "read"
    BY <1>1, <1>4, <2>1, <2>3, <2>5 DEF Progress
  <2>6. CASE rebuild[q].pc = "import"
    BY <1>1, <1>4, <2>1, <2>6 DEF Progress
  <2>7. QED
    BY <1>4, <2>4, <2>5, <2>6 DEF Progress
<1>5. Fresh => Fresh'
  BY <1>1, <1>2 DEF Fresh
<1>6. Resting' <=> Resting
  BY <1>3 DEF Resting
<1>7. QED
  BY <1>1, <1>3, <1>4, <1>5, <1>6 DEF LoneRebuildInv

LEMMA FailKeepsRebuilds ==
  ASSUME SearchTypeOK, LoneRebuildInv, NEW p \in Rebuilders,
         rebuild' = [rebuild EXCEPT ![p] = NoRebuild], UNCHANGED db,
         index' = Served(p),
         last' = IF rebuild[p].pc = "drop" THEN Begun(p) ELSE last
  PROVE  LoneRebuildInv'
<1>1. CASE rebuild[p].pc = "drop"
  BY <1>1, DropKeeps, Constants DEF Served
<1>2. CASE Running(p)
  BY <1>2, StopKeeps DEF Running
<1>3. CASE rebuild[p].pc # "drop" /\ ~ Running(p)
  <2>1. UNCHANGED index
    BY <1>3 DEF Served, Running
  <2>2. QED
    BY <1>3, <2>1, StopKeeps
<1>4. QED
  BY <1>1, <1>2, <1>3

LEMMA LoneStep ==
  ASSUME SearchTypeOK, LoneRebuildInv, [SearchNext]_pipelineVars
  PROVE  LoneRebuildInv'
<1>1. CASE UNCHANGED <<rebuild, index, last, db, changes>>
  BY <1>1 DEF LoneRebuildInv, Running, Progress, Resting, Fresh
<1>2. ASSUME NEW p \in Rebuilders, Drop(p) PROVE LoneRebuildInv'
  <2>1. rebuild[p].next = 1 /\ index' = [exists |-> FALSE, docs |-> NoDocs]
    BY <1>2 DEF Drop, LoneRebuildInv
  <2>2. last' = Begun(p) /\ UNCHANGED db
    BY <1>2 DEF Drop
  <2>3. QED
    BY <1>2, <2>1, <2>2, DropEffect, DropKeeps
<1>3. ASSUME NEW p \in Rebuilders, NEW new \in {NoRebuild, [NoRebuild EXCEPT !.pc = "drop"]},
             rebuild' = [rebuild EXCEPT ![p] = new], UNCHANGED <<db, changes>>,
             UNCHANGED <<index, last>>
      PROVE  LoneRebuildInv'
  BY <1>3, StopKeeps
<1>4. CASE UNCHANGED pipelineVars
  BY <1>1, <1>4 DEF pipelineVars, searchVars
<1>5. QED
  BY <1>1, <1>2, <1>3, <1>4, Stops, CreateKeeps, ReadKeeps, ImportKeeps, ChangeKeeps,
     FailKeepsRebuilds

LEMMA LoneInit == ASSUME SearchInit PROVE LoneRebuildInv
<1>1. \A p \in Rebuilders : rebuild[p].pc = "none"
  BY Constants DEF SearchInit
<1>2. index.exists /\ index.docs = db /\ last.built
  BY DEF SearchInit
<1>3. QED
  BY <1>1, <1>2 DEF LoneRebuildInv, Running, Fresh

(***************************************************************************)
(* If no other rebuild was under way when the last one was begun, it is    *)
(* the only one until it ends, and the index it fills is what the records  *)
(* were.                                                                   *)
(***************************************************************************)
THEOREM LoneRebuildsStayAlone == SearchSpec => []LoneRebuildInv
BY LoneInit, LoneStep, SearchTypeCorrect, PTL DEF SearchSpec

(***************************************************************************)
(* A rebuild that was alone and ended well leaves exactly what the         *)
(* database has, but for what changed after it began: for any number of    *)
(* pages, whatever fails in it and whoever crashes.                        *)
(***************************************************************************)
THEOREM LoneRebuildsAreTrue == SearchSpec => []LoneRebuildIsTrue
<1>1. LoneRebuildInv => LoneRebuildIsTrue
  BY DEF LoneRebuildInv, LoneRebuildIsTrue
<1>2. QED
  BY <1>1, LoneRebuildsStayAlone, PTL
=============================================================================
