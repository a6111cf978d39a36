------------------------------- MODULE Outbox -------------------------------
(***************************************************************************)
(* The transactional outbox: OutboxRepo of internal/adapters/mongo/        *)
(* outbox.go and the workers of services/worker that lease its events.     *)
(*                                                                         *)
(* Time is what is left to wait: a row counts down to availableAt and to   *)
(* the end of its lease, and Tick moves every row on by one unit.  All     *)
(* workers read one clock; a clock that runs fast looks like a handler     *)
(* that outran its lease, which Tick allows.                               *)
(***************************************************************************)
EXTENDS Integers

CONSTANTS
    Workers,      \* worker ids (host-pid); one process each
    NumEvents,    \* bound: events enqueued, numbered by createdAt
    Lease,        \* WORKER_LEASE
    BaseRetry,    \* WORKER_RETRY_BASE
    MaxAttempts,  \* WORKER_MAX_ATTEMPTS
    MaxFaults     \* bound: crashes and leases outrun

ASSUME EventsAssumption == NumEvents \in Nat
ASSUME TimeAssumption == Lease \in Nat \ {0} /\ BaseRetry \in Nat
ASSUME AttemptsAssumption == MaxAttempts \in Nat \ {0}
ASSUME FaultAssumption == MaxFaults \in Nat

VARIABLES
    row,     \* row[e]: the outbox document of event e
    ahead,   \* ahead[e]: the rows before e by (availableAt, createdAt)
    worker,  \* worker[w]: the event w claimed, as it was claimed
    faults   \* crashes and leases outrun so far

outboxVars == <<row, ahead, worker, faults>>

Events == 1..NumEvents

Nobody == "nobody"

ASSUME NobodyAssumption == Nobody \notin Workers

\* wait: time to availableAt; lease: time until lockedAt is stale.
Row == [status : {"absent", "pending", "processing", "completed", "dead"},
        attempts : Nat, wait : Nat, lease : Nat, by : Workers \cup {Nobody}]

NoRow == [status |-> "absent", attempts |-> 0, wait |-> 0, lease |-> 0, by |-> Nobody]

Claimed == [pc : {"idle", "handling", "succeeded", "failed"}, event : Nat, attempts : Nat]

Idle == [pc |-> "idle", event |-> 0, attempts |-> 0]

OutboxTypeOK ==
    /\ row \in [Events -> Row]
    /\ ahead \in [Events -> SUBSET Events]
    /\ worker \in [Workers -> Claimed]
    /\ faults \in Nat

-----------------------------------------------------------------------------
\* Any row whose lease ran out, even one that was settled.
Claimable_AnyLease(e) ==
    /\ row[e].status # "absent"
    /\ row[e].wait = 0
    /\ row[e].status = "pending" \/ row[e].lease = 0

\* Leases are never taken over.
Claimable_PendingOnly(e) == row[e].wait = 0 /\ row[e].status = "pending"

\* The filter of Claim.
Claimable(e) ==
    /\ row[e].wait = 0
    /\ \/ row[e].status = "pending"
       \/ row[e].status = "processing" /\ row[e].lease = 0

\* A filter without lockedBy.
Owns_AnyWorker(w) == row[worker[w].event].status = "processing"

\* The filter of Complete and Fail.
Owns(w) ==
    /\ row[worker[w].event].status = "processing"
    /\ row[worker[w].event].by = w

\* Doubled[n] is 2 ^ (n - 1).
Doubled == <<1, 2, 4, 8, 16, 32, 64, 128, 256>>

RetryDelay(attempts) == BaseRetry * Doubled[IF attempts < 9 THEN attempts ELSE 9]

Present(e) == row[e].status # "absent"

\* The rows due before one that is due in delay.
Before(e, delay) ==
    {x \in Events \ {e} :
       /\ Present(x)
       /\ row[x].wait < delay \/ (row[x].wait = delay /\ (delay = 0 \/ x < e))}

\* e takes its place among the rows, delay from now.
Queued(e, delay) ==
    [x \in Events |->
       IF x = e THEN Before(e, delay)
       ELSE IF Present(x) /\ x \notin Before(e, delay) THEN ahead[x] \cup {e}
       ELSE ahead[x] \ {e}]

-----------------------------------------------------------------------------
OutboxInit ==
    /\ row = [e \in Events |-> NoRow]
    /\ ahead = [e \in Events |-> {}]
    /\ worker = [w \in Workers |-> Idle]
    /\ faults = 0

\* enqueueOutbox, in the transaction of an activation.
Enqueue(e) ==
    /\ ~ Present(e)
    /\ \A x \in 1..(e - 1) : Present(x)
    /\ row' = [row EXCEPT ![e] = [NoRow EXCEPT !.status = "pending"]]
    /\ ahead' = Queued(e, 0)
    /\ UNCHANGED <<worker, faults>>

\* Claim: the first claimable row is leased.
Claim(w) ==
    /\ worker[w].pc = "idle"
    /\ \E e \in Events :
          /\ Claimable(e)
          /\ \A x \in ahead[e] : ~ Claimable(x)
          /\ row' = [row EXCEPT ![e].status = "processing", ![e].lease = Lease,
                                ![e].by = w, ![e].attempts = @ + 1]
          /\ worker' = [worker EXCEPT ![w] = [pc |-> "handling", event |-> e,
                                              attempts |-> row[e].attempts + 1]]
    /\ UNCHANGED <<ahead, faults>>

\* The handler of ProcessOne returns.
Handle(w, ok) ==
    /\ worker[w].pc = "handling"
    /\ worker' = [worker EXCEPT ![w].pc = IF ok THEN "succeeded" ELSE "failed"]
    /\ UNCHANGED <<row, ahead, faults>>

Settled(e, status) ==
    [row[e] EXCEPT !.status = status, !.lease = 0, !.by = Nobody]

\* Complete; a lost lease is only reported.
Complete(w) ==
    /\ worker[w].pc = "succeeded"
    /\ IF Owns(w)
       THEN row' = [row EXCEPT ![worker[w].event] = Settled(worker[w].event, "completed")]
       ELSE UNCHANGED row
    /\ worker' = [worker EXCEPT ![w] = Idle]
    /\ UNCHANGED <<ahead, faults>>

Exhausted(attempts) == attempts >= MaxAttempts

\* Fail: a retry after a delay, or the end of the last attempt.
Fail(w) ==
    /\ worker[w].pc = "failed"
    /\ LET e == worker[w].event
           status == IF Exhausted(worker[w].attempts) THEN "dead" ELSE "pending"
           delay == RetryDelay(worker[w].attempts)
       IN IF Owns(w)
          THEN /\ row' = [row EXCEPT ![e] = [Settled(e, status) EXCEPT !.wait = delay]]
               /\ ahead' = Queued(e, delay)
          ELSE UNCHANGED <<row, ahead>>
    /\ worker' = [worker EXCEPT ![w] = Idle]
    /\ UNCHANGED faults

\* The process dies or is shut down, or its acknowledgement does not get
\* through: the row keeps its lease.
Crash(w) ==
    /\ worker[w].pc # "idle"
    /\ faults < MaxFaults
    /\ faults' = faults + 1
    /\ worker' = [worker EXCEPT ![w] = Idle]
    /\ UNCHANGED <<row, ahead>>

CountDown(n) == IF n > 0 THEN n - 1 ELSE 0

\* The leases of handlers at work that end now.
Outrun == {w \in Workers : worker[w].pc # "idle" /\ Owns(w) /\ row[worker[w].event].lease = 1}

Tick ==
    /\ \E e \in Events : row[e].wait > 0 \/ row[e].lease > 0
    /\ row' = [e \in Events |-> [row[e] EXCEPT !.wait = CountDown(@), !.lease = CountDown(@)]]
    /\ IF Outrun = {} THEN UNCHANGED faults
       ELSE faults < MaxFaults /\ faults' = faults + 1
    /\ UNCHANGED <<ahead, worker>>

Acknowledge(w) == Complete(w) \/ Fail(w)

\* Claim finds nothing to do.
Poll(w) ==
    /\ worker[w].pc = "idle"
    /\ \A e \in Events : ~ Claimable(e)
    /\ UNCHANGED outboxVars

OutboxNext ==
    \/ \E e \in Events : Enqueue(e)
    \/ \E w \in Workers : Claim(w) \/ Poll(w) \/ Acknowledge(w) \/ Crash(w)
    \/ \E w \in Workers, ok \in BOOLEAN : Handle(w, ok)
    \/ Tick

OutboxSpec == OutboxInit /\ [][OutboxNext]_outboxVars

\* Run polls for ever, a handler returns, what it returns is acknowledged,
\* and time passes.
OutboxFairness ==
    /\ \A w \in Workers : /\ WF_outboxVars(Claim(w))
                          /\ WF_outboxVars(\E ok \in BOOLEAN : Handle(w, ok))
                          /\ WF_outboxVars(Acknowledge(w))
    /\ WF_outboxVars(Tick)

FairOutboxSpec == OutboxSpec /\ OutboxFairness

-----------------------------------------------------------------------------
(***************************************************************************)
(* An acknowledgement takes effect only on the claim it acknowledges: not  *)
(* on a later claim of the same event, whoever made it (outbox.go: Claims  *)
(* are leases, "lease lost").                                              *)
(***************************************************************************)
AcksAreCurrent ==
    [][\A w \in Workers :
         ((Complete(w) \/ Fail(w)) /\ row' # row) =>
            row[worker[w].event].attempts = worker[w].attempts]_outboxVars

(***************************************************************************)
(* Dead means exhausted: no event is given up before its last attempt.     *)
(***************************************************************************)
DeadIsExhausted ==
    \A e \in Events : row[e].status = "dead" => row[e].attempts >= MaxAttempts

(***************************************************************************)
(* A claim that still owns its row is the row's last: what makes late      *)
(* acknowledgements harmless, and the inductive invariant of the proofs.   *)
(***************************************************************************)
Busy(w) == worker[w].pc # "idle"

ClaimsAreCurrent ==
    \A w \in Workers : Busy(w) =>
       /\ worker[w].event \in Events
       /\ worker[w].attempts > 0
       /\ Owns(w) => row[worker[w].event].attempts = worker[w].attempts

OutboxInv == OutboxTypeOK /\ ClaimsAreCurrent /\ DeadIsExhausted

(***************************************************************************)
(* The outbox implements the work queue: a settled event stays settled,    *)
(* whatever late acknowledgements and reclaims follow.                     *)
(***************************************************************************)
Standing(e) ==
    CASE row[e].status = "absent" -> "absent"
      [] row[e].status \in {"pending", "processing"} -> "open"
      [] row[e].status = "completed" -> "done"
      [] row[e].status = "dead" -> "dead"

Queue == INSTANCE WorkQueue WITH state <- [e \in Events |-> Standing(e)]

ImplementsWorkQueue == Queue!Spec

(***************************************************************************)
(* Every event is settled in the end, provided that workers crash, and     *)
(* handlers outrun their lease, only finitely often.                       *)
(***************************************************************************)
EventsSettle ==
    \A e \in Events :
       row[e].status = "pending" ~> row[e].status \in {"completed", "dead"}
=============================================================================
