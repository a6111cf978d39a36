------------------------------ MODULE AuditLog ------------------------------
(***************************************************************************)
(* The hash-chained audit log of services/api: AuditRepo.Append and the    *)
(* transactional append of internal/adapters/mongo/audit.go, the chain     *)
(* check of internal/domain/audit/audit.go and the unique index on         *)
(* prevHash of migrate.go.                                                 *)
(*                                                                         *)
(* A writer is one process (an API replica, or the admin CLI).  The mutex  *)
(* auditAppendMu makes the appends of one process sequential, so a writer  *)
(* has at most one append in flight; nothing orders the appends of two     *)
(* writers but the database.                                               *)
(*                                                                         *)
(* SHA-256 is taken to be injective, so the digest of a row is abstracted  *)
(* to the row's id, which the primary key keeps unique.                    *)
(***************************************************************************)
EXTENDS Integers, Sequences, FiniteSets

CONSTANTS
    Writers,   \* processes that append
    Nonces,  \* the random 8-byte suffix of an audit id
    Genesis,   \* audit.GenesisHash
    MaxRows,   \* bound: rows started
    MaxClock   \* bound: milliseconds a clock runs

ASSUME NonceAssumption   == Nonces \subseteq Nat
ASSUME BoundAssumption   == MaxRows \in Nat /\ MaxClock \in Nat

VARIABLES
    log,    \* the rows of audit_log, in the order their inserts committed
    clock,  \* clock[w]: the wall clock of w, in milliseconds
    op      \* op[w]: the append w has in flight

vars == <<log, clock, op>>

Id == [at : Nat, nonce : Nonces]

ASSUME GenesisAssumption == Genesis \notin Id

Hash == Id \cup {Genesis}

Row == [id : Id, prev : Hash, change : BOOLEAN]

(***************************************************************************)
(* "begun": the critical section is entered and, in a transaction, the     *)
(* snapshot is taken; "stamped": At and ID are assigned; "linked": the     *)
(* tail has been read.                                                     *)
(***************************************************************************)
Op ==
    [pc : {"idle", "begun", "stamped", "linked"},
     tx : BOOLEAN,      \* inside WithTransaction
     change : BOOLEAN,  \* a successful record.updated or record.deprecated
     seen : Nat,        \* length of the log in the transaction's snapshot
     id : Hash,
     prev : Hash]

NoOp == [pc |-> "idle", tx |-> FALSE, change |-> FALSE, seen |-> 0,
         id |-> Genesis, prev |-> Genesis]

TypeOK ==
    /\ log \in Seq(Row)
    /\ clock \in [Writers -> Nat]
    /\ op \in [Writers -> Op]
    /\ \A w \in Writers :
          /\ op[w].seen <= Len(log)
          /\ op[w].pc \in {"stamped", "linked"} => op[w].id \in Id

-----------------------------------------------------------------------------
\* aud_<UnixNano>_<suffix>: the sort keys (at, _id) and (_id) agree.
Precedes(i, j) ==
    \/ i.at < j.at
    \/ i.at = j.at /\ i.nonce < j.nonce

\* The first n committed rows, and all of them.
Prefix(n) == {log[k] : k \in 1..n}

Rows == Prefix(Len(log))

\* The row a descending sort returns first.
IsNewest(S, r) == \A q \in S : q = r \/ Precedes(q.id, r.id)

\* tailHash over the rows S returns h.
IsTailHash(S, h) ==
    IF S = {} THEN h = Genesis
              ELSE \E r \in S : h = r.id /\ IsNewest(S, r)

\* Chain, then VerifyChain: walk the rows in sort order; each links to the row
\* before it and the first to Genesis.
VerifyChain(S) ==
    \A r \in S : IsTailHash({q \in S : Precedes(q.id, r.id)}, r.prev)

\* Only the primary key is unique.
Duplicates_PrimaryKeyOnly(S, id, prev) == \E r \in S : r.id = id

\* Does inserting row <<id, prev>> break a unique index over these rows?
Duplicates(S, id, prev) == \E r \in S : r.id = id \/ r.prev = prev

-----------------------------------------------------------------------------
Init ==
    /\ log = << >>
    /\ clock = [w \in Writers |-> 0]
    /\ op = [w \in Writers |-> NoOp]

Tick(w) ==
    /\ clock[w] < MaxClock
    /\ clock' = [clock EXCEPT ![w] = @ + 1]
    /\ UNCHANGED <<log, op>>

InFlight == {w \in Writers : op[w].pc # "idle"}

\* Take auditAppendMu; a transactional collaborator has also written its
\* mutation, which fixes the transaction's snapshot.
Begin(w, tx, change) ==
    /\ op[w].pc = "idle"
    /\ Len(log) + Cardinality(InFlight) < MaxRows
    /\ op' = [op EXCEPT ![w] = [NoOp EXCEPT !.pc = "begun", !.tx = tx,
                                            !.change = change,
                                            !.seen = Len(log)]]
    /\ UNCHANGED <<log, clock>>

Stamp(w) ==
    /\ op[w].pc = "begun"
    /\ \E s \in Nonces :
          op' = [op EXCEPT ![w].pc = "stamped", ![w].id = [at |-> clock[w], nonce |-> s]]
    /\ UNCHANGED <<log, clock>>

\* A transaction reads the tail of its snapshot, a plain append the latest one.
Visible(w) == IF op[w].tx THEN Prefix(op[w].seen) ELSE Rows

ReadTail(w) ==
    /\ op[w].pc = "stamped"
    /\ \E h \in {Genesis} \cup {r.id : r \in Visible(w)} :
          /\ IsTailHash(Visible(w), h)
          /\ op' = [op EXCEPT ![w].pc = "linked", ![w].prev = h]
    /\ UNCHANGED <<log, clock>>

InsertOne(w) ==
    /\ op[w].pc = "linked"
    /\ ~ Duplicates(Rows, op[w].id, op[w].prev)
    /\ log' = Append(log, [id |-> op[w].id, prev |-> op[w].prev,
                           change |-> op[w].change])
    /\ op' = [op EXCEPT ![w] = NoOp]
    /\ UNCHANGED clock

\* A driver that runs the closure again on every duplicate key.
Retryable_Always(w) == TRUE

\* The duplicate was committed after the snapshot was taken: the driver sees a
\* write conflict and runs the closure again from a new snapshot.
Retryable(w) ==
    /\ op[w].tx
    /\ ~ Duplicates(Visible(w), op[w].id, op[w].prev)

RetryTransaction(w) ==
    /\ op[w].pc = "linked"
    /\ Duplicates(Rows, op[w].id, op[w].prev)
    /\ Retryable(w)
    /\ op' = [op EXCEPT ![w].pc = "begun", ![w].seen = Len(log)]
    /\ UNCHANGED <<log, clock>>

\* A duplicate key error: the append fails and, with it, its transaction.
FailAppend(w) ==
    /\ op[w].pc = "linked"
    /\ Duplicates(Rows, op[w].id, op[w].prev)
    /\ ~ Retryable(w)
    /\ op' = [op EXCEPT ![w] = NoOp]
    /\ UNCHANGED <<log, clock>>

\* The process dies or its request context ends before the insert commits.
Abandon(w) ==
    /\ op[w].pc # "idle"
    /\ op' = [op EXCEPT ![w] = NoOp]
    /\ UNCHANGED <<log, clock>>

Step(w) ==
    \/ Stamp(w)
    \/ ReadTail(w)
    \/ InsertOne(w)
    \/ RetryTransaction(w)
    \/ FailAppend(w)

\* The bounds may leave nothing to do once no append is in flight.
Quiet == InFlight = {} /\ UNCHANGED vars

Next ==
    \/ \E w \in Writers :
          \/ Tick(w)
          \/ \E tx, change \in BOOLEAN : Begin(w, tx, change)
          \/ Step(w)
          \/ Abandon(w)
    \/ Quiet

Spec == Init /\ [][Next]_vars

\* A request that is not cut off runs until it returns.
FairSpec == Spec /\ \A w \in Writers : WF_vars(Step(w))

-----------------------------------------------------------------------------
(***************************************************************************)
(* Every committed row links to the row committed just before it, and the  *)
(* first to Genesis: the unique index on prevHash keeps the log one chain, *)
(* whatever the replicas' clocks read and however their appends interleave *)
(* (migrate.go: the index "prevents forks across API replicas").           *)
(***************************************************************************)
ChainFollowsCommits ==
    \A k \in DOMAIN log :
       log[k].prev = IF k = 1 THEN Genesis ELSE log[k - 1].id

\* Rows were committed in the order of their ids.
StampsOrdered ==
    \A j, k \in DOMAIN log : j < k => Precedes(log[j].id, log[k].id)

(***************************************************************************)
(* The tail the next append would link to has no child yet; once it has    *)
(* one, no append can ever succeed again.                                  *)
(***************************************************************************)
TailIsFree ==
    \A r \in Rows : IsNewest(Rows, r) => \A q \in Rows : q.prev # r.id

(***************************************************************************)
(* As long as rows committed in id order, the untouched log passes         *)
(* VerifyChain and the next append can link: out-of-order stamps are the   *)
(* only way the code breaks its own chain.                                 *)
(***************************************************************************)
OrderedLogVerifies == StampsOrdered => VerifyChain(Rows) /\ TailIsFree

(***************************************************************************)
(* The untouched log passes VerifyChain, as it would if "the natural _id   *)
(* sort matches chronological order" (audit.go: newAuditID).               *)
(***************************************************************************)
UntouchedLogVerifies == VerifyChain(Rows)

(***************************************************************************)
(* Every append returns: a transaction is run again only while another     *)
(* writer keeps committing, never forever against a row it already saw.    *)
(***************************************************************************)
AppendsReturn == \A w \in Writers : op[w].pc # "idle" ~> op[w].pc = "idle"
=============================================================================
