---------------------------- MODULE ChangeFeedProofs ----------------------------
(***************************************************************************)
(* Proofs about the audit log and its change feed, for any writers, any    *)
(* clocks, any clients, any page size and any log.                         *)
(***************************************************************************)
EXTENDS ChangeFeed, FiniteSetTheorems, NaturalsInduction, WellFoundedInduction, TLAPS

USE NonceAssumption, BoundAssumption, GenesisAssumption

\* Replacing one writer's append by a well-typed one keeps the type of op.
LEMMA ReplaceOp ==
  ASSUME TypeOK, NEW w \in Writers, NEW new \in Op,
         op' = [op EXCEPT ![w] = new],
         new.pc \in {"stamped", "linked"} => new.id \in Id,
         log' \in Seq(Row), Len(log) <= Len(log'), new.seen <= Len(log')
  PROVE  /\ op' \in [Writers -> Op]
         /\ \A v \in Writers :
               /\ op'[v].seen <= Len(log')
               /\ op'[v].pc \in {"stamped", "linked"} => op'[v].id \in Id
<1>1. op' \in [Writers -> Op]
  BY DEF TypeOK
<1>2. ASSUME NEW v \in Writers, v # w
      PROVE  op'[v] = op[v] /\ op[v].seen <= Len(log')
  <2>1. op[v].seen \in Nat /\ Len(log) \in Nat /\ Len(log') \in Nat
    BY DEF TypeOK, Op
  <2>2. QED
    BY <1>2, <2>1 DEF TypeOK
<1>3. QED
  BY <1>1, <1>2 DEF TypeOK

LEMMA NoOpType == NoOp \in Op /\ NoOp.pc = "idle" /\ NoOp.seen = 0
BY DEF NoOp, Op, Hash

(***************************************************************************)
(* Every reachable state is well typed.                                    *)
(***************************************************************************)
THEOREM TypeCorrect == Spec => []TypeOK
<1>1. Init => TypeOK
  BY NoOpType DEF Init, TypeOK
<1>2. TypeOK /\ [Next]_vars => TypeOK'
  <2> SUFFICES ASSUME TypeOK, [Next]_vars PROVE TypeOK'
    OBVIOUS
  <2>1. ASSUME NEW w \in Writers, Tick(w) PROVE TypeOK'
    BY <2>1 DEF Tick, TypeOK
  <2>2. ASSUME NEW w \in Writers, NEW tx \in BOOLEAN, NEW change \in BOOLEAN,
               Begin(w, tx, change)
        PROVE TypeOK'
    <3> DEFINE new == [NoOp EXCEPT !.pc = "begun", !.tx = tx,
                                   !.change = change, !.seen = Len(log)]
    <3> Len(log) \in Nat
      BY DEF TypeOK
    <3>1. new \in Op /\ new.pc = "begun" /\ new.seen = Len(log)
      BY NoOpType DEF Op
    <3>2. op' = [op EXCEPT ![w] = new] /\ UNCHANGED <<log, clock>>
      BY <2>2 DEF Begin
    <3> HIDE DEF new
    <3>3. QED
      BY <3>1, <3>2, ReplaceOp DEF TypeOK
  <2>3. ASSUME NEW w \in Writers, Stamp(w) PROVE TypeOK'
    <3>1. PICK s \in Nonces :
             op' = [op EXCEPT ![w].pc = "stamped", ![w].id = [at |-> clock[w], nonce |-> s]]
      BY <2>3 DEF Stamp
    <3> DEFINE new == [op[w] EXCEPT !.pc = "stamped", !.id = [at |-> clock[w], nonce |-> s]]
    <3>2. [at |-> clock[w], nonce |-> s] \in Id
      BY DEF Id, TypeOK
    <3> op[w] \in Op /\ Id \subseteq Hash
      BY DEF TypeOK, Hash
    <3>3. new \in Op /\ new.id \in Id /\ new.seen = op[w].seen
      BY <3>2 DEF Op
    <3>4. op' = [op EXCEPT ![w] = new]
      BY <3>1 DEF TypeOK
    <3>5. UNCHANGED log /\ clock' \in [Writers -> Nat]
      BY <2>3 DEF Stamp, TypeOK
    <3> HIDE DEF new
    <3>6. QED
      BY <3>3, <3>4, <3>5, ReplaceOp DEF TypeOK
  <2>4. ASSUME NEW w \in Writers, ReadTail(w) PROVE TypeOK'
    <3>1. PICK h \in {Genesis} \cup {r.id : r \in Visible(w)} :
             op' = [op EXCEPT ![w].pc = "linked", ![w].prev = h]
      BY <2>4 DEF ReadTail
    <3>2. Visible(w) \subseteq Row
      BY DEF Visible, Rows, Prefix, TypeOK, Op
    <3>3. h \in Hash
      BY <3>2 DEF Row, Hash
    <3> DEFINE new == [op[w] EXCEPT !.pc = "linked", !.prev = h]
    <3> op[w] \in Op /\ op[w].id \in Id
      BY <2>4 DEF TypeOK, ReadTail
    <3>4. new \in Op /\ new.id \in Id /\ new.seen = op[w].seen
      BY <3>3 DEF Op
    <3>5. op' = [op EXCEPT ![w] = new] /\ UNCHANGED <<log, clock>>
      BY <2>4, <3>1 DEF TypeOK, ReadTail
    <3> HIDE DEF new
    <3>6. QED
      BY <3>4, <3>5, ReplaceOp DEF TypeOK
  <2>5. ASSUME NEW w \in Writers, InsertOne(w) PROVE TypeOK'
    <3> DEFINE row == [id |-> op[w].id, prev |-> op[w].prev, change |-> op[w].change]
    <3>1. row \in Row
      BY <2>5 DEF InsertOne, TypeOK, Op, Row
    <3> Len(Append(log, row)) = Len(log) + 1 /\ Append(log, row) \in Seq(Row) /\ Len(log) \in Nat
      BY <3>1 DEF TypeOK
    <3>2. log' = Append(log, row) /\ UNCHANGED clock /\ op' = [op EXCEPT ![w] = NoOp]
      BY <2>5 DEF InsertOne
    <3> HIDE DEF row
    <3>3. log' \in Seq(Row) /\ Len(log) <= Len(log') /\ NoOp.seen <= Len(log')
      BY <3>1, <3>2, NoOpType DEF TypeOK
    <3>4. QED
      BY <3>2, <3>3, NoOpType, ReplaceOp DEF TypeOK
  <2>6. ASSUME NEW w \in Writers, RetryTransaction(w) PROVE TypeOK'
    <3> DEFINE new == [op[w] EXCEPT !.pc = "begun", !.seen = Len(log)]
    <3> Len(log) \in Nat /\ op[w] \in Op
      BY DEF TypeOK
    <3>1. new \in Op /\ new.pc = "begun" /\ new.seen = Len(log)
      BY DEF Op
    <3>2. op' = [op EXCEPT ![w] = new] /\ UNCHANGED <<log, clock>>
      BY <2>6 DEF RetryTransaction, TypeOK
    <3> HIDE DEF new
    <3>3. QED
      BY <3>1, <3>2, ReplaceOp DEF TypeOK
  <2>7. ASSUME NEW w \in Writers, FailAppend(w) \/ Abandon(w) PROVE TypeOK'
    BY <2>7, NoOpType, ReplaceOp DEF FailAppend, Abandon, TypeOK
  <2>8. CASE UNCHANGED vars
    BY <2>8 DEF vars, TypeOK
  <2>9. QED
    BY <2>1, <2>2, <2>3, <2>4, <2>5, <2>6, <2>7, <2>8 DEF Next, Step, Quiet
<1>3. QED
  BY <1>1, <1>2, PTL DEF Spec

-----------------------------------------------------------------------------
(***************************************************************************)
(* The inductive invariant behind the chain: besides the chain itself, ids *)
(* are unique and an append about to insert links to Genesis or to a row.  *)
(***************************************************************************)
IdsUnique == \A j, k \in DOMAIN log : log[j].id = log[k].id => j = k

LinksToARow ==
    \A w \in Writers : op[w].pc = "linked" =>
       op[w].prev = Genesis \/ \E k \in DOMAIN log : op[w].prev = log[k].id

ChainInv == ChainFollowsCommits /\ IdsUnique /\ LinksToARow

\* An insert that breaks no unique index links to the last committed row: every
\* earlier row already has the next one as its child.
LEMMA InsertLinksToLast ==
  ASSUME TypeOK, ChainFollowsCommits, NEW h,
         h = Genesis \/ \E k \in DOMAIN log : h = log[k].id,
         \A k \in DOMAIN log : log[k].prev # h
  PROVE  h = IF Len(log) = 0 THEN Genesis ELSE log[Len(log)].id
<1> Len(log) \in Nat /\ DOMAIN log = 1..Len(log)
  BY DEF TypeOK
<1>1. CASE Len(log) = 0
  BY <1>1
<1>2. CASE Len(log) # 0
  <2>1. log[1].prev = Genesis
    BY <1>2 DEF ChainFollowsCommits
  <2>2. PICK k \in DOMAIN log : h = log[k].id
    BY <2>1, <1>2
  <2>3. ASSUME k # Len(log) PROVE FALSE
    <3>1. k + 1 \in DOMAIN log /\ k + 1 # 1 /\ (k + 1) - 1 = k
      BY <2>3
    <3>2. log[k + 1].prev = log[k].id
      BY <3>1 DEF ChainFollowsCommits
    <3>3. QED
      BY <2>2, <3>1, <3>2
  <2>4. QED
    BY <1>2, <2>2, <2>3
<1>3. QED
  BY <1>1, <1>2

LEMMA ChainStep == TypeOK /\ ChainInv /\ [Next]_vars => ChainInv'
<1> SUFFICES ASSUME TypeOK, ChainInv, [Next]_vars PROVE ChainInv'
  OBVIOUS
<1> Len(log) \in Nat /\ DOMAIN log = 1..Len(log)
  BY DEF TypeOK
<1>1. ASSUME NEW w \in Writers, InsertOne(w) PROVE ChainInv'
  <2> DEFINE row == [id |-> op[w].id, prev |-> op[w].prev, change |-> op[w].change]
  <2>1. log' = Append(log, row) /\ op' = [op EXCEPT ![w] = NoOp]
    BY <1>1 DEF InsertOne
  <2>2. row.id = op[w].id /\ row.prev = op[w].prev
    OBVIOUS
  <2>3. \A k \in DOMAIN log : log[k].id # row.id /\ log[k].prev # row.prev
    BY <1>1 DEF InsertOne, Duplicates, Rows, Prefix
  <2>4. row.prev = Genesis \/ \E k \in DOMAIN log : row.prev = log[k].id
    BY <1>1 DEF InsertOne, ChainInv, LinksToARow
  <2>5. row.prev = IF Len(log) = 0 THEN Genesis ELSE log[Len(log)].id
    BY <2>3, <2>4, InsertLinksToLast DEF ChainInv
  <2> HIDE DEF row
  <2>6. /\ DOMAIN log' = 1..(Len(log) + 1)
        /\ log'[Len(log) + 1] = row
        /\ \A k \in DOMAIN log : log'[k] = log[k]
    BY <2>1 DEF TypeOK
  <2>7. ChainFollowsCommits'
    <3> SUFFICES ASSUME NEW k \in 1..(Len(log) + 1)
                 PROVE  log'[k].prev = IF k = 1 THEN Genesis ELSE log'[k - 1].id
      BY <2>6 DEF ChainFollowsCommits
    <3>1. CASE k = Len(log) + 1
      BY <3>1, <2>5, <2>6
    <3>2. CASE k # Len(log) + 1
      <4>1. k \in DOMAIN log /\ (k # 1 => k - 1 \in DOMAIN log)
        BY <3>2
      <4>2. QED
        BY <4>1, <2>6 DEF ChainInv, ChainFollowsCommits
    <3>3. QED
      BY <3>1, <3>2
  <2>8. IdsUnique'
    <3> SUFFICES ASSUME NEW j \in 1..(Len(log) + 1), NEW k \in 1..(Len(log) + 1),
                        log'[j].id = log'[k].id
                 PROVE  j = k
      BY <2>6 DEF IdsUnique
    <3>1. CASE j \in DOMAIN log /\ k \in DOMAIN log
      BY <3>1, <2>6 DEF ChainInv, IdsUnique
    <3>2. CASE j \notin DOMAIN log \/ k \notin DOMAIN log
      BY <3>2, <2>3, <2>6
    <3>3. QED
      BY <3>1, <3>2
  <2>9. LinksToARow'
    <3>1. \A v \in Writers : op'[v].pc = "linked" => v # w /\ op'[v] = op[v]
      BY <2>1, NoOpType DEF TypeOK
    <3>2. QED
      BY <3>1, <2>6 DEF ChainInv, LinksToARow
  <2>10. QED
    BY <2>7, <2>8, <2>9 DEF ChainInv
<1>2. ASSUME NEW w \in Writers, ReadTail(w) PROVE ChainInv'
  <2>1. PICK h \in {Genesis} \cup {r.id : r \in Visible(w)} :
           op' = [op EXCEPT ![w].pc = "linked", ![w].prev = h]
    BY <1>2 DEF ReadTail
  <2>2. h = Genesis \/ \E k \in DOMAIN log : h = log[k].id
    <3>1. op[w].seen \in Nat /\ op[w].seen <= Len(log)
      BY DEF TypeOK, Op
    <3>2. \A r \in Visible(w) : \E k \in DOMAIN log : r = log[k]
      BY <3>1 DEF Visible, Rows, Prefix
    <3>3. QED
      BY <3>2
  <2>3. \A v \in Writers : v # w => op'[v] = op[v]
    BY <2>1 DEF TypeOK
  <2>4. op'[w].prev = h
    BY <2>1 DEF TypeOK, Op
  <2>5. log' = log
    BY <1>2 DEF ReadTail
  <2>6. LinksToARow'
    BY <2>2, <2>3, <2>4, <2>5 DEF ChainInv, LinksToARow
  <2>7. QED
    BY <2>5, <2>6 DEF ChainInv, ChainFollowsCommits, IdsUnique
<1>3. ASSUME log' = log,
             \A v \in Writers : op'[v].pc = "linked" => op'[v].prev = op[v].prev /\ op[v].pc = "linked"
      PROVE  ChainInv'
  BY <1>3 DEF ChainInv, ChainFollowsCommits, IdsUnique, LinksToARow
<1>4. ASSUME NEW w \in Writers, NEW tx \in BOOLEAN, NEW change \in BOOLEAN,
             Begin(w, tx, change)
      PROVE  ChainInv'
  BY <1>3, <1>4, NoOpType DEF Begin, TypeOK, NoOp
<1>5. ASSUME NEW w \in Writers,
             Tick(w) \/ RetryTransaction(w) \/ FailAppend(w) \/ Abandon(w)
      PROVE  ChainInv'
  <2>1. CASE Tick(w)
    BY <1>3, <2>1 DEF Tick
  <2>2. CASE RetryTransaction(w)
    BY <1>3, <2>2 DEF RetryTransaction, TypeOK, Op
  <2>3. CASE FailAppend(w) \/ Abandon(w)
    BY <1>3, <2>3, NoOpType DEF FailAppend, Abandon, TypeOK
  <2>4. QED
    BY <1>5, <2>1, <2>2, <2>3
<1>6. ASSUME NEW w \in Writers, Stamp(w) PROVE ChainInv'
  BY <1>3, <1>6 DEF Stamp, TypeOK, Op
<1>7. CASE UNCHANGED vars
  BY <1>3, <1>7 DEF vars
<1>8. QED
  BY <1>1, <1>2, <1>4, <1>5, <1>6, <1>7 DEF Next, Step, Quiet

LEMMA ChainHolds == Spec => []ChainInv
<1>1. Init => ChainInv
  BY DEF Init, ChainInv, ChainFollowsCommits, IdsUnique, LinksToARow, NoOp
<1>2. QED
  BY <1>1, TypeCorrect, ChainStep, PTL DEF Spec

(***************************************************************************)
(* For any writers, clocks and log length the log is one chain in commit   *)
(* order: the unique index on prevHash is enough, the mutex is not needed. *)
(***************************************************************************)
THEOREM LogIsOneChain == Spec => []ChainFollowsCommits
<1>1. ChainInv => ChainFollowsCommits
  BY DEF ChainInv
<1>2. QED
  BY <1>1, ChainHolds, PTL

-----------------------------------------------------------------------------
\* In a log whose rows are in id order, the newest of the first rows is the last.
LEMMA OrderedChainVerifies ==
  ASSUME TypeOK, ChainFollowsCommits, StampsOrdered
  PROVE  VerifyChain(Rows) /\ TailIsFree
<1> Len(log) \in Nat /\ DOMAIN log = 1..Len(log)
  BY DEF TypeOK
<1>0. \A k \in DOMAIN log : log[k].id \in Id
  <2>1. \A k \in DOMAIN log : log[k] \in Row
    BY DEF TypeOK
  <2>2. QED
    BY <2>1 DEF Row
<1>a. \A i, j \in Id : ~ (Precedes(i, j) /\ Precedes(j, i)) /\ ~ Precedes(i, i)
  <2> SUFFICES ASSUME NEW i \in Id, NEW j \in Id
               PROVE  ~ (Precedes(i, j) /\ Precedes(j, i)) /\ ~ Precedes(i, i)
    OBVIOUS
  <2>1. /\ i.at \in Nat /\ j.at \in Nat
        /\ i.nonce \in Nat /\ j.nonce \in Nat
    BY NonceAssumption DEF Id
  <2>2. QED
    BY <2>1 DEF Precedes
<1>1. \A j, k \in DOMAIN log : Precedes(log[j].id, log[k].id) <=> j < k
  <2> SUFFICES ASSUME NEW j \in DOMAIN log, NEW k \in DOMAIN log
               PROVE  Precedes(log[j].id, log[k].id) <=> j < k
    OBVIOUS
  <2>1. CASE j < k
    BY <2>1 DEF StampsOrdered
  <2>2. CASE k < j
    BY <2>2, <1>0, <1>a DEF StampsOrdered
  <2>3. CASE j = k
    BY <2>3, <1>0, <1>a
  <2>4. QED
    BY <2>1, <2>2, <2>3
<1>2. VerifyChain(Rows)
  <2> SUFFICES ASSUME NEW k \in DOMAIN log
               PROVE  IsTailHash({q \in Rows : Precedes(q.id, log[k].id)}, log[k].prev)
    BY DEF VerifyChain, Rows, Prefix
  <2> DEFINE S == {q \in Rows : Precedes(q.id, log[k].id)}
  <2>1. S = {log[j] : j \in 1..(k - 1)}
    BY <1>1 DEF Rows, Prefix
  <2>2. CASE k = 1
    BY <2>1, <2>2 DEF IsTailHash, ChainFollowsCommits
  <2>3. CASE k # 1
    <3>1. k - 1 \in 1..(k - 1) /\ k - 1 \in DOMAIN log
      BY <2>3
    <3>2. log[k - 1] \in S /\ IsNewest(S, log[k - 1])
      BY <3>1, <2>1, <1>1 DEF IsNewest
    <3>3. log[k].prev = log[k - 1].id
      BY <2>3 DEF ChainFollowsCommits
    <3>4. QED
      BY <3>2, <3>3 DEF IsTailHash
  <2>4. QED
    BY <2>2, <2>3
<1>3. TailIsFree
  <2> SUFFICES ASSUME NEW j \in DOMAIN log, IsNewest(Rows, log[j]),
                      NEW k \in DOMAIN log, log[k].prev = log[j].id
               PROVE  FALSE
    BY DEF TailIsFree, Rows, Prefix
  <2>1. j = Len(log)
    <3>1. log[Len(log)] \in Rows /\ Len(log) \in DOMAIN log
      BY DEF Rows, Prefix
    <3>2. log[Len(log)] = log[j] \/ Precedes(log[Len(log)].id, log[j].id)
      BY <3>1 DEF IsNewest
    <3>3. CASE log[Len(log)] = log[j]
      BY <3>1, <3>3, <1>0, <1>1, <1>a
    <3>4. CASE Precedes(log[Len(log)].id, log[j].id)
      BY <3>1, <3>4, <1>1
    <3>5. QED
      BY <3>2, <3>3, <3>4
  <2>2. CASE k = 1
    BY <2>2, <1>0, GenesisAssumption DEF ChainFollowsCommits
  <2>3. CASE k # 1
    <3>1. k - 1 \in DOMAIN log /\ log[k - 1].id = log[j].id
      BY <2>3 DEF ChainFollowsCommits
    <3>2. k - 1 # j
      BY <2>1
    <3>3. Precedes(log[k - 1].id, log[j].id)
      BY <3>1, <3>2, <2>1, <1>1
    <3>4. QED
      BY <3>1, <3>3, <1>0, <1>a
  <2>4. QED
    BY <2>2, <2>3
<1>4. QED
  BY <1>2, <1>3

(***************************************************************************)
(* Whatever the interleaving, a log whose rows committed in id order       *)
(* passes the chain check and accepts the next append.                     *)
(***************************************************************************)
THEOREM OrderedLogIsSound == Spec => []OrderedLogVerifies
<1>1. TypeOK /\ ChainFollowsCommits => OrderedLogVerifies
  BY OrderedChainVerifies DEF OrderedLogVerifies
<1>2. QED
  BY <1>1, TypeCorrect, LogIsOneChain, PTL

-----------------------------------------------------------------------------
(***************************************************************************)
(* The order of ids, and the ranks of the ids of a finite set.             *)
(***************************************************************************)
Cursors == Id \cup {NoCursor}

LEMMA CursorOrder ==
  ASSUME NEW i \in Cursors, NEW j \in Cursors
  PROVE  /\ ~ (Precedes(i, j) /\ Precedes(j, i))
         /\ ~ Precedes(i, i)
         /\ i = j \/ Precedes(i, j) \/ Precedes(j, i)
         /\ j \in Id => Precedes(NoCursor, j)
         /\ \A k \in Cursors : Precedes(i, j) /\ Precedes(j, k) => Precedes(i, k)
<1>1. Cursors \subseteq [at : Int, nonce : Int]
  <2>1. NoCursor \in [at : Int, nonce : Int]
    BY DEF NoCursor
  <2>2. Id \subseteq [at : Int, nonce : Int]
    <3>1. Nonces \subseteq Int
      BY NonceAssumption DEF NonceAssumption
    <3>2. ASSUME NEW k \in Id PROVE k \in [at : Int, nonce : Int]
      <4>1. k = [at |-> k.at, nonce |-> k.nonce] /\ k.at \in Int /\ k.nonce \in Int
        <5>1. k \in [at : Nat, nonce : Nonces]
          BY DEF Id
        <5>2. k = [at |-> k.at, nonce |-> k.nonce]
          BY <5>1
        <5>3. k.at \in Nat /\ k.nonce \in Nonces
          BY <5>1
        <5>4. QED
          BY <3>1, <5>2, <5>3
      <4>2. QED
        BY <4>1
    <3>3. QED
      BY <3>2
  <2>3. QED
    BY <2>1, <2>2 DEF Cursors
<1>2. /\ i.at \in Int /\ i.nonce \in Int /\ j.at \in Int /\ j.nonce \in Int
      /\ \A k \in Cursors : k.at \in Int /\ k.nonce \in Int
  BY <1>1
<1>3. i = j \/ Precedes(i, j) \/ Precedes(j, i)
  <2>1. i.at = j.at /\ i.nonce = j.nonce => i = j
    BY <1>1
  <2>2. QED
    BY <1>2, <2>1 DEF Precedes
<1>4. j \in Id => Precedes(NoCursor, j)
  BY DEF Precedes, NoCursor, Id
<1>5. \A k \in Cursors : Precedes(i, j) /\ Precedes(j, k) => Precedes(i, k)
  BY <1>2 DEF Precedes
<1>6. ~ (Precedes(i, j) /\ Precedes(j, i)) /\ ~ Precedes(i, i)
  BY <1>2 DEF Precedes
<1>7. QED
  BY <1>3, <1>4, <1>5, <1>6

-----------------------------------------------------------------------------
(***************************************************************************)
(* Tampering.  What Chain reads back may have been edited: a stored row    *)
(* sorts at pos (its at and _id), records hash as the digest of what it    *)
(* says, and links to prev.  Copy(k) is row k as the log wrote it.         *)
(***************************************************************************)
Copy(k) == [pos |-> log[k].id, hash |-> log[k].id, prev |-> log[k].prev]

Earlier(S, i) == {q \in S : Precedes(q.pos, i)}

UpTo(S, i) == {q \in S : q.pos = i \/ Precedes(q.pos, i)}

\* What the walk of VerifyChain compares a row's prevHash with.
IsLastHash(S, h) ==
    IF S = {} THEN h = Genesis
    ELSE \E r \in S : h = r.hash /\ \A q \in S : q = r \/ Precedes(q.pos, r.pos)

StoredVerifies(S) == \A r \in S : IsLastHash(Earlier(S, r.pos), r.prev)

(***************************************************************************)
(* _id is a primary key, no digest reads "genesis", and no two contents    *)
(* have one digest: a row that verifies under a hash the log wrote says    *)
(* what the log wrote.                                                     *)
(***************************************************************************)
IsStored(S) ==
    /\ \A q \in S : q.pos \in Id /\ q.hash # Genesis
    /\ \A q, r \in S : q.pos = r.pos => q = r
    /\ \A q \in S, k \in DOMAIN log : q.hash = log[k].id => q = Copy(k)

(***************************************************************************)
(* The row before a break is the last one that can be trusted: in a table  *)
(* that verifies, everything up to a row the log wrote is what the log     *)
(* wrote, nothing edited, inserted or removed (audit.go: PrevHash,         *)
(* VerifyChain).                                                           *)
(***************************************************************************)
HistoryIsTrusted ==
    \A S : IsStored(S) /\ StoredVerifies(S) =>
       \A k \in DOMAIN log :
          Copy(k) \in S => UpTo(S, log[k].id) = {Copy(j) : j \in 1..k}

\* Rows can be removed unseen only from the end.
RemovalsShow ==
    \A S \in SUBSET {Copy(k) : k \in DOMAIN log} :
       StoredVerifies(S) => \E n \in 0..Len(log) : S = {Copy(k) : k \in 1..n}

LEMMA LeastNatural ==
  ASSUME NEW T \in SUBSET Nat, T # {} PROVE \E m \in T : \A n \in T : m <= n
<1> DEFINE R == OpToRel(<, Nat)
<1>1. IsWellFoundedOn(R, Nat)
  BY NatLessThanWellFounded
<1>2. \A m, n \in Nat : m < n => <<m, n>> \in R
  BY DEF OpToRel
<1> HIDE DEF R
<1>3. PICK m \in T : \A n \in T : ~ (<<n, m>> \in R)
  BY <1>1, WFMin
<1>4. ASSUME NEW n \in T PROVE m <= n
  <2>1. m \in Nat /\ n \in Nat /\ ~ (n < m)
    BY <1>2, <1>3
  <2>2. QED
    BY <2>1
<1>5. QED
  BY <1>4

LEMMA IdsOrder ==
  ASSUME NEW i \in Id, NEW j \in Id
  PROVE  /\ ~ (Precedes(i, j) /\ Precedes(j, i))
         /\ ~ Precedes(i, i)
         /\ \A k \in Id : Precedes(i, j) /\ Precedes(j, k) => Precedes(i, k)
BY CursorOrder DEF Cursors

LEMMA IdsOfLog ==
  ASSUME TypeOK
  PROVE  /\ Len(log) \in Nat /\ DOMAIN log = 1..Len(log)
         /\ \A k \in DOMAIN log : log[k].id \in Id
<1>1. \A k \in DOMAIN log : log[k] \in Row
  BY DEF TypeOK
<1>2. \A k \in DOMAIN log : log[k].id \in Id
  BY <1>1 DEF Row
<1>3. QED
  BY <1>2 DEF TypeOK

\* From a row of the log the walk goes back to the row before it.
LEMMA WalkBack ==
  ASSUME TypeOK, ChainFollowsCommits, NEW S, IsStored(S), StoredVerifies(S),
         NEW j \in DOMAIN log, Copy(j) \in S
  PROVE  IF j = 1 THEN Earlier(S, log[1].id) = {}
         ELSE /\ j - 1 \in DOMAIN log
              /\ Copy(j - 1) \in S
              /\ Precedes(log[j - 1].id, log[j].id)
              /\ \A q \in Earlier(S, log[j].id) :
                    q = Copy(j - 1) \/ Precedes(q.pos, log[j - 1].id)
<1>1. /\ Copy(j).pos = log[j].id
      /\ Copy(j).prev = log[j].prev
  BY DEF Copy
<1>2. IsLastHash(Earlier(S, log[j].id), log[j].prev)
  BY <1>1 DEF StoredVerifies
<1>3. CASE j = 1
  <2>1. log[j].prev = Genesis
    BY <1>3 DEF ChainFollowsCommits
  <2>2. \A q \in Earlier(S, log[j].id) : q.hash # Genesis
    BY DEF IsStored, Earlier
  <2>3. QED
    BY <1>2, <1>3, <2>1, <2>2 DEF IsLastHash
<1>4. CASE j # 1
  <2>1. j - 1 \in DOMAIN log
    BY <1>4, IdsOfLog
  <2>2. log[j].prev = log[j - 1].id /\ log[j].prev # Genesis
    BY <1>4, <2>1, IdsOfLog DEF ChainFollowsCommits
  <2>3. PICK r \in Earlier(S, log[j].id) :
          /\ log[j].prev = r.hash
          /\ \A q \in Earlier(S, log[j].id) : q = r \/ Precedes(q.pos, r.pos)
    BY <1>2, <2>2 DEF IsLastHash
  <2>4. r \in S /\ Precedes(r.pos, log[j].id)
    BY <2>3 DEF Earlier
  <2>5. r = Copy(j - 1)
    BY <2>1, <2>2, <2>3, <2>4 DEF IsStored
  <2>6. r.pos = log[j - 1].id
    BY <2>5 DEF Copy
  <2>7. QED
    BY <1>4, <2>1, <2>3, <2>4, <2>5, <2>6
<1>5. QED
  BY <1>3, <1>4

\* The rows of S from row j of the log to row k.
Stretch(S, j, k) == {q \in UpTo(S, log[k].id) : ~ Precedes(q.pos, log[j].id)}

LEMMA TrustedHistory ==
  ASSUME TypeOK, ChainFollowsCommits, NEW S, IsStored(S), StoredVerifies(S),
         NEW k \in DOMAIN log, Copy(k) \in S
  PROVE  UpTo(S, log[k].id) = {Copy(j) : j \in 1..k}
<1> DEFINE Good(j) == Stretch(S, j, k) = {Copy(i) : i \in j..k}
           T == {j \in 1..k : Good(j)}
<1>1. /\ k \in Nat /\ k # 0 /\ 1..k \subseteq DOMAIN log
      /\ \A j \in 1..k : log[j].id \in Id
  BY IdsOfLog
<1>2. Good(k)
  <2>1. ASSUME NEW q \in UpTo(S, log[k].id), ~ Precedes(q.pos, log[k].id) PROVE q = Copy(k)
    <3>1. q \in S /\ q.pos = log[k].id
      BY <2>1 DEF UpTo
    <3>2. Copy(k).pos = log[k].id
      BY DEF Copy
    <3>3. QED
      BY <3>1, <3>2 DEF IsStored
  <2>2. Copy(k) \in Stretch(S, k, k)
    <3>1. Copy(k).pos = log[k].id /\ ~ Precedes(log[k].id, log[k].id)
      BY <1>1, IdsOrder DEF Copy
    <3>2. QED
      BY <3>1 DEF Stretch, UpTo
  <2>3. Stretch(S, k, k) = {Copy(k)}
    BY <2>1, <2>2 DEF Stretch
  <2>4. k..k = {k}
    BY <1>1
  <2>5. QED
    BY <2>3, <2>4
<1>3. PICK j \in T : \A i \in T : j <= i
  <2>1. T \in SUBSET Nat /\ k \in T
    BY <1>1, <1>2
  <2> HIDE DEF T
  <2>2. QED
    BY <2>1, LeastNatural
<1>4. j \in 1..k /\ j \in DOMAIN log /\ Good(j)
  BY <1>1, <1>3
<1>5. Copy(j) \in Stretch(S, j, k) /\ Copy(j).pos = log[j].id
  <2>1. j \in j..k
    BY <1>1, <1>4
  <2>2. QED
    BY <1>4, <2>1 DEF Copy
<1>6. Copy(j) \in S /\ (log[j].id = log[k].id \/ Precedes(log[j].id, log[k].id))
  BY <1>5 DEF Stretch, UpTo
<1>7. CASE j = 1
  <2>1. Earlier(S, log[1].id) = {}
    BY <1>4, <1>6, <1>7, WalkBack
  <2>2. Stretch(S, 1, k) = UpTo(S, log[k].id)
    BY <2>1 DEF Stretch, UpTo, Earlier
  <2>3. QED
    BY <1>4, <1>7, <2>2
<1>8. CASE j # 1
  <2> DEFINE i == j - 1
  <2>1. /\ i \in DOMAIN log /\ Copy(i) \in S
        /\ Precedes(log[i].id, log[j].id)
        /\ \A q \in Earlier(S, log[j].id) : q = Copy(i) \/ Precedes(q.pos, log[i].id)
    BY <1>4, <1>6, <1>8, WalkBack
  <2>2. i \in 1..k /\ i < j /\ i..k = {i} \cup (j..k)
    BY <1>1, <1>4, <1>8
  <2>3. Copy(i).pos = log[i].id
    BY DEF Copy
  <2> HIDE DEF i
  <2>4. Precedes(log[i].id, log[k].id)
    BY <1>1, <1>4, <1>6, <2>1, <2>2, IdsOrder
  <2>5. Copy(i) \in Stretch(S, i, k)
    BY <1>1, <2>1, <2>2, <2>3, <2>4, IdsOrder DEF Stretch, UpTo
  <2>6. ASSUME NEW q \in Stretch(S, j, k) PROVE q \in Stretch(S, i, k)
    <3>1. q \in UpTo(S, log[k].id) /\ ~ Precedes(q.pos, log[j].id) /\ q.pos \in Id
      BY DEF Stretch, UpTo, IsStored
    <3>2. ~ Precedes(q.pos, log[i].id)
      BY <1>1, <1>4, <2>1, <2>2, <3>1, IdsOrder
    <3>3. QED
      BY <3>1, <3>2 DEF Stretch
  <2>7. ASSUME NEW q \in Stretch(S, i, k) PROVE q = Copy(i) \/ q \in Stretch(S, j, k)
    <3>1. q \in UpTo(S, log[k].id) /\ q \in S /\ ~ Precedes(q.pos, log[i].id)
      BY DEF Stretch, UpTo
    <3>2. CASE Precedes(q.pos, log[j].id)
      BY <2>1, <3>1, <3>2 DEF Earlier
    <3>3. CASE ~ Precedes(q.pos, log[j].id)
      BY <3>1, <3>3 DEF Stretch
    <3>4. QED
      BY <3>2, <3>3
  <2>8. Stretch(S, i, k) = {Copy(i)} \cup Stretch(S, j, k)
    BY <2>5, <2>6, <2>7
  <2>9. Good(i)
    BY <1>4, <2>2, <2>8
  <2>10. QED
    BY <1>1, <1>3, <1>4, <2>2, <2>9
<1>9. QED
  BY <1>7, <1>8

(***************************************************************************)
(* Tampering shows: whatever is done to the rows at rest, a table that     *)
(* still verifies holds, up to any row the log wrote, the log's own        *)
(* history, for any writers, any clocks and any log.                       *)
(***************************************************************************)
THEOREM TamperingShows == Spec => []HistoryIsTrusted
<1>1. TypeOK /\ ChainFollowsCommits => HistoryIsTrusted
  BY TrustedHistory DEF HistoryIsTrusted
<1>2. QED
  BY <1>1, TypeCorrect, LogIsOneChain, PTL

LEMMA CopiesAreStored ==
  ASSUME TypeOK, IdsUnique, NEW S \in SUBSET {Copy(k) : k \in DOMAIN log}
  PROVE  IsStored(S)
<1>1. ASSUME NEW q \in S
      PROVE  \E k \in DOMAIN log : q = Copy(k) /\ q.pos = log[k].id /\ q.hash = log[k].id
  BY DEF Copy
<1>2. \A q \in S : q.pos \in Id /\ q.hash # Genesis
  BY <1>1, IdsOfLog
<1>3. \A q, r \in S : q.pos = r.pos => q = r
  BY <1>1 DEF IdsUnique
<1>4. \A q \in S, k \in DOMAIN log : q.hash = log[k].id => q = Copy(k)
  BY <1>1 DEF IdsUnique
<1>5. QED
  BY <1>2, <1>3, <1>4 DEF IsStored

\* The last row that is left has all those before it.
LEMMA RemovalShows ==
  ASSUME TypeOK, ChainInv, NEW S \in SUBSET {Copy(k) : k \in DOMAIN log}, StoredVerifies(S)
  PROVE  \E n \in 0..Len(log) : S = {Copy(k) : k \in 1..n}
<1> DEFINE T == {d \in 0..Len(log) : Copy(Len(log) - d) \in S /\ Len(log) - d \in DOMAIN log}
<1>1. Len(log) \in Nat /\ DOMAIN log = 1..Len(log)
  BY IdsOfLog
<1>2. CASE S = {}
  BY <1>1, <1>2
<1>3. CASE S # {}
  <2>1. PICK k \in DOMAIN log : Copy(k) \in S
    BY <1>3
  <2>2. Len(log) - k \in 0..Len(log) /\ Len(log) - (Len(log) - k) = k
    BY <1>1
  <2>3. T \in SUBSET Nat /\ T # {}
    BY <1>1, <2>1, <2>2
  <2>4. \E d \in T : \A x \in T : d <= x
    <3> HIDE DEF T
    <3>1. QED
      BY <2>3, LeastNatural
  <2>5. PICK d \in T : \A x \in T : d <= x
    BY <2>4
  <2>6. PICK n \in DOMAIN log : n = Len(log) - d /\ Copy(n) \in S
    BY <2>5
  <2>7. ASSUME NEW i \in DOMAIN log, Copy(i) \in S PROVE i \in 1..n
    <3>1. Len(log) - i \in 0..Len(log) /\ Len(log) - (Len(log) - i) = i
      BY <1>1
    <3>2. Len(log) - i \in T
      BY <2>7, <3>1
    <3>3. d <= Len(log) - i /\ d \in Nat
      BY <1>1, <2>5, <3>2
    <3>4. QED
      BY <1>1, <2>6, <3>3
  <2>8. UpTo(S, log[n].id) = {Copy(j) : j \in 1..n}
    BY <2>6, CopiesAreStored, TrustedHistory DEF ChainInv
  <2>9. S = {Copy(j) : j \in 1..n}
    BY <2>7, <2>8 DEF UpTo
  <2>10. n \in 0..Len(log)
    BY <1>1, <2>6
  <2> HIDE DEF T
  <2>11. QED
    BY <2>9, <2>10
<1>4. QED
  BY <1>2, <1>3

(***************************************************************************)
(* A row removed from anywhere but the end of the log is missed: of the    *)
(* rows the log wrote only a first part of them verifies.                  *)
(***************************************************************************)
THEOREM OnlyTheEndGoesUnseen == Spec => []RemovalsShow
<1>1. TypeOK /\ ChainInv => RemovalsShow
  BY RemovalShows DEF RemovalsShow
<1>2. QED
  BY <1>1, TypeCorrect, ChainHolds, PTL

(***************************************************************************)
(* Nothing is asked in vain: what the log wrote is such a table, and it    *)
(* verifies while rows commit in id order.                                 *)
(***************************************************************************)
THEOREM UntouchedTableVerifies ==
  Spec => [](StampsOrdered => LET S == {Copy(k) : k \in DOMAIN log}
                              IN  IsStored(S) /\ StoredVerifies(S))
<1> DEFINE S == {Copy(k) : k \in DOMAIN log}
           Verifies == StampsOrdered => IsStored(S) /\ StoredVerifies(S)
<1>1. ASSUME TypeOK, ChainInv, StampsOrdered PROVE IsStored(S) /\ StoredVerifies(S)
  <2>1. IsStored(S)
    BY <1>1, CopiesAreStored DEF ChainInv
  <2>2. ASSUME NEW k \in DOMAIN log PROVE IsLastHash(Earlier(S, log[k].id), log[k].prev)
    <3>1. \A j \in DOMAIN log : Copy(j).pos = log[j].id /\ Copy(j).hash = log[j].id
      BY DEF Copy
    <3>2. \A i, j \in DOMAIN log : i < j <=> Precedes(log[i].id, log[j].id)
      <4> SUFFICES ASSUME NEW i \in DOMAIN log, NEW j \in DOMAIN log
                   PROVE  i < j <=> Precedes(log[i].id, log[j].id)
        OBVIOUS
      <4>1. i < j \/ i = j \/ j < i
        BY IdsOfLog
      <4>2. log[i].id \in Id /\ log[j].id \in Id
        BY <1>1, IdsOfLog
      <4>3. i < j => Precedes(log[i].id, log[j].id)
        BY <1>1 DEF StampsOrdered
      <4>4. j < i => Precedes(log[j].id, log[i].id)
        BY <1>1 DEF StampsOrdered
      <4>5. QED
        BY <4>1, <4>2, <4>3, <4>4, IdsOrder
    <3>3. Earlier(S, log[k].id) = {Copy(j) : j \in 1..(k - 1)}
      <4>1. 1..(k - 1) = {j \in DOMAIN log : j < k}
        BY <1>1, IdsOfLog
      <4>2. QED
        BY <3>1, <3>2, <4>1 DEF Earlier
    <3>4. CASE k = 1
      BY <1>1, <3>3, <3>4 DEF IsLastHash, ChainInv, ChainFollowsCommits
    <3>5. CASE k # 1
      <4>1. k - 1 \in DOMAIN log /\ k - 1 \in 1..(k - 1) /\ log[k].prev = log[k - 1].id
        BY <1>1, <3>5, IdsOfLog DEF ChainInv, ChainFollowsCommits
      <4>2. \A j \in 1..(k - 1) : j \in DOMAIN log /\ (j = k - 1 \/ j < k - 1)
        BY <1>1, IdsOfLog
      <4>3. Copy(k - 1) \in Earlier(S, log[k].id) /\ Copy(k - 1).hash = log[k].prev
        BY <3>1, <3>3, <4>1
      <4>4. ASSUME NEW q \in Earlier(S, log[k].id)
            PROVE  q = Copy(k - 1) \/ Precedes(q.pos, Copy(k - 1).pos)
        <5>1. PICK j \in 1..(k - 1) : q = Copy(j)
          BY <3>3
        <5>2. j \in DOMAIN log /\ (j = k - 1 \/ j < k - 1)
          BY <4>2
        <5>3. QED
          BY <3>1, <3>2, <4>1, <5>1, <5>2
      <4>5. QED
        BY <4>3, <4>4 DEF IsLastHash
    <3>6. QED
      BY <3>4, <3>5
  <2>3. StoredVerifies(S)
    BY <2>2 DEF StoredVerifies, Copy
  <2>4. QED
    BY <2>1, <2>3
<1>2. TypeOK /\ ChainInv => Verifies
  BY <1>1
<1>3. QED
  BY <1>2, TypeCorrect, ChainHolds, PTL

RankOf(S, j) == Cardinality({k \in S : Precedes(k, j)})

LEMMA RankType ==
  ASSUME NEW S, S \subseteq Id, IsFiniteSet(S), NEW j \in S
  PROVE  RankOf(S, j) \in 0..(Cardinality(S) - 1) /\ Cardinality(S) \in Nat
<1> DEFINE T == {k \in S : Precedes(k, j)}
<1>1. T \subseteq S /\ j \notin T
  BY CursorOrder DEF Cursors
<1>2. IsFiniteSet(T) /\ Cardinality(T) <= Cardinality(S) /\ Cardinality(T) # Cardinality(S)
  BY <1>1, FS_Subset
<1>3. Cardinality(T) \in Nat /\ Cardinality(S) \in Nat
  BY <1>2, FS_CardinalityType
<1>4. QED
  BY <1>2, <1>3 DEF RankOf

LEMMA RankGrows ==
  ASSUME NEW S, S \subseteq Id, IsFiniteSet(S), NEW j \in S, NEW k \in S, Precedes(j, k)
  PROVE  RankOf(S, j) < RankOf(S, k)
<1> DEFINE T == {i \in S : Precedes(i, j)}
           U == {i \in S : Precedes(i, k)}
<1>1. T \subseteq U /\ j \in U /\ j \notin T /\ U \subseteq S
  BY CursorOrder DEF Cursors
<1>2. IsFiniteSet(U)
  BY <1>1, FS_Subset
<1>3. IsFiniteSet(T) /\ Cardinality(T) <= Cardinality(U) /\ Cardinality(T) # Cardinality(U)
  BY <1>1, <1>2, FS_Subset
<1>4. Cardinality(T) \in Nat /\ Cardinality(U) \in Nat
  BY <1>2, <1>3, FS_CardinalityType
<1>5. QED
  BY <1>3, <1>4 DEF RankOf

\* Ranks order the ids as Precedes does.
LEMMA RanksOrder ==
  ASSUME NEW S, S \subseteq Id, IsFiniteSet(S), NEW j \in S, NEW k \in S
  PROVE  /\ RankOf(S, j) < RankOf(S, k) <=> Precedes(j, k)
         /\ RankOf(S, j) = RankOf(S, k) => j = k
<1>1. RankOf(S, j) \in Int /\ RankOf(S, k) \in Int
  BY RankType
<1>2. Precedes(j, k) => RankOf(S, j) < RankOf(S, k)
  BY RankGrows
<1>3. Precedes(k, j) => RankOf(S, k) < RankOf(S, j)
  BY RankGrows
<1>4. j = k \/ Precedes(j, k) \/ Precedes(k, j)
  BY CursorOrder DEF Cursors
<1>5. QED
  BY <1>1, <1>2, <1>3, <1>4

\* Every rank below the size of the set is that of some id.
LEMMA RanksAreAll ==
  ASSUME NEW S, S \subseteq Id, IsFiniteSet(S), NEW n \in 0..(Cardinality(S) - 1)
  PROVE  \E j \in S : RankOf(S, j) = n
<1> DEFINE N == Cardinality(S)
           f == [j \in S |-> RankOf(S, j)]
<1>1. N \in Nat
  BY FS_CardinalityType
<1>2. IsFiniteSet(0..(N - 1)) /\ Cardinality(0..(N - 1)) = N
  <2>1. N - 1 \in Int /\ 0 \in Int
    BY <1>1
  <2>2. /\ IsFiniteSet(0..(N - 1))
        /\ Cardinality(0..(N - 1)) = IF 0 > N - 1 THEN 0 ELSE (N - 1) - 0 + 1
    BY <2>1, FS_Interval
  <2>3. QED
    BY <1>1, <2>2
<1>3. f \in [S -> 0..(N - 1)]
  BY RankType
<1>4. \A j, k \in S : f[j] = f[k] => j = k
  BY RanksOrder
<1>5. f \in Injection(S, 0..(N - 1))
  BY <1>3, <1>4 DEF Injection, IsInjective
<1>6. f \in Surjection(S, 0..(N - 1))
  BY <1>2, <1>5, FS_Injection
<1>7. QED
  BY <1>6 DEF Surjection

LEMMA LastExists ==
  ASSUME NEW S, S \subseteq Id, IsFiniteSet(S), S # {}
  PROVE  \E i \in S : \A j \in S : i = j \/ Precedes(j, i)
<1> DEFINE N == Cardinality(S)
<1>1. N \in Nat /\ N # 0
  BY FS_CardinalityType, FS_EmptySet
<1>2. N - 1 \in 0..(N - 1)
  BY <1>1
<1>3. PICK i \in S : RankOf(S, i) = N - 1
  BY <1>2, RanksAreAll
<1>4. ASSUME NEW j \in S, Precedes(i, j) PROVE FALSE
  <2>1. RankOf(S, i) < RankOf(S, j)
    BY <1>4, RankGrows
  <2>2. RankOf(S, j) \in 0..(N - 1)
    BY RankType
  <2>3. QED
    BY <1>1, <1>3, <2>1, <2>2
<1>5. QED
  BY <1>4, CursorOrder DEF Cursors

-----------------------------------------------------------------------------
(***************************************************************************)
(* The pages of the feed.                                                  *)
(***************************************************************************)
LEMMA ChangesAreFinite ==
  ASSUME TypeOK PROVE Changes \subseteq Id /\ IsFiniteSet(Changes)
<1>1. Len(log) \in Nat /\ DOMAIN log = 1..Len(log) /\ \A k \in 1..Len(log) : log[k] \in Row
  BY DEF TypeOK
<1> DEFINE D == {k \in 1..Len(log) : log[k].change}
           f == [k \in D |-> log[k].id]
<1>2. Changes = {log[k].id : k \in D}
  BY DEF Changes, Rows, Prefix
<1>3. f \in Surjection(D, Changes)
  BY <1>2 DEF Surjection
<1>4. IsFiniteSet(1..Len(log))
  BY <1>1, FS_Interval
<1>5. IsFiniteSet(D)
  BY <1>4, FS_Subset
<1>6. IsFiniteSet(Changes)
  BY <1>3, <1>5, FS_Surjection
<1>7. Changes \subseteq Id
  BY <1>1, <1>2 DEF Row
<1>8. QED
  BY <1>6, <1>7

LEMMA TailCursor == ASSUME TypeOK PROVE LatestChangeCursor \in Changes \cup {NoCursor}
<1>1. CASE Changes = {}
  BY <1>1 DEF LatestChangeCursor
<1>2. CASE Changes # {}
  BY <1>2, ChangesAreFinite, LastExists DEF LatestChangeCursor
<1>3. QED
  BY <1>1, <1>2

\* A page holds the first changes after the cursor, in order.
LEMMA Page ==
  ASSUME TypeOK, NEW i \in Cursors, NEW p, p = ChangesAfter(i, PageLimit)
  PROVE  /\ p \in Seq(Id)
         /\ \A n \in DOMAIN p : p[n] \in Changes /\ Precedes(i, p[n])
         /\ \A m, n \in DOMAIN p : m < n => Precedes(p[m], p[n])
         /\ \A n \in DOMAIN p : \A j \in Changes :
               (Precedes(i, j) /\ Precedes(j, p[n])) => \E m \in DOMAIN p : m < n /\ p[m] = j
<1> DEFINE found == {j \in Changes : Precedes(i, j)}
           N == Cardinality(found)
<1>1. found \subseteq Id /\ IsFiniteSet(found) /\ Changes \subseteq Id
  BY ChangesAreFinite, FS_Subset
<1>2. N \in Nat /\ PageLimit \in Nat
  BY <1>1, FS_CardinalityType, PageAssumption DEF PageAssumption
<1>3. PICK size \in Nat : /\ size <= N
                          /\ p = [n \in 1..size |-> CHOOSE j \in found : RankOf(found, j) = n - 1]
  <2> DEFINE size == IF N < PageLimit THEN N ELSE PageLimit
  <2>1. size \in Nat /\ size <= N
    BY <1>2
  <2>2. p = [n \in 1..size |-> CHOOSE j \in found : RankOf(found, j) = n - 1]
    BY DEF ChangesAfter, RankOf
  <2>3. QED
    BY <2>1, <2>2
<1>4. ASSUME NEW n \in 1..size PROVE p[n] \in found /\ RankOf(found, p[n]) = n - 1
  <2>1. n - 1 \in 0..(N - 1)
    BY <1>2, <1>3
  <2>2. \E j \in found : RankOf(found, j) = n - 1
    BY <1>1, <2>1, RanksAreAll
  <2>3. QED
    BY <1>3, <2>2
<1>5. DOMAIN p = 1..size
  BY <1>3
<1>6. p \in Seq(Id)
  <2>1. p \in [1..size -> Id]
    BY <1>1, <1>3, <1>4
  <2>2. QED
    BY <2>1
<1> HIDE DEF found
<1>7. ASSUME NEW m \in 1..size, NEW n \in 1..size, m < n PROVE Precedes(p[m], p[n])
  <2>1. m - 1 < n - 1
    BY <1>7
  <2>2. QED
    BY <1>1, <1>4, <2>1, RanksOrder
<1>8. ASSUME NEW n \in 1..size, NEW j \in found, Precedes(j, p[n])
      PROVE  \E m \in 1..size : m < n /\ p[m] = j
  <2>1. RankOf(found, j) < n - 1 /\ RankOf(found, j) \in 0..(N - 1)
    <3>1. RankOf(found, j) < RankOf(found, p[n])
      BY <1>1, <1>4, <1>8, RanksOrder
    <3>2. QED
      BY <1>1, <1>4, <3>1, RankType
  <2>2. PICK m \in 1..size : m < n /\ m - 1 = RankOf(found, j)
    <3>1. RankOf(found, j) + 1 \in 1..size /\ RankOf(found, j) + 1 < n
      BY <1>2, <1>3, <2>1
    <3>2. (RankOf(found, j) + 1) - 1 = RankOf(found, j)
      BY <2>1
    <3>3. \E m \in 1..size : m < n /\ m - 1 = RankOf(found, j)
      BY <3>1, <3>2, Zenon
    <3>4. QED
      BY <3>3
  <2>3. p[m] = j
    BY <1>1, <1>4, <2>2, RanksOrder
  <2>4. QED
    BY <2>2, <2>3
<1> USE DEF found
<1>9. QED
  BY <1>4, <1>5, <1>6, <1>7, <1>8

-----------------------------------------------------------------------------
(***************************************************************************)
(* What the steps of the log do to the feed, and those of a client.        *)
(***************************************************************************)
\* The log grows by at most a row.
LEMMA LogGrows ==
  ASSUME TypeOK, [Next]_vars
  PROVE  log' = log \/ \E r \in Row : log' = Append(log, r)
<1>1. ASSUME NEW w \in Writers, InsertOne(w)
      PROVE  \E r \in Row : log' = Append(log, r)
  <2> DEFINE r == [id |-> op[w].id, prev |-> op[w].prev, change |-> op[w].change]
  <2>1. r \in Row
    BY <1>1 DEF InsertOne, TypeOK, Op, Row
  <2>2. log' = Append(log, r)
    BY <1>1 DEF InsertOne
  <2>3. QED
    BY <2>1, <2>2
<1>2. QED
  BY <1>1 DEF Next, Step, Quiet, Tick, Begin, Stamp, ReadTail, RetryTransaction, FailAppend,
              Abandon, vars

LEMMA LogKeeps ==
  ASSUME TypeOK, NEW r \in Row, log' = Append(log, r)
  PROVE  /\ Len(log) \in Nat /\ DOMAIN log = 1..Len(log) /\ DOMAIN log' = 1..(Len(log) + 1)
         /\ \A k \in DOMAIN log : log'[k] = log[k]
         /\ log'[Len(log) + 1] = r
BY DEF TypeOK

LEMMA ChangesGrow ==
  ASSUME TypeOK, NEW r \in Row, log' = Append(log, r)
  PROVE  Changes \subseteq Changes' /\ Changes' \subseteq Changes \cup {r.id}
<1>1. Changes = {log[k].id : k \in {n \in DOMAIN log : log[n].change}}
  BY DEF Changes, Rows, Prefix, TypeOK
<1>2. Changes' = {log'[k].id : k \in {n \in DOMAIN log' : log'[n].change}}
  BY LogKeeps DEF Changes, Rows, Prefix
<1>3. QED
  BY <1>1, <1>2, LogKeeps

\* Of a log in order, the part before a row is in order and precedes it.
LEMMA OrderGrows ==
  ASSUME TypeOK, NEW r \in Row, log' = Append(log, r), StampsOrdered'
  PROVE  StampsOrdered /\ \A i \in Changes : Precedes(i, r.id)
<1>1. StampsOrdered
  BY LogKeeps DEF StampsOrdered
<1>2. \A k \in DOMAIN log : Precedes(log[k].id, r.id)
  <2> SUFFICES ASSUME NEW k \in DOMAIN log PROVE Precedes(log[k].id, r.id)
    OBVIOUS
  <2>1. k \in DOMAIN log' /\ Len(log) + 1 \in DOMAIN log' /\ k < Len(log) + 1
    BY LogKeeps
  <2>2. Precedes(log'[k].id, log'[Len(log) + 1].id)
    BY <2>1 DEF StampsOrdered
  <2>3. QED
    BY <2>2, LogKeeps
<1>3. QED
  BY <1>1, <1>2 DEF Changes, Rows, Prefix, TypeOK

LEMMA CursorTypes ==
  ASSUME TypeOK, FeedInv, NEW c \in Clients
  PROVE  /\ CursorInv(c) /\ cursor[c] \in Cursors
         /\ page[c] \in Seq(Id) /\ received[c] \in Seq(Id)
         /\ Changes \subseteq Id /\ Owed(c) \subseteq Changes
<1>1. Changes \subseteq Id
  BY ChangesAreFinite
<1>2. ASSUME NEW i \in Owed(c) PROVE i \in Changes
  <2>1. PICK k \in DOMAIN log : log[k].change /\ i = log[k].id
    BY DEF Owed
  <2>2. DOMAIN log = 1..Len(log)
    BY IdsOfLog
  <2>3. log[k] \in Rows
    BY <2>1, <2>2 DEF Rows, Prefix
  <2>4. QED
    BY <2>1, <2>3 DEF Changes
<1>3. QED
  BY <1>1, <1>2 DEF FeedInv, FeedTypeOK, Cursors

-----------------------------------------------------------------------------
(***************************************************************************)
(* A step of the log.                                                      *)
(***************************************************************************)
LEMMA LogStep ==
  ASSUME TypeOK, FeedInv, [Next]_vars, UNCHANGED feedVars PROVE FeedInv'
<1>1. /\ UNCHANGED <<stream, cursor, page, received, since>>
      /\ FeedTypeOK' /\ ReceivedInOrder'
  BY DEF FeedInv, FeedTypeOK, ReceivedInOrder, feedVars
<1>2. CASE log' = log
  <2>1. Changes' = Changes /\ StampsOrdered' = StampsOrdered /\ \A c \in Clients : Owed(c)' = Owed(c)
    BY <1>1, <1>2 DEF Changes, Rows, Prefix, StampsOrdered, Owed
  <2>2. \A c \in Clients : CursorInv(c)' = CursorInv(c) /\ PageHasNoGap(c)' = PageHasNoGap(c)
    BY <1>1, <2>1 DEF CursorInv, PageHasNoGap
  <2>3. FeedHasNoGap' = FeedHasNoGap
    BY <1>1, <2>1 DEF FeedHasNoGap, Subscribed
  <2>4. QED
    BY <1>1, <2>1, <2>2, <2>3 DEF FeedInv
<1>3. CASE \E r \in Row : log' = Append(log, r)
  <2>1. PICK r \in Row : log' = Append(log, r)
    BY <1>3
  <2>2. Changes \subseteq Changes' /\ Changes' \subseteq Changes \cup {r.id} /\ r.id \in Id
    BY <2>1, ChangesGrow DEF Row
  <2>3. \A c \in Clients : CursorInv(c)'
    BY <1>1, <2>2, CursorTypes DEF CursorInv
  <2>4. ASSUME StampsOrdered'
        PROVE  FeedHasNoGap' /\ \A c \in Clients : PageHasNoGap(c)'
    <3>1. StampsOrdered /\ \A i \in Changes : Precedes(i, r.id)
      BY <2>1, <2>4, OrderGrows
    <3>2. FeedHasNoGap /\ \A c \in Clients : PageHasNoGap(c)
      BY <3>1 DEF FeedInv
    <3>3. ASSUME NEW c \in Clients PROVE Precedes(cursor[c], r.id)
      <4>1. cursor[c] \in Changes \cup {NoCursor}
        BY CursorTypes DEF CursorInv
      <4>2. Precedes(NoCursor, r.id)
        BY <2>2, CursorOrder DEF Cursors
      <4>3. QED
        BY <3>1, <4>1, <4>2
    <3>4. ASSUME NEW c \in Clients PROVE PageHasNoGap(c)'
      <4> SUFFICES ASSUME NEW n \in DOMAIN page[c], NEW i \in Changes',
                          Precedes(cursor[c], i), Precedes(i, page[c][n])
                   PROVE  \E m \in DOMAIN page[c] : m < n /\ page[c][m] = i
        BY <1>1 DEF PageHasNoGap
      <4>1. page[c][n] \in Changes /\ Changes \subseteq Id
        BY CursorTypes DEF CursorInv
      <4>2. i # r.id
        <5>1. Precedes(page[c][n], r.id)
          BY <3>1, <4>1
        <5>2. page[c][n] \in Cursors /\ r.id \in Cursors
          BY <2>2, <4>1 DEF Cursors
        <5>3. QED
          BY <5>1, <5>2, CursorOrder
      <4>3. i \in Changes
        BY <2>2, <4>2
      <4>4. QED
        BY <3>2, <4>3 DEF PageHasNoGap
    <3>5. FeedHasNoGap'
      <4> SUFFICES ASSUME NEW c \in Clients, Subscribed(c)', NEW i \in Owed(c)'
                   PROVE  Precedes(cursor[c], i) \/ i \in Range(received[c])
        BY <1>1 DEF FeedHasNoGap
      <4>1. Owed(c)' \subseteq Owed(c) \cup {r.id}
        BY <1>1, <2>1, LogKeeps DEF Owed
      <4>2. Subscribed(c)
        BY <1>1 DEF Subscribed
      <4>3. QED
        BY <3>2, <3>3, <4>1, <4>2 DEF FeedHasNoGap
    <3>6. QED
      BY <3>4, <3>5
  <2>5. QED
    BY <1>1, <2>3, <2>4 DEF FeedInv
<1>4. QED
  BY <1>2, <1>3, LogGrows

-----------------------------------------------------------------------------
(***************************************************************************)
(* A step of a client's stream.  It leaves the log and the other clients   *)
(* alone.                                                                  *)
(***************************************************************************)
\* What FeedInv says of one client.
ClientInv(c) ==
    /\ stream[c] \in BOOLEAN /\ cursor[c] \in Id \cup {NoCursor}
    /\ page[c] \in Seq(Id) /\ received[c] \in Seq(Id) /\ since[c] \in Nat \cup {-1}
    /\ CursorInv(c)
    /\ \A m, n \in DOMAIN received[c] :
          m < n => Precedes(received[c][m], received[c][n])
    /\ StampsOrdered =>
          /\ Subscribed(c) =>
                \A i \in Owed(c) : Precedes(cursor[c], i) \/ i \in Range(received[c])
          /\ PageHasNoGap(c)

Others(c) ==
    /\ stream' \in [Clients -> BOOLEAN] /\ cursor' \in [Clients -> Id \cup {NoCursor}]
    /\ page' \in [Clients -> Seq(Id)] /\ received' \in [Clients -> Seq(Id)]
    /\ since' \in [Clients -> Nat \cup {-1}]
    /\ \A d \in Clients : d # c =>
          /\ stream'[d] = stream[d] /\ cursor'[d] = cursor[d] /\ page'[d] = page[d]
          /\ received'[d] = received[d] /\ since'[d] = since[d]

LEMMA ClientsHold ==
  ASSUME FeedInv PROVE \A c \in Clients : ClientInv(c)
BY DEF FeedInv, FeedTypeOK, ReceivedInOrder, FeedHasNoGap, ClientInv

LEMMA ClientStep ==
  ASSUME FeedInv, NEW c \in Clients, log' = log, Others(c), ClientInv(c)'
  PROVE  FeedInv'
<1>1. Changes' = Changes /\ StampsOrdered' = StampsOrdered
  BY DEF Changes, Rows, Prefix, StampsOrdered
<1>2. \A d \in Clients : ClientInv(d)'
  <2> SUFFICES ASSUME NEW d \in Clients, d # c PROVE ClientInv(d)'
    OBVIOUS
  <2>1. /\ stream'[d] = stream[d] /\ cursor'[d] = cursor[d] /\ page'[d] = page[d]
        /\ received'[d] = received[d] /\ since'[d] = since[d]
    BY DEF Others
  <2>2. ClientInv(d)
    BY ClientsHold
  <2>3. CursorInv(d)'
    BY <1>1, <2>1, <2>2 DEF CursorInv, ClientInv
  <2>4. PageHasNoGap(d)' = PageHasNoGap(d) /\ Owed(d)' = Owed(d) /\ Subscribed(d)' = Subscribed(d)
    BY <1>1, <2>1 DEF PageHasNoGap, Owed, Subscribed
  <2>5. QED
    BY <1>1, <2>1, <2>2, <2>3, <2>4 DEF ClientInv
<1>3. FeedTypeOK'
  BY DEF Others, FeedTypeOK
<1>4. ReceivedInOrder' /\ \A d \in Clients : CursorInv(d)'
  BY <1>2 DEF ReceivedInOrder, ClientInv
<1>5. StampsOrdered' => FeedHasNoGap' /\ \A d \in Clients : PageHasNoGap(d)'
  BY <1>2 DEF ClientInv, FeedHasNoGap
<1>6. QED
  BY <1>3, <1>4, <1>5 DEF FeedInv

LEMMA OpenStep ==
  ASSUME TypeOK, FeedInv, NEW c \in Clients, Open(c) PROVE FeedInv'
<1>1. /\ ClientInv(c) /\ FeedTypeOK /\ Changes \subseteq Id /\ log' = log
      /\ page' = page /\ received' = received
  BY ClientsHold, ChangesAreFinite DEF Open, FeedInv, vars
<1>2. page[c] = << >> /\ stream' = [stream EXCEPT ![c] = TRUE]
  BY <1>1 DEF Open, ClientInv, CursorInv
<1>3. Changes' = Changes /\ StampsOrdered' = StampsOrdered
  BY <1>1 DEF Changes, Rows, Prefix, StampsOrdered
<1>4. CASE received[c] = << >>
  <2>1. /\ cursor' = [cursor EXCEPT ![c] = LatestChangeCursor]
        /\ since' = [since EXCEPT ![c] = Len(log)]
    BY <1>4 DEF Open
  <2>2. LatestChangeCursor \in Changes \cup {NoCursor} /\ Len(log) \in Nat
    BY TailCursor DEF TypeOK
  <2>3. Others(c)
    BY <1>1, <1>2, <2>1, <2>2 DEF Others, FeedTypeOK
  <2>4. /\ stream'[c] = TRUE /\ cursor'[c] = LatestChangeCursor /\ since'[c] = Len(log)
        /\ page'[c] = << >> /\ received'[c] = << >>
    BY <1>1, <1>2, <1>4, <2>1 DEF FeedTypeOK
  <2>5. CursorInv(c)' /\ PageHasNoGap(c)'
    BY <1>3, <2>2, <2>4 DEF CursorInv, PageHasNoGap
  <2>6. Owed(c)' = {}
    BY <1>1, <2>4 DEF Owed, TypeOK
  <2>7. ClientInv(c)'
    BY <1>1, <2>2, <2>4, <2>5, <2>6 DEF ClientInv
  <2>8. QED
    BY <1>1, <2>3, <2>7, ClientStep
<1>5. CASE received[c] # << >>
  <2>1. cursor'  = [cursor EXCEPT ![c] = Last(received[c])] /\ since' = since
    BY <1>5 DEF Open
  <2>2. cursor[c] = Last(received[c])
    BY <1>1, <1>5 DEF ClientInv, CursorInv
  <2>3. cursor' = cursor
    BY <1>1, <2>1, <2>2 DEF FeedTypeOK
  <2>4. Others(c)
    BY <1>1, <1>2, <2>1, <2>3 DEF Others, FeedTypeOK
  <2>5. stream'[c] = TRUE
    BY <1>1, <1>2 DEF FeedTypeOK
  <2>6. CursorInv(c)' /\ PageHasNoGap(c)'
    BY <1>1, <1>2, <1>3, <2>3, <2>5 DEF CursorInv, PageHasNoGap, ClientInv
  <2>7. Owed(c)' = Owed(c) /\ Subscribed(c)' = Subscribed(c)
    BY <1>1, <2>1 DEF Owed, Subscribed
  <2>8. ClientInv(c)'
    BY <1>1, <1>3, <2>1, <2>3, <2>5, <2>6, <2>7 DEF ClientInv
  <2>9. QED
    BY <1>1, <2>4, <2>8, ClientStep
<1>6. QED
  BY <1>4, <1>5

LEMMA PollStep ==
  ASSUME TypeOK, FeedInv, NEW c \in Clients, Poll(c) PROVE FeedInv'
<1> DEFINE p == ChangesAfter(cursor[c], PageLimit)
<1>1. /\ ClientInv(c) /\ FeedTypeOK /\ log' = log /\ stream[c]
      /\ UNCHANGED <<stream, cursor, received, since>>
      /\ page' = [page EXCEPT ![c] = p]
  BY ClientsHold DEF Poll, FeedInv, vars
<1>2. cursor[c] \in Cursors
  BY <1>1 DEF ClientInv, Cursors
<1>3. /\ p \in Seq(Id)
      /\ \A n \in DOMAIN p : p[n] \in Changes /\ Precedes(cursor[c], p[n])
      /\ \A m, n \in DOMAIN p : m < n => Precedes(p[m], p[n])
      /\ \A n \in DOMAIN p : \A j \in Changes :
            (Precedes(cursor[c], j) /\ Precedes(j, p[n])) => \E m \in DOMAIN p : m < n /\ p[m] = j
  BY <1>2, Page
<1> HIDE DEF p
<1>4. page'[c] = p /\ Others(c)
  BY <1>1, <1>3 DEF Others, FeedTypeOK
<1>5. Changes' = Changes /\ StampsOrdered' = StampsOrdered
  BY <1>1 DEF Changes, Rows, Prefix, StampsOrdered
<1>6. CursorInv(c)' /\ PageHasNoGap(c)'
  BY <1>1, <1>3, <1>4, <1>5 DEF CursorInv, PageHasNoGap, ClientInv
<1>7. Owed(c)' = Owed(c) /\ Subscribed(c)' = Subscribed(c)
  BY <1>1 DEF Owed, Subscribed
<1>8. ClientInv(c)'
  BY <1>1, <1>3, <1>4, <1>5, <1>6, <1>7 DEF ClientInv
<1>9. QED
  BY <1>1, <1>4, <1>8, ClientStep

LEMMA BreakStep ==
  ASSUME TypeOK, FeedInv, NEW c \in Clients, Break(c) PROVE FeedInv'
<1>1. /\ ClientInv(c) /\ FeedTypeOK /\ log' = log
      /\ UNCHANGED <<cursor, received, since>>
      /\ stream' = [stream EXCEPT ![c] = FALSE] /\ page' = [page EXCEPT ![c] = << >>]
  BY ClientsHold DEF Break, FeedInv, vars
<1>2. stream'[c] = FALSE /\ page'[c] = << >> /\ Others(c)
  BY <1>1 DEF Others, FeedTypeOK
<1>3. Changes' = Changes /\ StampsOrdered' = StampsOrdered
  BY <1>1 DEF Changes, Rows, Prefix, StampsOrdered
<1>4. CursorInv(c)' /\ PageHasNoGap(c)'
  BY <1>1, <1>2, <1>3 DEF CursorInv, PageHasNoGap, ClientInv
<1>5. Owed(c)' = Owed(c) /\ Subscribed(c)' = Subscribed(c)
  BY <1>1 DEF Owed, Subscribed
<1>6. ClientInv(c)'
  <2>1. /\ stream'[c] \in BOOLEAN /\ cursor'[c] \in Id \cup {NoCursor}
        /\ page'[c] \in Seq(Id) /\ received'[c] \in Seq(Id) /\ since'[c] \in Nat \cup {-1}
    BY <1>2 DEF Others
  <2>2. cursor'[c] = cursor[c] /\ received'[c] = received[c]
    BY <1>1
  <2>3. QED
    BY <1>1, <1>3, <1>4, <1>5, <2>1, <2>2 DEF ClientInv
<1>7. QED
  BY <1>1, <1>2, <1>6, ClientStep

LEMMA SendStep ==
  ASSUME TypeOK, FeedInv, NEW c \in Clients, Send(c) PROVE FeedInv'
<1> DEFINE p == page[c]
           s == received[c]
<1>1. /\ ClientInv(c) /\ FeedTypeOK /\ log' = log /\ stream[c] /\ p # << >>
      /\ UNCHANGED <<stream, since>>
      /\ cursor' = [cursor EXCEPT ![c] = Head(p)]
      /\ received' = [received EXCEPT ![c] = Append(s, Head(p))]
      /\ page' = [page EXCEPT ![c] = Tail(p)]
  BY ClientsHold DEF Send, FeedInv, vars
<1>2. /\ p \in Seq(Id) /\ s \in Seq(Id) /\ cursor[c] \in Cursors
      /\ Len(p) \in Nat /\ Len(p) # 0 /\ Len(s) \in Nat
      /\ DOMAIN p = 1..Len(p) /\ DOMAIN s = 1..Len(s)
      /\ Head(p) = p[1] /\ p[1] \in Id /\ 1 \in DOMAIN p
  BY <1>1 DEF ClientInv, Cursors
<1>3. /\ Tail(p) \in Seq(Id) /\ DOMAIN Tail(p) = 1..(Len(p) - 1)
      /\ \A n \in 1..(Len(p) - 1) : n + 1 \in DOMAIN p /\ Tail(p)[n] = p[n + 1]
  BY <1>1, <1>2
<1>4. /\ Append(s, p[1]) \in Seq(Id) /\ DOMAIN Append(s, p[1]) = 1..(Len(s) + 1)
      /\ Append(s, p[1])[Len(s) + 1] = p[1] /\ Len(Append(s, p[1])) = Len(s) + 1
      /\ \A n \in 1..Len(s) : Append(s, p[1])[n] = s[n]
  BY <1>2
<1>5. /\ cursor'[c] = p[1] /\ received'[c] = Append(s, p[1]) /\ page'[c] = Tail(p)
      /\ stream'[c] = stream[c] /\ since'[c] = since[c]
      /\ Others(c)
  BY <1>1, <1>2, <1>3, <1>4 DEF Others, FeedTypeOK
<1>6. Changes' = Changes /\ StampsOrdered' = StampsOrdered /\ Changes \subseteq Cursors
  BY <1>1, ChangesAreFinite DEF Changes, Rows, Prefix, StampsOrdered, Cursors
<1>7. /\ \A n \in DOMAIN p : p[n] \in Changes /\ Precedes(cursor[c], p[n])
      /\ \A m, n \in DOMAIN p : m < n => Precedes(p[m], p[n])
      /\ \A m, n \in DOMAIN s : m < n => Precedes(s[m], s[n])
      /\ s # << >> => cursor[c] = s[Len(s)]
  BY <1>1 DEF ClientInv, CursorInv, Last
<1>8. CursorInv(c)'
  <2>1. cursor'[c] \in Changes' \cup {NoCursor} /\ (page'[c] # << >> => stream'[c])
    <3>1. stream'[c]
      BY <1>1
    <3>2. cursor'[c] \in Changes'
      BY <1>2, <1>5, <1>6, <1>7
    <3>3. QED
      BY <3>1, <3>2
  <2>2. cursor'[c] = Last(received'[c])
    BY <1>4, <1>5 DEF Last
  <2>3. \A n \in DOMAIN page'[c] : page'[c][n] \in Changes' /\ Precedes(cursor'[c], page'[c][n])
    <3> SUFFICES ASSUME NEW n \in 1..(Len(p) - 1)
                 PROVE  p[n + 1] \in Changes /\ Precedes(p[1], p[n + 1])
      BY <1>3, <1>5, <1>6
    <3>1. n + 1 \in DOMAIN p /\ 1 < n + 1
      BY <1>2
    <3>2. QED
      BY <1>2, <1>7, <3>1
  <2>4. \A m, n \in DOMAIN page'[c] : m < n => Precedes(page'[c][m], page'[c][n])
    <3> SUFFICES ASSUME NEW m \in 1..(Len(p) - 1), NEW n \in 1..(Len(p) - 1), m < n
                 PROVE  Precedes(p[m + 1], p[n + 1])
      <4>1. DOMAIN page'[c] = 1..(Len(p) - 1)
        BY <1>3, <1>5
      <4>2. \A n \in 1..(Len(p) - 1) : page'[c][n] = p[n + 1]
        BY <1>3, <1>5
      <4> HIDE DEF p
      <4>3. QED
        BY <4>1, <4>2
    <3>1. n + 1 \in DOMAIN p /\ m + 1 \in DOMAIN p /\ m + 1 < n + 1
      BY <1>2
    <3>2. QED
      BY <1>7, <3>1
  <2>5. QED
    BY <2>1, <2>2, <2>3, <2>4 DEF CursorInv
<1>9. \A m, n \in DOMAIN received'[c] : m < n => Precedes(received'[c][m], received'[c][n])
  <2> SUFFICES ASSUME NEW m \in 1..(Len(s) + 1), NEW n \in 1..(Len(s) + 1), m < n
               PROVE  Precedes(Append(s, p[1])[m], Append(s, p[1])[n])
    BY <1>4, <1>5
  <2>1. m \in 1..Len(s)
    BY <1>2
  <2>2. CASE n \in 1..Len(s)
    BY <1>2, <1>4, <1>7, <2>1, <2>2
  <2>3. CASE n = Len(s) + 1
    <3>1. Precedes(s[Len(s)], p[1]) /\ Len(s) \in DOMAIN s
      BY <1>2, <1>7, <2>1
    <3>2. m = Len(s) \/ Precedes(s[m], s[Len(s)])
      <4>1. m \in DOMAIN s /\ (m = Len(s) \/ m < Len(s))
        BY <1>2, <2>1
      <4>2. QED
        BY <1>7, <3>1, <4>1
    <3>3. s[m] \in Cursors /\ s[Len(s)] \in Cursors /\ p[1] \in Cursors
      BY <1>2, <2>1, <3>1 DEF Cursors
    <3>4. Precedes(s[m], p[1])
      BY <3>1, <3>2, <3>3, CursorOrder
    <3>5. QED
      BY <1>4, <2>1, <2>3, <3>4
  <2>4. QED
    BY <1>2, <2>2, <2>3
<1>10. ASSUME StampsOrdered' PROVE PageHasNoGap(c)'
  <2>0. /\ DOMAIN page'[c] = 1..(Len(p) - 1) /\ cursor'[c] = p[1]
        /\ \A n \in 1..(Len(p) - 1) : page'[c][n] = p[n + 1]
    BY <1>3, <1>5
  <2> SUFFICES ASSUME NEW n \in DOMAIN page'[c], NEW i \in Changes',
                      Precedes(cursor'[c], i), Precedes(i, page'[c][n])
               PROVE  \E m \in DOMAIN page'[c] : m < n /\ page'[c][m] = i
    BY DEF PageHasNoGap
  <2>a. n \in 1..(Len(p) - 1) /\ i \in Changes /\ Precedes(p[1], i) /\ Precedes(i, p[n + 1])
    BY <1>6, <2>0
  <2>1. PageHasNoGap(c)
    BY <1>1, <1>6, <1>10 DEF ClientInv
  <2>2. i \in Cursors /\ p[1] \in Cursors
    BY <1>2, <1>6, <2>a DEF Cursors
  <2>3. Precedes(cursor[c], i) /\ i # p[1]
    BY <1>2, <1>7, <2>2, <2>a, CursorOrder
  <2>4. n + 1 \in DOMAIN p
    BY <1>3, <2>a
  <2>5. PICK m \in DOMAIN p : m < n + 1 /\ p[m] = i
    BY <2>1, <2>3, <2>4, <2>a DEF PageHasNoGap
  <2>6. m # 1
    BY <2>3, <2>5
  <2>7. m - 1 \in 1..(Len(p) - 1) /\ m - 1 < n /\ (m - 1) + 1 = m
    BY <1>2, <2>5, <2>6, <2>a
  <2>8. QED
    BY <2>0, <2>5, <2>7
<1>11. ASSUME StampsOrdered', Subscribed(c)', NEW i \in Owed(c)'
       PROVE  Precedes(cursor'[c], i) \/ i \in Range(received'[c])
  <2>1. PageHasNoGap(c) /\ Subscribed(c) /\ i \in Owed(c)
    BY <1>1, <1>5, <1>6, <1>11 DEF ClientInv, Subscribed, Owed
  <2>2. Precedes(cursor[c], i) \/ i \in Range(s)
    BY <1>1, <1>6, <1>11, <2>1 DEF ClientInv
  <2>3. i \in Changes /\ i \in Cursors /\ p[1] \in Cursors
    <3>1. i \in Changes
      BY <2>1, CursorTypes
    <3>2. QED
      BY <1>2, <1>6, <3>1 DEF Cursors
  <2>4. Range(received'[c]) = Range(s) \cup {p[1]}
    BY <1>2, <1>4, <1>5 DEF Range
  <2>5. CASE i \in Range(s)
    BY <2>4, <2>5
  <2>6. CASE Precedes(cursor[c], i)
    <3>1. ~ Precedes(i, p[1])
      <4> SUFFICES ASSUME Precedes(i, p[1]) PROVE FALSE
        OBVIOUS
      <4>1. PICK m \in DOMAIN p : m < 1
        BY <1>2, <2>1, <2>3, <2>6 DEF PageHasNoGap
      <4>2. QED
        BY <1>2, <4>1
    <3>2. QED
      BY <1>5, <2>3, <2>4, <3>1, CursorOrder
  <2>7. QED
    BY <2>2, <2>5, <2>6
<1>12. ClientInv(c)'
  BY <1>1, <1>2, <1>3, <1>4, <1>5, <1>8, <1>9, <1>10, <1>11 DEF ClientInv
<1>13. QED
  BY <1>1, <1>5, <1>12, ClientStep

-----------------------------------------------------------------------------
LEMMA FeedStep ==
  ASSUME TypeOK, FeedInv, [FeedNext]_<<vars, feedVars>> PROVE FeedInv' /\ [Next]_vars
<1>1. CASE Next /\ UNCHANGED feedVars
  BY <1>1, LogStep
<1>2. ASSUME NEW c \in Clients, Open(c) \/ Poll(c) \/ Send(c) \/ Break(c)
      PROVE  FeedInv' /\ [Next]_vars
  BY <1>2, OpenStep, PollStep, SendStep, BreakStep DEF Open, Poll, Send, Break
<1>3. CASE UNCHANGED <<vars, feedVars>>
  BY <1>3, LogStep
<1>4. QED
  BY <1>1, <1>2, <1>3 DEF FeedNext

LEMMA FeedStarts == FeedInit => FeedInv
<1> SUFFICES ASSUME FeedInit PROVE FeedInv
  OBVIOUS
<1>1. FeedTypeOK
  BY DEF FeedInit, FeedTypeOK
<1>2. \A c \in Clients : CursorInv(c) /\ PageHasNoGap(c) /\ ~ Subscribed(c)
  BY DEF FeedInit, CursorInv, PageHasNoGap, Subscribed
<1>3. ReceivedInOrder
  BY DEF FeedInit, ReceivedInOrder
<1>4. QED
  BY <1>1, <1>2, <1>3 DEF FeedInv, FeedHasNoGap

(***************************************************************************)
(* The feed only reads the log: its steps are steps of AuditLog, or        *)
(* stutter, so that what holds of the log alone holds next to any number   *)
(* of streams (StreamDatasetChanges).                                      *)
(***************************************************************************)
THEOREM FeedRunsTheLog == FeedSpec => Spec
<1>1. FeedInit => Init
  BY DEF FeedInit
<1>2. [FeedNext]_<<vars, feedVars>> => [Next]_vars
  BY DEF FeedNext, Open, Poll, Send, Break
<1>3. QED
  BY <1>1, <1>2, PTL DEF FeedSpec, Spec

(***************************************************************************)
(* The inductive invariant of the feed: the cursor is that of the last     *)
(* change received, a page holds what follows it, and in a log in order    *)
(* nothing is missing in between.                                          *)
(***************************************************************************)
THEOREM FeedIsSound == FeedSpec => []FeedInv
<1>1. FeedSpec => []TypeOK
  BY FeedRunsTheLog, TypeCorrect, PTL
<1>2. QED
  BY <1>1, FeedStarts, FeedStep, PTL DEF FeedSpec

(***************************************************************************)
(* Whatever pages, breaks and resumes come, and in whatever order rows     *)
(* commit, a client receives changes in id order, each at most once.       *)
(***************************************************************************)
THEOREM ChangesComeInOrder == FeedSpec => []ReceivedInOrder
<1>1. FeedInv => ReceivedInOrder
  BY DEF FeedInv
<1>2. QED
  BY <1>1, FeedIsSound, PTL

(***************************************************************************)
(* While rows commit in the order of their ids, the cursor of a client is  *)
(* a durable one: it is never past a change the client has not received.   *)
(***************************************************************************)
THEOREM OrderedFeedIsComplete == FeedSpec => []OrderedFeedHasNoGap
<1>1. FeedInv => OrderedFeedHasNoGap
  BY DEF FeedInv, OrderedFeedHasNoGap
<1>2. QED
  BY <1>1, FeedIsSound, PTL
=================================================================================
