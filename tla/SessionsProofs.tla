---------------------------- MODULE SessionsProofs ----------------------------
(***************************************************************************)
(* Proofs about Sessions for any accounts, browsers, requests and          *)
(* lifetimes: the types, SignInInv (which holds SessionInv and is the      *)
(* inductive invariant of the module), and the properties of its runs.     *)
(***************************************************************************)
EXTENDS Sessions, FiniteSetTheorems, FunctionTheorems, SequenceTheorems, TLAPS

USE OwnerAssumption, LifetimesAssumption, NothingAssumption, BoundsAssumption

-----------------------------------------------------------------------------
(***************************************************************************)
(* The types.                                                              *)
(***************************************************************************)
LEMMA IsSeq == ASSUME NEW S, NEW n \in Nat, NEW f \in [1..n -> S]
               PROVE  f \in Seq(S) /\ Len(f) = n
OBVIOUS

LEMMA OfSeq == ASSUME NEW S, NEW s \in Seq(S)
               PROVE  Len(s) \in Nat /\ DOMAIN s = 1..Len(s) /\ s \in [1..Len(s) -> S]
OBVIOUS

LEMMA Appended ==
  ASSUME NEW S, NEW s \in Seq(S), NEW e \in S
  PROVE  /\ Append(s, e) \in Seq(S) /\ Len(Append(s, e)) = Len(s) + 1
         /\ Append(s, e)[Len(s) + 1] = e
         /\ \A i \in 1..Len(s) : Append(s, e)[i] = s[i]
BY AppendProperties

LEMMA RowsAre ==
  ASSUME TypeOK
  PROVE  Len(row) \in Nat /\ DOMAIN row = Rows /\ row \in [Rows -> Row]
<1>1. row \in Seq(Row)
  BY DEF TypeOK
<1>2. QED
  BY <1>1, OfSeq DEF Rows

\* Of TypeOK, what is not about the rows.
LEMMA FieldTypes ==
  ASSUME TypeOK
  PROVE  /\ now \in Nat /\ sent \in Nat /\ links \in 0..MaxLinks
         /\ account \in [Accounts -> Account]
         /\ reset \in [Accounts -> Reset \cup {Nothing}]
         /\ inbox \in [Accounts -> SUBSET (1..MaxLinks)]
         /\ jar \in [Clients -> 0..Len(row)]
         /\ task \in [Handlers -> {Idle} \cup Task]
         /\ ends \in [Accounts -> Nat]
         /\ spent \in [1..MaxLinks -> Nat] /\ crossed \subseteq 1..MaxLinks
BY DEF TypeOK

LEMMA Widen ==
  ASSUME NEW m \in Nat, NEW n \in Nat, m <= n
  PROVE  0..m \subseteq 0..n
OBVIOUS

LEMMA OneToZero == ASSUME NEW n \in Nat PROVE 1..n \subseteq 0..n
OBVIOUS

LEMMA OneMore == ASSUME NEW n \in Nat PROVE 1..(n + 1) = (1..n) \cup {n + 1}
OBVIOUS

LEMMA IdleFacts == Idle \notin Task /\ Idle.pc = "idle"
BY DEF Idle, Task, Stages

LEMMA TaskOf ==
  ASSUME TypeOK, NEW h \in Handlers, task[h].pc # "idle"
  PROVE  /\ task[h] \in Task
         /\ task[h].client \in Clients
         /\ AccountOf(h) \in Accounts
         /\ task[h].since \in Nat /\ task[h].at \in Nat
BY IdleFacts DEF TypeOK, Task, AccountOf

\* jar is one-to-one, so that every initial row is some browser's.
LEMMA FirstRows ==
  ASSUME IsFiniteSet(Clients), NEW j \in [Clients -> 1..Cardinality(Clients)],
         \A c, d \in Clients : c # d => j[c] # j[d]
  PROVE  \A i \in 1..Cardinality(Clients) : \E c \in Clients : j[c] = i
<1> DEFINE n == Cardinality(Clients)
<1>1. n \in Nat
  BY FS_CardinalityType
<1> HIDE DEF n
<1>2. IsFiniteSet(1..n) /\ Cardinality(1..n) = n
  <2>1. 1 \in Int /\ n \in Int
    BY <1>1
  <2>2. IsFiniteSet(1..n) /\ Cardinality(1..n) = IF 1 > n THEN 0 ELSE n - 1 + 1
    BY <2>1, FS_Interval
  <2>3. QED
    BY <1>1, <2>2
<1>3. j \in Injection(Clients, 1..n)
  BY DEF Injection, IsInjective, n
<1>4. j \in Surjection(Clients, 1..n)
  BY <1>2, <1>3, FS_Injection DEF n
<1>5. QED
  BY <1>4 DEF Surjection, n

LEMMA InitType == ASSUME Init PROVE TypeOK /\ Len(row) = Cardinality(Clients) /\ Len(row) \in Nat
<1> DEFINE n == Cardinality(Clients)
           Holder(i) == CHOOSE c \in Clients : jar[c] = i
<1>1. n \in Nat
  BY ClientsAssumption, FS_CardinalityType
<1>2. \A i \in 1..n : Holder(i) \in Clients
  BY FirstRows, ClientsAssumption DEF Init
<1>3. account \in [Accounts -> Account]
  <2>1. \A role \in Roles : Fresh(role) \in Account
    BY DEF Fresh, Account
  <2>2. QED
    BY <2>1 DEF Init
<1>4. \A i \in 1..n : Owner[Holder(i)] \in Accounts
  BY <1>2
<1>5. \A role \in Roles : Lifetime(role) \in Nat
  BY DEF Lifetime
<1>6. \A i \in 1..n : row[i] \in Row
  <2> SUFFICES ASSUME NEW i \in 1..n PROVE row[i] \in Row
    OBVIOUS
  <2> DEFINE a == Owner[Holder(i)]
  <2>1. a \in Accounts
    BY <1>4
  <2>2. account[a].role \in Roles /\ Lifetime(account[a].role) \in Nat
    BY <2>1, <1>3, <1>5 DEF Account
  <2>3. row[i] = [account |-> a, role |-> account[a].role, stage |-> "authenticated",
              epoch |-> 1, used |-> 0, expires |-> Lifetime(account[a].role),
              superseded |-> Nothing, revoked |-> FALSE, chain |-> i, proof |-> 0]
    BY DEF Init
  <2> HIDE DEF a
  <2>4. i \in Nat
    BY <1>1
  <2>5. QED
    BY <2>1, <2>2, <2>3, <2>4 DEF Row
<1>7. row \in Seq(Row) /\ Len(row) = n
  <2> HIDE DEF n
  <2>1. row = [i \in 1..n |-> row[i]]
    BY DEF Init, n
  <2>2. row \in [1..n -> Row]
    BY <1>6, <2>1
  <2> QED
    BY <1>1, <2>2, IsSeq
<1>8. task \in [Handlers -> {Idle} \cup Task]
  BY DEF Init
<1>9. QED
  BY <1>1, <1>3, <1>7, <1>8 DEF Init, TypeOK

-----------------------------------------------------------------------------
(***************************************************************************)
(* What a step does to the rows and to the requests.                       *)
(***************************************************************************)
LEMMA Lengths ==
  ASSUME TypeOK
  PROVE  Len(row) \in Nat /\ DOMAIN row = Rows /\ \A i \in Rows : i \in Nat /\ row[i] \in Row
<1>1. Len(row) \in Nat /\ DOMAIN row = Rows /\ row \in [Rows -> Row]
  BY RowsAre
<1>2. \A i \in Rows : i \in Nat
  BY <1>1 DEF Rows
<1>3. QED
  BY <1>1, <1>2

\* Rows are revoked, and nothing else about them changes.
Marked ==
    /\ row' \in Seq(Row) /\ Len(row') = Len(row)
    /\ \A i \in Rows : /\ row'[i].chain = row[i].chain
                       /\ row'[i].superseded = row[i].superseded
                       /\ row'[i].proof = row[i].proof
                       /\ row'[i].epoch = row[i].epoch

LEMMA Unmarked == ASSUME TypeOK, row' = row PROVE Marked
<1>1. row \in Seq(Row)
  BY DEF TypeOK
<1>2. QED
  BY <1>1 DEF Marked

\* A row that is revoked, or left alone, is a row and keeps the rest of itself.
LEMMA Revoked ==
  ASSUME NEW r \in Row, NEW q, q = r \/ q = [r EXCEPT !.revoked = TRUE]
  PROVE  /\ q \in Row
         /\ q.chain = r.chain /\ q.superseded = r.superseded
         /\ q.proof = r.proof /\ q.epoch = r.epoch
<1>1. CASE q = r
  BY <1>1
<1>2. CASE q = [r EXCEPT !.revoked = TRUE]
  BY <1>2 DEF Row
<1>3. QED
  BY <1>1, <1>2

LEMMA MarkSome ==
  ASSUME TypeOK, DOMAIN row' = Rows, row' = [i \in Rows |-> row'[i]],
         \A i \in Rows : row'[i] = row[i] \/ row'[i] = [row[i] EXCEPT !.revoked = TRUE]
  PROVE  Marked
<1>1. Len(row) \in Nat /\ \A i \in Rows : row[i] \in Row
  BY Lengths
<1>2. ASSUME NEW i \in Rows
      PROVE  /\ row'[i] \in Row
             /\ row'[i].chain = row[i].chain /\ row'[i].superseded = row[i].superseded
             /\ row'[i].proof = row[i].proof /\ row'[i].epoch = row[i].epoch
  <2>1. row[i] \in Row /\ (row'[i] = row[i] \/ row'[i] = [row[i] EXCEPT !.revoked = TRUE])
    BY <1>1
  <2>2. QED
    BY <2>1, Revoked
<1>3. row' \in [Rows -> Row]
  BY <1>2
<1>4. row' \in [1..Len(row) -> Row]
  BY <1>3 DEF Rows
<1>5. row' \in Seq(Row) /\ Len(row') = Len(row)
  BY <1>1, <1>4, IsSeq
<1>6. QED
  BY <1>2, <1>5 DEF Marked

LEMMA MarkOne ==
  ASSUME TypeOK, NEW k \in Rows, row' = [row EXCEPT ![k].revoked = TRUE]
  PROVE  Marked
<1>1. DOMAIN row = Rows /\ row \in [Rows -> Row]
  BY RowsAre
<1>2. DOMAIN row' = Rows /\ row' = [i \in Rows |-> row'[i]]
  BY <1>1
<1>3. ASSUME NEW i \in Rows
      PROVE  row'[i] = row[i] \/ row'[i] = [row[i] EXCEPT !.revoked = TRUE]
  <2>1. CASE i = k
    BY <1>1, <2>1
  <2>2. CASE i # k
    BY <1>1, <2>2
  <2>3. QED
    BY <2>1, <2>2
<1>4. QED
  BY <1>2, <1>3, MarkSome

LEMMA MarkAll ==
  ASSUME TypeOK, NEW a \in Accounts, row' = AllRevoked(a)
  PROVE  Marked
<1>1. DOMAIN row = Rows
  BY RowsAre
<1>2. DOMAIN row' = Rows /\ row' = [i \in Rows |-> row'[i]]
  BY <1>1 DEF AllRevoked
<1>3. \A i \in Rows : row'[i] = row[i] \/ row'[i] = [row[i] EXCEPT !.revoked = TRUE]
  BY <1>1 DEF AllRevoked
<1>4. QED
  BY <1>2, <1>3, MarkSome

\* A row is inserted.
LEMMA Grown ==
  ASSUME TypeOK, NEW new \in Row, NEW old \in [Rows -> Row], row' = Append(old, new)
  PROVE  /\ row' \in Seq(Row) /\ Len(row') = Len(row) + 1
         /\ Rows' = Rows \cup {Len(row) + 1}
         /\ row'[Len(row) + 1] = new
         /\ \A i \in Rows : row'[i] = old[i]
<1>1. Len(row) \in Nat
  BY Lengths
<1>2. old \in Seq(Row) /\ Len(old) = Len(row)
  <2>1. old \in [1..Len(row) -> Row]
    BY DEF Rows
  <2>2. QED
    BY <1>1, <2>1, IsSeq
<1>3. row' \in Seq(Row) /\ Len(row') = Len(old) + 1
  BY <1>2, Appended
<1>4. row'[Len(old) + 1] = new /\ \A i \in 1..Len(old) : row'[i] = old[i]
  BY <1>2, Appended
<1>5. Len(row') = Len(row) + 1 /\ Rows = 1..Len(row) /\ Rows' = 1..(Len(row) + 1)
  BY <1>2, <1>3 DEF Rows
<1>6. Rows' = Rows \cup {Len(row) + 1}
  BY <1>1, <1>5, OneMore
<1>7. QED
  BY <1>2, <1>3, <1>4, <1>5, <1>6

\* What stays of a request from one stage to the next.
Same(h) ==
    /\ task'[h].kind = task[h].kind /\ task'[h].client = task[h].client
    /\ task'[h].target = task[h].target

Typed(h) ==
    /\ task' \in [Handlers -> {Idle} \cup Task]
    /\ \A g \in Handlers : g # h => task'[g] = task[g]

LEMMA Put ==
  ASSUME TypeOK, NEW h \in Handlers, NEW t \in {Idle} \cup Task, task' = [task EXCEPT ![h] = t]
  PROVE  Typed(h) /\ task'[h] = t
BY DEF TypeOK, Typed

LEMMA Going ==
  ASSUME TypeOK, NEW h \in Handlers, task[h].pc # "idle", NEW pc \in Stages, Goto(h, pc)
  PROVE  /\ Typed(h) /\ Same(h) /\ task'[h].pc = pc
         /\ task'[h].token = task[h].token /\ task'[h].at = task[h].at
         /\ task'[h].next = task[h].next /\ task'[h].since = task[h].since
         /\ task'[h].read = task[h].read
<1> DEFINE t == [task[h] EXCEPT !.pc = pc]
<1>1. task[h] \in Task
  BY TaskOf
<1>2. t \in Task
  BY <1>1 DEF Task
<1>3. /\ t.pc = pc /\ t.kind = task[h].kind /\ t.client = task[h].client
      /\ t.target = task[h].target /\ t.token = task[h].token /\ t.at = task[h].at
      /\ t.next = task[h].next /\ t.since = task[h].since /\ t.read = task[h].read
  BY <1>1 DEF Task
<1>4. task' = [task EXCEPT ![h] = t]
  BY DEF Goto
<1> HIDE DEF t
<1>5. Typed(h) /\ task'[h] = t
  BY <1>2, <1>4, Put
<1>6. QED
  BY <1>3, <1>5 DEF Same

LEMMA Finished ==
  ASSUME TypeOK, NEW h \in Handlers, Finish(h)
  PROVE  Typed(h) /\ task'[h] = Idle /\ task'[h].pc = "idle"
BY Put, IdleFacts DEF Finish

\* A step of h leaves the other requests as they are.
LEMMA OtherRequests ==
  ASSUME TypeOK, RequestsInv, NEW h \in Handlers, Typed(h), Rows \subseteq Rows',
         links' \in Nat, links' >= links, \A a \in Accounts : inbox[a] \subseteq inbox'[a],
         RequestInv(h)'
  PROVE  RequestsInv'
<1> SUFFICES ASSUME NEW g \in Handlers, g # h PROVE RequestInv(g)'
  BY DEF RequestsInv
<1>1. task'[g] = task[g] /\ RequestInv(g)
  BY DEF Typed, RequestsInv
<1>2. Presents(g)' = Presents(g)
  BY <1>1 DEF Presents
<1>3. task[g].pc # "idle" => AccountOf(g) \in Accounts /\ AccountOf(g)' = AccountOf(g)
  BY <1>1, TaskOf DEF AccountOf
<1>4. 1..links \subseteq 1..links'
  BY DEF TypeOK
<1>5. QED
  BY <1>1, <1>2, <1>3, <1>4 DEF RequestInv, Made

LEMMA IdleRequest == ASSUME NEW h \in Handlers, task'[h] = Idle PROVE RequestInv(h)'
BY IdleFacts DEF RequestInv, Presents, Made

-----------------------------------------------------------------------------
(***************************************************************************)
(* Where a request goes, for the actions that write more than its stage.   *)
(***************************************************************************)
RequestTypes == TypeOK /\ RequestsInv

LEMMA Busy ==
  ASSUME RequestTypes, NEW h \in Handlers, task[h].pc # "idle"
  PROVE  /\ TypeOK /\ RequestInv(h) /\ RequestsInv
         /\ task[h] \in Task /\ task[h].client \in Clients /\ AccountOf(h) \in Accounts
         /\ task[h].target \in Accounts
BY TaskOf DEF RequestTypes, RequestsInv, Task

LEMMA FindMoves ==
  ASSUME RequestTypes, NEW h \in Handlers, Find(h)
  PROVE  /\ Typed(h) /\ Same(h)
         /\ task'[h].token = task[h].token /\ task'[h].since = task[h].since
         /\ task'[h].next = task[h].next
         /\ task'[h].at = now
         /\ task'[h].pc = IF Replayed(SessionOf(h)) THEN "alarm" ELSE "found"
<1> DEFINE pc == IF Replayed(SessionOf(h)) THEN "alarm" ELSE "found"
           t == [task[h] EXCEPT !.pc = pc, !.revoked = SessionOf(h).revoked, !.at = now]
<1>1. TypeOK /\ RequestInv(h) /\ task[h] \in Task
  BY Busy DEF Find
<1>2. SessionOf(h).revoked \in BOOLEAN
  BY <1>1, Lengths DEF Find, SessionOf, RequestInv, Presents, Row
<1>3. t \in Task
  BY <1>1, <1>2 DEF Task, Stages, TypeOK
<1>4. /\ t.pc = pc /\ t.kind = task[h].kind /\ t.client = task[h].client /\ t.at = now
      /\ t.target = task[h].target /\ t.token = task[h].token /\ t.since = task[h].since
      /\ t.next = task[h].next
  BY <1>1 DEF Task
<1>5. task' = [task EXCEPT ![h] = t]
  BY DEF Find
<1> HIDE DEF t
<1>6. Typed(h) /\ task'[h] = t
  BY <1>1, <1>3, <1>5, Put
<1>7. QED
  BY <1>4, <1>6 DEF Same

LEMMA ActionTypes ==
  ASSUME NEW kind \in SessionKinds, NEW a \in Account
  PROVE  Action(kind, a) \in {"served", "act"}
BY DEF Action, SessionKinds

\* The request is let in.
LetIn(h) ==
    /\ Same(h) /\ task'[h].token = task[h].token /\ task'[h].since = task[h].since
    /\ task'[h].next = task[h].next
    /\ task'[h].pc \in {"rotate", "act", "served"}
    /\ task'[h].read = account[AccountOf(h)] /\ account[AccountOf(h)] \in Account
    /\ Verified(SessionOf(h), task[h].revoked, account[AccountOf(h)], task[h].at)
    /\ UNCHANGED jar

LEMMA AuthenticateMoves ==
  ASSUME RequestTypes, NEW h \in Handlers, Authenticate(h)
  PROVE  Typed(h) /\ (LetIn(h) \/ (Finish(h) /\ SetCookie(h, 0)))
<1> DEFINE a == account[AccountOf(h)]
           pc == IF task[h].at - SessionOf(h).used >= RotationInterval
                 THEN "rotate" ELSE Action(task[h].kind, a)
           t == [task[h] EXCEPT !.read = a, !.pc = pc]
<1>1. TypeOK /\ task[h] \in Task /\ AccountOf(h) \in Accounts
  BY Busy DEF Authenticate
<1>2. CASE Finish(h) /\ SetCookie(h, 0)
  BY <1>1, <1>2, Finished
<1>3. CASE /\ Verified(SessionOf(h), task[h].revoked, a, task[h].at)
           /\ task' = [task EXCEPT ![h].read = a, ![h].pc = pc] /\ UNCHANGED jar
  <2>1. a \in Account /\ pc \in {"rotate", "act", "served"}
    BY <1>1, ActionTypes DEF TypeOK, Authenticate
  <2>2. t \in Task
    BY <1>1, <2>1 DEF Task, Stages
  <2>3. /\ t.pc = pc /\ t.kind = task[h].kind /\ t.client = task[h].client /\ t.read = a
        /\ t.target = task[h].target /\ t.token = task[h].token /\ t.since = task[h].since
        /\ t.next = task[h].next
    BY <1>1 DEF Task
  <2>4. task' = [task EXCEPT ![h] = t]
    BY <1>3
  <2> HIDE DEF t
  <2>5. Typed(h) /\ task'[h] = t
    BY <1>1, <2>2, <2>4, Put
  <2>6. QED
    BY <1>3, <2>1, <2>3, <2>5 DEF LetIn, Same
<1>4. QED
  BY <1>2, <1>3 DEF Authenticate

\* The password or the second factor was right.
Proved(h) ==
    /\ Same(h) /\ task'[h].token = task[h].token /\ task'[h].next = task[h].next
    /\ task'[h].read = account[AccountOf(h)] /\ account[AccountOf(h)] \in Account
    /\ task'[h].since = ends[AccountOf(h)]

LEMMA CheckPasswordMoves ==
  ASSUME RequestTypes, NEW h \in Handlers, CheckPassword(h)
  PROVE  Typed(h) /\ (Finish(h) \/ (Proved(h) /\ task'[h].pc = "create"))
<1> DEFINE a == AccountOf(h)
           t == [task[h] EXCEPT !.pc = "create", !.read = account[a], !.at = now, !.since = ends[a]]
<1>1. TypeOK /\ a \in Accounts /\ task[h] \in Task
  BY Busy DEF CheckPassword
<1>2. CASE Finish(h)
  BY <1>1, <1>2, Finished
<1>3. CASE task' = [task EXCEPT ![h].pc = "create", ![h].read = account[a], ![h].at = now,
                                ![h].since = ends[a]]
  <2>1. account[a] \in Account /\ now \in Nat /\ ends[a] \in Nat
    BY <1>1 DEF TypeOK
  <2>2. t \in Task
    BY <1>1, <2>1 DEF Task, Stages
  <2>3. /\ t.pc = "create" /\ t.kind = task[h].kind /\ t.read = account[a] /\ t.since = ends[a]
        /\ t.client = task[h].client /\ t.target = task[h].target /\ t.token = task[h].token
        /\ t.next = task[h].next
    BY <1>1 DEF Task
  <2>4. task' = [task EXCEPT ![h] = t]
    BY <1>3
  <2> HIDE DEF t
  <2>5. Typed(h) /\ task'[h] = t
    BY <1>1, <2>2, <2>4, Put
  <2>6. QED
    BY <2>1, <2>3, <2>5 DEF Proved, Same
<1>4. QED
  BY <1>2, <1>3 DEF CheckPassword

LEMMA CheckFactorMoves ==
  ASSUME RequestTypes, NEW h \in Handlers, CheckFactor(h)
  PROVE  Typed(h) /\ (Finish(h) \/ (Proved(h) /\ task'[h].pc = "elevate"))
<1> DEFINE a == AccountOf(h)
           t == [task[h] EXCEPT !.pc = "elevate", !.read = account[a], !.since = ends[a]]
<1>1. TypeOK /\ a \in Accounts /\ task[h] \in Task
  BY Busy DEF CheckFactor
<1>2. CASE Finish(h)
  BY <1>1, <1>2, Finished
<1>3. CASE task' = [task EXCEPT ![h].pc = "elevate", ![h].read = account[a], ![h].since = ends[a]]
  <2>1. account[a] \in Account /\ ends[a] \in Nat
    BY <1>1 DEF TypeOK
  <2>2. t \in Task
    BY <1>1, <2>1 DEF Task, Stages
  <2>3. /\ t.pc = "elevate" /\ t.kind = task[h].kind /\ t.read = account[a] /\ t.since = ends[a]
        /\ t.client = task[h].client /\ t.target = task[h].target /\ t.token = task[h].token
        /\ t.next = task[h].next
    BY <1>1 DEF Task
  <2>4. task' = [task EXCEPT ![h] = t]
    BY <1>3
  <2> HIDE DEF t
  <2>5. Typed(h) /\ task'[h] = t
    BY <1>1, <2>2, <2>4, Put
  <2>6. QED
    BY <2>1, <2>3, <2>5 DEF Proved, Same
<1>4. QED
  BY <1>2, <1>3 DEF CheckFactor

\* A session was made for the answer.
LEMMA NextMoves ==
  ASSUME RequestTypes, NEW h \in Handlers, task[h].pc # "idle", NEW pc \in Stages,
         task' = [task EXCEPT ![h].pc = pc, ![h].next = Len(row) + 1]
  PROVE  /\ Typed(h) /\ Same(h) /\ task'[h].pc = pc /\ task'[h].next = Len(row) + 1
         /\ task'[h].token = task[h].token /\ task'[h].since = task[h].since
<1> DEFINE k == Len(row) + 1
           t == [task[h] EXCEPT !.pc = pc, !.next = k]
<1>1. TypeOK /\ task[h] \in Task /\ k \in Nat
  BY Busy, Lengths
<1>2. t \in Task
  BY <1>1 DEF Task
<1>3. /\ t.pc = pc /\ t.next = k /\ t.kind = task[h].kind
      /\ t.client = task[h].client /\ t.target = task[h].target /\ t.token = task[h].token
      /\ t.since = task[h].since
  BY <1>1 DEF Task
<1>4. task' = [task EXCEPT ![h] = t]
  OBVIOUS
<1> HIDE DEF t
<1>5. Typed(h) /\ task'[h] = t
  BY <1>1, <1>2, <1>4, Put
<1>6. QED
  BY <1>3, <1>5 DEF Same

LEMMA ElevateMoves ==
  ASSUME RequestTypes, NEW h \in Handlers, Elevate(h)
  PROVE  /\ Typed(h) /\ Same(h) /\ task'[h].pc = "spend" /\ task'[h].next = Len(row) + 1
         /\ task'[h].token = task[h].token /\ task'[h].since = task[h].since
BY NextMoves DEF Elevate, Stages

\* A new link is made.
Issued(h) ==
    /\ Same(h) /\ task'[h].pc = "mail" /\ task'[h].token = links + 1
    /\ task'[h].since = task[h].since /\ task'[h].next = task[h].next
    /\ links < MaxLinks /\ links' = links + 1
    /\ reset' = [reset EXCEPT ![AccountOf(h)] =
                    [link |-> links + 1, created |-> now, used |-> FALSE]]

LEMMA IssueLinkMoves ==
  ASSUME RequestTypes, NEW h \in Handlers, IssueLink(h)
  PROVE  Typed(h) /\ (Issued(h) \/ (Finish(h) /\ UNCHANGED <<reset, links>>))
<1> DEFINE k == links + 1
           t == [task[h] EXCEPT !.pc = "mail", !.token = k]
<1>1. TypeOK /\ task[h] \in Task /\ k \in Nat
  <2>1. TypeOK /\ task[h] \in Task
    BY Busy DEF IssueLink
  <2>2. links \in 0..MaxLinks
    BY <2>1 DEF TypeOK
  <2>3. QED
    BY <2>1, <2>2
<1>2. CASE Finish(h) /\ UNCHANGED <<reset, links>>
  BY <1>1, <1>2, Finished
<1>3. CASE /\ links < MaxLinks /\ links' = links + 1
           /\ reset' = [reset EXCEPT ![AccountOf(h)] =
                           [link |-> links + 1, created |-> now, used |-> FALSE]]
           /\ task' = [task EXCEPT ![h].pc = "mail", ![h].token = links + 1]
  <2>1. /\ t \in Task /\ t.pc = "mail" /\ t.token = k /\ t.kind = task[h].kind
        /\ t.client = task[h].client /\ t.target = task[h].target /\ t.since = task[h].since
        /\ t.next = task[h].next
    BY <1>1 DEF Task, Stages
  <2>2. task' = [task EXCEPT ![h] = t]
    BY <1>3
  <2> HIDE DEF t
  <2>3. Typed(h) /\ task'[h] = t
    BY <1>1, <2>1, <2>2, Put
  <2>4. QED
    BY <1>3, <2>1, <2>3 DEF Issued, Same
<1>4. QED
  BY <1>2, <1>3 DEF IssueLink

LEMMA SendMoves ==
  ASSUME RequestTypes, NEW h \in Handlers, NEW c \in Clients, NEW kind \in Kinds,
         NEW target \in Accounts, NEW link \in 0..MaxLinks, Send(h, c, kind, target, link)
  PROVE  /\ Typed(h) /\ task'[h].pc = "sent" /\ task'[h].kind = kind /\ task'[h].client = c
         /\ task'[h].token = (IF kind = "confirm" THEN link ELSE jar[c])
         /\ task'[h].at = now /\ task'[h].since = ends[Owner[c]] /\ task'[h].next = 0
         /\ Presents(h)' => jar[c] \in Rows /\ task'[h].token = jar[c]
<1> DEFINE t == [pc |-> "sent", kind |-> kind, client |-> c, target |-> target,
                 token |-> IF kind = "confirm" THEN link ELSE jar[c],
                 revoked |-> FALSE, read |-> Nothing, at |-> now, next |-> 0,
                 since |-> ends[Owner[c]]]
<1>1. TypeOK
  BY DEF RequestTypes
<1>2. jar[c] \in 0..Len(row) /\ Len(row) \in Nat /\ ends[Owner[c]] \in Nat /\ now \in Nat
  BY <1>1, Lengths DEF TypeOK
<1>3. t \in Task
  BY <1>2 DEF Task, Stages
<1>4. /\ t.pc = "sent" /\ t.kind = kind /\ t.client = c /\ t.at = now /\ t.since = ends[Owner[c]]
      /\ t.next = 0
      /\ t.token = IF kind = "confirm" THEN link ELSE jar[c]
  OBVIOUS
<1>5. task' = [task EXCEPT ![h] = t]
  BY DEF Send
<1> HIDE DEF t
<1>6. Typed(h) /\ task'[h] = t
  BY <1>1, <1>3, <1>5, Put
<1>7. Presents(h)' => kind \in SessionKinds \cup {"logout", "complete"} /\ kind # "confirm"
  BY <1>4, <1>6 DEF Presents, SessionKinds, StaffKinds
<1>8. ASSUME Presents(h)' PROVE jar[c] \in Rows /\ task'[h].token = jar[c]
  <2>1. kind \in SessionKinds \cup {"logout", "complete"} /\ kind # "confirm"
    BY <1>7, <1>8
  <2>2. jar[c] # 0
    BY <2>1 DEF Send
  <2>3. jar[c] \in 1..Len(row)
    <3>1. \A n \in Nat : \A j \in 0..n : j # 0 => j \in 1..n
      OBVIOUS
    <3>2. QED
      BY <1>2, <2>2, <3>1
  <2>4. QED
    BY <1>4, <1>6, <2>1, <2>3 DEF Rows
<1>9. QED
  BY <1>4, <1>6, <1>8

-----------------------------------------------------------------------------
(***************************************************************************)
(* Every action keeps the types and the stages.                            *)
(***************************************************************************)
\* The parts of TypeOK that the requests do not hold.
LEMMA TypeFrom ==
  ASSUME TypeOK, NEW h \in Handlers, Typed(h), Marked \/ row' = row,
         UNCHANGED <<now, sent, links, reset, inbox>>,
         account' \in [Accounts -> Account], jar' \in [Clients -> 0..Len(row)],
         ends' \in [Accounts -> Nat], UNCHANGED <<spent, crossed>>,
         alarmed' \subseteq Accounts, excused' \subseteq Accounts,
         RequestsInv, RequestInv(h)'
  PROVE  RequestTypes'
<1>1. Marked
  BY Unmarked
<1>2. TypeOK'
  BY <1>1 DEF TypeOK, Marked, Typed
<1>3. Rows' = Rows
  BY <1>1 DEF Rows, Marked
<1>4. RequestsInv'
  <2>1. links \in Nat /\ links' = links /\ inbox' = inbox /\ RequestInv(h)'
    BY DEF TypeOK
  <2>2. QED
    BY <1>3, <2>1, OtherRequests
<1>5. QED
  BY <1>2, <1>4 DEF RequestTypes

LEMMA CookieSet ==
  ASSUME TypeOK, NEW h \in Handlers, task[h].pc # "idle", NEW k \in {0} \cup Rows,
         SetCookie(h, k) \/ UNCHANGED jar
  PROVE  jar' \in [Clients -> 0..Len(row)]
<1>1. Len(row) \in Nat /\ 0 \in 0..Len(row) /\ jar \in [Clients -> 0..Len(row)]
  BY Lengths, FieldTypes
<1>2. k \in 0..Len(row)
  BY <1>1, OneToZero DEF Rows
<1>3. QED
  BY <1>1, <1>2 DEF SetCookie

LEMMA CookieCleared ==
  ASSUME TypeOK, NEW h \in Handlers, task[h].pc # "idle", SetCookie(h, 0) \/ UNCHANGED jar
  PROVE  jar' \in [Clients -> 0..Len(row)]
BY CookieSet

\* A request that presents a row still does.
LEMMA StillPresents ==
  ASSUME RequestTypes, NEW h \in Handlers, Typed(h), Same(h), task[h].pc # "idle",
         task'[h].pc # "idle", Len(row') = Len(row), inbox' = inbox,
         task'[h].token = task[h].token
  PROVE  /\ Presents(h)' => task'[h].token \in Rows'
         /\ task'[h].kind = "confirm" => task'[h].token \in inbox'[AccountOf(h)']
BY DEF RequestTypes, RequestsInv, RequestInv, Presents, Same, AccountOf, Rows

LEMMA FindType ==
  ASSUME RequestTypes, NEW h \in Handlers, Find(h) PROVE RequestTypes'
<1>1. /\ TypeOK /\ RequestsInv /\ AccountOf(h) \in Accounts
      /\ task[h].pc # "idle" /\ task[h].kind \in SessionKinds \cup {"complete"}
  BY Busy DEF Find
<1>2. /\ Typed(h) /\ Same(h) /\ task'[h].token = task[h].token
      /\ task[h].pc = "sent" /\ task'[h].next = task[h].next
      /\ task'[h].pc \in {"alarm", "found"} /\ Len(row') = Len(row) /\ inbox' = inbox
  BY FindMoves DEF Find, resets
<1>3. Presents(h)' => task'[h].token \in Rows'
  BY <1>1, <1>2, StillPresents
<1>7. ~ Made(h)'
  BY <1>1, <1>2, Busy DEF RequestInv, Made
<1>4. RequestInv(h)'
  BY <1>1, <1>2, <1>3, <1>7 DEF RequestInv, Same, SessionKinds, StaffKinds
<1>5. alarmed' \subseteq Accounts /\ excused' \subseteq Accounts
  BY <1>1 DEF TypeOK, Find
<1>6. QED
  BY <1>1, <1>2, <1>4, <1>5, TypeFrom DEF TypeOK, Find, resets

LEMMA AuthenticateType ==
  ASSUME RequestTypes, NEW h \in Handlers, Authenticate(h) PROVE RequestTypes'
<1>1. /\ TypeOK /\ RequestsInv /\ task[h].pc # "idle" /\ task[h].kind \in SessionKinds
      /\ UNCHANGED <<now, account, row, reset, inbox, links, sent, history>>
  BY Busy DEF Authenticate, resets
<1>2. CASE Finish(h) /\ SetCookie(h, 0)
  BY <1>1, <1>2, Finished, IdleRequest, CookieCleared, TypeFrom DEF TypeOK, history
<1>3. CASE Typed(h) /\ LetIn(h)
  <2>1. Len(row') = Len(row) /\ inbox' = inbox
    BY <1>1
  <2>2. Presents(h)' => task'[h].token \in Rows'
    BY <1>1, <1>3, <2>1, StillPresents DEF LetIn
  <2>5. ~ Made(h)'
    BY <1>1, <1>3, Busy DEF RequestInv, Made, LetIn, Authenticate
  <2>3. RequestInv(h)'
    BY <1>1, <1>3, <2>2, <2>5 DEF RequestInv, LetIn, Same, SessionKinds, StaffKinds
  <2>4. QED
    BY <1>1, <1>3, <2>3, TypeFrom DEF TypeOK, LetIn, history
<1>4. QED
  BY <1>2, <1>3, AuthenticateMoves

\* Stages reached by Goto that leave the rows, or only revoke them.
LEMMA GotoType ==
  ASSUME RequestTypes, NEW h \in Handlers, NEW pc \in Stages, task[h].pc # "idle", Goto(h, pc),
         Marked \/ row' = row,
         UNCHANGED <<now, sent, links, reset, inbox>>,
         account' \in [Accounts -> Account], SetCookie(h, 0) \/ UNCHANGED jar,
         ends' \in [Accounts -> Nat], UNCHANGED <<spent, crossed>>,
         alarmed' \subseteq Accounts, excused' \subseteq Accounts,
         pc \in {"act", "served", "write", "purge"} \/ task[h].pc \in {"sent", "alarm", "mail"},
         \/ pc = "alarmPurge" /\ task[h].kind \in SessionKinds \cup {"complete"}
         \/ pc = "served" /\ task[h].kind \in SessionKinds
         \/ pc = "act" /\ task[h].kind \in SessionKinds
         \/ pc = "write" /\ task[h].kind \in StaffKinds
         \/ pc = "purge" /\ task[h].kind \in StaffKinds \cup {"everywhere"}
         \/ pc = "revoke" /\ task[h].kind = "logout"
         \/ pc = "issue" /\ task[h].kind = "forgot"
         \/ pc = "release" /\ task[h].kind = "forgot" /\ task[h].token \in 1..links
         \/ pc = "consume" /\ task[h].kind = "confirm"
  PROVE  RequestTypes'
<1>1. TypeOK /\ RequestInv(h) /\ RequestsInv
  BY DEF RequestTypes, RequestsInv
<1>2. Typed(h) /\ Same(h) /\ task'[h].pc = pc /\ task'[h].token = task[h].token
      /\ task'[h].next = task[h].next
  BY <1>1, Going
<1>3. Len(row') = Len(row)
  BY DEF Marked
<1>4. pc # "idle"
  BY DEF Stages
<1>5. Presents(h)' => task'[h].token \in Rows'
  BY <1>2, <1>3, <1>4, StillPresents
<1>6. task'[h].kind = "confirm" => task'[h].token \in inbox'[AccountOf(h)']
  BY <1>2, <1>3, <1>4, StillPresents
<1>7. task'[h].kind = task[h].kind
  BY <1>2 DEF Same
<1>11. Rows' = Rows
  BY <1>3 DEF Rows
<1>12. Made(h)' => /\ task'[h].next \in Rows'
                   /\ task'[h].pc \in {"act", "write", "purge", "served", "refused", "spend"}
  BY <1>1, <1>2, <1>11 DEF RequestInv, Made
<1>8. RequestInv(h)'
  BY <1>2, <1>5, <1>6, <1>7, <1>12 DEF RequestInv, SessionKinds, StaffKinds
<1>9. jar' \in [Clients -> 0..Len(row)]
  BY <1>1, CookieCleared
<1>10. QED
  BY <1>1, <1>2, <1>8, <1>9, TypeFrom

LEMMA FinishedType ==
  ASSUME RequestTypes, NEW h \in Handlers, task[h].pc # "idle", Finish(h),
         Marked \/ row' = row,
         UNCHANGED <<now, sent, links, reset, inbox, account, ends, spent, crossed, alarmed>>,
         excused' \subseteq Accounts, jar' \in [Clients -> 0..Len(row)]
  PROVE  RequestTypes'
<1>1. TypeOK /\ RequestsInv
  BY DEF RequestTypes
<1>2. Typed(h) /\ RequestInv(h)'
  BY <1>1, Finished, IdleRequest
<1>3. QED
  BY <1>1, <1>2, TypeFrom DEF TypeOK

LEMMA FinishType ==
  ASSUME RequestTypes, NEW h \in Handlers, task[h].pc # "idle", Finish(h),
         Marked \/ row' = row,
         UNCHANGED <<now, sent, links, reset, inbox, account, ends, spent, crossed, alarmed,
                     excused>>,
         SetCookie(h, 0) \/ UNCHANGED jar
  PROVE  RequestTypes'
<1>1. jar' \in [Clients -> 0..Len(row)]
  BY CookieCleared DEF RequestTypes
<1>2. excused' \subseteq Accounts
  BY DEF RequestTypes, TypeOK
<1>3. QED
  BY <1>1, <1>2, FinishedType

LEMMA Ended ==
  ASSUME TypeOK, NEW a \in Accounts, EndAll(a)
  PROVE  account' \in [Accounts -> Account] /\ ends' \in [Accounts -> Nat]
<1>1. account[a] \in Account /\ account \in [Accounts -> Account]
  BY DEF TypeOK
<1> DEFINE new == [account[a] EXCEPT !.epoch = @ + 1]
<1>3. account[a].epoch + 1 \in Nat
  BY <1>1 DEF Account
<1>4. new \in Account
  BY <1>1, <1>3 DEF Account
<1>5. account' = [account EXCEPT ![a] = new]
  BY DEF EndAll
<1> HIDE DEF new
<1>2. ends[a] + 1 \in Nat
  BY DEF TypeOK
<1>6. ends \in [Accounts -> Nat] /\ ends' = [ends EXCEPT ![a] = ends[a] + 1]
  BY DEF TypeOK, EndAll
<1>7. ends' \in [Accounts -> Nat]
  BY <1>2, <1>6
<1>8. QED
  BY <1>1, <1>4, <1>5, <1>7

LEMMA AlarmType == ASSUME RequestTypes, NEW h \in Handlers, Alarm(h) PROVE RequestTypes'
<1>1. task[h].pc = "alarm" /\ task[h].pc # "idle"
  BY DEF Alarm
<1>2. task[h].kind \in SessionKinds \cup {"complete"}
  BY <1>1, Busy DEF RequestInv
<1>3. account' \in [Accounts -> Account] /\ ends' \in [Accounts -> Nat] /\ alarmed' \subseteq Accounts
  BY <1>1, Busy, Ended DEF Alarm, TypeOK
<1>4. Goto(h, "alarmPurge") /\ "alarmPurge" \in Stages
      /\ UNCHANGED <<row, now, sent, reset, links, inbox, jar, spent, crossed, excused>>
  BY DEF Alarm, Stages, resets
<1>5. excused' \subseteq Accounts
  BY <1>4 DEF RequestTypes, TypeOK
<1>6. QED
  BY <1>1, <1>2, <1>3, <1>4, <1>5, GotoType

LEMMA PurgedRows ==
  ASSUME RequestTypes, NEW a \in Accounts, row' \in {row, AllRevoked(a)} PROVE Marked
BY Unmarked, MarkAll DEF RequestTypes

LEMMA AlarmPurgeType == ASSUME RequestTypes, NEW h \in Handlers, AlarmPurge(h) PROVE RequestTypes'
<1>1. task[h].pc # "idle"
  BY DEF AlarmPurge
<1>2. Marked
  BY <1>1, Busy, PurgedRows DEF AlarmPurge
<1>3. QED
  BY <1>1, <1>2, FinishType DEF AlarmPurge, resets, history

LEMMA FindForLogoutType ==
  ASSUME RequestTypes, NEW h \in Handlers, FindForLogout(h) PROVE RequestTypes'
<1>1. task[h].pc # "idle" /\ task[h].pc = "sent" /\ task[h].kind = "logout"
  BY DEF FindForLogout
<1>2. CASE Finish(h) /\ SetCookie(h, 0)
  BY <1>1, <1>2, FinishType DEF FindForLogout, resets, history
<1>3. CASE Goto(h, "revoke") /\ UNCHANGED jar
  <2>1. "revoke" \in Stages
    BY DEF Stages
  <2>2. TypeOK
    BY <1>1, Busy
  <2>3. QED
    BY <1>1, <1>3, <2>1, <2>2, GotoType DEF FindForLogout, resets, history, TypeOK
<1>4. QED
  BY <1>2, <1>3 DEF FindForLogout

LEMMA RevokeType == ASSUME RequestTypes, NEW h \in Handlers, Revoke(h) PROVE RequestTypes'
<1>1. task[h].pc # "idle" /\ task[h].pc = "revoke"
  BY DEF Revoke
<1>2. TypeOK /\ task[h].token \in Rows
  BY <1>1, Busy DEF RequestInv, Presents
<1>3. Marked
  BY <1>2, MarkOne DEF Revoke
<1>4. QED
  BY <1>1, <1>3, FinishType DEF Revoke, resets, history

LEMMA BumpEpochType == ASSUME RequestTypes, NEW h \in Handlers, BumpEpoch(h) PROVE RequestTypes'
<1>1. task[h].pc # "idle" /\ task[h].kind = "everywhere"
  BY DEF BumpEpoch
<1>2. account' \in [Accounts -> Account] /\ ends' \in [Accounts -> Nat] /\ TypeOK
  BY <1>1, Busy, Ended DEF BumpEpoch
<1>3. "purge" \in Stages
  BY DEF Stages
<1>4. QED
  BY <1>1, <1>2, <1>3, GotoType DEF BumpEpoch, resets, TypeOK

LEMMA ReadStaffType == ASSUME RequestTypes, NEW h \in Handlers, ReadStaff(h) PROVE RequestTypes'
<1>1. task[h].pc # "idle" /\ task[h].kind \in StaffKinds /\ task[h].kind \in SessionKinds
  BY DEF ReadStaff, SessionKinds
<1>2. TypeOK /\ "write" \in Stages /\ "served" \in Stages
  BY <1>1, Busy DEF Stages
<1>3. \/ Goto(h, "write")
      \/ Goto(h, "served")
  BY DEF ReadStaff
<1>4. QED
  BY <1>1, <1>2, <1>3, GotoType DEF ReadStaff, resets, history, TypeOK

LEMMA WriteStaffType == ASSUME RequestTypes, NEW h \in Handlers, WriteStaff(h) PROVE RequestTypes'
<1>1. task[h].pc # "idle" /\ task[h].kind \in StaffKinds /\ task[h].kind \in SessionKinds
  BY Busy DEF WriteStaff, RequestInv, SessionKinds
<1>2. TypeOK /\ "purge" \in Stages /\ "served" \in Stages /\ task[h].target \in Accounts
  BY <1>1, Busy DEF Stages
<1>3. \/ Goto(h, "purge")
      \/ Goto(h, "served")
  BY DEF WriteStaff
<1>4. account' \in [Accounts -> Account]
  <2> DEFINE t == task[h].target
  <2>1. account \in [Accounts -> Account] /\ account[t] \in Account
    BY <1>2 DEF TypeOK
  <2>2. /\ [account[t] EXCEPT !.role = "DEVELOPER"] \in Account
        /\ [account[t] EXCEPT !.role = "SUPER_ADMIN"] \in Account
        /\ [account[t] EXCEPT !.disabled = TRUE] \in Account
        /\ [account[t] EXCEPT !.disabled = FALSE] \in Account
    BY <2>1 DEF Account, Roles
  <2>3. \/ account' = [account EXCEPT ![t].role = "DEVELOPER"]
        \/ account' = [account EXCEPT ![t].role = "SUPER_ADMIN"]
        \/ account' = [account EXCEPT ![t].disabled = TRUE]
        \/ account' = [account EXCEPT ![t].disabled = FALSE]
    BY <1>1 DEF WriteStaff, StaffKinds
  <2>4. QED
    BY <2>1, <2>2, <2>3
<1>5. QED
  BY <1>1, <1>2, <1>3, <1>4, GotoType DEF WriteStaff, resets, history, TypeOK

LEMMA PurgeType == ASSUME RequestTypes, NEW h \in Handlers, Purge(h) PROVE RequestTypes'
<1>1. task[h].pc # "idle" /\ task[h].kind \in SessionKinds
  BY Busy DEF Purge, RequestInv, SessionKinds
<1>2. TypeOK /\ "served" \in Stages
  BY <1>1, Busy DEF Stages
<1>3. Marked
  BY <1>1, Busy, PurgedRows DEF Purge
<1>4. QED
  BY <1>1, <1>2, <1>3, GotoType DEF Purge, resets, history, TypeOK

LEMMA ReadForResetType ==
  ASSUME RequestTypes, NEW h \in Handlers, ReadForReset(h) PROVE RequestTypes'
<1>1. task[h].pc # "idle" /\ task[h].pc = "sent" /\ task[h].kind = "forgot"
  BY DEF ReadForReset
<1>2. TypeOK /\ "issue" \in Stages
  BY <1>1, Busy DEF Stages
<1>3. CASE Finish(h)
  BY <1>1, <1>3, FinishType DEF ReadForReset, resets, history
<1>4. CASE Goto(h, "issue")
  BY <1>1, <1>2, <1>4, GotoType DEF ReadForReset, resets, history, TypeOK
<1>5. QED
  BY <1>3, <1>4 DEF ReadForReset

LEMMA ReadLinkType ==
  ASSUME RequestTypes, NEW h \in Handlers, ReadLink(h) PROVE RequestTypes'
<1>1. task[h].pc # "idle" /\ task[h].pc = "sent" /\ task[h].kind = "confirm"
  BY DEF ReadLink
<1>2. TypeOK /\ "consume" \in Stages
  BY <1>1, Busy DEF Stages
<1>3. CASE Finish(h)
  BY <1>1, <1>3, FinishType DEF ReadLink, resets, history
<1>4. CASE Goto(h, "consume")
  BY <1>1, <1>2, <1>4, GotoType DEF ReadLink, resets, history, TypeOK
<1>5. QED
  BY <1>3, <1>4 DEF ReadLink

LEMMA FailType == ASSUME RequestTypes, NEW h \in Handlers, Fail(h) PROVE RequestTypes'
<1>1. /\ task[h].pc # "idle" /\ TypeOK /\ RequestInv(h) /\ AccountOf(h) \in Accounts
      /\ Finish(h)
      /\ UNCHANGED <<now, account, row, reset, inbox, links, sent, ends, spent, crossed, alarmed>>
  BY Busy DEF Fail, resets
<1>2. Marked
  BY <1>1, Unmarked
<1>3. \/ UNCHANGED jar /\ Unheard(h)
      \/ SetCookie(h, 0) /\ UNCHANGED excused
      \/ Rotated(h) /\ SetCookie(h, task[h].next) /\ UNCHANGED excused
  BY DEF Fail
<1>4. Rotated(h) => task[h].next \in Rows
  BY <1>1 DEF RequestInv, Rotated
<1>5. jar' \in [Clients -> 0..Len(row)]
  BY <1>1, <1>3, <1>4, CookieSet
<1>6. excused' \subseteq Accounts
  BY <1>1, <1>3 DEF Unheard, TypeOK
<1>7. QED
  BY <1>1, <1>2, <1>5, <1>6, FinishedType

\* What the answer does to the cookie.
LEMMA Cookies ==
  ASSUME RequestTypes, NEW h \in Handlers, task[h].pc # "idle"
  PROVE  \/ Cookie(h) = 0
         \/ Rotated(h) /\ Cookie(h) = task[h].next /\ task[h].next \in Rows
         \/ ~ Rotated(h) /\ Cookie(h) = jar[task[h].client]
<1>1. Rotated(h) => task[h].next \in Rows
  BY Busy DEF RequestInv, Rotated
<1>2. QED
  BY <1>1 DEF Cookie

\* An answer that is delivered clears the cookie, tells of the rotation, or
\* leaves the cookie as it is.
LEMMA AnswerMoves ==
  ASSUME RequestTypes, NEW h \in Handlers, Answer(h)
  PROVE  /\ task[h].pc # "idle" /\ Finish(h) /\ UNCHANGED row
         /\ \/ SetCookie(h, 0) /\ UNCHANGED excused
            \/ /\ Rotated(h) /\ task[h].next \in Rows
               /\ SetCookie(h, task[h].next) /\ UNCHANGED excused
            \/ ~ Rotated(h) /\ UNCHANGED <<jar, excused>>
            \/ UNCHANGED jar /\ Unheard(h)
<1>1. task[h].pc # "idle" /\ Finish(h) /\ UNCHANGED row
  BY DEF Answer
<1>2. jar \in [Clients -> 0..Len(row)] /\ task[h].client \in Clients
  BY <1>1, Busy, FieldTypes
<1>3. SetCookie(h, jar[task[h].client]) => UNCHANGED jar
  BY <1>2 DEF SetCookie
<1>4. QED
  BY <1>1, <1>3, Cookies DEF Answer

LEMMA AnswerType == ASSUME RequestTypes, NEW h \in Handlers, Answer(h) PROVE RequestTypes'
<1>1. /\ task[h].pc # "idle" /\ TypeOK /\ AccountOf(h) \in Accounts
      /\ Finish(h)
      /\ UNCHANGED <<now, account, row, reset, inbox, links, sent, ends, spent, crossed, alarmed>>
  BY Busy DEF Answer, resets
<1>2. Marked
  BY <1>1, Unmarked
<1>3. jar' \in [Clients -> 0..Len(row)]
  BY <1>1, AnswerMoves, CookieSet
<1>4. excused' \subseteq Accounts
  BY <1>1 DEF Answer, Unheard, TypeOK
<1>5. QED
  BY <1>1, <1>2, <1>3, <1>4, FinishedType

LEMMA RotateRows ==
  ASSUME RequestTypes, NEW h \in Handlers, task[h].pc = "rotate",
         row' = Append([row EXCEPT ![task[h].token].superseded = now],
                       [SessionOf(h) EXCEPT !.used = task[h].at, !.superseded = Nothing])
  PROVE  /\ row' \in Seq(Row) /\ Len(row') = Len(row) + 1
         /\ task[h].token \in Rows
         /\ Rows' = Rows \cup {Len(row) + 1}
         /\ row'[Len(row) + 1] = [SessionOf(h) EXCEPT !.used = task[h].at, !.superseded = Nothing]
         /\ \A i \in Rows : row'[i] = IF i = task[h].token THEN [row[i] EXCEPT !.superseded = now]
                                                          ELSE row[i]
<1> DEFINE k == task[h].token
           s == row[k]
           new == [s EXCEPT !.used = task[h].at, !.superseded = Nothing]
           old == [row EXCEPT ![k].superseded = now]
<1>1. TypeOK /\ task[h].pc # "idle"
  BY DEF RequestTypes
<1>2. k \in Rows
  BY <1>1, Busy DEF RequestInv, Presents
<1>3. Len(row) \in Nat /\ DOMAIN row = Rows /\ s \in Row /\ row \in [Rows -> Row]
  BY <1>1, <1>2, RowsAre
<1>4. now \in Nat /\ task[h].at \in Nat
  BY <1>1, TaskOf DEF TypeOK
<1>5. new \in Row /\ [s EXCEPT !.superseded = now] \in Row
  BY <1>3, <1>4 DEF Row
<1>6. old \in [Rows -> Row]
  BY <1>2, <1>3, <1>5
<1>7. \A i \in Rows : old[i] = IF i = k THEN [row[i] EXCEPT !.superseded = now] ELSE row[i]
  BY <1>2, <1>3
<1>8. row' = Append(old, new)
  BY DEF SessionOf
<1> HIDE DEF new, old
<1>9. /\ row' \in Seq(Row) /\ Len(row') = Len(row) + 1
      /\ Rows' = Rows \cup {Len(row) + 1}
      /\ row'[Len(row) + 1] = new
      /\ \A i \in Rows : row'[i] = old[i]
  BY <1>1, <1>5, <1>6, <1>8, Grown
<1>10. QED
  BY <1>2, <1>7, <1>9 DEF new, SessionOf

LEMMA NewCookie ==
  ASSUME RequestTypes, NEW h \in Handlers, task[h].pc # "idle", NEW k \in Nat,
         0 < k, k <= Len(row'), Len(row') \in Nat, Len(row') >= Len(row),
         SetCookie(h, k) \/ UNCHANGED jar
  PROVE  jar' \in [Clients -> 0..Len(row')]
<1>1. TypeOK
  BY DEF RequestTypes
<1>2. Len(row) \in Nat /\ jar \in [Clients -> 0..Len(row)]
  BY <1>1, Lengths, FieldTypes
<1>3. k \in 0..Len(row')
  OBVIOUS
<1>4. 0..Len(row) \subseteq 0..Len(row')
  BY <1>2, Widen
<1>5. jar \in [Clients -> 0..Len(row')]
  BY <1>2, <1>4
<1>6. QED
  BY <1>3, <1>5 DEF SetCookie

\* The request gets a new session, to be told of by the answer.
Renewed(h) ==
    /\ Same(h) /\ task'[h].token = task[h].token /\ task'[h].since = task[h].since
    /\ task'[h].next = Len(row) + 1
    /\ task'[h].pc \in {"act", "served", "refused"}
    /\ task[h].kind \in SessionKinds
    /\ UNCHANGED jar

LEMMA RotateGoes ==
  ASSUME RequestTypes, NEW h \in Handlers, Rotate(h)
  PROVE  /\ task[h].pc = "rotate" /\ Typed(h)
         /\ UNCHANGED <<now, account, reset, inbox, links, jar, sent, history>>
         /\ \/ /\ row' = row
               /\ Goto(h, "act") \/ Goto(h, "served")
            \/ /\ Renewed(h) /\ ~ RotationLost(SessionOf(h))
               /\ row' = Append([row EXCEPT ![task[h].token].superseded = now],
                                [SessionOf(h) EXCEPT !.used = task[h].at,
                                                     !.superseded = Nothing])
<1>1. /\ task[h].pc = "rotate" /\ task[h].pc # "idle"
      /\ UNCHANGED <<now, account, reset, inbox, links, jar, sent, history>>
  BY DEF Rotate, resets
<1>2. task[h].kind \in SessionKinds /\ task[h].read \in Account /\ TypeOK
  BY <1>1, Busy DEF RequestInv
<1> DEFINE go == Action(task[h].kind, task[h].read)
<1>3. go \in {"served", "act"}
  BY <1>2, ActionTypes
<1>4. CASE RotationLost(SessionOf(h))
  <2>1. row' = row /\ Goto(h, go)
    BY <1>4 DEF Rotate
  <2> HIDE DEF go
  <2>2. go \in Stages
    BY <1>3 DEF Stages
  <2>3. Typed(h)
    BY <1>1, <1>2, <2>1, <2>2, Going
  <2>4. QED
    BY <1>1, <1>3, <2>1, <2>3
<1>5. CASE ~ RotationLost(SessionOf(h))
  <2>1. /\ row' = Append([row EXCEPT ![task[h].token].superseded = now],
                          [SessionOf(h) EXCEPT !.used = task[h].at, !.superseded = Nothing])
        /\ \E pc \in {go, "refused"} :
              task' = [task EXCEPT ![h].pc = pc, ![h].next = Len(row) + 1]
    BY <1>5 DEF Rotate
  <2>2. PICK pc \in {go, "refused"} :
              task' = [task EXCEPT ![h].pc = pc, ![h].next = Len(row) + 1]
    BY <2>1
  <2> HIDE DEF go
  <2>3. pc \in {"act", "served", "refused"} /\ pc \in Stages
    BY <1>3 DEF Stages
  <2>4. /\ Typed(h) /\ Same(h) /\ task'[h].pc = pc /\ task'[h].next = Len(row) + 1
        /\ task'[h].token = task[h].token /\ task'[h].since = task[h].since
    BY <1>1, <2>2, <2>3, NextMoves
  <2>5. Renewed(h)
    BY <1>1, <1>2, <2>3, <2>4 DEF Renewed
  <2>6. QED
    BY <1>1, <1>5, <2>1, <2>4, <2>5
<1>6. QED
  BY <1>4, <1>5

LEMMA RotateType == ASSUME RequestTypes, NEW h \in Handlers, Rotate(h) PROVE RequestTypes'
<1>1. /\ task[h].pc = "rotate" /\ task[h].pc # "idle" /\ Typed(h)
      /\ UNCHANGED <<now, account, reset, inbox, links, jar, sent, history>>
  BY RotateGoes
<1>2. TypeOK /\ RequestInv(h) /\ RequestsInv
  BY <1>1, Busy
<1>3. task[h].kind \in SessionKinds
  BY <1>1, <1>2 DEF RequestInv
<1>4. CASE row' = row /\ (Goto(h, "act") \/ Goto(h, "served"))
  <2>1. "act" \in Stages /\ "served" \in Stages
    BY DEF Stages
  <2>2. /\ account' \in [Accounts -> Account] /\ ends' \in [Accounts -> Nat]
        /\ alarmed' \subseteq Accounts /\ excused' \subseteq Accounts
    BY <1>1, <1>2 DEF TypeOK, history
  <2>3. QED
    BY <1>1, <1>3, <1>4, <2>1, <2>2, GotoType DEF history
<1>5. CASE /\ Renewed(h)
           /\ row' = Append([row EXCEPT ![task[h].token].superseded = now],
                            [SessionOf(h) EXCEPT !.used = task[h].at, !.superseded = Nothing])
  <2>1. row' \in Seq(Row) /\ Len(row') = Len(row) + 1 /\ Rows' = Rows \cup {Len(row) + 1}
    BY <1>1, <1>5, RotateRows
  <2>2. Len(row) \in Nat /\ jar \in [Clients -> 0..Len(row)]
    BY <1>2, Lengths, FieldTypes
  <2>3. jar' \in [Clients -> 0..Len(row')]
    <3>1. 0..Len(row) \subseteq 0..Len(row')
      <4>1. Len(row') \in Nat /\ Len(row) <= Len(row')
        BY <2>1, <2>2
      <4>2. QED
        BY <2>2, <4>1, Widen
    <3>2. QED
      BY <1>1, <2>2, <3>1
  <2>4. TypeOK'
    BY <1>1, <1>2, <2>1, <2>3 DEF TypeOK, Typed, history
  <2>5. task[h].token \in Rows
    BY <1>1, <1>2, <1>3 DEF RequestInv, Presents
  <2>6. RequestInv(h)'
    BY <1>3, <1>5, <2>1, <2>5
       DEF RequestInv, Renewed, Made, Same, Presents, SessionKinds, StaffKinds
  <2>7. RequestsInv'
    <3>1. links' \in Nat /\ links' >= links /\ inbox' = inbox /\ Rows \subseteq Rows'
      BY <1>1, <1>2, <2>1 DEF TypeOK
    <3>2. QED
      BY <1>1, <1>2, <2>6, <3>1, OtherRequests
  <2>8. QED
    BY <2>4, <2>7 DEF RequestTypes
<1>6. QED
  BY <1>4, <1>5, RotateGoes

\* A request whose password or second factor was right makes its session next.
LEMMA ProvedType ==
  ASSUME RequestTypes, NEW h \in Handlers, task[h].pc # "idle", Typed(h), Proved(h),
         task[h].pc \in {"sent", "found"},
         \/ task'[h].pc = "create" /\ task[h].kind = "login"
         \/ task'[h].pc = "elevate" /\ task[h].kind = "complete",
         UNCHANGED <<now, account, row, reset, inbox, links, jar, sent, history>>
  PROVE  RequestTypes'
<1>1. TypeOK /\ RequestsInv
  BY Busy
<1>2. Len(row') = Len(row) /\ inbox' = inbox /\ task'[h].pc # "idle"
  OBVIOUS
<1>3. Presents(h)' => task'[h].token \in Rows'
  BY <1>2, StillPresents DEF Proved
<1>6. ~ Made(h)'
  BY Busy DEF RequestInv, Made, Proved
<1>4. RequestInv(h)'
  BY <1>3, <1>6 DEF RequestInv, Proved, Same, SessionKinds, StaffKinds
<1>5. QED
  BY <1>1, <1>4, TypeFrom DEF TypeOK, history

LEMMA CheckPasswordType ==
  ASSUME RequestTypes, NEW h \in Handlers, CheckPassword(h) PROVE RequestTypes'
<1>1. /\ task[h].pc # "idle" /\ task[h].pc = "sent" /\ task[h].kind = "login"
      /\ UNCHANGED <<now, account, row, reset, inbox, links, jar, sent, history>>
  BY DEF CheckPassword, resets
<1>2. CASE Finish(h)
  BY <1>1, <1>2, FinishType DEF history
<1>3. CASE Typed(h) /\ Proved(h) /\ task'[h].pc = "create"
  BY <1>1, <1>3, ProvedType
<1>4. QED
  BY <1>2, <1>3, CheckPasswordMoves

LEMMA CheckFactorType ==
  ASSUME RequestTypes, NEW h \in Handlers, CheckFactor(h) PROVE RequestTypes'
<1>1. /\ task[h].pc # "idle" /\ task[h].pc = "found" /\ task[h].kind = "complete"
      /\ UNCHANGED <<now, account, row, reset, inbox, links, jar, sent, history>>
  BY DEF CheckFactor, resets
<1>2. CASE Finish(h)
  BY <1>1, <1>2, FinishType DEF history
<1>3. CASE Typed(h) /\ Proved(h) /\ task'[h].pc = "elevate"
  BY <1>1, <1>3, ProvedType
<1>4. QED
  BY <1>2, <1>3, CheckFactorMoves

LEMMA NewRowType ==
  ASSUME RequestTypes, NEW h \in Handlers, task[h].pc \in {"create", "elevate"},
         NEW stage \in {"pending", "authenticated"}
  PROVE  /\ NewRow(h, stage) \in Row
         /\ NewRow(h, stage).chain = Len(row) + 1
         /\ NewRow(h, stage).superseded = Nothing
         /\ NewRow(h, stage).epoch = task[h].read.epoch
         /\ NewRow(h, stage).proof = task[h].since
<1>1. TypeOK /\ task[h].read \in Account /\ AccountOf(h) \in Accounts
      /\ task[h].at \in Nat /\ task[h].since \in Nat
  BY Busy, TaskOf DEF RequestInv
<1>2. Len(row) + 1 \in Nat
  BY <1>1, Lengths
<1>3. task[h].read.role \in Roles /\ task[h].read.epoch \in Nat
  BY <1>1 DEF Account
<1>4. task[h].at + Lifetime(task[h].read.role) \in Nat
  BY <1>1 DEF Lifetime
<1>5. QED
  BY <1>1, <1>2, <1>3, <1>4 DEF NewRow, Row

LEMMA CreateSessionType ==
  ASSUME RequestTypes, NEW h \in Handlers, CreateSession(h) PROVE RequestTypes'
<1>1. task[h].pc = "create" /\ task[h].pc # "idle" /\ TypeOK /\ RequestsInv
  BY Busy DEF CreateSession
<1> DEFINE k == Len(row) + 1
<1>2. PICK new \in Row : row' = Append(row, new)
  BY <1>1, NewRowType DEF CreateSession
<1>3. row \in [Rows -> Row]
  BY <1>1, RowsAre
<1>4. row' \in Seq(Row) /\ Len(row') = Len(row) + 1 /\ Rows' = Rows \cup {Len(row) + 1}
  BY <1>1, <1>2, <1>3, Grown
<1>5. k \in Nat /\ 0 < k /\ k <= Len(row') /\ Len(row') \in Nat /\ Len(row') >= Len(row)
  BY <1>1, <1>4, Lengths
<1>6. SetCookie(h, k)
  BY DEF CreateSession
<1> HIDE DEF k
<1>7. jar' \in [Clients -> 0..Len(row')]
  BY <1>1, <1>5, <1>6, NewCookie
<1>8. Typed(h) /\ RequestInv(h)'
  BY <1>1, Finished, IdleRequest DEF CreateSession
<1>9. TypeOK'
  BY <1>1, <1>4, <1>7, <1>8 DEF TypeOK, Typed, CreateSession, resets, history
<1>10. RequestsInv'
  <2>1. links \in Nat /\ links' = links /\ inbox' = inbox
    BY <1>1 DEF TypeOK, CreateSession, resets
  <2>2. QED
    BY <1>1, <1>4, <1>8, <2>1, OtherRequests
<1>11. QED
  BY <1>9, <1>10 DEF RequestTypes

LEMMA ElevateType == ASSUME RequestTypes, NEW h \in Handlers, Elevate(h) PROVE RequestTypes'
<1>1. /\ task[h].pc = "elevate" /\ task[h].pc # "idle" /\ TypeOK /\ RequestsInv
      /\ task[h].kind = "complete" /\ task[h].token \in Rows
  BY Busy DEF Elevate, RequestInv, Presents
<1>2. PICK new \in Row : row' = Append(row, new)
  BY <1>1, NewRowType DEF Elevate
<1>3. row \in [Rows -> Row] /\ Len(row) \in Nat
  BY <1>1, RowsAre
<1>4. row' \in Seq(Row) /\ Len(row') = Len(row) + 1 /\ Rows' = Rows \cup {Len(row) + 1}
  BY <1>1, <1>2, <1>3, Grown
<1>5. /\ Typed(h) /\ Same(h) /\ task'[h].pc = "spend" /\ task'[h].next = Len(row) + 1
      /\ task'[h].token = task[h].token
  BY ElevateMoves
<1>6. RequestInv(h)'
  BY <1>1, <1>4, <1>5 DEF RequestInv, Made, Same, SessionKinds, StaffKinds
<1>7. jar' \in [Clients -> 0..Len(row')]
  <2>1. jar \in [Clients -> 0..Len(row)] /\ jar' = jar
    BY <1>1, FieldTypes DEF Elevate
  <2>2. \A j \in 0..Len(row) : j \in 0..Len(row')
    BY <1>3, <1>4
  <2>3. QED
    BY <2>1, <2>2
<1>8. TypeOK'
  BY <1>1, <1>4, <1>5, <1>7 DEF TypeOK, Typed, Elevate, resets, history
<1>9. inbox' = inbox /\ links' = links /\ links \in Nat
  BY <1>1 DEF TypeOK, Elevate, resets
<1>10. RequestsInv'
  BY <1>1, <1>4, <1>5, <1>6, <1>9, OtherRequests
<1>11. QED
  BY <1>8, <1>10 DEF RequestTypes

LEMMA SpendType == ASSUME RequestTypes, NEW h \in Handlers, Spend(h) PROVE RequestTypes'
<1>1. /\ task[h].pc = "spend" /\ task[h].pc # "idle" /\ TypeOK /\ RequestsInv
      /\ task[h].kind = "complete" /\ task[h].token \in Rows
      /\ task[h].next \in {0} \cup Rows
  BY Busy DEF Spend, RequestInv, Presents, Made
<1>2. Marked
  BY <1>1, Unmarked, MarkOne DEF Spend
<1>3. Typed(h) /\ RequestInv(h)'
  BY <1>1, Finished, IdleRequest DEF Spend
<1>5. jar' \in [Clients -> 0..Len(row)]
  BY <1>1, CookieSet DEF Spend
<1>6. QED
  BY <1>1, <1>2, <1>3, <1>5, TypeFrom DEF TypeOK, Spend, resets, history

\* Steps of a reset that leave sessions and accounts alone.
LEMMA ResetStepType ==
  ASSUME RequestTypes, NEW h \in Handlers, Typed(h), RequestInv(h)',
         UNCHANGED <<now, account, row, jar, sent, history>>,
         links' \in 0..MaxLinks, links' >= links,
         reset' \in [Accounts -> Reset \cup {Nothing}],
         inbox' \in [Accounts -> SUBSET (1..MaxLinks)],
         \A a \in Accounts : inbox[a] \subseteq inbox'[a]
  PROVE  RequestTypes'
<1>1. TypeOK'
  BY DEF RequestTypes, TypeOK, Typed, history
<1>2. RequestsInv'
  <2>1. TypeOK /\ RequestsInv /\ Rows' = Rows
    BY DEF RequestTypes, Rows
  <2>2. links' \in Nat
    BY DEF BoundsAssumption
  <2>3. QED
    BY <2>1, <2>2, OtherRequests
<1>3. QED
  BY <1>1, <1>2 DEF RequestTypes

LEMMA IssueLinkType == ASSUME RequestTypes, NEW h \in Handlers, IssueLink(h) PROVE RequestTypes'
<1> DEFINE r == [link |-> links + 1, created |-> now, used |-> FALSE]
<1>1. /\ task[h].pc # "idle" /\ TypeOK /\ task[h].kind = "forgot" /\ AccountOf(h) \in Accounts
      /\ task[h].next = 0
  BY Busy DEF IssueLink, RequestInv, Made
<1>2. UNCHANGED <<now, account, row, inbox, jar, sent, history>>
  BY DEF IssueLink
<1>3. CASE Finish(h) /\ UNCHANGED <<reset, links>>
  BY <1>1, <1>2, <1>3, FinishType DEF history
<1>4. CASE Typed(h) /\ Issued(h)
  <2>1. links + 1 \in Nat /\ links' \in 1..MaxLinks /\ links + 1 \in 1..links' /\ links' >= links
    <3>1. links \in 0..MaxLinks
      BY <1>1 DEF TypeOK
    <3>2. links < MaxLinks /\ links' = links + 1
      BY <1>4 DEF Issued
    <3>3. QED
      BY <3>1, <3>2
  <2>2. r \in Reset
    BY <1>1, <2>1 DEF TypeOK, Reset
  <2>3. reset' \in [Accounts -> Reset \cup {Nothing}]
    BY <1>1, <1>4, <2>2 DEF TypeOK, Issued
  <2>4. RequestInv(h)'
    BY <1>1, <1>4, <2>1 DEF RequestInv, Presents, Made, Issued, Same, SessionKinds, StaffKinds
  <2>5. /\ links' \in 0..MaxLinks /\ inbox' \in [Accounts -> SUBSET (1..MaxLinks)]
        /\ \A a \in Accounts : inbox[a] \subseteq inbox'[a]
    <3>1. inbox \in [Accounts -> SUBSET (1..MaxLinks)] /\ inbox' = inbox
      BY <1>1, <1>2, FieldTypes
    <3>2. links' \in 0..MaxLinks
      BY <2>1
    <3>3. QED
      BY <3>1, <3>2
  <2>6. QED
    BY <1>2, <1>4, <2>1, <2>3, <2>4, <2>5, ResetStepType
<1>5. QED
  BY <1>3, <1>4, IssueLinkMoves

LEMMA MailType == ASSUME RequestTypes, NEW h \in Handlers, Mail(h) PROVE RequestTypes'
<1>1. /\ task[h].pc # "idle" /\ TypeOK /\ RequestsInv /\ task[h].kind = "forgot"
      /\ AccountOf(h) \in Accounts /\ task[h].token \in 1..links /\ task[h].pc = "mail"
  BY Busy DEF Mail, RequestInv
<1>2. CASE /\ inbox' = [inbox EXCEPT ![AccountOf(h)] = @ \cup {task[h].token}]
           /\ Finish(h)
  <2>1. task[h].token \in 1..MaxLinks
    <3>1. links \in 0..MaxLinks
      BY <1>1, FieldTypes
    <3>2. QED
      BY <1>1, <3>1
  <2>2. inbox' \in [Accounts -> SUBSET (1..MaxLinks)] /\ \A a \in Accounts : inbox[a] \subseteq inbox'[a]
    <3>1. inbox \in [Accounts -> SUBSET (1..MaxLinks)]
      BY <1>1, FieldTypes
    <3>2. QED
      BY <1>1, <1>2, <2>1, <3>1
  <2>3. Typed(h) /\ RequestInv(h)'
    BY <1>1, <1>2, Finished, IdleRequest
  <2>4. QED
    <3>1. UNCHANGED <<now, account, row, reset, links, jar, sent, history>>
      BY DEF Mail
    <3>2. /\ links' \in 0..MaxLinks /\ links' >= links
          /\ reset' \in [Accounts -> Reset \cup {Nothing}]
      <4>1. links \in 0..MaxLinks /\ reset \in [Accounts -> Reset \cup {Nothing}]
        BY <1>1, FieldTypes
      <4>2. QED
        BY <3>1, <4>1
    <3>3. QED
      BY <2>2, <2>3, <3>1, <3>2, ResetStepType
<1>3. CASE UNCHANGED inbox /\ Goto(h, "release")
  <2>1. "release" \in Stages
    BY DEF Stages
  <2>2. QED
    BY <1>1, <1>3, <2>1, GotoType DEF Mail, history, TypeOK
<1>4. QED
  BY <1>2, <1>3 DEF Mail

LEMMA ReleaseType == ASSUME RequestTypes, NEW h \in Handlers, Release(h) PROVE RequestTypes'
<1>1. task[h].pc # "idle" /\ TypeOK /\ RequestsInv /\ AccountOf(h) \in Accounts
  BY Busy DEF Release
<1>2. reset' \in [Accounts -> Reset \cup {Nothing}]
  BY <1>1 DEF Release, TypeOK
<1>3. Typed(h) /\ RequestInv(h)'
  BY <1>1, Finished, IdleRequest DEF Release
<1>4. QED
  <2>1. UNCHANGED <<now, account, row, inbox, links, jar, sent, history>>
    BY DEF Release
  <2>2. /\ links' \in 0..MaxLinks /\ links' >= links
        /\ inbox' \in [Accounts -> SUBSET (1..MaxLinks)]
        /\ \A a \in Accounts : inbox[a] \subseteq inbox'[a]
    BY <1>1, <2>1 DEF TypeOK
  <2>3. QED
    BY <1>2, <1>3, <2>1, <2>2, ResetStepType

LEMMA ConsumeType == ASSUME RequestTypes, NEW h \in Handlers, Consume(h) PROVE RequestTypes'
<1> DEFINE a == AccountOf(h)
           l == task[h].token
<1>1. /\ task[h].pc # "idle" /\ TypeOK /\ RequestsInv /\ a \in Accounts
      /\ task[h].kind = "confirm" /\ l \in inbox[a]
  BY Busy DEF Consume, RequestInv
<1>2. l \in 1..MaxLinks
  BY <1>1 DEF TypeOK
<1>3. Finish(h) /\ UNCHANGED <<now, inbox, links, sent, alarmed, excused>>
  BY DEF Consume
<1>4. CASE UNCHANGED <<reset, account, row, jar, ends, spent, crossed>>
  BY <1>1, <1>3, <1>4, FinishType
<1>5. CASE /\ Consumable(reset[a], account[a])
           /\ reset' = [reset EXCEPT ![a].used = TRUE]
           /\ account' = [account EXCEPT ![a] = Credential(@)]
           /\ row' = AllRevoked(a)
           /\ SetCookie(h, 0)
           /\ ends' = [ends EXCEPT ![a] = @ + 1]
           /\ spent' = [spent EXCEPT ![l] = @ + 1]
           /\ crossed' = IF reset[a].link = l THEN crossed ELSE crossed \cup {l}
  <2>1. Marked
    BY <1>1, <1>5, MarkAll
  <2>2. Typed(h) /\ RequestInv(h)'
    BY <1>1, <1>3, Finished, IdleRequest
  <2>3. reset[a] \in Reset /\ [reset[a] EXCEPT !.used = TRUE] \in Reset
    BY <1>1, <1>5 DEF TypeOK, Consumable, Reset
  <2>4. reset' \in [Accounts -> Reset \cup {Nothing}]
    BY <1>1, <1>5, <2>3 DEF TypeOK
  <2>5. EndAll(a)
    BY <1>1, <1>5 DEF EndAll, Credential, TypeOK
  <2>6. account' \in [Accounts -> Account] /\ ends' \in [Accounts -> Nat]
    BY <1>1, <2>5, Ended
  <2>7. jar' \in [Clients -> 0..Len(row)]
    BY <1>1, <1>5, CookieCleared
  <2>8. spent' \in [1..MaxLinks -> Nat] /\ crossed' \subseteq 1..MaxLinks
    <3>1. spent \in [1..MaxLinks -> Nat] /\ crossed \subseteq 1..MaxLinks
      BY <1>1, FieldTypes
    <3>2. spent[l] + 1 \in Nat
      <4>1. spent[l] \in Nat
        BY <1>2, <3>1
      <4>2. QED
        BY <4>1
    <3>3. QED
      BY <1>2, <1>5, <3>1, <3>2
  <2>9. TypeOK'
    BY <1>1, <1>3, <2>1, <2>2, <2>4, <2>6, <2>7, <2>8 DEF TypeOK, Typed, Marked
  <2>10. RequestsInv'
    <3>1. Rows' = Rows /\ inbox' = inbox /\ links' = links
      BY <1>3, <2>1 DEF Marked, Rows
    <3>2. links \in Nat
      BY <1>1 DEF TypeOK, BoundsAssumption
    <3>3. QED
      BY <1>1, <2>2, <3>1, <3>2, OtherRequests
  <2>11. QED
    BY <2>9, <2>10 DEF RequestTypes
<1>6. QED
  BY <1>4, <1>5 DEF Consume

LEMMA SendType ==
  ASSUME RequestTypes, NEW h \in Handlers, NEW c \in Clients, NEW kind \in Kinds,
         NEW target \in Accounts, NEW link \in 0..MaxLinks, Send(h, c, kind, target, link)
  PROVE  RequestTypes'
<1>1. TypeOK /\ RequestsInv
  BY DEF RequestTypes
<1>2. /\ UNCHANGED <<now, account, row, reset, inbox, links, jar, history>>
      /\ sent' \in Nat /\ links \in Nat
  <2>1. links \in 0..MaxLinks /\ MaxLinks \in Nat /\ sent \in Nat
    BY <1>1 DEF TypeOK, BoundsAssumption
  <2>2. links \in Nat /\ sent + 1 \in Nat
    BY <2>1
  <2>3. QED
    BY <2>2 DEF Send, resets
<1>3. /\ Typed(h) /\ task'[h].pc = "sent" /\ task'[h].kind = kind /\ task'[h].client = c
      /\ task'[h].token = IF kind = "confirm" THEN link ELSE jar[c]
      /\ Presents(h)' => jar[c] \in Rows /\ task'[h].token = jar[c]
      /\ task'[h].next = 0
  BY SendMoves
<1>4. kind = "confirm" => link \in inbox[Owner[c]]
  BY DEF Send
<1>5. Rows' = Rows
  BY <1>2 DEF Rows
<1>6. RequestInv(h)'
  BY <1>2, <1>3, <1>4, <1>5 DEF RequestInv, Made, AccountOf
<1>7. TypeOK'
  BY <1>1, <1>2, <1>3 DEF TypeOK, Typed, history
<1>8. RequestsInv'
  BY <1>1, <1>2, <1>3, <1>5, <1>6, OtherRequests
<1>9. QED
  BY <1>7, <1>8 DEF RequestTypes

LEMMA StillTypes ==
  ASSUME RequestTypes, Tick \/ UNCHANGED vars PROVE RequestTypes'
<1>1. /\ now' \in Nat /\ excused' \subseteq Accounts
      /\ UNCHANGED <<account, row, reset, inbox, links, jar, task, sent, ends, spent, crossed,
                     alarmed>>
  <2>1. now \in Nat /\ TypeOK /\ excused \subseteq Accounts
    BY FieldTypes DEF RequestTypes, TypeOK
  <2>2. CASE Tick
    <3>1. \A h \in Handlers : Late(h) => AccountOf(h) \in Accounts
      BY <2>1, TaskOf DEF Late, Rotated, Made
    <3>2. QED
      BY <2>1, <2>2, <3>1 DEF Tick, resets
  <2>3. CASE UNCHANGED vars
    BY <2>1, <2>3 DEF vars
  <2>4. QED
    BY <2>2, <2>3
<1>2. TypeOK'
  BY <1>1 DEF RequestTypes, TypeOK
<1>3. RequestsInv'
  BY <1>1 DEF RequestTypes, RequestsInv, RequestInv, Presents, Made, AccountOf, Rows
<1>4. QED
  BY <1>2, <1>3 DEF RequestTypes

LEMMA StepTypes == ASSUME RequestTypes, [Next]_vars PROVE RequestTypes'
<1>1. ASSUME NEW h \in Handlers, Step(h) PROVE RequestTypes'
  BY <1>1, FindType, AuthenticateType, RotateType, AlarmType, AlarmPurgeType,
     FindForLogoutType, RevokeType, BumpEpochType, ReadStaffType, WriteStaffType, PurgeType,
     AnswerType, CheckPasswordType, CreateSessionType, CheckFactorType, ElevateType, SpendType,
     ReadForResetType, IssueLinkType, MailType, ReleaseType, ReadLinkType, ConsumeType, FailType
     DEF Step
<1>2. QED
  BY <1>1, SendType, StillTypes DEF Next

(***************************************************************************)
(* The types, and what a request is at each stage: the token it presents   *)
(* is one that was issued.                                                 *)
(***************************************************************************)
THEOREM TypesHold == Spec => []RequestTypes
<1>1. Init => RequestTypes
  <2> SUFFICES ASSUME Init PROVE RequestTypes
    OBVIOUS
  <2>1. TypeOK /\ task = [h \in Handlers |-> Idle]
    BY InitType DEF Init
  <2>2. \A h \in Handlers : RequestInv(h)
    BY <2>1, IdleFacts DEF RequestInv, Presents, Made
  <2>3. QED
    BY <2>1, <2>2 DEF RequestTypes, RequestsInv
<1>2. QED
  BY <1>1, StepTypes, PTL DEF Spec

-----------------------------------------------------------------------------
(***************************************************************************)
(* A step seen by what it does to the rows, and to the request it is of.   *)
(***************************************************************************)
\* The rows of one sign-in get a new current row.
Rotates(h) ==
    /\ task[h].pc = "rotate" /\ task[h].token \in Rows
    /\ Current(task[h].token)
    /\ Len(row') = Len(row) + 1 /\ Rows' = Rows \cup {Len(row) + 1}
    /\ row'[Len(row) + 1].superseded = Nothing
    /\ row'[Len(row) + 1].chain = SessionOf(h).chain
    /\ row'[Len(row) + 1].proof = SessionOf(h).proof
    /\ row'[Len(row) + 1].epoch = SessionOf(h).epoch
    /\ \A i \in Rows :
          /\ row'[i].chain = row[i].chain
          /\ row'[i].proof = row[i].proof
          /\ row'[i].epoch = row[i].epoch
          /\ row'[i].superseded = IF i = task[h].token THEN now ELSE row[i].superseded

\* A sign-in, or the completion of one, begins a chain.
Inserts(h) ==
    /\ task[h].pc \in {"create", "elevate"}
    /\ Len(row') = Len(row) + 1 /\ Rows' = Rows \cup {Len(row) + 1}
    /\ row'[Len(row) + 1].superseded = Nothing
    /\ row'[Len(row) + 1].chain = Len(row) + 1
    /\ row'[Len(row) + 1].proof = task[h].since
    /\ row'[Len(row) + 1].epoch = task[h].read.epoch
    /\ \A i \in Rows : row'[i] = row[i]

LEMMA RotateMoves ==
  ASSUME RequestTypes, NEW h \in Handlers, Rotate(h)
  PROVE  \/ Renewed(h) /\ Rotates(h)
         \/ row' = row /\ (Goto(h, "act") \/ Goto(h, "served"))
<1>1. task[h].pc = "rotate" /\ task[h].pc # "idle"
  BY DEF Rotate
<1> DEFINE k == task[h].token
<1>2. TypeOK /\ k \in Rows
  BY <1>1, Busy DEF RequestInv, Presents
<1>3. SUFFICES ASSUME ~ (row' = row /\ (Goto(h, "act") \/ Goto(h, "served")))
               PROVE  Renewed(h) /\ Rotates(h)
  OBVIOUS
<1>4. /\ Renewed(h) /\ ~ RotationLost(SessionOf(h))
      /\ row' = Append([row EXCEPT ![k].superseded = now],
                       [SessionOf(h) EXCEPT !.used = task[h].at, !.superseded = Nothing])
  BY <1>3, RotateGoes
<1>5. /\ Len(row') = Len(row) + 1 /\ Rows' = Rows \cup {Len(row) + 1}
      /\ row'[Len(row) + 1] = [SessionOf(h) EXCEPT !.used = task[h].at, !.superseded = Nothing]
      /\ \A i \in Rows : row'[i] = IF i = k THEN [row[i] EXCEPT !.superseded = now] ELSE row[i]
  BY <1>1, <1>4, RotateRows
<1>6. \A i \in Rows : row[i] \in Row
  BY <1>2, Lengths
<1>7. \A i \in Rows : /\ row'[i].chain = row[i].chain /\ row'[i].proof = row[i].proof
                      /\ row'[i].epoch = row[i].epoch
                      /\ row'[i].superseded = IF i = k THEN now ELSE row[i].superseded
  BY <1>5, <1>6 DEF Row
<1>8. SessionOf(h) \in Row
  BY <1>2, <1>6 DEF SessionOf
<1>9. QED
  BY <1>1, <1>2, <1>4, <1>5, <1>7, <1>8 DEF Rotates, RotationLost, Current, SessionOf, Row

LEMMA CreateMoves ==
  ASSUME RequestTypes, NEW h \in Handlers, CreateSession(h) \/ Elevate(h) PROVE Inserts(h)
<1>1. task[h].pc \in {"create", "elevate"} /\ task[h].pc # "idle"
  BY DEF CreateSession, Elevate
<1>2. TypeOK
  BY DEF RequestTypes
<1>7. row \in [Rows -> Row]
  BY <1>2 DEF TypeOK, Rows
<1>3. PICK stage \in {"pending", "authenticated"} : row' = Append(row, NewRow(h, stage))
  BY DEF CreateSession, Elevate
<1>4. NewRow(h, stage) \in Row
  BY <1>1, NewRowType
<1>5. /\ Len(row') = Len(row) + 1 /\ Rows' = Rows \cup {Len(row) + 1}
      /\ row'[Len(row) + 1] = NewRow(h, stage)
      /\ \A i \in Rows : row'[i] = row[i]
  BY <1>2, <1>3, <1>4, <1>7, Grown
<1>6. QED
  BY <1>1, <1>5, NewRowType DEF Inserts

LEMMA StepRows ==
  ASSUME RequestTypes, NEW h \in Handlers, Step(h)
  PROVE  Marked \/ Rotates(h) \/ Inserts(h)
<1>1. TypeOK
  BY DEF RequestTypes
<1>2. ASSUME row' = row PROVE Marked
  BY <1>1, <1>2, Unmarked
<1>3. CASE Rotate(h)
  BY <1>2, <1>3, RotateMoves
<1>4. CASE CreateSession(h) \/ Elevate(h)
  BY <1>4, CreateMoves
<1>5. CASE AlarmPurge(h)
  BY <1>5, Busy, PurgedRows DEF AlarmPurge
<1>6. CASE Purge(h)
  BY <1>6, Busy, PurgedRows DEF Purge
<1>7. CASE Revoke(h)
  BY <1>7, <1>1, Busy, MarkOne DEF Revoke, RequestInv, Presents
<1>8. CASE Spend(h)
  BY <1>8, <1>1, <1>2, Busy, MarkOne DEF Spend, RequestInv, Presents
<1>9. CASE Consume(h)
  BY <1>9, <1>1, <1>2, Busy, MarkAll DEF Consume
<1>10. CASE \/ Find(h) \/ Authenticate(h) \/ Alarm(h) \/ FindForLogout(h) \/ BumpEpoch(h)
           \/ ReadStaff(h) \/ WriteStaff(h) \/ CheckPassword(h) \/ CheckFactor(h)
           \/ ReadForReset(h) \/ IssueLink(h) \/ Mail(h) \/ Release(h) \/ ReadLink(h) \/ Fail(h)
           \/ Answer(h)
  BY <1>10, <1>2 DEF Find, Authenticate, Alarm, FindForLogout, BumpEpoch, ReadStaff, WriteStaff,
     CheckPassword, CheckFactor, ReadForReset, IssueLink, Mail, Release, ReadLink, Fail,
     Answer
<1>11. QED
  BY <1>3, <1>4, <1>5, <1>6, <1>7, <1>8, <1>9, <1>10 DEF Step

\* Only Rotate rotates.
LEMMA RotatesRenews ==
  ASSUME RequestTypes, NEW h \in Handlers, Step(h), Rotates(h) PROVE Renewed(h)
<1>1. TypeOK /\ Len(row') # Len(row)
  BY Lengths DEF Rotates, RequestTypes
<1>2. task[h].pc = "rotate"
  BY DEF Rotates
<1>3. Rotate(h) \/ Fail(h)
  BY <1>2 DEF Step, Find, Authenticate, Alarm, AlarmPurge, FindForLogout, Revoke, BumpEpoch,
     ReadStaff, WriteStaff, Purge, Answer, CheckPassword, CreateSession, CheckFactor, Elevate,
     Spend, ReadForReset, IssueLink, Mail, Release, ReadLink, Consume
<1>4. Rotate(h)
  BY <1>1, <1>3 DEF Fail
<1>5. QED
  BY <1>1, <1>4, RotateMoves

LEMMA RowMoves ==
  ASSUME RequestTypes, [Next]_vars
  PROVE  Marked \/ \E h \in Handlers : Rotates(h) \/ Inserts(h)
<1>1. ASSUME NEW h \in Handlers, NEW c \in Clients, NEW kind \in Kinds, NEW target \in Accounts,
             NEW link \in 0..MaxLinks, Send(h, c, kind, target, link)
      PROVE  row' = row
  BY <1>1 DEF Send
<1>2. ASSUME row' = row PROVE Marked
  BY <1>2, Unmarked DEF RequestTypes
<1>3. QED
  BY <1>1, <1>2, StepRows DEF Next, Tick, vars

\* The request goes on with what it has.
Kept(h) ==
    /\ Same(h) /\ task'[h].token = task[h].token /\ task'[h].since = task[h].since
    /\ task'[h].next = task[h].next
    /\ task'[h].pc \in {"act", "served", "write", "purge", "alarmPurge", "revoke", "issue",
                        "release", "consume"}
    /\ Admitted(h)' => Admitted(h)
    /\ task'[h].pc = "release" => task[h].pc = "mail"

LEMMA GoesOn ==
  ASSUME RequestTypes, NEW h \in Handlers, task[h].pc # "idle",
         NEW pc \in {"act", "served", "write", "purge", "alarmPurge", "revoke", "issue",
                     "release", "consume"},
         Goto(h, pc),
         \/ pc \in {"alarmPurge", "revoke", "issue", "consume"}
         \/ pc \in {"act", "served", "write", "purge"}
               /\ task[h].pc \in {"rotate", "act", "write", "purge", "served"}
         \/ pc = "release" /\ task[h].pc = "mail"
  PROVE  Typed(h) /\ Kept(h)
<1>1. TypeOK /\ pc \in Stages
  BY DEF RequestTypes, Stages
<1>2. /\ Typed(h) /\ Same(h) /\ task'[h].pc = pc
      /\ task'[h].token = task[h].token /\ task'[h].since = task[h].since
      /\ task'[h].next = task[h].next
  BY <1>1, Going
<1>3. QED
  BY <1>2 DEF Kept, Admitted, Same

LEMMA StepMoves ==
  ASSUME RequestTypes, NEW h \in Handlers, Step(h)
  PROVE  /\ Typed(h) /\ task[h].pc # "idle"
         /\ \/ task'[h] = Idle
            \/ Kept(h)
            \/ Find(h)
            \/ Authenticate(h) /\ LetIn(h)
            \/ CheckPassword(h) /\ Proved(h) /\ task'[h].pc = "create"
            \/ CheckFactor(h) /\ Proved(h) /\ task'[h].pc = "elevate"
            \/ Elevate(h)
            \/ Renewed(h) /\ Rotates(h)
            \/ IssueLink(h) /\ Issued(h)
<1>0. TypeOK
  BY DEF RequestTypes
<1>1. task[h].pc # "idle"
  BY DEF Step, Find, Authenticate, Rotate, Alarm, AlarmPurge, FindForLogout, Revoke, BumpEpoch,
     ReadStaff, WriteStaff, Purge, Answer, CheckPassword, CreateSession, CheckFactor, Elevate, Spend,
     ReadForReset, IssueLink, Mail, Release, ReadLink, Consume, Fail
<1>2. ASSUME Finish(h) PROVE Typed(h) /\ task'[h] = Idle
  BY <1>0, <1>2, Finished
<1>3. CASE Find(h) \/ Elevate(h)
  BY <1>1, <1>3, FindMoves, ElevateMoves
<1>4. CASE Authenticate(h)
  BY <1>1, <1>2, <1>4, AuthenticateMoves
<1>5. CASE CheckPassword(h) \/ CheckFactor(h)
  BY <1>1, <1>2, <1>5, CheckPasswordMoves, CheckFactorMoves
<1>6. CASE IssueLink(h)
  BY <1>1, <1>2, <1>6, IssueLinkMoves
<1>7. CASE Rotate(h)
  <2>1. task[h].pc = "rotate" /\ Typed(h)
    BY <1>7, RotateGoes
  <2>2. CASE Goto(h, "served") \/ Goto(h, "act")
    BY <1>1, <2>1, <2>2, GoesOn
  <2>3. QED
    BY <1>1, <1>7, <2>1, <2>2, RotateMoves
<1>8. CASE Alarm(h) \/ BumpEpoch(h) \/ Purge(h)
  BY <1>1, <1>8, GoesOn DEF Alarm, BumpEpoch, Purge
<1>9. CASE ReadStaff(h) \/ WriteStaff(h)
  <2>1. Goto(h, "write") \/ Goto(h, "served") \/ Goto(h, "purge")
    BY <1>9 DEF ReadStaff, WriteStaff
  <2>2. task[h].pc \in {"act", "write"}
    BY <1>9 DEF ReadStaff, WriteStaff
  <2>3. QED
    BY <1>1, <2>1, <2>2, GoesOn
<1>10. CASE FindForLogout(h) \/ ReadForReset(h) \/ ReadLink(h) \/ Mail(h)
  <2>1. \/ Finish(h)
        \/ Goto(h, "revoke")
        \/ Goto(h, "issue")
        \/ Goto(h, "consume")
        \/ Goto(h, "release") /\ task[h].pc = "mail"
    BY <1>10 DEF FindForLogout, ReadForReset, ReadLink, Mail
  <2>2. QED
    BY <1>1, <1>2, <2>1, GoesOn
<1>11. CASE \/ AlarmPurge(h) \/ Revoke(h) \/ CreateSession(h) \/ Spend(h) \/ Release(h)
            \/ Consume(h) \/ Fail(h) \/ Answer(h)
  BY <1>1, <1>2, <1>11 DEF AlarmPurge, Revoke, CreateSession, Spend, Release, Consume, Fail,
     Answer
<1>12. QED
  BY <1>3, <1>4, <1>5, <1>6, <1>7, <1>8, <1>9, <1>10, <1>11 DEF Step

-----------------------------------------------------------------------------
(***************************************************************************)
(* One current row for each sign-in.                                       *)
(***************************************************************************)
LEMMA ChainStep ==
  ASSUME RequestTypes, ChainInv, [Next]_vars PROVE ChainInv'
<1>1. Len(row) \in Nat /\ Rows = 1..Len(row) /\ now # Nothing
  BY Lengths DEF RequestTypes, Rows, TypeOK
<1>2. CASE Marked
  <2>1. Rows' = Rows
    BY <1>2 DEF Marked, Rows
  <2>2. \A i \in Rows : row'[i].chain = row[i].chain /\ (Current(i)' <=> Current(i))
    BY <1>2 DEF Marked, Current
  <2>3. QED
    BY <2>1, <2>2 DEF ChainInv
<1>3. CASE \E h \in Handlers : Rotates(h)
  <2>1. PICK h \in Handlers : Rotates(h)
    BY <1>3
  <2> DEFINE k == task[h].token
  <2>0. PICK n \in Nat : n = Len(row) + 1
    BY <1>1
  <2>7. k \in Rows /\ Current(k) /\ Rows' = Rows \cup {n} /\ n \notin Rows
    BY <1>1, <2>0, <2>1 DEF Rotates
  <2>8. row'[n].superseded = Nothing /\ row'[n].chain = row[k].chain
    BY <2>0, <2>1 DEF Rotates, SessionOf
  <2>9. \A i \in Rows : /\ row'[i].chain = row[i].chain
                        /\ row'[i].superseded = IF i = k THEN now ELSE row[i].superseded
    BY <2>1 DEF Rotates
  <2> HIDE DEF k
  <2>10. Current(n)' /\ \A i \in Rows : Current(i)' <=> (Current(i) /\ i # k)
    BY <1>1, <2>8, <2>9 DEF Current
  <2>2. /\ k \in Rows /\ Current(k) /\ Rows' = Rows \cup {n} /\ n \notin Rows
        /\ Current(n)' /\ row'[n].chain = row[k].chain
        /\ \A i \in Rows : /\ row'[i].chain = row[i].chain
                           /\ Current(i)' <=> (Current(i) /\ i # k)
    BY <2>7, <2>8, <2>9, <2>10
  <2>3. \A i \in Rows' : row'[i].chain \in Rows'
    BY <2>2 DEF ChainInv
  <2>4. ASSUME NEW i \in Rows' PROVE \E j \in Rows' : row'[j].chain = row'[i].chain /\ Current(j)'
    <3>1. PICK m \in Rows : row[m].chain = row'[i].chain
      BY <2>2
    <3>2. PICK j \in Rows : row[j].chain = row[m].chain /\ Current(j)
      BY DEF ChainInv
    <3>3. CASE j = k
      BY <2>2, <3>1, <3>2, <3>3
    <3>4. CASE j # k
      BY <2>2, <3>1, <3>2, <3>4
    <3>5. QED
      BY <3>3, <3>4
  <2>5. ASSUME NEW i \in Rows', NEW j \in Rows', row'[i].chain = row'[j].chain,
               Current(i)', Current(j)'
        PROVE  i = j
    BY <2>2, <2>5 DEF ChainInv
  <2>6. QED
    BY <2>3, <2>4, <2>5 DEF ChainInv
<1>4. CASE \E h \in Handlers : Inserts(h)
  <2>1. PICK h \in Handlers : Inserts(h)
    BY <1>4
  <2>0. PICK n \in Nat : n = Len(row) + 1
    BY <1>1
  <2>2. /\ Rows' = Rows \cup {n} /\ n \notin Rows
        /\ Current(n)' /\ row'[n].chain = n
        /\ \A i \in Rows : row'[i].chain = row[i].chain /\ (Current(i)' <=> Current(i))
    <3>1. /\ Rows' = Rows \cup {n} /\ row'[n].superseded = Nothing /\ row'[n].chain = n
          /\ \A i \in Rows : row'[i] = row[i]
      BY <2>0, <2>1 DEF Inserts
    <3>2. n \notin Rows
      BY <1>1, <2>0 DEF Rows
    <3>3. QED
      BY <3>1, <3>2 DEF Current
  <2>3. QED
    BY <2>2 DEF ChainInv
<1>5. QED
  BY <1>2, <1>3, <1>4, RowMoves

(***************************************************************************)
(* Whatever parallel requests rotate a sign-in, and whatever else is       *)
(* inserted, exactly one row of its chain is current.                      *)
(***************************************************************************)
THEOREM OneTokenPerSignIn == Spec => []SessionInv
<1>1. Init => ChainInv
  <2> SUFFICES ASSUME Init PROVE ChainInv
    OBVIOUS
  <2>1. Len(row) \in Nat /\ Rows = 1..Cardinality(Clients)
    BY InitType DEF Rows
  <2>2. \A i \in Rows : row[i].chain = i /\ Current(i)
    BY <2>1 DEF Init, Current
  <2>3. QED
    BY <2>2 DEF ChainInv
<1>2. TypeOK /\ ChainInv => SessionInv
  <2> SUFFICES ASSUME TypeOK, ChainInv, NEW i \in Rows
               PROVE  Cardinality({j \in Rows : row[j].chain = row[i].chain
                                                   /\ row[j].superseded = Nothing}) = 1
    BY Lengths DEF SessionInv, OneCurrentToken
  <2>1. PICK j \in Rows : row[j].chain = row[i].chain /\ Current(j)
    BY DEF ChainInv
  <2>2. {k \in Rows : row[k].chain = row[i].chain /\ row[k].superseded = Nothing} = {j}
    BY <2>1 DEF ChainInv, Current
  <2>3. QED
    BY <2>2, FS_Singleton
<1>3. QED
  BY <1>1, <1>2, ChainStep, TypesHold, PTL DEF Spec, RequestTypes

-----------------------------------------------------------------------------
(***************************************************************************)
(* Sessions that were ended.                                               *)
(***************************************************************************)
\* The epoch of an account counts the times its sessions were ended.
LEMMA EndsMove ==
  ASSUME RequestTypes, [Next]_vars, NEW a \in Accounts
  PROVE  \/ account'[a].epoch = account[a].epoch /\ ends'[a] = ends[a]
         \/ account'[a].epoch = account[a].epoch + 1 /\ ends'[a] = ends[a] + 1
<1>1. TypeOK
  BY DEF RequestTypes
<1>2. ASSUME NEW b \in Accounts, EndAll(b) PROVE
         \/ account'[a].epoch = account[a].epoch /\ ends'[a] = ends[a]
         \/ account'[a].epoch = account[a].epoch + 1 /\ ends'[a] = ends[a] + 1
  <2>1. account \in [Accounts -> Account] /\ ends \in [Accounts -> Nat]
    BY <1>1 DEF TypeOK
  <2>2. CASE a = b
    BY <1>2, <2>1, <2>2 DEF EndAll, Account
  <2>3. CASE a # b
    BY <1>2, <2>1, <2>3 DEF EndAll
  <2>4. QED
    BY <2>2, <2>3
<1>3. ASSUME NEW h \in Handlers, Step(h) PROVE
         \/ account'[a].epoch = account[a].epoch /\ ends'[a] = ends[a]
         \/ account'[a].epoch = account[a].epoch + 1 /\ ends'[a] = ends[a] + 1
  <2>1. CASE Alarm(h) \/ BumpEpoch(h)
    BY <1>2, <2>1, Busy DEF Alarm, BumpEpoch
  <2>2. CASE Consume(h)
    <3>1. AccountOf(h) \in Accounts
      BY <2>2, Busy DEF Consume
    <3>2. CASE UNCHANGED <<account, ends>>
      BY <3>2
    <3>3. CASE ~ UNCHANGED <<account, ends>>
      <4>1. EndAll(AccountOf(h))
        BY <2>2, <3>3 DEF Consume, EndAll, Credential
      <4>2. QED
        BY <1>2, <3>1, <4>1
    <3>4. QED
      BY <3>2, <3>3
  <2>3. CASE WriteStaff(h)
    <3>1. task[h].target \in Accounts /\ task[h].kind \in StaffKinds
      BY <2>3, Busy DEF WriteStaff, RequestInv
    <3>2. account \in [Accounts -> Account]
      BY <1>1 DEF TypeOK
    <3> DEFINE t == task[h].target
    <3>3. \/ account' = [account EXCEPT ![t].role = "DEVELOPER"]
          \/ account' = [account EXCEPT ![t].role = "SUPER_ADMIN"]
          \/ account' = [account EXCEPT ![t].disabled = TRUE]
          \/ account' = [account EXCEPT ![t].disabled = FALSE]
      BY <2>3, <3>1 DEF WriteStaff, StaffKinds
    <3>4. account'[a].epoch = account[a].epoch
      BY <3>1, <3>2, <3>3 DEF Account
    <3>5. QED
      BY <2>3, <3>4 DEF WriteStaff, history
  <2>4. CASE \/ Find(h) \/ Authenticate(h) \/ Rotate(h) \/ AlarmPurge(h) \/ FindForLogout(h)
             \/ Revoke(h) \/ ReadStaff(h) \/ Purge(h) \/ CheckPassword(h) \/ CreateSession(h)
             \/ CheckFactor(h) \/ Elevate(h) \/ Spend(h) \/ ReadForReset(h) \/ IssueLink(h)
             \/ Mail(h) \/ Release(h) \/ ReadLink(h) \/ Fail(h) \/ Answer(h)
    <3>1. account' = account /\ ends' = ends
      BY <2>4 DEF Find, Authenticate, Rotate, AlarmPurge, FindForLogout, Revoke, ReadStaff, Purge,
         CheckPassword, CreateSession, CheckFactor, Elevate, Spend, ReadForReset, IssueLink, Mail,
         Release, ReadLink, Fail, Answer, history
    <3>2. QED
      BY <3>1
  <2>5. QED
    BY <1>3, <2>1, <2>2, <2>3, <2>4 DEF Step
<1>4. ASSUME NEW h \in Handlers, NEW c \in Clients, NEW kind \in Kinds, NEW target \in Accounts,
             NEW link \in 0..MaxLinks, Send(h, c, kind, target, link)
      PROVE  account' = account /\ ends' = ends
  BY <1>4 DEF Send, history
<1>5. ASSUME Tick \/ UNCHANGED vars PROVE account' = account /\ ends' = ends
  BY <1>5 DEF Tick, vars, history
<1>6. QED
  BY <1>3, <1>4, <1>5 DEF Next

\* The epochs and the rows keep in step.
LEMMA EpochRows ==
  ASSUME RequestTypes, EpochInv, [Next]_vars
  PROVE  /\ \A a \in Accounts : account'[a].epoch = ends'[a] + 1 /\ ends'[a] >= ends[a]
         /\ \A i \in Rows' : row'[i].epoch = row'[i].proof + 1
         /\ \A i \in Rows : i \in Rows' /\ row'[i].proof = row[i].proof
<1>1. TypeOK /\ Len(row) \in Nat
  BY Lengths DEF RequestTypes
<1>2. \A a \in Accounts : ends[a] \in Nat /\ account[a].epoch = ends[a] + 1
  BY <1>1 DEF TypeOK, EpochInv
<1>3. \A a \in Accounts : account'[a].epoch = ends'[a] + 1 /\ ends'[a] >= ends[a]
  BY <1>2, EndsMove
<1>4. /\ \A i \in Rows' : row'[i].epoch = row'[i].proof + 1
      /\ \A i \in Rows : i \in Rows' /\ row'[i].proof = row[i].proof
  <2>1. CASE Marked
    <3>1. Rows' = Rows
      BY <2>1 DEF Marked, Rows
    <3>2. QED
      BY <2>1, <3>1 DEF Marked, EpochInv
  <2>2. CASE \E h \in Handlers : Rotates(h)
    <3>1. PICK h \in Handlers : Rotates(h)
      BY <2>2
    <3>2. \A i \in Rows : row[i].epoch = row[i].proof + 1
      BY DEF EpochInv
    <3>3. /\ task[h].token \in Rows /\ Rows' = Rows \cup {Len(row) + 1}
          /\ row'[Len(row) + 1].proof = row[task[h].token].proof
          /\ row'[Len(row) + 1].epoch = row[task[h].token].epoch
          /\ \A i \in Rows : row'[i].proof = row[i].proof /\ row'[i].epoch = row[i].epoch
      BY <3>1 DEF Rotates, SessionOf
    <3>4. QED
      BY <3>2, <3>3
  <2>3. CASE \E h \in Handlers : Inserts(h)
    BY <2>3 DEF Inserts, EpochInv
  <2>4. QED
    BY <2>1, <2>2, <2>3, RowMoves
<1>5. QED
  BY <1>3, <1>4

\* What EpochInv says of one request.
Timely(h) ==
    /\ task[h].pc # "idle" => task[h].since <= ends[AccountOf(h)]
    /\ task[h].pc \in {"create", "elevate"} => task[h].read.epoch = task[h].since + 1
    /\ Admitted(h) => SessionOf(h).proof >= task[h].since

LEMMA IdleIsTimely == ASSUME NEW h \in Handlers, task'[h] = Idle PROVE Timely(h)'
BY IdleFacts DEF Timely, Admitted

\* A request that stays as it is, or goes on with what it has, stays timely.
LEMMA StaysTimely ==
  ASSUME RequestTypes, EpochInv, [Next]_vars, NEW h \in Handlers, task[h].pc # "idle",
         Same(h), task'[h].token = task[h].token \/ ~ Admitted(h)', task'[h].since = task[h].since,
         Admitted(h)' => Admitted(h),
         task'[h].pc \in {"create", "elevate"} => task'[h] = task[h]
  PROVE  Timely(h)'
<1>1. /\ AccountOf(h) \in Accounts /\ AccountOf(h)' = AccountOf(h) /\ RequestInv(h)
      /\ TypeOK /\ task[h].since \in Nat
  BY Busy, TaskOf DEF AccountOf, Same
<1>2. Timely(h)
  BY DEF EpochInv, Timely
<1>3. ends'[AccountOf(h)] >= ends[AccountOf(h)] /\ ends[AccountOf(h)] \in Nat
  BY <1>1, EpochRows DEF TypeOK
<1>4. ends'[AccountOf(h)] \in Nat
  BY <1>1, StepTypes DEF RequestTypes, TypeOK
<1>5. task'[h].since <= ends'[AccountOf(h)']
  BY <1>1, <1>2, <1>3, <1>4 DEF Timely
<1>6. ASSUME Admitted(h)' PROVE row'[task'[h].token].proof >= task'[h].since
  <2>1. Admitted(h) /\ task[h].token \in Rows
    BY <1>1, <1>6 DEF Admitted, RequestInv, Presents
  <2>2. row'[task[h].token].proof = row[task[h].token].proof
    BY <2>1, EpochRows
  <2>3. QED
    BY <1>2, <1>6, <2>1, <2>2 DEF Timely, SessionOf
<1>7. QED
  BY <1>2, <1>5, <1>6 DEF Timely, SessionOf

LEMMA EpochStep ==
  ASSUME RequestTypes, EpochInv, [Next]_vars PROVE EpochInv'
<1>0. TypeOK /\ RequestTypes'
  BY StepTypes DEF RequestTypes
<1>1. ASSUME NEW g \in Handlers, task'[g] = task[g] PROVE Timely(g)'
  <2>1. CASE task[g].pc = "idle"
    BY <1>1, <2>1 DEF Timely, Admitted
  <2>2. CASE task[g].pc # "idle"
    BY <1>1, <2>2, StaysTimely DEF Same, Admitted
  <2>3. QED
    BY <2>1, <2>2
<1>2. ASSUME NEW h \in Handlers, Step(h) PROVE Timely(h)'
  <2>1. Typed(h) /\ task[h].pc # "idle" /\ AccountOf(h) \in Accounts
    BY <1>2, StepMoves, Busy
  <2>2. CASE task'[h] = Idle
    BY <2>2, IdleIsTimely
  <2>3. CASE Kept(h)
    BY <2>1, <2>3, StaysTimely DEF Kept
  <2>4. CASE Find(h)
    BY <2>1, <2>4, FindMoves, StaysTimely DEF Admitted
  <2>5. CASE Authenticate(h) /\ LetIn(h)
    <3>1. /\ AccountOf(h)' = AccountOf(h) /\ row' = row /\ ends' = ends
          /\ task[h].token \in Rows
      BY <2>5, Busy DEF LetIn, Same, AccountOf, Authenticate, history, RequestInv, Presents
    <3>2. row[task[h].token].epoch = account[AccountOf(h)].epoch
      BY <2>5 DEF LetIn, Verified, SessionOf
    <3>3. row[task[h].token].proof \in Nat /\ ends[AccountOf(h)] \in Nat
      BY <1>0, <2>1, <3>1, Lengths DEF Row, TypeOK
    <3>4. row[task[h].token].proof = ends[AccountOf(h)]
      BY <2>1, <3>1, <3>2, <3>3 DEF EpochInv
    <3>5. task[h].since <= ends[AccountOf(h)] /\ task[h].since \in Nat
      BY <1>0, <2>1, TaskOf DEF EpochInv
    <3>6. QED
      BY <2>5, <3>1, <3>3, <3>4, <3>5 DEF Timely, LetIn, SessionOf
  <2>6. CASE /\ CheckPassword(h) \/ CheckFactor(h)
             /\ Proved(h) /\ task'[h].pc \in {"create", "elevate"}
    <3>1. AccountOf(h)' = AccountOf(h) /\ ends' = ends
      BY <2>6 DEF Proved, Same, AccountOf, CheckPassword, CheckFactor, history
    <3>2. ends[AccountOf(h)] \in Nat /\ account[AccountOf(h)].epoch = ends[AccountOf(h)] + 1
      BY <1>0, <2>1 DEF EpochInv, TypeOK
    <3>3. QED
      BY <2>6, <3>1, <3>2 DEF Timely, Proved, Admitted
  <2>7. CASE Elevate(h)
    BY <2>1, <2>7, ElevateMoves, StaysTimely DEF Admitted
  <2>10. CASE Renewed(h) /\ Rotates(h)
    <3>1. Admitted(h)
      BY <2>10 DEF Rotates, Renewed, Admitted
    <3>2. QED
      BY <2>1, <2>10, <3>1, StaysTimely DEF Renewed
  <2>8. CASE IssueLink(h) /\ Issued(h)
    BY <2>1, <2>8, StaysTimely DEF Issued, Admitted
  <2>9. QED
    BY <1>2, <2>2, <2>3, <2>4, <2>5, <2>6, <2>7, <2>8, <2>10, StepMoves
<1>3. ASSUME NEW h \in Handlers, NEW c \in Clients, NEW kind \in Kinds, NEW target \in Accounts,
             NEW link \in 0..MaxLinks, Send(h, c, kind, target, link)
      PROVE  Timely(h)'
  <2>1. task'[h].pc = "sent" /\ task'[h].client = c /\ task'[h].since = ends[Owner[c]]
    BY <1>3, SendMoves
  <2>2. ends' = ends /\ ends[Owner[c]] \in Nat
    BY <1>0, <1>3 DEF Send, history, TypeOK
  <2>3. QED
    BY <2>1, <2>2 DEF Timely, Admitted, AccountOf
<1>4. \A g \in Handlers : Timely(g)'
  <2>1. ASSUME NEW h \in Handlers, Step(h), NEW g \in Handlers PROVE Timely(g)'
    <3>1. g # h => task'[g] = task[g]
      BY <2>1, StepMoves DEF Typed
    <3>2. QED
      BY <1>1, <1>2, <2>1, <3>1
  <2>2. ASSUME NEW h \in Handlers, NEW c \in Clients, NEW kind \in Kinds, NEW target \in Accounts,
               NEW link \in 0..MaxLinks, Send(h, c, kind, target, link), NEW g \in Handlers
        PROVE  Timely(g)'
    <3>1. g # h => task'[g] = task[g]
      BY <2>2, SendMoves DEF Typed
    <3>2. QED
      BY <1>1, <1>3, <2>2, <3>1
  <2>3. CASE Tick \/ UNCHANGED vars
    BY <1>1, <2>3 DEF Tick, vars
  <2>4. QED
    BY <2>1, <2>2, <2>3 DEF Next
<1>5. QED
  BY <1>4, EpochRows DEF EpochInv, Timely

(***************************************************************************)
(* A request sent after all sessions of its account were ended is only let *)
(* in by a password or a second factor that was checked after: the epoch   *)
(* of a session is that of the account when it was proved.                 *)
(***************************************************************************)
THEOREM EndingsHold == Spec => []EndedStaysEnded
<1>1. Init => EpochInv
  <2> SUFFICES ASSUME Init PROVE EpochInv
    OBVIOUS
  <2>1. Rows = 1..Cardinality(Clients)
    BY InitType DEF Rows
  <2>2. \A i \in Rows : row[i].epoch = 1 /\ row[i].proof = 0
    BY <2>1 DEF Init
  <2>3. \A a \in Accounts : account[a].epoch = 1 /\ ends[a] = 0
    BY DEF Init, Fresh
  <2>4. \A h \in Handlers : task[h].pc = "idle"
    BY IdleFacts DEF Init
  <2>5. QED
    BY <2>2, <2>3, <2>4 DEF EpochInv, Admitted
<1>2. EpochInv => EndedStaysEnded
  BY DEF EpochInv, EndedStaysEnded
<1>3. QED
  BY <1>1, <1>2, EpochStep, TypesHold, PTL DEF Spec

-----------------------------------------------------------------------------
(***************************************************************************)
(* Who holds which token.                                                  *)
(***************************************************************************)
\* The cookie a step may leave its browser with.
LEMMA JarMoves ==
  ASSUME RequestTypes, NEW h \in Handlers, Step(h), NEW c \in Clients, jar'[c] # jar[c]
  PROVE  /\ c = task[h].client
         /\ \/ jar'[c] = 0
            \/ jar'[c] = Len(row) + 1 /\ Inserts(h)
            \/ jar'[c] = task[h].next /\ Made(h) /\ task'[h] = Idle /\ Marked
<1>1. jar \in [Clients -> 0..Len(row)] /\ TypeOK
  BY DEF RequestTypes, TypeOK
<1>2. ASSUME NEW k, SetCookie(h, k) PROVE c = task[h].client /\ jar'[c] = k
  BY <1>1, <1>2 DEF SetCookie
<1>3. CASE Answer(h) \/ Fail(h)
  <2>1. task[h].pc # "idle" /\ task'[h] = Idle /\ Marked
    BY <1>1, <1>3, Unmarked, Finished DEF Answer, Fail
  <2>2. SetCookie(h, 0) \/ (Made(h) /\ SetCookie(h, task[h].next))
    BY <1>3, AnswerMoves DEF Fail, Rotated
  <2>3. QED
    BY <1>2, <2>1, <2>2
<1>4. CASE CreateSession(h)
  BY <1>2, <1>4, CreateMoves DEF CreateSession
<1>5. CASE Spend(h)
  <2>1. task'[h] = Idle /\ task[h].pc = "spend" /\ SetCookie(h, task[h].next)
    BY <1>1, <1>5, Finished DEF Spend
  <2>2. Marked
    BY <1>1, <1>5, Unmarked, MarkOne, Busy DEF Spend, RequestInv, Presents
  <2>3. task[h].next = 0 \/ Made(h)
    BY <2>1 DEF Made
  <2>4. QED
    BY <1>2, <2>1, <2>2, <2>3
<1>6. CASE Authenticate(h) \/ AlarmPurge(h) \/ FindForLogout(h) \/ Revoke(h)
           \/ Consume(h)
  <2>1. SetCookie(h, 0)
    BY <1>6 DEF Authenticate, AlarmPurge, FindForLogout, Revoke, Consume
  <2>2. QED
    BY <1>2, <2>1
<1>7. CASE \/ Find(h) \/ Alarm(h) \/ BumpEpoch(h) \/ ReadStaff(h) \/ WriteStaff(h)
           \/ CheckPassword(h) \/ CheckFactor(h) \/ Elevate(h) \/ ReadForReset(h)
           \/ IssueLink(h) \/ Mail(h) \/ Release(h) \/ ReadLink(h)
           \/ Rotate(h) \/ Purge(h)
  BY <1>7 DEF Find, Alarm, BumpEpoch, ReadStaff, WriteStaff, CheckPassword, CheckFactor, Elevate,
     ReadForReset, IssueLink, Mail, Release, ReadLink, Rotate, Purge
<1>8. QED
  BY <1>3, <1>4, <1>5, <1>6, <1>7 DEF Step

\* The tokens a request has after a step are those it had, but for a new session.
LEMMA TokensMove ==
  ASSUME RequestTypes, NEW h \in Handlers, Step(h)
  PROVE  /\ Presents(h)' => Presents(h) /\ task'[h].token = task[h].token
         /\ Made(h)' => \/ Made(h) /\ task'[h].next = task[h].next
                        \/ /\ Rotates(h) \/ Inserts(h)
                           /\ UNCHANGED jar /\ task'[h].next = Len(row) + 1
         /\ Rotated(h)' => Rotated(h) \/ Rotates(h)
         /\ task'[h].pc # "idle" => task[h].pc # "idle" /\ task'[h].client = task[h].client
         /\ task'[h].pc # "sent"
<1>1. CASE task'[h] = Idle
  BY <1>1, IdleFacts DEF Presents, Made, Rotated
<1>2. CASE Kept(h)
  BY <1>2, StepMoves DEF Kept, Same, Presents, Made, Rotated
<1>3. CASE Find(h)
  BY <1>3, StepMoves, FindMoves DEF Same, Presents, Made, Rotated
<1>4. CASE LetIn(h)
  BY <1>4, StepMoves DEF LetIn, Same, Presents, Made, Rotated
<1>5. CASE Proved(h) /\ task'[h].pc \in {"create", "elevate"}
  BY <1>5, StepMoves DEF Proved, Same, Presents, Made, Rotated
<1>6. CASE Elevate(h)
  <2>1. Inserts(h) /\ UNCHANGED jar
    BY <1>6, CreateMoves DEF Elevate
  <2>2. task[h].kind \notin SessionKinds /\ task[h].pc # "idle"
    BY <1>6, Busy DEF Elevate, RequestInv, SessionKinds, StaffKinds
  <2>3. QED
    BY <1>6, <2>1, <2>2, StepMoves, ElevateMoves DEF Same, Presents, Rotated
<1>9. CASE Renewed(h) /\ Rotates(h)
  BY <1>9, StepMoves DEF Renewed, Rotates, Same, Presents
<1>7. CASE IssueLink(h) /\ Issued(h)
  <2>1. task[h].kind = "forgot" /\ task[h].pc # "idle"
    BY <1>7, Busy DEF IssueLink, RequestInv
  <2>2. QED
    BY <1>7, <2>1 DEF Issued, Same, Presents, Made, Rotated, SessionKinds, StaffKinds
<1>8. QED
  BY <1>1, <1>2, <1>3, <1>4, <1>5, <1>6, <1>7, <1>9, StepMoves

LEMMA HeldRows ==
  ASSUME RequestTypes, NEW c \in Clients, NEW i \in Nat \ {0}, Holds(c, i) PROVE i \in Rows
<1>1. TypeOK /\ Len(row) \in Nat
  BY Lengths DEF RequestTypes
<1>2. CASE jar[c] = i
  BY <1>1, <1>2 DEF TypeOK, Rows
<1>3. ASSUME NEW h \in Handlers, task[h].pc # "idle",
             \/ Presents(h) /\ task[h].token = i
             \/ task[h].next = i
      PROVE  i \in Rows
  BY <1>3, Busy DEF RequestInv, Made
<1>4. CASE jar[c] # i
  <2>1. PICK h \in Handlers :
          /\ task[h].pc # "idle"
          /\ \/ Presents(h) /\ task[h].token = i
             \/ task[h].next = i
    BY <1>4 DEF Holds
  <2>2. QED
    BY <1>3, <2>1
<1>5. QED
  BY <1>2, <1>4

LEMMA HoldsMove ==
  ASSUME RequestTypes, NEW h \in Handlers, Step(h), NEW c \in Clients, NEW i \in Nat \ {0},
         Holds(c, i)'
  PROVE  Holds(c, i) \/ (c = task[h].client /\ i = Len(row) + 1)
<1>1. CASE jar'[c] = i
  <2>1. CASE jar'[c] = jar[c]
    BY <1>1, <2>1 DEF Holds
  <2>2. CASE jar'[c] # jar[c]
    <3>1. c = task[h].client /\ (i = Len(row) + 1 \/ (i = task[h].next /\ task[h].pc # "idle"))
      BY <1>1, <2>2, JarMoves DEF Made
    <3>2. QED
      BY <3>1 DEF Holds
  <2>3. QED
    BY <2>1, <2>2
<1>2. ASSUME NEW g \in Handlers, task'[g].pc # "idle", task'[g].client = c,
             \/ Presents(g)' /\ task'[g].token = i
             \/ task'[g].next = i
      PROVE  Holds(c, i) \/ (c = task[h].client /\ i = Len(row) + 1)
  <2>1. CASE g # h
    <3>1. task'[g] = task[g]
      BY <2>1, StepMoves DEF Typed
    <3>2. QED
      BY <1>2, <3>1 DEF Holds, Presents
  <2>2. CASE g = h
    <3>1. task[h].pc # "idle" /\ task[h].client = c
      BY <1>2, <2>2, TokensMove
    <3>2. CASE Presents(h)' /\ task'[h].token = i
      BY <3>1, <3>2, TokensMove DEF Holds
    <3>3. CASE task'[h].next = i
      <4>1. Made(h)'
        BY <1>2, <2>2, <3>3 DEF Made
      <4>2. QED
        BY <3>1, <3>3, <4>1, TokensMove DEF Holds
    <3>4. QED
      BY <1>2, <2>2, <3>2, <3>3
  <2>3. QED
    BY <2>1, <2>2
<1>3. QED
  BY <1>1, <1>2 DEF Holds

\* A browser sends what is in its jar.
LEMMA SendHolds ==
  ASSUME RequestTypes, NEW h \in Handlers, NEW c \in Clients, NEW kind \in Kinds,
         NEW target \in Accounts, NEW link \in 0..MaxLinks, Send(h, c, kind, target, link),
         NEW d \in Clients, NEW i \in Nat \ {0}, Holds(d, i)'
  PROVE  Holds(d, i)
<1>0. jar' = jar
  BY DEF Send
<1>5. Typed(h) /\ task'[h].pc = "sent" /\ task'[h].client = c
  BY SendMoves
<1>6. Presents(h)' => task'[h].token = jar[c]
  BY SendMoves
<1>7. task'[h].next = 0
  BY SendMoves
<1>1. /\ Typed(h) /\ task'[h].pc = "sent" /\ task'[h].client = c /\ jar' = jar
      /\ task'[h].next = 0
      /\ Presents(h)' => task'[h].token = jar[c]
  BY <1>0, <1>5, <1>6, <1>7
<1>2. CASE jar'[d] = i
  BY <1>1, <1>2 DEF Holds
<1>3. ASSUME NEW g \in Handlers, task'[g].pc # "idle", task'[g].client = d,
             \/ Presents(g)' /\ task'[g].token = i
             \/ task'[g].next = i
      PROVE  Holds(d, i)
  <2>1. CASE g # h
    BY <1>1, <1>3, <2>1 DEF Typed, Holds, Presents
  <2>2. CASE g = h
    BY <1>1, <1>3, <2>2 DEF Holds
  <2>3. QED
    BY <2>1, <2>2
<1>4. QED
  BY <1>2, <1>3 DEF Holds

LEMMA HolderStep == ASSUME RequestTypes, HolderInv, [Next]_vars PROVE HolderInv'
<1>1. Len(row) \in Nat /\ Rows' \subseteq Nat \ {0}
  <2>1. TypeOK /\ TypeOK'
    BY StepTypes DEF RequestTypes
  <2>2. Len(row) \in Nat
    BY <2>1, Lengths
  <2>3. row' \in Seq(Row)
    BY <2>1 DEF TypeOK
  <2>4. Len(row') \in Nat
    BY <2>3, OfSeq
  <2>5. QED
    BY <2>2, <2>4 DEF Rows
<1>2. ASSUME NEW h \in Handlers, Step(h), NEW c \in Clients, NEW d \in Clients, NEW i \in Rows',
             Holds(c, i)', Holds(d, i)'
      PROVE  c = d
  <2>1. CASE i \in Rows
    <3>1. i # Len(row) + 1
      BY <1>1, <2>1 DEF Rows
    <3>2. i \in Nat \ {0}
      BY <1>1
    <3>3. Holds(c, i)
      BY <1>2, <3>1, <3>2, HoldsMove
    <3>4. Holds(d, i)
      BY <1>2, <3>1, <3>2, HoldsMove
    <3>5. QED
      BY <2>1, <3>3, <3>4 DEF HolderInv
  <2>2. CASE i \notin Rows
    <3>1. ~ Holds(c, i) /\ ~ Holds(d, i)
      BY <1>1, <2>2, HeldRows
    <3>2. i \in Nat \ {0}
      BY <1>1
    <3>3. c = task[h].client
      BY <1>2, <3>1, <3>2, HoldsMove
    <3>4. d = task[h].client
      BY <1>2, <3>1, <3>2, HoldsMove
    <3>5. QED
      BY <3>3, <3>4
  <2>3. QED
    BY <2>1, <2>2
<1>3. ASSUME NEW h \in Handlers, NEW b \in Clients, NEW kind \in Kinds, NEW target \in Accounts,
             NEW link \in 0..MaxLinks, Send(h, b, kind, target, link),
             NEW c \in Clients, NEW d \in Clients, NEW i \in Rows', Holds(c, i)', Holds(d, i)'
      PROVE  c = d
  <2>1. Rows' = Rows
    BY <1>3 DEF Send, Rows
  <2>2. Holds(c, i) /\ Holds(d, i)
    BY <1>1, <1>3, SendHolds
  <2>3. QED
    BY <2>1, <2>2 DEF HolderInv
<1>4. CASE Tick \/ UNCHANGED vars
  <2>1. UNCHANGED <<row, jar, task>>
    BY <1>4 DEF Tick, vars
  <2>2. Rows' = Rows /\ \A c \in Clients : \A i \in Rows : Holds(c, i)' => Holds(c, i)
    BY <2>1 DEF Holds, Presents, Rows
  <2>3. QED
    BY <2>2 DEF HolderInv
<1>5. CASE Next
  BY <1>2, <1>3, <1>4, <1>5 DEF Next, HolderInv
<1>6. QED
  BY <1>4, <1>5

-----------------------------------------------------------------------------
(***************************************************************************)
(* False alarms.                                                           *)
(***************************************************************************)
\* A row stays as current as it was, unless it is rotated.
LEMMA CurrentMoves ==
  ASSUME RequestTypes, NEW h \in Handlers, Step(h), NEW i \in Rows
  PROVE  /\ i \in Rows'
         /\ \/ row'[i].superseded = row[i].superseded
            \/ Rotates(h) /\ i = task[h].token /\ row'[i].superseded = now
<1>1. CASE Marked
  BY <1>1 DEF Marked, Rows
<1>2. CASE Rotates(h)
  BY <1>2 DEF Rotates
<1>3. CASE Inserts(h)
  BY <1>3 DEF Inserts
<1>4. QED
  BY <1>1, <1>2, <1>3, StepRows

LEMMA AnswerStep ==
  ASSUME RequestTypes, AnswerInv, [Next]_vars PROVE AnswerInv'
<1> DEFINE Own(h) == /\ Current(task[h].next)
                     /\ \A c \in Clients : jar[c] # task[h].next
                     /\ \A g \in Handlers :
                           /\ Presents(g) => task[g].token # task[h].next
                           /\ Made(g) /\ g # h => task[g].next # task[h].next
<1>1. TypeOK /\ RequestsInv /\ Len(row) \in Nat /\ Rows = 1..Len(row)
  BY Lengths DEF RequestTypes, Rows
<1>2. ASSUME NEW h \in Handlers, Step(h), NEW g \in Handlers, Made(g)' PROVE Own(g)'
  <2>1. Typed(h)
    BY <1>2, StepMoves
  <2>2. CASE Made(g) /\ task'[g].next = task[g].next
    <3>1. PICK n \in Rows : n = task[g].next /\ n = task'[g].next
      BY <1>1, <2>2 DEF RequestsInv, RequestInv
    <3>2. Own(g)
      BY <2>2 DEF AnswerInv
    <3>3. n # Len(row) + 1 /\ n # 0
      BY <1>1
    <3>4. Current(n)'
      <4>1. Rotates(h) => Presents(h)
        BY <1>1 DEF Rotates, RequestsInv, RequestInv, Presents
      <4>2. QED
        BY <1>2, <3>1, <3>2, <4>1, CurrentMoves DEF Current
    <3>5. ASSUME NEW c \in Clients PROVE jar'[c] # n
      <4>1. g # h /\ Made(h) => task[h].next # n
        BY <3>1, <3>2
      <4>2. g = h => task'[h] # Idle
        BY <1>2, IdleFacts DEF Made
      <4>3. jar[c] # n
        BY <3>1, <3>2
      <4>4. QED
        BY <1>2, <3>3, <4>1, <4>2, <4>3, JarMoves
    <3>6. ASSUME NEW f \in Handlers PROVE /\ Presents(f)' => task'[f].token # n
                                          /\ Made(f)' /\ f # g => task'[f].next # n
      <4>1. CASE f # h
        BY <2>1, <3>1, <3>2, <4>1 DEF Typed, Presents, Made
      <4>2. CASE f = h
        BY <1>2, <3>1, <3>2, <3>3, <4>2, TokensMove
      <4>3. QED
        BY <4>1, <4>2
    <3>7. QED
      BY <3>1, <3>4, <3>5, <3>6
  <2>3. CASE /\ g = h
             /\ Rotates(h) \/ Inserts(h)
             /\ UNCHANGED jar /\ task'[h].next = Len(row) + 1
    <3>1. PICK n \in Nat : n = Len(row) + 1 /\ n = task'[g].next /\ n \notin Rows /\ n # 0
      <4>1. Len(row) + 1 \in Nat /\ Len(row) + 1 \notin Rows /\ Len(row) + 1 # 0
        BY <1>1
      <4>2. QED
        BY <2>3, <4>1
    <3>3. Current(n)'
      BY <2>3, <3>1 DEF Rotates, Inserts, Current
    <3>4. \A c \in Clients : jar'[c] # n
      BY <1>1, <2>3, <3>1 DEF TypeOK
    <3>5. ASSUME NEW f \in Handlers PROVE /\ Presents(f)' => task'[f].token # n
                                          /\ Made(f)' /\ f # g => task'[f].next # n
      <4>1. CASE f # h
        BY <1>1, <2>1, <3>1, <4>1 DEF Typed, Presents, Made, RequestsInv, RequestInv
      <4>2. CASE f = h
        BY <1>1, <1>2, <2>3, <3>1, <4>2, TokensMove DEF RequestsInv, RequestInv
      <4>3. QED
        BY <4>1, <4>2
    <3>6. QED
      BY <3>1, <3>3, <3>4, <3>5
  <2>4. CASE g # h
    <3>1. task'[g] = task[g]
      BY <2>1, <2>4 DEF Typed
    <3>2. QED
      BY <1>2, <2>2, <3>1 DEF Made
  <2>5. CASE g = h
    BY <1>2, <2>2, <2>3, <2>5, TokensMove
  <2>6. QED
    BY <2>4, <2>5
<1>3. ASSUME NEW h \in Handlers, NEW b \in Clients, NEW kind \in Kinds, NEW target \in Accounts,
             NEW link \in 0..MaxLinks, Send(h, b, kind, target, link),
             NEW g \in Handlers, Made(g)'
      PROVE  Own(g)'
  <2>1. Typed(h) /\ task'[h].pc = "sent" /\ task'[h].next = 0
    BY <1>3, SendMoves
  <2>2. Presents(h)' => task'[h].token = jar[b]
    BY <1>3, SendMoves
  <2>3. jar' = jar /\ row' = row
    BY <1>3 DEF Send
  <2>4. Made(g) /\ task'[g] = task[g]
    BY <1>3, <2>1 DEF Typed, Made
  <2>5. PICK n : n = task[g].next /\ n = task'[g].next
    BY <2>4
  <2>6. Own(g)
    BY <2>4 DEF AnswerInv
  <2>7. ASSUME NEW f \in Handlers PROVE /\ Presents(f)' => task'[f].token # n
                                        /\ Made(f)' /\ f # g => task'[f].next # n
    <3>1. CASE f # h
      BY <2>1, <2>5, <2>6, <3>1 DEF Typed, Presents, Made
    <3>2. CASE f = h
      BY <2>1, <2>2, <2>5, <2>6, <3>2 DEF Made
    <3>3. QED
      BY <3>1, <3>2
  <2>8. Current(n)' /\ \A c \in Clients : jar'[c] # n
    BY <2>3, <2>5, <2>6 DEF Current
  <2>9. QED
    BY <2>5, <2>7, <2>8
<1>4. CASE Tick \/ UNCHANGED vars
  BY <1>4 DEF AnswerInv, Presents, Made, Current, Tick, vars
<1>5. CASE Next
  BY <1>2, <1>3, <1>4, <1>5 DEF Next, AnswerInv
<1>6. QED
  BY <1>4, <1>5

LEMMA ExcusedGrows ==
  ASSUME [Next]_vars PROVE excused \subseteq excused'
<1>1. ASSUME NEW h \in Handlers, Step(h) PROVE excused \subseteq excused'
  BY <1>1 DEF Step, Find, Authenticate, Rotate, Alarm, AlarmPurge, FindForLogout, Revoke, BumpEpoch,
     ReadStaff, WriteStaff, Purge, Answer, Unheard, CheckPassword, CreateSession, CheckFactor,
     Elevate, Spend, ReadForReset, IssueLink, Mail, Release, ReadLink, Consume, Fail, history
<1>2. QED
  BY <1>1 DEF Next, Send, Tick, vars, history

\* A request that rotated its session goes on, is answered, or its account is
\* excused.
LEMMA RotatedGoes ==
  ASSUME RequestTypes, NEW h \in Handlers, Step(h), Rotated(h)
  PROVE  \/ Rotated(h)' /\ task'[h].client = task[h].client /\ task'[h].token = task[h].token
         \/ jar'[task[h].client] \in {0, task[h].next}
         \/ AccountOf(h) \in excused'
<1>1. /\ task[h].pc \in {"act", "write", "purge", "served", "refused"}
      /\ task[h].next # 0 /\ task[h].client \in Clients /\ RequestInv(h)
      /\ jar \in [Clients -> 0..Len(row)]
      /\ task[h].kind \in SessionKinds
  BY Busy, FieldTypes DEF Rotated, Made, RequestInv, SessionKinds, StaffKinds
<1>2. CASE Kept(h)
  BY <1>1, <1>2 DEF Kept, Same, Rotated, Made
<1>3. CASE Answer(h) \/ Fail(h)
  <2>1. \/ SetCookie(h, 0)
        \/ SetCookie(h, task[h].next)
        \/ Unheard(h)
    BY <1>3, AnswerMoves DEF Fail
  <2>2. QED
    BY <1>1, <2>1 DEF SetCookie, Unheard
<1>4. CASE ~ (Answer(h) \/ Fail(h))
  <2>1. BumpEpoch(h) \/ ReadStaff(h) \/ WriteStaff(h) \/ Purge(h)
    BY <1>1, <1>4 DEF Step, Find, Authenticate, Rotate, Alarm, AlarmPurge, FindForLogout, Revoke,
       CheckPassword, CreateSession, CheckFactor, Elevate, Spend, ReadForReset, IssueLink, Mail,
       Release, ReadLink, Consume
  <2>2. /\ Goto(h, "purge") \/ Goto(h, "served") \/ Goto(h, "write")
        /\ task[h].pc \in {"act", "write", "purge"} /\ task[h].pc # "idle"
    BY <2>1 DEF BumpEpoch, ReadStaff, WriteStaff, Purge
  <2>3. Kept(h)
    BY <2>2, GoesOn
  <2>4. QED
    BY <1>2, <2>3
<1>5. QED
  BY <1>3, <1>4

\* The request of a browser that had every answer in time presents a token that
\* was current, or in its grace, when it was sent.
Fair(h) ==
    \/ AccountOf(h) \in excused
    \/ task[h].at <= now /\ Current(task[h].token)
    \/ task[h].at <= now /\ task[h].at - SessionOf(h).superseded <= Answering

LEMMA JarGrace ==
  ASSUME RequestTypes, HolderInv, AnswerInv, GraceInv, NEW h \in Handlers, Step(h),
         NEW c \in Clients, jar'[c] # 0
  PROVE  Owner[c] \in excused' \/ row'[jar'[c]].superseded = Nothing \/ Waits(c, jar[c])'
<1>1. /\ TypeOK /\ RequestsInv /\ Len(row) \in Nat /\ Rows = 1..Len(row)
      /\ jar[c] \in 0..Len(row) /\ now # Nothing /\ Typed(h)
  BY Lengths, StepMoves DEF RequestTypes, Rows, TypeOK
<1>2. excused \subseteq excused'
  BY ExcusedGrows DEF Next
<1>3. CASE jar'[c] = jar[c]
  <2>1. PICK i \in Rows : i = jar[c] /\ i = jar'[c]
    BY <1>1, <1>3
  <2>2. Owner[c] \in excused \/ Current(i) \/ Waits(c, i)
    BY <2>1 DEF GraceInv
  <2>3. CASE Current(i) /\ row'[i].superseded = row[i].superseded
    BY <2>1, <2>3 DEF Current
  <2>4. CASE Rotates(h) /\ i = task[h].token
    <3>1. Presents(h) /\ task[h].pc # "idle" /\ task[h].client \in Clients
      BY <1>1, <2>4, Busy DEF Rotates, RequestsInv, RequestInv, Presents
    <3>2. Holds(c, i) /\ Holds(task[h].client, i)
      BY <2>1, <2>4, <3>1 DEF Holds
    <3>3. c = task[h].client
      BY <3>1, <3>2 DEF HolderInv
    <3>4. Renewed(h)
      BY <2>4, RotatesRenews
    <3>7. Len(row) + 1 # 0
      BY <1>1
    <3>5. Rotated(h)' /\ task'[h].client = c /\ task'[h].token = i
      BY <2>4, <3>3, <3>4, <3>7 DEF Renewed, Same, Rotated, Made
    <3>6. QED
      BY <2>1, <3>5 DEF Waits
  <2>5. CASE Waits(c, i)
    <3>1. PICK g \in Handlers : Rotated(g) /\ task[g].client = c /\ task[g].token = i
      BY <2>5 DEF Waits
    <3>2. CASE g # h
      <4>1. task'[g] = task[g]
        BY <1>1, <3>2 DEF Typed
      <4>2. Rotated(g)' /\ task'[g].client = c /\ task'[g].token = i
        BY <3>1, <4>1 DEF Rotated, Made
      <4>3. QED
        BY <2>1, <4>2 DEF Waits
    <3>3. CASE g = h
      <4>1. i # 0
        BY <1>1
      <4>2. i # task[h].next
        BY <3>1, <3>3 DEF AnswerInv, GraceInv, Rotated
      <4>3. \/ Rotated(h)' /\ task'[h].client = c /\ task'[h].token = i
            \/ Owner[c] \in excused'
        BY <2>1, <3>1, <3>3, <4>1, <4>2, RotatedGoes DEF AccountOf
      <4>4. QED
        BY <2>1, <4>3 DEF Waits
    <3>4. QED
      BY <3>2, <3>3
  <2>6. QED
    BY <1>2, <2>2, <2>3, <2>4, <2>5, CurrentMoves
<1>4. CASE jar'[c] # jar[c]
  <2>1. \/ jar'[c] = Len(row) + 1 /\ Inserts(h)
        \/ jar'[c] = task[h].next /\ Made(h) /\ Marked
    BY <1>4, JarMoves
  <2>2. CASE jar'[c] = Len(row) + 1 /\ Inserts(h)
    BY <2>2 DEF Inserts
  <2>3. CASE jar'[c] = task[h].next /\ Made(h) /\ Marked
    <3>1. PICK i \in Rows : i = task[h].next /\ i = jar'[c]
      BY <1>1, <2>3 DEF RequestsInv, RequestInv
    <3>2. Current(i)
      BY <2>3, <3>1 DEF AnswerInv
    <3>3. QED
      BY <2>3, <3>1, <3>2 DEF Marked, Current
  <2>4. QED
    BY <2>1, <2>2, <2>3
<1>5. QED
  BY <1>3, <1>4

\* No step of a request takes time.
LEMMA NoTime == ASSUME NEW h \in Handlers, Step(h) PROVE now' = now
BY DEF Step, Find, Authenticate, Rotate, Alarm, AlarmPurge, FindForLogout, Revoke, BumpEpoch,
   ReadStaff, WriteStaff, Purge, Answer, CheckPassword, CreateSession, CheckFactor, Elevate, Spend,
   ReadForReset, IssueLink, Mail, Release, ReadLink, Consume, Fail

\* A request that waits stays fair while others step.
LEMMA StaysFair ==
  ASSUME RequestTypes, GraceInv, NEW h \in Handlers, Step(h),
         NEW g \in Handlers, g # h, task[g].pc = "sent", Presents(g)
  PROVE  Fair(g)'
<1>1. /\ TypeOK /\ task'[g] = task[g] /\ now' = now /\ now \in Nat /\ RequestInv(g)
  BY StepMoves, NoTime DEF Typed, RequestTypes, TypeOK, RequestsInv
<1>2. PICK i \in Rows : i = task[g].token /\ i = task'[g].token
  BY <1>1 DEF RequestInv
<1>3. Fair(g) /\ task[g].at \in Nat
  BY TaskOf, <1>1 DEF GraceInv, Fair
<1>4. excused \subseteq excused' /\ AccountOf(g)' = AccountOf(g)
  BY <1>1, ExcusedGrows DEF Next, AccountOf
<1>5. CASE row'[i].superseded = row[i].superseded
  BY <1>1, <1>2, <1>3, <1>4, <1>5 DEF Fair, Current, SessionOf
<1>6. CASE row'[i].superseded = now
  <2>1. CASE AccountOf(g) \in excused
    BY <1>4, <2>1 DEF Fair
  <2>2. CASE task[g].at <= now
    <3>1. task[g].at - now <= Answering
      BY <1>1, <1>3, <2>2, PromptAssumption
    <3>2. QED
      BY <1>1, <1>2, <1>6, <2>2, <3>1 DEF Fair, SessionOf
  <2>3. QED
    BY <1>3, <2>1, <2>2 DEF Fair
<1>7. QED
  BY <1>5, <1>6, CurrentMoves

\* What GraceInv says of a request that rotated its session.
Prompt(h) ==
    /\ ~ Current(task[h].token)
    /\ AccountOf(h) \in excused \/ now - SessionOf(h).superseded <= Answering

LEMMA StaysPrompt ==
  ASSUME RequestTypes, GraceInv, NEW h \in Handlers, Step(h), NEW g \in Handlers, Rotated(g)'
  PROVE  Prompt(g)'
<1>1. TypeOK /\ RequestsInv /\ now' = now /\ now \in Nat /\ now # Nothing /\ Typed(h)
  BY StepMoves, NoTime DEF RequestTypes, TypeOK
<1>2. CASE /\ Rotated(g) /\ task'[g].client = task[g].client /\ task'[g].token = task[g].token
  <2>1. PICK i \in Rows : i = task[g].token /\ i = task'[g].token
    BY <1>1, <1>2 DEF RequestsInv, RequestInv, Presents, Rotated, Made
  <2>2. Prompt(g)
    BY <1>2 DEF GraceInv, Prompt
  <2>3. excused \subseteq excused' /\ AccountOf(g)' = AccountOf(g)
    BY <1>2, ExcusedGrows DEF Next, AccountOf
  <2>4. row'[i].superseded = row[i].superseded
    BY <2>1, <2>2, CurrentMoves DEF Prompt, Rotates
  <2>5. QED
    BY <1>1, <2>1, <2>2, <2>3, <2>4 DEF Prompt, Current, SessionOf
<1>3. CASE g = h /\ Rotates(h) /\ Renewed(h)
  <2>1. PICK i \in Rows : i = task[h].token /\ i = task'[h].token
    BY <1>3 DEF Rotates, Renewed
  <2>2. row'[i].superseded = now
    BY <1>3, <2>1 DEF Rotates
  <2>3. now' - now <= Answering
    BY <1>1, PromptAssumption
  <2>4. QED
    BY <1>1, <1>3, <2>1, <2>2, <2>3 DEF Prompt, Current, SessionOf
<1>4. CASE g # h
  BY <1>1, <1>2, <1>4 DEF Typed, Rotated, Made
<1>5. CASE g = h
  <2>1. task'[h].pc # "idle"
    BY <1>5 DEF Rotated, Made
  <2>2. CASE Rotates(h)
    BY <1>3, <1>5, <2>2, RotatesRenews
  <2>3. CASE Rotated(h)
    <3>1. Presents(h)'
      BY <1>5 DEF Presents, Rotated, Made
    <3>2. QED
      BY <1>2, <1>5, <2>1, <2>3, <3>1, TokensMove
  <2>4. QED
    BY <1>5, <2>2, <2>3, TokensMove
<1>6. QED
  BY <1>4, <1>5

LEMMA GraceStep ==
  ASSUME RequestTypes, HolderInv, AnswerInv, GraceInv, [Next]_vars PROVE GraceInv'
<1>1. TypeOK /\ RequestsInv /\ now \in Nat
  BY DEF RequestTypes, TypeOK
<1>2. ASSUME NEW h \in Handlers, Step(h) PROVE GraceInv'
  <2>1. Typed(h) /\ task[h].pc # "idle" /\ excused \subseteq excused'
    BY <1>2, StepMoves, ExcusedGrows DEF Next
  <2>2. \A c \in Clients : jar'[c] # 0 =>
           \/ Owner[c] \in excused' \/ row'[jar'[c]].superseded = Nothing
           \/ Waits(c, jar[c])'
    BY <1>2, JarGrace
  <2>3. ASSUME NEW g \in Handlers, task'[g].pc = "sent", Presents(g)' PROVE Fair(g)'
    <3>1. g # h
      BY <1>2, <2>3, TokensMove
    <3>2. task'[g] = task[g] /\ task[g].pc = "sent" /\ Presents(g)
      BY <2>1, <2>3, <3>1 DEF Typed, Presents
    <3>3. QED
      BY <1>2, <3>1, <3>2, StaysFair
  <2>4. ASSUME NEW g \in Handlers, task'[g].pc = "alarm" PROVE AccountOf(g)' \in excused'
    <3>1. CASE g # h
      BY <2>1, <2>4, <3>1 DEF Typed, GraceInv, AccountOf
    <3>2. CASE g = h
      <4>1. Find(h)
        BY <1>2, <2>4, <3>2, StepMoves, IdleFacts, ElevateMoves DEF Kept, LetIn, Issued, Renewed
      <4>2. Replayed(SessionOf(h)) /\ AccountOf(h)' = AccountOf(h)
        BY <2>4, <3>2, <4>1, FindMoves DEF Same, AccountOf
      <4>3. Fair(h)
        BY <4>1 DEF GraceInv, Fair, Find, Presents
      <4>4. PICK i \in Rows : i = task[h].token
        BY <1>1, <4>1 DEF Find, RequestsInv, RequestInv, Presents
      <4>5. row[i].superseded \in Nat /\ now - row[i].superseded > RotationGrace
        BY <1>1, <4>2, <4>4, Lengths DEF Replayed, SessionOf, Row
      <4>6. /\ task[h].at \in Nat
            /\ RotationGrace \in Nat /\ Arriving \in Nat /\ Answering \in Nat
            /\ Arriving + Answering <= RotationGrace
        BY <1>1, <2>1, TaskOf, PromptAssumption
      <4>7. AccountOf(h) \in excused \/ now - task[h].at > Arriving
        BY <1>1, <4>3, <4>4, <4>5, <4>6 DEF Fair, Current, SessionOf
      <4>8. QED
        BY <2>1, <3>2, <4>1, <4>2, <4>7 DEF Find
    <3>3. QED
      BY <3>1, <3>2
  <2>5. ASSUME NEW g \in Handlers, Rotated(g)' PROVE Prompt(g)'
    BY <1>2, <2>5, StaysPrompt
  <2>6. QED
    BY <2>2, <2>3, <2>4, <2>5 DEF GraceInv, Fair, Prompt, Current
<1>3. ASSUME NEW h \in Handlers, NEW b \in Clients, NEW kind \in Kinds, NEW target \in Accounts,
             NEW link \in 0..MaxLinks, Send(h, b, kind, target, link)
      PROVE  GraceInv'
  <2>1. /\ Typed(h) /\ task'[h].pc = "sent" /\ task'[h].client = b /\ task'[h].at = now
        /\ task'[h].next = 0
    BY <1>3, SendMoves
  <2>2. Presents(h)' => jar[b] \in Rows /\ task'[h].token = jar[b]
    BY <1>3, SendMoves
  <2>3. jar' = jar /\ row' = row /\ excused' = excused /\ now' = now
    BY <1>3 DEF Send, history
  <2>4. ASSUME NEW g \in Handlers, task'[g].pc = "sent", Presents(g)' PROVE Fair(g)'
    <3>1. CASE g # h
      BY <2>1, <2>3, <2>4, <3>1
         DEF Typed, GraceInv, Fair, Presents, AccountOf, Current, SessionOf
    <3>2. CASE g = h
      <4>1. jar[b] # 0 /\ task'[g].token = jar[b]
        BY <2>2, <2>4, <3>2 DEF Rows
      <4>2. Owner[b] \in excused \/ Current(jar[b]) \/ Waits(b, jar[b])
        BY <4>1 DEF GraceInv
      <4>3. CASE Owner[b] \in excused \/ Current(jar[b])
        BY <1>1, <2>1, <2>3, <3>2, <4>1, <4>3 DEF Fair, Current, AccountOf
      <4>4. CASE Waits(b, jar[b])
        <5>1. PICK f \in Handlers : Rotated(f) /\ task[f].client = b /\ task[f].token = jar[b]
          BY <4>4 DEF Waits
        <5>2. Owner[b] \in excused \/ now - row[jar[b]].superseded <= Answering
          BY <5>1 DEF GraceInv, AccountOf, SessionOf
        <5>3. QED
          BY <1>1, <2>1, <2>3, <3>2, <4>1, <5>2 DEF Fair, AccountOf, SessionOf
      <4>5. QED
        BY <4>2, <4>3, <4>4
    <3>3. QED
      BY <3>1, <3>2
  <2>5. ASSUME NEW g \in Handlers, task'[g].pc = "alarm" PROVE AccountOf(g)' \in excused'
    BY <2>1, <2>3, <2>5 DEF Typed, GraceInv, AccountOf
  <2>6. ASSUME NEW g \in Handlers, Rotated(g)' PROVE Prompt(g)'
    <3>1. task'[g] = task[g]
      BY <2>1, <2>6 DEF Typed, Rotated, Made
    <3>2. QED
      BY <2>3, <2>6, <3>1 DEF GraceInv, Prompt, Rotated, Made, AccountOf, Current, SessionOf
  <2>7. ASSUME NEW c \in Clients, jar[c] # 0
        PROVE  Owner[c] \in excused \/ row[jar[c]].superseded = Nothing \/ Waits(c, jar[c])'
    <3>1. Owner[c] \in excused \/ Current(jar[c]) \/ Waits(c, jar[c])
      BY <2>7 DEF GraceInv
    <3>2. CASE Waits(c, jar[c])
      <4>1. PICK g \in Handlers : Rotated(g) /\ task[g].client = c /\ task[g].token = jar[c]
        BY <3>2 DEF Waits
      <4>2. g # h
        BY <1>3, <4>1 DEF Send, Free, Rotated, Made
      <4>3. task'[g] = task[g]
        BY <2>1, <4>2 DEF Typed
      <4>4. QED
        BY <2>3, <4>1, <4>3 DEF Waits, Rotated, Made
    <3>3. QED
      BY <3>1, <3>2 DEF Current
  <2>8. QED
    BY <2>3, <2>4, <2>5, <2>6, <2>7 DEF GraceInv, Fair, Prompt, Current
<1>4. CASE Tick \/ UNCHANGED vars
  <2>1. /\ UNCHANGED <<row, jar, task>> /\ now' \in Nat /\ now' >= now
        /\ excused \subseteq excused'
    BY <1>1, <1>4, ExcusedGrows DEF Next, Tick, vars
  <2>2. ASSUME NEW g \in Handlers, task[g].pc = "sent", Presents(g) PROVE Fair(g)'
    <3>1. task[g].at \in Nat /\ Fair(g)
      BY <1>1, <2>2, TaskOf DEF GraceInv, Fair
    <3>2. AccountOf(g)' = AccountOf(g) /\ SessionOf(g)' = SessionOf(g)
      BY <2>1 DEF AccountOf, SessionOf
    <3>3. QED
      BY <1>1, <2>1, <3>1, <3>2 DEF Fair, Current
  <2>3. ASSUME NEW g \in Handlers, Rotated(g) PROVE Prompt(g)'
    <3>1. Prompt(g)
      BY <2>3 DEF GraceInv, Prompt
    <3>2. AccountOf(g)' = AccountOf(g) /\ SessionOf(g)' = SessionOf(g)
      BY <2>1 DEF AccountOf, SessionOf
    <3>3. PICK n \in Nat : n = SessionOf(g).superseded
      <4>1. task[g].token \in Rows
        BY <1>1, <2>3 DEF RequestsInv, RequestInv, Presents, Rotated, Made
      <4>2. QED
        BY <1>1, <3>1, <4>1, Lengths DEF Prompt, Current, SessionOf, Row
    <3>4. CASE Tick
      <4>1. Late(g) => AccountOf(g) \in excused'
        BY <3>4 DEF Tick
      <4>2. now' = now + 1
        BY <3>4 DEF Tick
      <4>3. AccountOf(g) \in excused' \/ now' - n <= Answering
        BY <1>1, <2>3, <3>3, <4>1, <4>2, PromptAssumption DEF Late
      <4>4. QED
        BY <2>1, <3>1, <3>2, <3>3, <4>3 DEF Prompt, Current
    <3>5. CASE UNCHANGED vars
      BY <3>1, <3>5 DEF Prompt, Current, AccountOf, SessionOf, vars
    <3>6. QED
      BY <1>4, <3>4, <3>5
  <2>4. ASSUME NEW c \in Clients, jar[c] # 0
        PROVE  Owner[c] \in excused' \/ Current(jar[c])' \/ Waits(c, jar[c])'
    BY <2>1, <2>4 DEF GraceInv, Current, Waits, Rotated, Made
  <2>5. ASSUME NEW g \in Handlers, task[g].pc = "alarm" PROVE AccountOf(g)' \in excused'
    BY <2>1, <2>5 DEF GraceInv, AccountOf
  <2>6. /\ \A g \in Handlers : Rotated(g)' <=> Rotated(g)
        /\ \A g \in Handlers : Presents(g)' <=> Presents(g)
    BY <2>1 DEF Rotated, Made, Presents
  <2>7. QED
    BY <2>1, <2>2, <2>3, <2>4, <2>5, <2>6 DEF GraceInv, Fair, Prompt
<1>5. QED
  BY <1>2, <1>3, <1>4 DEF Next

(***************************************************************************)
(* Parallel requests never look like a replay to the alarm: it only goes   *)
(* off for an account one of whose browsers lost an answer or had it later *)
(* than Answering after the rotation, or whose request took longer than    *)
(* Arriving; the two times are together the grace.                         *)
(***************************************************************************)
THEOREM AlarmsAreTrue == Spec => []NoFalseAlarm
<1> DEFINE Inv == HolderInv /\ AnswerInv /\ GraceInv /\ NoFalseAlarm
<1>1. Init => Inv
  <2> SUFFICES ASSUME Init PROVE Inv
    OBVIOUS
  <2>1. \A h \in Handlers : task[h].pc = "idle"
    BY IdleFacts DEF Init
  <2>2. \A c, d \in Clients : c # d => jar[c] # jar[d]
    BY DEF Init
  <2>3. \A c \in Clients : Current(jar[c])
    BY DEF Init, Current
  <2>4. QED
    BY <2>1, <2>2, <2>3 DEF Init, HolderInv, Holds, Made, Rotated, Presents, AnswerInv, GraceInv,
                               NoFalseAlarm
<1>2. RequestTypes /\ GraceInv /\ NoFalseAlarm /\ [Next]_vars => NoFalseAlarm'
  <2> SUFFICES ASSUME RequestTypes, GraceInv, NoFalseAlarm, [Next]_vars PROVE NoFalseAlarm'
    OBVIOUS
  <2>1. excused \subseteq excused'
    BY ExcusedGrows
  <2>2. ASSUME NEW h \in Handlers, Alarm(h) PROVE NoFalseAlarm'
    BY <2>1, <2>2 DEF Alarm, GraceInv, NoFalseAlarm
  <2>3. ASSUME NEW h \in Handlers, Step(h), ~ Alarm(h) PROVE alarmed' = alarmed
    BY <2>3 DEF Step, Find, Authenticate, Rotate, AlarmPurge, FindForLogout, Revoke, BumpEpoch,
     ReadStaff, WriteStaff, Purge, Answer, CheckPassword, CreateSession, CheckFactor, Elevate, Spend,
     ReadForReset, IssueLink, Mail, Release, ReadLink, Consume, Fail, history
  <2>4. ASSUME ~ \E h \in Handlers : Step(h) PROVE alarmed' = alarmed
    BY <2>4 DEF Next, Send, Tick, vars, history
  <2>5. QED
    BY <2>1, <2>2, <2>3, <2>4 DEF NoFalseAlarm
<1>3. QED
  BY <1>1, <1>2, HolderStep, AnswerStep, GraceStep, TypesHold, PTL DEF Spec

-----------------------------------------------------------------------------
(***************************************************************************)
(* Reset links.                                                            *)
(***************************************************************************)
Posts(h) == task[h].pc \in {"mail", "release"}

\* What LinkInv says of a link on its way.
Posted(h) ==
    /\ task[h].token \in 1..links
    /\ \A a \in Accounts : task[h].token \notin inbox[a]
    /\ \A g \in Handlers : Posts(g) /\ g # h => task[g].token # task[h].token

\* What LinkInv says of the rows.
ResetRows ==
    /\ \A a \in Accounts : inbox[a] \subseteq 1..links
    /\ \A a \in Accounts : reset[a] # Nothing => reset[a].link \in 1..links
    /\ \A a, b \in Accounts : reset[a] # Nothing /\ reset[b] # Nothing /\ a # b =>
          reset[a].link # reset[b].link

\* What LinkInv says of the links that were spent.
SpentLinks ==
    /\ \A l \in 1..MaxLinks : l > links => spent[l] = 0
    /\ \A l \in (1..MaxLinks) \ crossed :
          \/ spent[l] = 0
          \/ /\ spent[l] = 1
             /\ \A a \in Accounts : reset[a] # Nothing /\ reset[a].link = l => reset[a].used

LEMMA LinkParts ==
  LinkInv <=> ResetRows /\ SpentLinks /\ \A h \in Handlers : Posts(h) => Posted(h)
BY DEF LinkInv, ResetRows, SpentLinks, Posts, Posted

LEMMA PostsMove ==
  ASSUME RequestTypes, NEW h \in Handlers, Step(h), Posts(h)'
  PROVE  \/ Posts(h) /\ task'[h].token = task[h].token
         \/ IssueLink(h) /\ Issued(h)
<1>1. CASE task'[h] = Idle
  BY <1>1, IdleFacts DEF Posts
<1>2. CASE ~ (task'[h] = Idle)
  BY <1>2, StepMoves, FindMoves, ElevateMoves DEF Kept, LetIn, Renewed, Posts
<1>3. QED
  BY <1>1, <1>2

\* Steps that leave the links alone.
LEMMA LinksRest ==
  ASSUME RequestTypes, NEW h \in Handlers, Step(h),
         ~ (IssueLink(h) \/ Mail(h) \/ Release(h) \/ Consume(h))
  PROVE  UNCHANGED <<reset, inbox, links, spent, crossed>>
BY DEF Step, Find, Authenticate, Rotate, Alarm, AlarmPurge, FindForLogout, Revoke, BumpEpoch,
   ReadStaff, WriteStaff, Purge, Answer, CheckPassword, CreateSession, CheckFactor, Elevate, Spend,
   ReadForReset, ReadLink, Fail, history, resets

LEMMA LinksSame ==
  ASSUME LinkInv, UNCHANGED <<reset, inbox, links, spent, crossed>>,
         \A g \in Handlers : Posts(g)' => Posts(g) /\ task'[g].token = task[g].token
  PROVE  LinkInv'
<1>1. ResetRows /\ SpentLinks /\ \A g \in Handlers : Posts(g) => Posted(g)
  BY LinkParts
<1>2. ResetRows' /\ SpentLinks'
  BY <1>1 DEF ResetRows, SpentLinks
<1>3. \A g \in Handlers : Posts(g)' => Posted(g)'
  BY <1>1 DEF Posted
<1>4. QED
  BY <1>2, <1>3 DEF LinkInv, ResetRows, SpentLinks, Posts, Posted

LEMMA OthersPost ==
  ASSUME RequestTypes, NEW h \in Handlers, Step(h), NEW g \in Handlers, Posts(g)',
         ~ (IssueLink(h) /\ Issued(h))
  PROVE  Posts(g) /\ task'[g].token = task[g].token
<1>1. CASE g = h
  BY <1>1, PostsMove
<1>2. CASE g # h
  BY <1>2, StepMoves DEF Typed, Posts
<1>3. QED
  BY <1>1, <1>2

LEMMA IssueLinks ==
  ASSUME RequestTypes, LinkInv, NEW h \in Handlers, IssueLink(h), Issued(h) PROVE LinkInv'
<1> DEFINE b == AccountOf(h)
<1>1. /\ TypeOK /\ b \in Accounts /\ Typed(h)
      /\ ResetRows /\ SpentLinks /\ \A g \in Handlers : Posts(g) => Posted(g)
  BY Busy, LinkParts, IssueLinkMoves DEF IssueLink
<1>2. PICK n \in 1..MaxLinks : n = links + 1 /\ n > links /\ links' = n /\ links \in Nat
  <2>1. links \in 0..MaxLinks /\ MaxLinks \in Nat
    BY <1>1 DEF TypeOK, BoundsAssumption
  <2>2. links < MaxLinks /\ links' = links + 1
    BY DEF Issued
  <2>3. links + 1 \in 1..MaxLinks /\ links + 1 > links /\ links \in Nat
    BY <2>1, <2>2
  <2>4. QED
    BY <2>2, <2>3
<1>3. /\ inbox' = inbox /\ spent' = spent /\ crossed' = crossed
      /\ task'[h].token = n
  BY <1>2 DEF IssueLink, Issued, history
<1>4. /\ reset'[b].link = n /\ reset'[b].used = FALSE
      /\ \A a \in Accounts : a # b => reset'[a] = reset[a]
  BY <1>1, <1>2 DEF TypeOK, Issued
<1> HIDE DEF b
<1>5. ResetRows'
  BY <1>1, <1>2, <1>3, <1>4 DEF ResetRows
<1>6. SpentLinks'
  <2>1. \A l \in 1..MaxLinks : l > n => l > links
    BY <1>2
  <2>2. spent[n] = 0
    BY <1>1, <1>2 DEF SpentLinks
  <2>3. \A l \in (1..MaxLinks) \ crossed :
          \/ spent[l] = 0
          \/ /\ spent[l] = 1
             /\ \A a \in Accounts : reset'[a] # Nothing /\ reset'[a].link = l => reset'[a].used
    BY <1>1, <1>4, <2>2 DEF SpentLinks
  <2>4. QED
    BY <1>1, <1>2, <1>3, <2>1, <2>3 DEF SpentLinks
<1>7. ASSUME NEW g \in Handlers, Posts(g)' PROVE Posted(g)'
  <2>1. \A f \in Handlers : f # h => task'[f] = task[f] /\ (Posts(f)' <=> Posts(f))
    BY <1>1 DEF Typed, Posts
  <2>2. \A f \in Handlers : Posts(f) => task[f].token \in 1..links
    BY <1>1 DEF Posted
  <2>3. CASE g = h
    BY <1>1, <1>2, <1>3, <2>1, <2>2, <2>3 DEF Posted, ResetRows
  <2>4. CASE g # h
    <3>1. Posted(g) /\ task'[g] = task[g]
      BY <1>1, <1>7, <2>1, <2>4
    <3>2. task'[g].token \in 1..n /\ task'[g].token # n
      BY <1>2, <3>1 DEF Posted
    <3>3. QED
      BY <1>2, <1>3, <2>1, <3>1, <3>2 DEF Posted
  <2>5. QED
    BY <2>3, <2>4
<1>8. QED
  BY <1>5, <1>6, <1>7 DEF LinkInv, ResetRows, SpentLinks, Posts, Posted

LEMMA MailLinks ==
  ASSUME RequestTypes, LinkInv, NEW h \in Handlers, Step(h), Mail(h), ~ IssueLink(h) PROVE LinkInv'
<1> DEFINE b == AccountOf(h)
           l == task[h].token
<1>1. /\ TypeOK /\ b \in Accounts /\ Typed(h) /\ Posts(h)
      /\ ResetRows /\ SpentLinks /\ \A g \in Handlers : Posts(g) => Posted(g)
  BY Busy, LinkParts, StepMoves DEF Mail, Posts
<1>2. UNCHANGED <<reset, links, spent, crossed>>
  BY DEF Mail, history
<1>3. \A g \in Handlers : Posts(g)' => Posts(g) /\ task'[g].token = task[g].token
  BY OthersPost
<1>4. CASE UNCHANGED inbox
  BY <1>2, <1>3, <1>4, LinksSame
<1>5. CASE inbox' = [inbox EXCEPT ![b] = @ \cup {l}] /\ Finish(h)
  <2>1. Posted(h)
    BY <1>1
  <2>2. \A a \in Accounts : inbox'[a] \subseteq inbox[a] \cup {l}
    BY <1>1, <1>5 DEF TypeOK
  <2>3. ~ Posts(h)'
    BY <1>1, <1>5, Finished DEF Posts
  <2> HIDE DEF b
  <2>4. ResetRows' /\ SpentLinks'
    BY <1>1, <1>2, <2>1, <2>2 DEF ResetRows, SpentLinks, Posted
  <2>5. ASSUME NEW g \in Handlers, Posts(g)' PROVE Posted(g)'
    <3>1. g # h /\ Posts(g) /\ task'[g].token = task[g].token /\ Posted(g)
      BY <1>1, <1>3, <2>3, <2>5
    <3>2. task[g].token # l
      BY <1>1, <2>1, <3>1 DEF Posted
    <3>3. QED
      BY <1>2, <1>3, <2>2, <3>1, <3>2 DEF Posted
  <2>6. QED
    BY <2>4, <2>5 DEF LinkInv, ResetRows, SpentLinks, Posts, Posted
<1>6. QED
  BY <1>4, <1>5 DEF Mail

LEMMA ReleaseLinks ==
  ASSUME RequestTypes, LinkInv, NEW h \in Handlers, Step(h), Release(h), ~ IssueLink(h)
  PROVE  LinkInv'
<1> DEFINE b == AccountOf(h)
<1>1. /\ TypeOK /\ b \in Accounts
      /\ ResetRows /\ SpentLinks /\ \A g \in Handlers : Posts(g) => Posted(g)
  BY Busy, LinkParts DEF Release
<1>2. UNCHANGED <<inbox, links, spent, crossed>>
  BY DEF Release, history
<1>3. \A g \in Handlers : Posts(g)' => Posts(g) /\ task'[g].token = task[g].token
  BY OthersPost
<1>4. \A a \in Accounts : reset'[a] = reset[a] \/ reset'[a] = Nothing
  BY <1>1 DEF Release, TypeOK
<1>5. ResetRows' /\ SpentLinks'
  BY <1>1, <1>2, <1>4 DEF ResetRows, SpentLinks
<1>6. \A g \in Handlers : Posts(g)' => Posted(g)'
  BY <1>1, <1>2, <1>3 DEF Posted
<1>7. QED
  BY <1>5, <1>6 DEF LinkInv, ResetRows, SpentLinks, Posts, Posted

\* A submission that is accepted.
Accepted(h) ==
    /\ Consumable(reset[AccountOf(h)], account[AccountOf(h)])
    /\ reset' = [reset EXCEPT ![AccountOf(h)].used = TRUE]
    /\ spent' = [spent EXCEPT ![task[h].token] = @ + 1]
    /\ crossed' = IF reset[AccountOf(h)].link = task[h].token THEN crossed
                  ELSE crossed \cup {task[h].token}

LEMMA ConsumeMoves ==
  ASSUME NEW h \in Handlers, Consume(h)
  PROVE  /\ UNCHANGED <<inbox, links>>
         /\ Accepted(h) \/ UNCHANGED <<reset, spent, crossed>>
BY DEF Consume, Accepted

LEMMA ConsumeLinks ==
  ASSUME RequestTypes, LinkInv, NEW h \in Handlers, Step(h), Consume(h), ~ IssueLink(h)
  PROVE  LinkInv'
<1> DEFINE b == AccountOf(h)
           l == task[h].token
<1>1. /\ TypeOK /\ b \in Accounts /\ l \in inbox[b]
      /\ ResetRows /\ SpentLinks /\ \A g \in Handlers : Posts(g) => Posted(g)
  BY Busy, LinkParts DEF Consume, RequestInv
<1>2. UNCHANGED <<inbox, links>>
  BY ConsumeMoves
<1>3. \A g \in Handlers : Posts(g)' => Posts(g) /\ task'[g].token = task[g].token
  BY OthersPost
<1>4. CASE UNCHANGED <<reset, spent, crossed>>
  BY <1>2, <1>3, <1>4, LinksSame
<1>5. CASE Accepted(h)
  <2>1. l \in 1..MaxLinks /\ ~ (l > links) /\ links \in Nat
    <3>1. inbox[b] \subseteq 1..MaxLinks /\ links \in 0..MaxLinks
      BY <1>1, FieldTypes
    <3>2. l \in 1..links
      BY <1>1 DEF ResetRows
    <3>3. l \in 1..MaxLinks
      BY <1>1, <3>1
    <3>4. QED
      BY <3>1, <3>2, <3>3
  <2>2. reset[b] # Nothing /\ ~ reset[b].used /\ reset[b] \in Reset
    BY <1>1, <1>5 DEF Accepted, Consumable, TypeOK
  <2>3. /\ reset'[b].link = reset[b].link /\ reset'[b].used
        /\ \A a \in Accounts : a # b => reset'[a] = reset[a]
    BY <1>1, <1>5, <2>2 DEF Accepted, TypeOK, Reset
  <2>4. /\ spent'[l] = spent[l] + 1
        /\ \A m \in 1..MaxLinks : m # l => spent'[m] = spent[m]
    BY <1>1, <1>5, <2>1 DEF Accepted, TypeOK
  <2>5. crossed' = IF reset[b].link = l THEN crossed ELSE crossed \cup {l}
    BY <1>5 DEF Accepted
  <2> HIDE DEF b, l
  <2>6. ResetRows'
    BY <1>1, <1>2, <2>2, <2>3 DEF ResetRows
  <2>7. ASSUME NEW m \in (1..MaxLinks) \ crossed'
        PROVE  \/ spent'[m] = 0
               \/ /\ spent'[m] = 1
                  /\ \A a \in Accounts : reset'[a] # Nothing /\ reset'[a].link = m => reset'[a].used
    <3>1. m \notin crossed
      BY <2>5, <2>7
    <3>2. CASE m = l
      <4>1. reset[b].link = l
        BY <2>5, <2>7, <3>2
      <4>2. spent[l] = 0
        BY <1>1, <2>2, <3>1, <3>2, <4>1 DEF SpentLinks
      <4>3. \A a \in Accounts : a # b /\ reset[a] # Nothing => reset[a].link # l
        BY <1>1, <2>2, <4>1 DEF ResetRows
      <4>4. QED
        BY <2>3, <2>4, <3>2, <4>2, <4>3
    <3>3. CASE m # l
      BY <1>1, <2>2, <2>3, <2>4, <3>1, <3>3 DEF SpentLinks
    <3>4. QED
      BY <3>2, <3>3
  <2>8. \A m \in 1..MaxLinks : m > links => spent'[m] = 0
    BY <1>1, <2>1, <2>4 DEF SpentLinks
  <2>9. \A g \in Handlers : Posts(g)' => Posted(g)'
    BY <1>1, <1>2, <1>3 DEF Posted
  <2>10. QED
    BY <1>2, <2>6, <2>7, <2>8, <2>9 DEF LinkInv, ResetRows, Posts, Posted
<1>6. QED
  BY <1>4, <1>5, ConsumeMoves

LEMMA LinkStep == ASSUME RequestTypes, LinkInv, [Next]_vars PROVE LinkInv'
<1>1. ASSUME NEW h \in Handlers, Step(h) PROVE LinkInv'
  <2>1. CASE IssueLink(h)
    <3>1. CASE Issued(h)
      BY <2>1, <3>1, IssueLinks
    <3>2. CASE ~ Issued(h)
      <4>1. UNCHANGED <<reset, inbox, links, spent, crossed>>
        BY <2>1, <3>2, IssueLinkMoves DEF IssueLink, history
      <4>2. \A g \in Handlers : Posts(g)' => Posts(g) /\ task'[g].token = task[g].token
        BY <1>1, <3>2, OthersPost
      <4>3. QED
        BY <4>1, <4>2, LinksSame
    <3>3. QED
      BY <3>1, <3>2
  <2>2. CASE ~ IssueLink(h) /\ (Mail(h) \/ Release(h) \/ Consume(h))
    BY <1>1, <2>2, MailLinks, ReleaseLinks, ConsumeLinks
  <2>3. CASE ~ (IssueLink(h) \/ Mail(h) \/ Release(h) \/ Consume(h))
    <3>1. \A g \in Handlers : Posts(g)' => Posts(g) /\ task'[g].token = task[g].token
      BY <1>1, <2>3, OthersPost
    <3>2. QED
      BY <1>1, <2>3, <3>1, LinksRest, LinksSame
  <2>4. QED
    BY <2>1, <2>2, <2>3
<1>2. ASSUME NEW h \in Handlers, NEW b \in Clients, NEW kind \in Kinds, NEW target \in Accounts,
             NEW link \in 0..MaxLinks, Send(h, b, kind, target, link)
      PROVE  LinkInv'
  <2>1. UNCHANGED <<reset, inbox, links, spent, crossed>>
    BY <1>2 DEF Send, resets, history
  <2>2. Typed(h) /\ task'[h].pc = "sent"
    BY <1>2, SendMoves
  <2>3. \A g \in Handlers : Posts(g)' => Posts(g) /\ task'[g].token = task[g].token
    BY <2>2 DEF Typed, Posts
  <2>4. QED
    BY <2>1, <2>3, LinksSame
<1>3. CASE Tick \/ UNCHANGED vars
  <2>1. UNCHANGED <<reset, inbox, links, spent, crossed, task>>
    BY <1>3 DEF Tick, vars, resets, history
  <2>2. \A g \in Handlers : Posts(g)' => Posts(g) /\ task'[g].token = task[g].token
    BY <2>1 DEF Posts
  <2>3. QED
    BY <2>1, <2>2, LinksSame
<1>4. QED
  BY <1>1, <1>2, <1>3 DEF Next

LEMMA InitLinks == ASSUME Init PROVE LinkInv
<1>1. \A h \in Handlers : task[h].pc = "idle"
  BY IdleFacts DEF Init
<1>2. QED
  BY <1>1 DEF Init, LinkInv

(***************************************************************************)
(* A link changes one password, however often and wherever it is           *)
(* submitted, but for a submission that was under way while the row was    *)
(* spent and issued anew.                                                  *)
(***************************************************************************)
THEOREM LinksAreSpentOnce == Spec => []ResetOnce
<1>1. TypeOK /\ LinkInv => ResetOnce
  <2> SUFFICES ASSUME TypeOK, LinkInv, NEW l \in 1..MaxLinks, l \notin crossed
               PROVE  spent[l] <= 1
    BY DEF ResetOnce
  <2>1. spent[l] \in Nat
    BY FieldTypes
  <2>2. QED
    BY <2>1 DEF LinkInv
<1>2. QED
  BY <1>1, InitLinks, LinkStep, TypesHold, PTL DEF Spec, RequestTypes

(***************************************************************************)
(* A link that was delivered is never taken away by the failure of another *)
(* delivery.                                                               *)
(***************************************************************************)
THEOREM DeliveredLinksStand == Spec => DeliveredStands
<1> DEFINE Stands == \A a \in Accounts :
              (reset[a] # Nothing /\ reset[a].link \in inbox[a]) =>
                 reset'[a] # Nothing /\ reset'[a].link >= reset[a].link
<1>1. RequestTypes /\ LinkInv /\ [Next]_vars => [Stands]_vars
  <2> SUFFICES ASSUME RequestTypes, LinkInv, Next,
                      NEW a \in Accounts, reset[a] # Nothing, reset[a].link \in inbox[a]
               PROVE  reset'[a] # Nothing /\ reset'[a].link >= reset[a].link
    OBVIOUS
  <2>1. /\ TypeOK /\ reset[a] \in Reset /\ reset[a].link \in Nat
        /\ reset[a].link \in 1..links /\ links \in Nat
    <3>1. TypeOK
      BY DEF RequestTypes
    <3>2. reset[a] \in Reset
      BY <3>1 DEF TypeOK
    <3>3. reset[a].link \in Nat
      BY <3>2 DEF Reset
    <3>4. reset[a].link \in 1..links
      BY LinkParts DEF ResetRows
    <3>5. links \in 0..MaxLinks /\ MaxLinks \in Nat
      BY <3>1 DEF TypeOK, BoundsAssumption
    <3>6. links \in Nat
      BY <3>5
    <3>7. QED
      BY <3>1, <3>2, <3>3, <3>4, <3>6
  <2>2. ASSUME reset'[a] = reset[a] PROVE reset'[a] # Nothing /\ reset'[a].link >= reset[a].link
    BY <2>1, <2>2
  <2>3. ASSUME NEW h \in Handlers, Step(h)
        PROVE  reset'[a] # Nothing /\ reset'[a].link >= reset[a].link
    <3>1. CASE IssueLink(h) /\ Issued(h)
      <4>1. CASE a = AccountOf(h)
        <5>1. reset'[a] = [link |-> links + 1, created |-> now, used |-> FALSE]
          BY <2>1, <3>1, <4>1 DEF Issued, TypeOK
        <5>2. links + 1 \in Nat /\ now \in Nat
          BY <2>1 DEF TypeOK
        <5>3. reset'[a] \in Reset
          BY <5>1, <5>2 DEF Reset
        <5>4. reset'[a] # Nothing
          BY <5>3, NothingAssumption DEF NothingAssumption
        <5>5. reset'[a].link = links + 1
          BY <5>1
        <5>6. links + 1 >= reset[a].link
          BY <2>1
        <5>7. QED
          BY <5>4, <5>5, <5>6
      <4>2. CASE a # AccountOf(h)
        BY <2>1, <2>2, <3>1, <4>2 DEF Issued, TypeOK
      <4>3. QED
        BY <4>1, <4>2
    <3>2. CASE IssueLink(h) /\ ~ Issued(h)
      BY <2>2, <3>2, IssueLinkMoves
    <3>3. CASE Mail(h)
      BY <2>2, <3>3 DEF Mail
    <3>4. CASE Release(h)
      <4>1. task[h].token # reset[a].link
        BY <3>4 DEF LinkInv, Release
      <4>2. QED
        BY <2>1, <2>2, <3>4, <4>1 DEF Release, Releasable, TypeOK
    <3>5. CASE Consume(h)
      <4>1. CASE Accepted(h)
        <5>1. [reset[a] EXCEPT !.used = TRUE] \in Reset
          BY <2>1 DEF Reset
        <5>2. \/ reset'[a] = reset[a]
              \/ reset'[a] = [reset[a] EXCEPT !.used = TRUE]
          BY <2>1, <4>1 DEF Accepted, TypeOK
        <5>3. QED
          BY <2>1, <2>2, <5>1, <5>2 DEF Reset
      <4>2. QED
        BY <2>2, <3>5, <4>1, ConsumeMoves
    <3>6. CASE ~ (IssueLink(h) \/ Mail(h) \/ Release(h) \/ Consume(h))
      BY <2>2, <2>3, <3>6, LinksRest
    <3>7. QED
      BY <3>1, <3>2, <3>3, <3>4, <3>5, <3>6
  <2>4. ASSUME ~ \E h \in Handlers : Step(h) PROVE reset' = reset
    BY <2>4 DEF Next, Send, Tick, resets
  <2>5. QED
    BY <2>2, <2>3, <2>4
<1>2. QED
  BY <1>1, InitLinks, LinkStep, TypesHold, PTL DEF Spec, DeliveredStands
==============================================================================
