------------------------ MODULE GeographyMutationProofs ------------------------
(***************************************************************************)
(* Proofs about GeographyMutation for any records, menu, handlers and      *)
(* bounds.                                                                 *)
(***************************************************************************)
EXTENDS GeographyMutation, FiniteSetTheorems, TLAPS

USE RegionAssumption, BoundsAssumption, MenuAssumption, ValuesAssumption

-----------------------------------------------------------------------------
(***************************************************************************)
(* Types.                                                                  *)
(***************************************************************************)
LEMMA RequestTyped ==
  ASSUME NEW q \in Request
  PROVE  /\ q.id \in Records
         /\ q.kind \in {"create", "edit", "retire", "alias", "unalias", "bound"}
         /\ q.kind = "create" => q.name \in Names /\ q.boundary \subseteq Cells
         /\ q.kind = "edit" => q.name \in Names \cup {Keep} /\ q.code \in Codes \cup {Blank, Keep}
         /\ q.kind = "retire" => q.target \in Records \cup {Nothing}
         /\ q.kind = "alias" => q.value \in Values
         /\ q.kind = "unalias" => q.row \in Nat
         /\ q.kind = "bound" => q.boundary \subseteq Cells
BY DEF Request

LEMMA Typed ==
  ASSUME TypeOK, NEW q \in DOMAIN req
  PROVE  /\ req[q] \in Request /\ q \in Requests
         /\ req[q].id \in Records /\ rec[req[q].id] \in Record
<1>1. req \in Seq(Request) /\ Len(req) \in Nat /\ Len(req) <= MaxRequests /\ DOMAIN req = 1..Len(req)
  BY DEF TypeOK
<1>2. req[q] \in Request /\ q \in Requests
  BY <1>1 DEF Requests
<1>3. req[q].id \in Records
  BY <1>2, RequestTyped
<1>4. QED
  BY <1>2, <1>3 DEF TypeOK

LEMMA ChangedTyped ==
  ASSUME NEW q \in DOMAIN req, req[q] \in Request, req[q].kind = "edit", NEW r \in Record
  PROVE  Changed(r, q) \in State /\ Shown(r) \in State
<1>1. req[q].name \in Names \cup {Keep} /\ req[q].code \in Codes \cup {Blank, Keep}
  BY RequestTyped
<1>2. r.name \in Names /\ r.code \in Codes \cup {Blank}
  BY DEF Record
<1>3. QED
  BY <1>1, <1>2 DEF Changed, Shown, State

LEMMA EvidenceTyped ==
  ASSUME NEW q \in DOMAIN req, req[q] \in Request, NEW r \in Record
  PROVE  EvidenceOf(q, r) \in Evidence /\ EvidenceOf(q, r) # Nothing
<1>1. CASE req[q].kind = "edit"
  BY <1>1, ChangedTyped DEF EvidenceOf, Evidence
<1>2. CASE req[q].kind # "edit"
  BY <1>2 DEF EvidenceOf, Evidence
<1>3. QED
  BY <1>1, <1>2

\* What a mutation writes.
LEMMA WrittenTyped ==
  ASSUME NEW q \in DOMAIN req, req[q] \in Request, NEW r \in Record, NEW read \in Record
  PROVE  /\ Written(r, q, read) \in Record
         /\ Written(r, q, read).status =
              IF req[q].kind \in {"create", "edit"} THEN "ACTIVE"
              ELSE IF req[q].kind # "retire" THEN r.status
              ELSE IF req[q].target = Nothing THEN "DEPRECATED" ELSE "MERGED"
<1> DEFINE w == Written(r, q, read)
<1>1. /\ r.status \in Status /\ r.name \in Names /\ r.code \in Codes \cup {Blank}
      /\ r.aliases \subseteq Values /\ r.boundary \subseteq Cells
      /\ read.aliases \subseteq Values
  BY DEF Record
<1>2. CASE req[q].kind = "create"
  <2>1. w = [r EXCEPT !.status = "ACTIVE", !.name = req[q].name, !.code = Blank,
                      !.boundary = req[q].boundary]
    BY <1>2 DEF Written
  <2>2. req[q].name \in Names /\ req[q].boundary \subseteq Cells
    BY <1>2, RequestTyped
  <2> HIDE DEF w
  <2>3. QED
    BY <1>2, <2>1, <2>2 DEF Record, Status, w
<1>3. CASE req[q].kind = "edit"
  <2> DEFINE next == Changed(read, q)
             code == IF next.code = Blank THEN r.code ELSE next.code
             aliases == IF read.aliases = {} THEN r.aliases ELSE read.aliases
  <2>1. w = [r EXCEPT !.status = "ACTIVE", !.name = next.name, !.code = code, !.aliases = aliases]
    BY <1>3 DEF Written, Edited
  <2>2. next \in State
    BY <1>3, ChangedTyped
  <2>3. next.name \in Names /\ next.code \in Codes \cup {Blank}
    BY <2>2 DEF State
  <2>4. code \in Codes \cup {Blank} /\ aliases \subseteq Values
    BY <1>1, <2>3
  <2> HIDE DEF w, next, code, aliases
  <2>5. QED
    BY <1>3, <2>1, <2>3, <2>4 DEF Record, Status, w
<1>4. CASE req[q].kind = "retire"
  <2>1. w = [r EXCEPT !.status = IF req[q].target = Nothing THEN "DEPRECATED" ELSE "MERGED"]
    BY <1>4 DEF Written, Retired
  <2> HIDE DEF w
  <2>2. QED
    BY <1>4, <2>1 DEF Record, Status, w
<1>5. CASE req[q].kind \in {"alias", "unalias"}
  <2>1. PICK listed \in SUBSET Values : w = [r EXCEPT !.aliases = listed]
    <3>1. CASE req[q].kind = "alias"
      <4>1. r.aliases \cup {req[q].value} \in SUBSET Values
        BY <1>1, <3>1, RequestTyped
      <4>2. w = [r EXCEPT !.aliases = r.aliases \cup {req[q].value}]
        BY <3>1 DEF Written
      <4> HIDE DEF w
      <4>3. QED
        BY <4>1, <4>2
    <3>2. CASE req[q].kind = "unalias"
      <4>1. r.aliases \ {req[req[q].row].value} \in SUBSET Values
        BY <1>1
      <4>2. w = [r EXCEPT !.aliases = r.aliases \ {req[req[q].row].value}]
        BY <3>2 DEF Written, Unlisted
      <4> HIDE DEF w
      <4>3. QED
        BY <4>1, <4>2
    <3>3. QED
      BY <1>5, <3>1, <3>2
  <2> HIDE DEF w
  <2>2. QED
    BY <1>5, <2>1 DEF Record, Status, w
<1>6. CASE req[q].kind = "bound"
  <2>1. w = [r EXCEPT !.boundary = req[q].boundary] /\ req[q].boundary \in SUBSET Cells
    BY <1>6, RequestTyped DEF Written
  <2> HIDE DEF w
  <2>2. QED
    BY <1>6, <2>1 DEF Record, Status, w
<1>7. req[q].kind \in {"create", "edit", "retire", "alias", "unalias", "bound"}
  BY RequestTyped
<1>8. QED
  BY <1>2, <1>3, <1>4, <1>5, <1>6, <1>7

-----------------------------------------------------------------------------
(***************************************************************************)
(* Steps that change neither the collections nor the requests.             *)
(***************************************************************************)
\* SnapshotHolds for an attempt at request q.
Held(pc, q, read, matched, seen) ==
    /\ q \in DOMAIN req
    /\ matched => req[q].kind = "bound"
    /\ pc = "append" =>
          /\ seen <= Len(audit)
          /\ seen = Len(audit) =>
                /\ ~ Refused(q, read)
                /\ req[q].kind # "bound" => key[q] = Nothing

LEMMA HeldByAll ==
  SnapshotHolds <=>
     \A h \in Handlers : handler[h] # Idle =>
        Held(handler[h].pc, handler[h].req, handler[h].read, handler[h].matched, handler[h].seen)
BY DEF SnapshotHolds, Held

LEMMA SameRefusals ==
  ASSUME UNCHANGED <<rec, alias, req>>, NEW q, NEW read
  PROVE  Refused(q, read)' <=> Refused(q, read)
BY DEF Refused, EditRefused, RetireRefused, AliasRefused, AliasTaken, BoundaryMoved, Active

LEMMA HandlerStep ==
  ASSUME MutationInv, NEW h \in Handlers, NEW new \in Attempt \cup {Idle},
         handler' = [handler EXCEPT ![h] = new],
         UNCHANGED <<rec, redirect, alias, key, audit, torn, req, expired>>, resends' \in Nat,
         NEW q \in DOMAIN req, NEW given \in SUBSET Answer,
         answers' = [answers EXCEPT ![q] = @ \cup given],
         "ok" \in given /\ req[q].kind # "bound" => Rows(q) # {},
         new # Idle => Held(new.pc, new.req, new.read, new.matched, new.seen)
  PROVE  MutationInv'
<1> USE DEF MutationInv
<1>1. /\ answers \in [Requests -> SUBSET Answer] /\ q \in Requests
      /\ answers'[q] = answers[q] \cup given
      /\ \A p \in Requests : p # q => answers'[p] = answers[p]
  BY Typed DEF TypeOK
<1>2. TypeOK'
  <2>1. answers' \in [Requests -> SUBSET Answer]
    BY <1>1
  <2>2. handler' \in [Handlers -> {Idle} \cup Attempt]
    BY DEF TypeOK
  <2>3. QED
    BY <2>1, <2>2 DEF TypeOK
<1>3. \A p : Rows(p)' = Rows(p)
  BY DEF Rows
<1>4. OncePerKey'
  BY <1>3 DEF OncePerKey
<1>5. DoneIsAudited'
  <2> SUFFICES ASSUME NEW p \in DOMAIN req, req[p].kind # "bound", "ok" \in answers'[p]
               PROVE  Rows(p) # {}
    BY <1>3 DEF DoneIsAudited
  <2>1. CASE p = q
    BY <1>1, <2>1 DEF DoneIsAudited
  <2>2. CASE p # q
    BY <1>1, <2>2, Typed DEF DoneIsAudited
  <2>3. QED
    BY <2>1, <2>2
<1>6. AskedFirst'
  <2>1. \A p \in Requests \ DOMAIN req : answers'[p] = {}
    BY <1>1 DEF AskedFirst
  <2>2. QED
    BY <2>1 DEF AskedFirst
<1>7. SnapshotHolds'
  <2> SUFFICES ASSUME NEW g \in Handlers, handler'[g] # Idle
               PROVE  Held(handler[g].pc, handler[g].req, handler[g].read, handler[g].matched,
                           handler[g].seen)'
    BY DEF SnapshotHolds, Held
  <2>1. CASE g = h
    <3>1. handler'[g] = new
      BY <2>1 DEF TypeOK
    <3>2. Refused(new.req, new.read)' <=> Refused(new.req, new.read)
      BY SameRefusals
    <3>3. QED
      BY <3>1, <3>2 DEF Held
  <2>2. CASE g # h
    <3>1. handler'[g] = handler[g]
      BY <2>2 DEF TypeOK
    <3>2. QED
      BY <3>1, HeldByAll, SameRefusals DEF Held
  <2>3. QED
    BY <2>1, <2>2
<1>8. EffectStays'
  BY <1>3 DEF EffectStays, Spent
<1>9. QED
  BY <1>2, <1>4, <1>5, <1>6, <1>7, <1>8

quiet == <<rec, redirect, alias, key, audit, torn, req, expired>>

LEMMA RespondStep ==
  ASSUME MutationInv, NEW h \in Handlers, NEW q \in DOMAIN req, NEW answer \in Answer,
         Respond(h, q, answer), UNCHANGED quiet, resends' \in Nat,
         answer = "ok" /\ req[q].kind # "bound" => Rows(q) # {}
  PROVE  MutationInv'
<1>1. {answer} \in SUBSET Answer /\ ("ok" \in {answer} => answer = "ok")
  OBVIOUS
<1>2. QED
  BY <1>1, HandlerStep DEF Respond, quiet

LEMMA GoOn ==
  ASSUME MutationInv, NEW h \in Handlers, NEW new \in Attempt,
         handler' = [handler EXCEPT ![h] = new], UNCHANGED answers,
         UNCHANGED quiet, resends' \in Nat,
         Held(new.pc, new.req, new.read, new.matched, new.seen)
  PROVE  MutationInv'
<1>1. new.req \in DOMAIN req /\ {} \in SUBSET Answer
  BY DEF Held
<1>2. new.req \in Requests
  BY <1>1, Typed DEF MutationInv
<1>3. answers' = [answers EXCEPT ![new.req] = @ \cup {}]
  BY <1>2 DEF MutationInv, TypeOK
<1>4. QED
  BY <1>1, <1>3, HandlerStep DEF quiet

LEMMA ProceedStep ==
  ASSUME MutationInv, NEW h \in Handlers, NEW q \in DOMAIN req, NEW pc \in {"parent", "begin"},
         Proceed(h, q, pc), UNCHANGED quiet, resends' \in Nat
  PROVE  MutationInv'
<1> DEFINE new == [pc |-> pc, req |-> q, read |-> rec[req[q].id], matched |-> FALSE, seen |-> 0]
<1>1. q \in Nat /\ rec[req[q].id] \in Record
  BY Typed DEF MutationInv, Requests
<1>2. new \in Attempt
  BY <1>1 DEF Attempt
<1>3. Held(new.pc, new.req, new.read, new.matched, new.seen)
  BY DEF Held
<1>4. handler' = [handler EXCEPT ![h] = new] /\ UNCHANGED answers
  BY DEF Proceed
<1> HIDE DEF new
<1>5. QED
  BY <1>2, <1>3, <1>4, GoOn

LEMMA Arrived ==
  ASSUME MutationInv, NEW h \in Handlers, NEW q \in DOMAIN req, Arrives(h, q)
  PROVE  resends' \in Nat
BY DEF MutationInv, TypeOK, Arrives

LEMMA ReadForEditKeeps ==
  ASSUME MutationInv, NEW h \in Handlers, NEW q \in DOMAIN req, ReadForEdit(h, q)
  PROVE  MutationInv' /\ UNCHANGED store
<1>1. UNCHANGED quiet /\ UNCHANGED store /\ resends' \in Nat
  BY Arrived DEF ReadForEdit, store, quiet
<1>2. Respond(h, q, "gone") \/ Proceed(h, q, "begin")
  BY DEF ReadForEdit
<1>3. QED
  BY <1>1, <1>2, RespondStep, ProceedStep DEF Answer

LEMMA ReadBoundaryKeeps ==
  ASSUME MutationInv, NEW h \in Handlers, NEW q \in DOMAIN req, ReadBoundary(h, q)
  PROVE  MutationInv' /\ UNCHANGED store
<1>1. UNCHANGED quiet /\ UNCHANGED store /\ resends' \in Nat
  BY Arrived DEF ReadBoundary, store, quiet
<1> DEFINE r == rec[req[q].id]
           pc == IF req[q].id \in Districts THEN "parent" ELSE "begin"
<1>2. Respond(h, q, "gone") \/ Respond(h, q, "conflict") \/ Proceed(h, q, pc)
  <2>1. CASE r.status = "absent"
    BY <2>1 DEF ReadBoundary
  <2>2. CASE r.status # "absent" /\ r.boundary # req[q].etag
    BY <2>2 DEF ReadBoundary
  <2>3. CASE r.status # "absent" /\ r.boundary = req[q].etag
    BY <2>3 DEF ReadBoundary
  <2>4. QED
    BY <2>1, <2>2, <2>3
<1>3. pc \in {"parent", "begin"}
  OBVIOUS
<1> HIDE DEF pc
<1>4. QED
  BY <1>1, <1>2, <1>3, RespondStep, ProceedStep DEF Answer

LEMMA ReceiveKeeps ==
  ASSUME MutationInv, NEW h \in Handlers, NEW q \in DOMAIN req, Receive(h, q)
  PROVE  MutationInv' /\ UNCHANGED store
<1>1. UNCHANGED quiet /\ UNCHANGED store /\ resends' \in Nat
  BY Arrived DEF Receive, store, quiet
<1>2. PICK pc \in {"parent", "begin"} : Proceed(h, q, pc)
  BY DEF Receive
<1>3. QED
  BY <1>1, <1>2, ProceedStep

LEMMA Working ==
  ASSUME MutationInv, NEW h \in Handlers, handler[h] # Idle
  PROVE  /\ handler[h] \in Attempt /\ handler[h].req \in DOMAIN req
         /\ handler[h].read \in Record /\ resends \in Nat
         /\ Held(handler[h].pc, handler[h].req, handler[h].read, handler[h].matched,
                 handler[h].seen)
<1>1. handler[h] \in Attempt /\ resends \in Nat
  BY DEF MutationInv, TypeOK
<1>2. Held(handler[h].pc, handler[h].req, handler[h].read, handler[h].matched, handler[h].seen)
  BY HeldByAll DEF MutationInv
<1>3. QED
  BY <1>1, <1>2 DEF Attempt, Held

LEMMA Busy == ASSUME NEW h \in Handlers, handler[h].pc # "idle" PROVE handler[h] # Idle
BY DEF Idle

LEMMA ReadParentKeeps ==
  ASSUME MutationInv, NEW h \in Handlers, ReadParent(h)
  PROVE  MutationInv' /\ UNCHANGED store
<1> DEFINE q == handler[h].req
           new == [handler[h] EXCEPT !.pc = "begin"]
<1>1. UNCHANGED quiet /\ UNCHANGED store
  BY DEF ReadParent, store, quiet
<1>2. /\ handler[h] \in Attempt /\ q \in DOMAIN req /\ resends' \in Nat
      /\ Held(handler[h].pc, q, handler[h].read, handler[h].matched, handler[h].seen)
  BY Busy, Working DEF ReadParent
<1>3. \/ Respond(h, q, "gone") \/ Respond(h, q, "invalid")
      \/ handler' = [handler EXCEPT ![h].pc = "begin"] /\ UNCHANGED answers
  <2>1. CASE req[q].kind = "bound" /\ ~ Active(req[q].id)
    BY <2>1 DEF ReadParent
  <2>2. CASE ~ (req[q].kind = "bound" /\ ~ Active(req[q].id))
    BY <2>2 DEF ReadParent
  <2>3. QED
    BY <2>1, <2>2
<1>4. CASE handler' = [handler EXCEPT ![h].pc = "begin"] /\ UNCHANGED answers
  <2>1. /\ new \in Attempt /\ new.pc = "begin" /\ new.req = q /\ new.matched = handler[h].matched
        /\ handler' = [handler EXCEPT ![h] = new]
    BY <1>2, <1>4 DEF Attempt
  <2> HIDE DEF new
  <2>2. Held(new.pc, new.req, new.read, new.matched, new.seen)
    BY <1>2, <2>1 DEF Held
  <2>3. QED
    BY <1>1, <1>2, <1>4, <2>1, <2>2, GoOn
<1> HIDE DEF q
<1>5. QED
  BY <1>1, <1>2, <1>3, <1>4, RespondStep DEF Answer

LEMMA Claims ==
  ASSUME NEW q, NEW e, e # Nothing
  PROVE  \/ Claim(q, e) = "new" /\ (req[q].kind = "bound" \/ key[q] = Nothing)
         \/ Claim(q, e) = "replay" /\ req[q].kind # "bound" /\ key[q] # Nothing
         \/ Claim(q, e) = "reused"
<1>1. CASE req[q].kind = "bound" \/ key[q] = Nothing
  BY <1>1 DEF Claim
<1>2. CASE req[q].kind # "bound" /\ key[q] # Nothing /\ key[q] = e
  BY <1>2 DEF Claim
<1>3. CASE req[q].kind # "bound" /\ key[q] # Nothing /\ key[q] # e
  BY <1>3 DEF Claim
<1>4. QED
  BY <1>1, <1>2, <1>3

LEMMA MutateKeeps ==
  ASSUME MutationInv, NEW h \in Handlers, Mutate(h)
  PROVE  MutationInv' /\ UNCHANGED store
<1> DEFINE q == handler[h].req
           read == handler[h].read
           claim == Claim(q, EvidenceOf(q, read))
           new == [handler[h] EXCEPT !.pc = "append", !.seen = Len(audit),
                                     !.matched = req[q].kind = "bound"]
<1>1. UNCHANGED quiet /\ UNCHANGED store
  BY DEF Mutate, store, quiet
<1>2. /\ handler[h] \in Attempt /\ q \in DOMAIN req /\ resends' \in Nat
      /\ handler[h].matched => req[q].kind = "bound"
  BY Busy, Working DEF Mutate, Held
<1>3. EvidenceOf(q, read) # Nothing
  BY <1>2, Typed, EvidenceTyped DEF MutationInv, Attempt
<1>4. \/ claim = "new" /\ (req[q].kind = "bound" \/ key[q] = Nothing)
      \/ claim = "replay" /\ req[q].kind # "bound" /\ key[q] # Nothing
      \/ claim = "reused"
  BY <1>3, Claims
<1>5. CASE claim = "replay"
  <2>1. Respond(h, q, "ok")
    BY <1>5 DEF Mutate
  <2>2. Rows(q) # {}
    BY <1>2, <1>4, <1>5 DEF MutationInv, EffectStays
  <2> HIDE DEF q
  <2>3. QED
    BY <1>1, <1>2, <2>1, <2>2, RespondStep DEF Answer
<1>6. CASE claim = "reused"
  <2>1. Respond(h, q, "reused")
    BY <1>6 DEF Mutate
  <2> HIDE DEF q
  <2>2. QED
    BY <1>1, <1>2, <2>1, RespondStep DEF Answer
<1>7. CASE claim = "new" /\ Refused(q, read)
  <2>1. Respond(h, q, Swapped(h))
    BY <1>7 DEF Mutate
  <2>2. Swapped(h) \in Answer /\ (Swapped(h) = "ok" => handler[h].matched)
    BY DEF Swapped, Answer
  <2> HIDE DEF q
  <2>3. QED
    BY <1>1, <1>2, <2>1, <2>2, RespondStep
<1>8. CASE claim = "new" /\ ~ Refused(q, read)
  <2>1. handler' = [handler EXCEPT ![h] = new] /\ UNCHANGED answers
    BY <1>8 DEF Mutate
  <2>2. Len(audit) \in Nat
    BY DEF MutationInv, TypeOK
  <2>3. /\ new \in Attempt /\ new.pc = "append" /\ new.req = q /\ new.read = read
        /\ new.matched = (req[q].kind = "bound") /\ new.seen = Len(audit)
    BY <1>2, <2>2 DEF Attempt
  <2> HIDE DEF new
  <2>4. Held(new.pc, new.req, new.read, new.matched, new.seen)
    <3>1. ~ Refused(new.req, new.read)
      BY <1>8, <2>3
    <3>2. req[q].kind = "bound" \/ key[q] = Nothing
      BY <1>4, <1>8
    <3>3. new.req \in DOMAIN req /\ (new.matched => req[new.req].kind = "bound")
      BY <1>2, <2>3
    <3>4. new.seen <= Len(audit)
      BY <2>2, <2>3
    <3>5. req[new.req].kind # "bound" => key[new.req] = Nothing
      BY <2>3, <3>2
    <3>6. QED
      BY <3>1, <3>3, <3>4, <3>5 DEF Held
  <2>5. QED
    BY <1>1, <1>2, <2>1, <2>3, <2>4, GoOn
<1>9. QED
  BY <1>4, <1>5, <1>6, <1>7, <1>8

LEMMA RunAgainKeeps ==
  ASSUME MutationInv, NEW h \in Handlers, RunAgain(h)
  PROVE  MutationInv' /\ UNCHANGED store
<1> DEFINE new == [handler[h] EXCEPT !.pc = "begin", !.seen = 0]
<1>1. UNCHANGED quiet /\ UNCHANGED store /\ UNCHANGED answers
  BY DEF RunAgain, store, quiet
<1>2. /\ handler[h] \in Attempt /\ resends' \in Nat
      /\ Held(handler[h].pc, handler[h].req, handler[h].read, handler[h].matched, handler[h].seen)
  BY Busy, Working DEF RunAgain
<1>3. /\ new \in Attempt /\ new.pc = "begin" /\ new.req = handler[h].req
      /\ new.matched = handler[h].matched
  BY <1>2 DEF Attempt
<1>4. handler' = [handler EXCEPT ![h] = new]
  BY DEF RunAgain
<1> HIDE DEF new
<1>5. Held(new.pc, new.req, new.read, new.matched, new.seen)
  BY <1>2, <1>3 DEF Held
<1>6. QED
  BY <1>1, <1>2, <1>3, <1>4, <1>5, GoOn

LEMMA FailKeeps ==
  ASSUME MutationInv, NEW h \in Handlers, Fail(h)
  PROVE  MutationInv' /\ UNCHANGED store
<1>1. UNCHANGED quiet /\ UNCHANGED store /\ resends' \in Nat
  BY Working DEF Fail, store, quiet
<1>2. handler[h].req \in DOMAIN req /\ Respond(h, handler[h].req, "internal")
  BY Working DEF Fail
<1>3. QED
  BY <1>1, <1>2, RespondStep DEF Answer

-----------------------------------------------------------------------------
LEMMA Asked ==
  ASSUME MutationInv, NEW new \in Menu, Ask(new)
  PROVE  LET n == Len(req) + 1
         IN /\ req' \in Seq(Request) /\ Len(req') <= MaxRequests
            /\ n \in Requests /\ n \notin DOMAIN req /\ DOMAIN req' = DOMAIN req \cup {n}
            /\ req'[n] = new /\ \A q \in DOMAIN req : req'[q] = req[q]
<1> DEFINE n == Len(req) + 1
<1>1. /\ req \in Seq(Request) /\ Len(req) \in Nat /\ DOMAIN req = 1..Len(req)
      /\ new \in Request /\ Len(req) < MaxRequests /\ req' = Append(req, new)
  BY DEF MutationInv, TypeOK, Ask
<1>2. req' \in Seq(Request) /\ Len(req') = n /\ DOMAIN req' = 1..n /\ req'[n] = new
  BY <1>1
<1>3. \A q \in 1..Len(req) : req'[q] = req[q]
  BY <1>1
<1>4. QED
  BY <1>1, <1>2, <1>3 DEF Requests

LEMMA AskKeeps ==
  ASSUME MutationInv, NEW new \in Menu, Ask(new)
  PROVE  MutationInv' /\ UNCHANGED store
<1> USE DEF MutationInv
<1> DEFINE n == Len(req) + 1
<1>1. UNCHANGED store /\ UNCHANGED <<handler, answers, resends, expired>>
  BY DEF Ask
<1>2. UNCHANGED <<rec, redirect, alias, key, audit, torn>>
  BY <1>1 DEF store
<1>3. /\ req' \in Seq(Request) /\ Len(req') <= MaxRequests
      /\ n \in Requests /\ n \notin DOMAIN req /\ DOMAIN req' = DOMAIN req \cup {n}
      /\ req'[n] = new /\ \A q \in DOMAIN req : req'[q] = req[q]
  BY Asked
<1>4. new.kind = "unalias" =>
         new.row \in DOMAIN req /\ req[new.row].kind = "alias" /\ req[new.row].id = new.id
  BY DEF Ask
<1> HIDE DEF n
<1>5. alias[n] = "absent" /\ key[n] = Nothing /\ answers[n] = {}
  BY <1>3 DEF AskedFirst
<1>6. \A q : Rows(q)' = Rows(q)
  BY <1>2 DEF Rows
<1>7. Rows(n) = {}
  BY <1>3 DEF Rows, AskedFirst
<1>8. TypeOK'
  BY <1>1, <1>2, <1>3 DEF TypeOK
<1>9. OncePerKey'
  <2>1. Cardinality(Rows(n)) <= 1
    BY <1>7, FS_EmptySet
  <2>2. QED
    BY <1>1, <1>3, <1>6, <2>1 DEF OncePerKey
<1>10. DoneIsAudited'
  BY <1>1, <1>3, <1>5, <1>6 DEF DoneIsAudited
<1>11. AskedFirst'
  <2>1. \A q \in Requests \ DOMAIN req' : alias'[q] = "absent" /\ key'[q] = Nothing /\ answers'[q] = {}
    BY <1>1, <1>2, <1>3 DEF AskedFirst
  <2>2. \A k \in DOMAIN audit' : audit'[k].req \in DOMAIN req'
    BY <1>2, <1>3 DEF AskedFirst
  <2>3. \A q \in DOMAIN req' : req'[q].kind = "unalias" =>
           /\ req'[q].row \in DOMAIN req'
           /\ req'[req'[q].row].kind = "alias" /\ req'[req'[q].row].id = req'[q].id
    BY <1>3, <1>4 DEF AskedFirst
  <2>4. QED
    BY <2>1, <2>2, <2>3 DEF AskedFirst
<1>12. SnapshotHolds'
  <2> SUFFICES ASSUME NEW g \in Handlers, handler[g] # Idle
               PROVE  Held(handler[g].pc, handler[g].req, handler[g].read, handler[g].matched,
                           handler[g].seen)'
    BY <1>1 DEF SnapshotHolds, Held
  <2> DEFINE q == handler[g].req
             read == handler[g].read
  <2>1. /\ Held(handler[g].pc, q, read, handler[g].matched, handler[g].seen)
        /\ q \in DOMAIN req /\ req'[q] = req[q]
    BY <1>3, Working
  <2>2. AliasTaken(q)' => AliasTaken(q)
    <3>1. handler'[g] = handler[g]
      BY <1>1
    <3> HIDE DEF q, read
    <3>2. q' = q
      BY <3>1 DEF q
    <3>3. QED
      BY <1>2, <1>3, <1>5, <2>1, <3>2 DEF AliasTaken
  <2>3. req[q].kind = "unalias" => req'[req'[q].row] = req[req[q].row]
    BY <1>3, <2>1 DEF AskedFirst
  <2>4. Refused(q, read)' => Refused(q, read)
    BY <1>1, <1>2, <2>1, <2>2, <2>3
       DEF Refused, EditRefused, RetireRefused, AliasRefused, BoundaryMoved, Active
  <2>5. QED
    BY <1>1, <1>2, <1>3, <2>1, <2>4 DEF Held
<1>13. EffectStays'
  <2> SUFFICES ASSUME NEW q \in DOMAIN req'
               PROVE  (Rows(q) # {} => Spent(q)') /\ (key[q] # Nothing => Rows(q) # {})
    BY <1>2, <1>6 DEF EffectStays
  <2>1. CASE q = n
    BY <1>5, <1>7, <2>1
  <2>2. CASE q \in DOMAIN req
    <3>1. Spent(q) => Spent(q)'
      BY <1>1, <1>2, <1>3, <2>2 DEF Spent
    <3>2. QED
      BY <2>2, <3>1 DEF EffectStays
  <2>3. QED
    BY <1>3, <2>1, <2>2
<1>14. QED
  BY <1>1, <1>8, <1>9, <1>10, <1>11, <1>12, <1>13

LEMMA ExpireKeeps ==
  ASSUME MutationInv, NEW q \in Requests, Expire(q)
  PROVE  MutationInv' /\ UNCHANGED <<rec, redirect>>
<1> USE DEF MutationInv
<1>1. /\ UNCHANGED <<rec, redirect, alias, audit, torn, req, handler, answers, resends>>
      /\ expired' = expired \cup {q} /\ key[q] # Nothing
  BY DEF Expire
<1>2. /\ key' \in [Requests -> Evidence \cup {Nothing}] /\ key'[q] = Nothing
      /\ \A p \in Requests : p # q => key'[p] = key[p]
  BY DEF Expire, TypeOK
<1>3. \A p : Rows(p)' = Rows(p)
  BY <1>1 DEF Rows
<1>4. TypeOK'
  BY <1>1, <1>2 DEF TypeOK
<1>5. OncePerKey' /\ DoneIsAudited'
  BY <1>1, <1>3 DEF OncePerKey, DoneIsAudited
<1>6. AskedFirst'
  BY <1>1, <1>2 DEF AskedFirst
<1>7. SnapshotHolds'
  <2> SUFFICES ASSUME NEW g \in Handlers, handler[g] # Idle
               PROVE  Held(handler[g].pc, handler[g].req, handler[g].read, handler[g].matched,
                           handler[g].seen)'
    BY <1>1 DEF SnapshotHolds, Held
  <2>1. Held(handler[g].pc, handler[g].req, handler[g].read, handler[g].matched, handler[g].seen)
    BY Working
  <2>2. handler[g].req \in Requests
    BY <2>1, Typed DEF Held
  <2>3. Refused(handler[g].req, handler[g].read)' <=> Refused(handler[g].req, handler[g].read)
    BY <1>1 DEF Refused, EditRefused, RetireRefused, AliasRefused, AliasTaken, BoundaryMoved, Active
  <2>4. QED
    BY <1>1, <1>2, <2>1, <2>2, <2>3 DEF Held
<1>8. EffectStays'
  <2> SUFFICES ASSUME NEW p \in DOMAIN req
               PROVE  (Rows(p) # {} => Spent(p)') /\ (key'[p] # Nothing => Rows(p) # {})
    BY <1>1, <1>3 DEF EffectStays
  <2>1. p \in Requests
    BY Typed
  <2>2. Spent(p) => Spent(p)'
    BY <1>1, <1>2, <2>1 DEF Spent
  <2>3. key'[p] # Nothing => key[p] # Nothing
    BY <1>1, <1>2, <2>1
  <2>4. QED
    BY <2>2, <2>3 DEF EffectStays
<1>9. QED
  BY <1>1, <1>4, <1>5, <1>6, <1>7, <1>8

-----------------------------------------------------------------------------
(***************************************************************************)
(* A transaction that commits.                                             *)
(***************************************************************************)
\* What it found still holds.
LEMMA Committing ==
  ASSUME MutationInv, NEW h \in Handlers, Commit(h)
  PROVE  /\ handler[h].req \in DOMAIN req /\ handler[h].req \in Requests
         /\ req[handler[h].req] \in Request
         /\ req[handler[h].req].id \in Records /\ rec[req[handler[h].req].id] \in Record
         /\ handler[h].read \in Record
         /\ ~ Refused(handler[h].req, handler[h].read)
         /\ req[handler[h].req].kind # "bound" => key[handler[h].req] = Nothing
         /\ UNCHANGED <<req, resends, expired>>
<1>1. handler[h] # Idle /\ handler[h].pc = "append" /\ handler[h].seen = Len(audit)
  BY Busy DEF Commit, Conflicts
<1>2. UNCHANGED <<req, resends, expired>>
  BY DEF Commit
<1>3. QED
  BY <1>1, <1>2, Working, Typed DEF MutationInv, Held

LEMMA CommittedRecord ==
  ASSUME MutationInv, NEW h \in Handlers, Commit(h)
  PROVE  LET q == handler[h].req
             id == req[q].id
             read == handler[h].read
         IN /\ rec' \in [Records -> Record]
            /\ rec'[id] = Written(rec[id], q, read)
            /\ \A r \in Records : r # id => rec'[r] = rec[r]
<1>1. rec' = [rec EXCEPT ![req[handler[h].req].id] =
                Written(rec[req[handler[h].req].id], handler[h].req, handler[h].read)]
  BY DEF Commit
<1>2. Written(rec[req[handler[h].req].id], handler[h].req, handler[h].read) \in Record
  BY Committing, WrittenTyped
<1>3. QED
  BY <1>1, <1>2, Committing DEF MutationInv, TypeOK

LEMMA CommittedRedirect ==
  ASSUME MutationInv, NEW h \in Handlers, Commit(h)
  PROVE  LET q == handler[h].req
             id == req[q].id
         IN /\ redirect' \in [Records -> Records \cup {Nothing}]
            /\ redirect'[id] = IF req[q].kind = "retire" /\ req[q].target # Nothing
                               THEN req[q].target ELSE redirect[id]
            /\ \A r \in Records : r # id => redirect'[r] = redirect[r]
<1> DEFINE q == handler[h].req
           to == IF req[q].kind = "retire" THEN req[q].target ELSE Nothing
           new == IF to = Nothing THEN redirect[req[q].id] ELSE to
<1>1. redirect' = [redirect EXCEPT ![req[q].id] = new]
  BY DEF Commit
<1>2. redirect \in [Records -> Records \cup {Nothing}] /\ req[q].id \in Records
  BY Committing DEF MutationInv, TypeOK
<1>3. req[q].kind = "retire" => req[q].target \in Records \cup {Nothing}
  BY Committing, RequestTyped
<1>4. /\ new \in Records \cup {Nothing}
      /\ new = IF req[q].kind = "retire" /\ req[q].target # Nothing
               THEN req[q].target ELSE redirect[req[q].id]
  BY <1>2, <1>3
<1> HIDE DEF new
<1>5. QED
  BY <1>1, <1>2, <1>4

LEMMA CommittedAlias ==
  ASSUME MutationInv, NEW h \in Handlers, Commit(h)
  PROVE  LET q == handler[h].req
         IN /\ alias' \in [Requests -> {"absent", "ACTIVE", "DEPRECATED"}]
            /\ req[q].kind = "alias" => alias[q] = "absent" /\ alias'[q] = "ACTIVE"
            /\ req[q].kind = "unalias" => alias'[req[q].row] = "DEPRECATED"
            /\ \A p \in Requests : alias[p] # "absent" => alias'[p] # "absent"
            /\ \A p \in Requests : alias[p] = "DEPRECATED" => alias'[p] = "DEPRECATED"
            /\ \A p \in Requests \ DOMAIN req : alias'[p] = alias[p]
<1> DEFINE q == handler[h].req
           row == req[q].row
<1>1. /\ alias \in [Requests -> {"absent", "ACTIVE", "DEPRECATED"}]
      /\ q \in Requests /\ q \in DOMAIN req /\ ~ Refused(q, handler[h].read)
  BY Committing DEF MutationInv, TypeOK
<1>2. CASE req[q].kind = "alias"
  <2>1. alias' = [alias EXCEPT ![q] = "ACTIVE"]
    BY <1>2 DEF Commit
  <2>2. alias[q] = "absent"
    <3>1. ~ AliasTaken(q)
      BY <1>1, <1>2 DEF Refused, AliasRefused
    <3> HIDE DEF q
    <3>2. QED
      BY <1>1, <1>2, <3>1 DEF AliasTaken
  <2> HIDE DEF q
  <2>3. QED
    BY <1>1, <1>2, <2>1, <2>2 DEF q
<1>3. CASE req[q].kind = "unalias"
  <2>1. alias' = [alias EXCEPT ![row] = "DEPRECATED"]
    BY <1>3 DEF Commit
  <2>2. row \in DOMAIN req
    BY <1>1, <1>3 DEF MutationInv, AskedFirst
  <2>3. row \in Requests
    BY <2>2, Typed DEF MutationInv
  <2> HIDE DEF row
  <2>4. /\ alias' \in [Requests -> {"absent", "ACTIVE", "DEPRECATED"}]
        /\ alias'[row] = "DEPRECATED" /\ \A p \in Requests : p # row => alias'[p] = alias[p]
    BY <1>1, <2>1, <2>3
  <2>5. QED
    BY <1>3, <2>2, <2>4 DEF row
<1>4. CASE req[q].kind \notin {"alias", "unalias"}
  <2>1. alias' = alias
    BY <1>4 DEF Commit
  <2>2. QED
    BY <1>1, <1>4, <2>1
<1>5. QED
  BY <1>2, <1>3, <1>4

LEMMA CommittedKey ==
  ASSUME MutationInv, NEW h \in Handlers, Commit(h)
  PROVE  LET q == handler[h].req
         IN /\ key' \in [Requests -> Evidence \cup {Nothing}]
            /\ req[q].kind # "bound" => key'[q] # Nothing
            /\ \A p \in Requests : p # q => key'[p] = key[p]
<1> DEFINE q == handler[h].req
           e == EvidenceOf(q, handler[h].read)
           new == IF req[q].kind = "bound" THEN key[q] ELSE e
<1>1. key' = [key EXCEPT ![q] = new]
  BY DEF Commit
<1>2. e \in Evidence /\ e # Nothing
  BY Committing, EvidenceTyped
<1>3. key \in [Requests -> Evidence \cup {Nothing}] /\ q \in Requests
  BY Committing DEF MutationInv, TypeOK
<1> HIDE DEF e
<1>4. new \in Evidence \cup {Nothing} /\ (req[q].kind # "bound" => new # Nothing)
  BY <1>2, <1>3
<1> HIDE DEF new
<1>5. QED
  BY <1>1, <1>3, <1>4

LEMMA CommittedAudit ==
  ASSUME MutationInv, NEW h \in Handlers, Commit(h)
  PROVE  LET q == handler[h].req
             n == Len(audit) + 1
         IN /\ audit' \in Seq([req : Nat, id : Records, evidence : Evidence])
            /\ Len(audit) \in Nat /\ Len(audit') = n
            /\ DOMAIN audit' = DOMAIN audit \cup {n} /\ n \notin DOMAIN audit
            /\ audit'[n].req = q /\ audit'[n].id = req[q].id
            /\ \A k \in DOMAIN audit : audit'[k] = audit[k]
            /\ \A p : Rows(p)' = IF p = q THEN Rows(p) \cup {n} ELSE Rows(p)
<1> DEFINE q == handler[h].req
           n == Len(audit) + 1
           new == [req |-> q, id |-> req[q].id, evidence |-> EvidenceOf(q, handler[h].read)]
<1>1. audit' = Append(audit, new)
  BY DEF Commit
<1>2. /\ q \in Nat /\ new \in [req : Nat, id : Records, evidence : Evidence]
      /\ new.req = q /\ new.id = req[q].id
  BY Committing, EvidenceTyped DEF Requests
<1>3. /\ audit \in Seq([req : Nat, id : Records, evidence : Evidence])
      /\ Len(audit) \in Nat /\ DOMAIN audit = 1..Len(audit)
  BY DEF MutationInv, TypeOK
<1> HIDE DEF new
<1>4. /\ audit' \in Seq([req : Nat, id : Records, evidence : Evidence]) /\ Len(audit') = n
      /\ DOMAIN audit' = 1..n
  BY <1>1, <1>2, <1>3
<1>5. audit'[n] = new /\ \A k \in 1..Len(audit) : audit'[k] = audit[k]
  BY <1>1, <1>2, <1>3
<1>6. DOMAIN audit' = DOMAIN audit \cup {n} /\ n \notin DOMAIN audit
  BY <1>3, <1>4
<1> HIDE DEF n
<1>7. \A p : Rows(p)' = {k \in DOMAIN audit' : audit'[k].req = p}
  BY DEF Rows
<1>8. \A p : Rows(p)' = IF p = q THEN Rows(p) \cup {n} ELSE Rows(p)
  <2> SUFFICES ASSUME NEW p PROVE Rows(p)' = IF p = q THEN Rows(p) \cup {n} ELSE Rows(p)
    OBVIOUS
  <2>1. CASE p = q
    BY <1>2, <1>3, <1>5, <1>6, <1>7, <2>1 DEF Rows
  <2>2. CASE p # q
    BY <1>2, <1>3, <1>5, <1>6, <1>7, <2>2 DEF Rows
  <2>3. QED
    BY <2>1, <2>2
<1>9. QED
  BY <1>2, <1>3, <1>4, <1>5, <1>6, <1>8 DEF n

Gone == {"MERGED", "DEPRECATED"}

\* A record that is there stays, and one that was retired stays as it is.
LEMMA CommittedStatus ==
  ASSUME MutationInv, NEW h \in Handlers, Commit(h), NEW r \in Records
  PROVE  /\ rec[r].status # "absent" => rec'[r].status # "absent"
         /\ rec[r].status \in Gone =>
              rec'[r].status = rec[r].status /\ redirect'[r] = redirect[r]
<1>1. PICK q \in DOMAIN req : q = handler[h].req
  BY Committing
<1>2. CASE r # req[q].id
  BY <1>1, <1>2, CommittedRecord, CommittedRedirect
<1>3. CASE r = req[q].id
  <2>1. PICK read \in Record : read = handler[h].read
    BY Committing
  <2>2. /\ req[q] \in Request /\ rec[r] \in Record /\ ~ Refused(q, read)
    BY <1>1, <1>3, <2>1, Committing
  <2>3. rec'[r].status = IF req[q].kind \in {"create", "edit"} THEN "ACTIVE"
                         ELSE IF req[q].kind # "retire" THEN rec[r].status
                         ELSE IF req[q].target = Nothing THEN "DEPRECATED" ELSE "MERGED"
    BY <1>1, <1>3, <2>1, <2>2, CommittedRecord, WrittenTyped
  <2>4. redirect'[r] = IF req[q].kind = "retire" /\ req[q].target # Nothing
                       THEN req[q].target ELSE redirect[r]
    BY <1>1, <1>3, CommittedRedirect
  <2>5. /\ req[q].kind = "create" => rec[r].status = "absent"
        /\ req[q].kind \in {"edit", "retire"} => rec[r].status = "ACTIVE"
    BY <1>3, <2>2 DEF Refused, EditRefused, RetireRefused, Active
  <2>6. QED
    BY <2>3, <2>4, <2>5 DEF Gone
<1>4. QED
  BY <1>2, <1>3

\* What has taken effect cannot do so again.
LEMMA SpentStays ==
  ASSUME MutationInv, NEW h \in Handlers, Commit(h), NEW p \in DOMAIN req, Spent(p),
         p # handler[h].req
  PROVE  Spent(p)'
<1>1. /\ p \in Requests /\ req[p].id \in Records /\ UNCHANGED <<req, expired>>
      /\ req[p].kind = "unalias" => req[p].row \in Requests
  <2>1. req[p].kind = "unalias" => req[p].row \in DOMAIN req
    BY DEF MutationInv, AskedFirst
  <2>2. QED
    BY <2>1, Typed, Committing DEF MutationInv
<1>2. req[p].kind = "create" => rec'[req[p].id].status # "absent"
  BY <1>1, CommittedStatus DEF Spent
<1>3. req[p].kind = "edit" => p \in expired \/ key'[p] # Nothing
  BY <1>1, CommittedKey DEF Spent
<1>4. req[p].kind = "retire" => rec'[req[p].id].status \in {"MERGED", "DEPRECATED"}
  BY <1>1, CommittedStatus DEF Spent, Gone
<1>5. req[p].kind = "alias" => alias'[p] # "absent"
  BY <1>1, CommittedAlias DEF Spent
<1>6. req[p].kind = "unalias" => alias'[req[p].row] = "DEPRECATED"
  BY <1>1, CommittedAlias DEF Spent
<1>7. QED
  BY <1>1, <1>2, <1>3, <1>4, <1>5, <1>6 DEF Spent

LEMMA SpentNow ==
  ASSUME MutationInv, NEW h \in Handlers, Commit(h), NEW q, q = handler[h].req
  PROVE  Spent(q)'
<1>1. PICK read \in Record : read = handler[h].read
  BY Committing
<1>2. /\ q \in DOMAIN req /\ req[q] \in Request /\ req[q].id \in Records
      /\ rec[req[q].id] \in Record /\ UNCHANGED <<req, expired>>
  BY Committing
<1>3. rec'[req[q].id].status =
        IF req[q].kind \in {"create", "edit"} THEN "ACTIVE"
        ELSE IF req[q].kind # "retire" THEN rec[req[q].id].status
        ELSE IF req[q].target = Nothing THEN "DEPRECATED" ELSE "MERGED"
  BY <1>1, <1>2, CommittedRecord, WrittenTyped
<1>4. req[q].kind = "edit" => key'[q] # Nothing
  BY CommittedKey
<1>5. /\ req[q].kind = "alias" => alias'[q] # "absent"
      /\ req[q].kind = "unalias" => alias'[req[q].row] = "DEPRECATED"
  BY CommittedAlias
<1>6. QED
  BY <1>2, <1>3, <1>4, <1>5 DEF Spent

\* So it had not.
LEMMA NotBefore ==
  ASSUME MutationInv, NEW h \in Handlers, Commit(h), NEW q, q = handler[h].req,
         req[q].kind # "bound", req[q].kind = "edit" => q \notin expired
  PROVE  Rows(q) = {}
<1>1. PICK read \in Record : read = handler[h].read
  BY Committing
<1>2. /\ q \in DOMAIN req /\ req[q] \in Request /\ ~ Refused(q, read) /\ key[q] = Nothing
  BY <1>1, Committing
<1>3. req[q].kind \in {"create", "edit", "retire", "alias", "unalias", "bound"}
  BY <1>2, RequestTyped
<1>4. ~ Spent(q)
  <2> SUFFICES ASSUME Spent(q) PROVE FALSE
    OBVIOUS
  <2>1. req[q].kind # "alias"
    BY CommittedAlias DEF Spent
  <2>2. req[q].kind # "retire"
    BY <1>2 DEF Spent, Refused, RetireRefused, Active
  <2>3. req[q].kind \notin {"create", "edit", "unalias"}
    BY <1>2 DEF Spent, Refused
  <2>4. QED
    BY <1>3, <2>1, <2>2, <2>3
<1>5. QED
  BY <1>2, <1>4 DEF MutationInv, EffectStays

LEMMA CommitKeeps ==
  ASSUME MutationInv, NEW h \in Handlers, Commit(h)
  PROVE  MutationInv'
<1>1. PICK q \in DOMAIN req : q = handler[h].req
  BY Committing
<1> DEFINE n == Len(audit) + 1
<1>2. q \in Requests /\ req[q].id \in Records /\ UNCHANGED <<req, resends, expired>>
  BY <1>1, Committing
<1>3. /\ handler' \in [Handlers -> {Idle} \cup Attempt] /\ handler'[h] = Idle
      /\ \A g \in Handlers : g # h => handler'[g] = handler[g]
  BY DEF Commit, Respond, MutationInv, TypeOK
<1>4. /\ answers' \in [Requests -> SUBSET Answer]
      /\ \A p \in Requests : p # q => answers'[p] = answers[p]
  <2>1. answers' = [answers EXCEPT ![q] = @ \cup {"ok"}] /\ "ok" \in Answer
    BY <1>1 DEF Commit, Respond, Answer
  <2>2. answers \in [Requests -> SUBSET Answer]
    BY DEF MutationInv, TypeOK
  <2>3. answers[q] \cup {"ok"} \in SUBSET Answer
    BY <1>2, <2>1, <2>2
  <2>4. QED
    BY <1>2, <2>1, <2>2, <2>3
<1>5. torn' \subseteq Records
  <2>1. torn' \in {torn, torn \cup {req[q].id}}
    BY <1>1 DEF Commit
  <2>2. QED
    BY <1>2, <2>1 DEF MutationInv, TypeOK
<1>6. TypeOK'
  BY <1>2, <1>3, <1>4, <1>5, CommittedRecord, CommittedRedirect, CommittedAlias, CommittedKey,
     CommittedAudit DEF MutationInv, TypeOK
<1>7. \A p : Rows(p)' = IF p = q THEN Rows(p) \cup {n} ELSE Rows(p)
  BY <1>1, CommittedAudit
<1> HIDE DEF n
<1>8. OncePerKey'
  <2> SUFFICES ASSUME NEW p \in DOMAIN req, req[p].kind # "bound",
                      req[p].kind = "edit" => p \notin expired
               PROVE  Cardinality(Rows(p)') <= 1
    BY <1>2 DEF OncePerKey
  <2>1. CASE p = q
    <3>1. Rows(p)' = {n}
      BY <1>1, <1>7, <2>1, NotBefore
    <3>2. QED
      BY <3>1, FS_Singleton
  <2>2. CASE p # q
    BY <1>7, <2>2 DEF MutationInv, OncePerKey
  <2>3. QED
    BY <2>1, <2>2
<1>9. DoneIsAudited'
  <2> SUFFICES ASSUME NEW p \in DOMAIN req, req[p].kind # "bound", "ok" \in answers'[p]
               PROVE  Rows(p)' # {}
    BY <1>2 DEF DoneIsAudited
  <2>1. CASE p = q
    BY <1>7, <2>1
  <2>2. CASE p # q
    BY <1>4, <1>7, <2>2, Typed DEF MutationInv, DoneIsAudited
  <2>3. QED
    BY <2>1, <2>2
<1>10. AskedFirst'
  <2>1. \A p \in Requests \ DOMAIN req : alias'[p] = "absent" /\ key'[p] = Nothing /\ answers'[p] = {}
    BY <1>1, <1>4, CommittedAlias, CommittedKey DEF MutationInv, AskedFirst
  <2>2. \A k \in DOMAIN audit' : audit'[k].req \in DOMAIN req
    BY <1>1, CommittedAudit DEF MutationInv, AskedFirst
  <2>3. QED
    BY <1>2, <2>1, <2>2 DEF MutationInv, AskedFirst
<1>11. SnapshotHolds'
  <2> SUFFICES ASSUME NEW g \in Handlers, handler'[g] # Idle
               PROVE  Held(handler[g].pc, handler[g].req, handler[g].read, handler[g].matched,
                           handler[g].seen)'
    BY DEF SnapshotHolds, Held
  <2>1. handler'[g] = handler[g] /\ handler[g] # Idle
    BY <1>3
  <2>2. /\ Held(handler[g].pc, handler[g].req, handler[g].read, handler[g].matched, handler[g].seen)
        /\ handler[g] \in Attempt
    BY <2>1, Working
  <2>3. handler[g].seen \in Nat
    BY <2>2 DEF Attempt
  <2>4. Len(audit) \in Nat /\ Len(audit') = Len(audit) + 1
    BY CommittedAudit
  <2>5. QED
    BY <1>2, <2>1, <2>2, <2>3, <2>4 DEF Held
<1>12. EffectStays'
  <2> SUFFICES ASSUME NEW p \in DOMAIN req
               PROVE  (Rows(p)' # {} => Spent(p)') /\ (key'[p] # Nothing => Rows(p)' # {})
    BY <1>2 DEF EffectStays
  <2>1. CASE p = q
    BY <1>1, <1>7, <2>1, SpentNow
  <2>2. CASE p # q
    <3>1. p \in Requests
      BY Typed DEF MutationInv
    <3>2. QED
      BY <1>1, <1>7, <2>2, <3>1, SpentStays, CommittedKey DEF MutationInv, EffectStays
  <2>3. QED
    BY <2>1, <2>2
<1>13. QED
  BY <1>6, <1>8, <1>9, <1>10, <1>11, <1>12 DEF MutationInv

-----------------------------------------------------------------------------
(***************************************************************************)
(* The theorems.                                                           *)
(***************************************************************************)
\* Every step commits a transaction, or leaves records and redirects alone.
LEMMA NextKeeps ==
  ASSUME MutationInv, [Next]_vars
  PROVE  /\ MutationInv'
         /\ UNCHANGED <<rec, redirect, alias, torn>> \/ \E h \in Handlers : Commit(h)
         /\ \A q \in DOMAIN req : q \in DOMAIN req' /\ req'[q] = req[q]
<1>1. ASSUME NEW new \in Menu, Ask(new)
      PROVE  /\ MutationInv' /\ UNCHANGED <<rec, redirect, alias, torn>>
             /\ \A q \in DOMAIN req : q \in DOMAIN req' /\ req'[q] = req[q]
  BY <1>1, Asked, AskKeeps DEF store
<1>2. ASSUME NEW h \in Handlers, NEW q \in DOMAIN req,
             ReadForEdit(h, q) \/ ReadBoundary(h, q) \/ Receive(h, q)
      PROVE  MutationInv' /\ UNCHANGED <<rec, redirect, alias, torn, req>>
  BY <1>2, ReadForEditKeeps, ReadBoundaryKeeps, ReceiveKeeps
     DEF store, ReadForEdit, ReadBoundary, Receive
<1>3. ASSUME NEW h \in Handlers, ReadParent(h) \/ Mutate(h) \/ RunAgain(h) \/ Fail(h)
      PROVE  MutationInv' /\ UNCHANGED <<rec, redirect, alias, torn, req>>
  BY <1>3, ReadParentKeeps, MutateKeeps, RunAgainKeeps, FailKeeps
     DEF store, ReadParent, Mutate, RunAgain, Fail
<1>4. ASSUME NEW h \in Handlers, Commit(h) PROVE MutationInv' /\ UNCHANGED req
  BY <1>4, CommitKeeps, Committing
<1>5. ASSUME NEW q \in Requests, Expire(q)
      PROVE  MutationInv' /\ UNCHANGED <<rec, redirect, alias, torn, req>>
  BY <1>5, ExpireKeeps DEF Expire
<1>6. CASE UNCHANGED vars
  <2>1. UNCHANGED <<rec, redirect, alias, key, audit, req, handler, answers, resends, expired, torn>>
    BY <1>6 DEF vars
  <2>2. TypeOK' /\ OncePerKey' /\ DoneIsAudited' /\ AskedFirst' /\ EffectStays'
    <3>1. TypeOK' /\ AskedFirst'
      BY <2>1 DEF MutationInv, TypeOK, AskedFirst
    <3>2. \A p : Rows(p)' = Rows(p)
      BY <2>1 DEF Rows
    <3>3. OncePerKey' /\ DoneIsAudited'
      BY <2>1, <3>2 DEF MutationInv, OncePerKey, DoneIsAudited
    <3>4. \A p : Spent(p)' <=> Spent(p)
      BY <2>1 DEF Spent
    <3>5. EffectStays'
      BY <2>1, <3>2, <3>4 DEF MutationInv, EffectStays
    <3>6. QED
      BY <3>1, <3>3, <3>5
  <2>3. SnapshotHolds'
    <3> SUFFICES ASSUME NEW g \in Handlers, handler[g] # Idle
                 PROVE  Held(handler[g].pc, handler[g].req, handler[g].read, handler[g].matched,
                             handler[g].seen)'
      BY <2>1 DEF SnapshotHolds, Held
    <3>1. Held(handler[g].pc, handler[g].req, handler[g].read, handler[g].matched, handler[g].seen)
      BY Working
    <3>2. Refused(handler[g].req, handler[g].read)' <=> Refused(handler[g].req, handler[g].read)
      BY <2>1 DEF Refused, EditRefused, RetireRefused, AliasRefused, AliasTaken, BoundaryMoved, Active
    <3>3. QED
      BY <2>1, <3>1, <3>2 DEF Held
  <2>4. QED
    BY <2>1, <2>2, <2>3 DEF MutationInv
<1>7. QED
  BY <1>1, <1>2, <1>3, <1>4, <1>5, <1>6 DEF Next, Step, vars

LEMMA InitKeeps == Init => MutationInv /\ RedirectsLead
<1> SUFFICES ASSUME Init PROVE MutationInv /\ RedirectsLead
  OBVIOUS
<1>1. /\ DOMAIN req = {} /\ DOMAIN audit = {} /\ Len(req) = 0
      /\ req \in Seq(Request) /\ audit \in Seq([req : Nat, id : Records, evidence : Evidence])
  BY DEF Init
<1>2. TypeOK
  <2>1. /\ rec \in [Records -> Record] /\ redirect \in [Records -> Records \cup {Nothing}]
        /\ alias \in [Requests -> {"absent", "ACTIVE", "DEPRECATED"}]
        /\ key \in [Requests -> Evidence \cup {Nothing}]
        /\ handler \in [Handlers -> {Idle} \cup Attempt]
        /\ answers \in [Requests -> SUBSET Answer]
    BY DEF Init
  <2>2. resends \in Nat /\ expired \subseteq Requests /\ torn \subseteq Records /\ Len(req) <= MaxRequests
    BY <1>1 DEF Init
  <2>3. QED
    BY <1>1, <2>1, <2>2 DEF TypeOK
<1>3. OncePerKey /\ DoneIsAudited /\ EffectStays
  BY <1>1 DEF OncePerKey, DoneIsAudited, EffectStays
<1>4. AskedFirst
  BY <1>1 DEF Init, AskedFirst
<1>5. SnapshotHolds
  BY DEF Init, SnapshotHolds
<1>6. RedirectsLead
  <2>1. Merged = {}
    BY DEF Init, Merged
  <2>2. QED
    BY <2>1 DEF Init, RedirectsLead
<1>7. QED
  BY <1>2, <1>3, <1>4, <1>5, <1>6 DEF MutationInv

\* A merge leads to a record that is not merged, so no cycle is closed.
LEMMA CommitLeads ==
  ASSUME MutationInv, RedirectsLead, NEW h \in Handlers, Commit(h)
  PROVE  RedirectsLead'
<1>1. PICK q \in DOMAIN req : q = handler[h].req
  BY Committing
<1>2. PICK read \in Record : read = handler[h].read
  BY Committing
<1> DEFINE id == req[q].id
           merges == req[q].kind = "retire" /\ req[q].target # Nothing
<1>3. /\ req[q] \in Request /\ id \in Records /\ rec[id] \in Record /\ ~ Refused(q, read)
  BY <1>1, <1>2, Committing
<1>4. rec'[id].status = IF req[q].kind \in {"create", "edit"} THEN "ACTIVE"
                        ELSE IF req[q].kind # "retire" THEN rec[id].status
                        ELSE IF req[q].target = Nothing THEN "DEPRECATED" ELSE "MERGED"
  BY <1>1, <1>2, <1>3, CommittedRecord, WrittenTyped
<1>5. redirect'[id] = IF merges THEN req[q].target ELSE redirect[id]
  BY <1>1, CommittedRedirect
<1>6. \A r \in Records : r # id => rec'[r] = rec[r] /\ redirect'[r] = redirect[r]
  BY <1>1, CommittedRecord, CommittedRedirect
<1>7. /\ req[q].kind = "create" => rec[id].status = "absent"
      /\ req[q].kind \in {"edit", "retire"} => rec[id].status = "ACTIVE"
      /\ merges => /\ req[q].target \in Records /\ req[q].target # id
                   /\ rec[req[q].target].status = "ACTIVE"
  BY <1>3, RequestTyped DEF Refused, EditRefused, RetireRefused, Active
<1> HIDE DEF id
<1>8. \A r \in Records : redirect[r] # Nothing <=> rec[r].status = "MERGED"
  BY DEF RedirectsLead, Merged
<1>9. /\ \A r \in Records : r # id => (r \in Merged' <=> r \in Merged)
      /\ id \in Merged' <=> merges \/ id \in Merged
      /\ merges => id \notin Merged /\ req[q].target \notin Merged'
  BY <1>3, <1>4, <1>6, <1>7 DEF Merged
<1>10. \A r \in Records : redirect'[r] # Nothing <=> r \in Merged'
  <2> SUFFICES ASSUME NEW r \in Records PROVE redirect'[r] # Nothing <=> r \in Merged'
    OBVIOUS
  <2>1. redirect[r] # Nothing <=> r \in Merged
    BY DEF RedirectsLead
  <2>2. CASE r # id
    BY <1>6, <1>9, <2>1, <2>2
  <2>3. CASE r = id
    BY <1>5, <1>9, <2>1, <2>3
  <2>4. QED
    BY <2>2, <2>3
<1>11. ASSUME NEW S \in SUBSET Merged', S # {}
       PROVE  \E r \in S : redirect'[r] \notin S
  <2>1. S \subseteq Records
    BY <1>11 DEF Merged
  <2>2. CASE merges /\ id \in S
    <3>1. redirect'[id] \notin S
      BY <1>5, <1>9, <2>2
    <3>2. QED
      BY <2>2, <3>1
  <2>3. CASE ~ (merges /\ id \in S)
    <3>1. S \subseteq Merged
      BY <1>9, <1>11, <2>1, <2>3
    <3>2. PICK r \in S : redirect[r] \notin S
      BY <1>11, <3>1 DEF RedirectsLead
    <3>3. redirect'[r] = redirect[r]
      BY <1>5, <1>6, <2>1, <2>3
    <3>4. QED
      BY <3>2, <3>3
  <2>4. QED
    BY <2>2, <2>3
<1>12. QED
  BY <1>10, <1>11 DEF RedirectsLead

LEMMA NextLeads == MutationInv /\ RedirectsLead /\ [Next]_vars => RedirectsLead'
<1> SUFFICES ASSUME MutationInv, RedirectsLead, [Next]_vars PROVE RedirectsLead'
  OBVIOUS
<1>1. CASE UNCHANGED <<rec, redirect>>
  BY <1>1 DEF RedirectsLead, Merged
<1>2. QED
  BY <1>1, NextKeeps, CommitLeads

\* What a mutation does to the aliases of its record and to their rows.
LEMMA CommittedLists ==
  ASSUME MutationInv, NEW h \in Handlers, Commit(h), NEW q, q = handler[h].req,
         NEW id, id = req[q].id
  PROVE  \/ /\ req[q].kind = "alias" /\ ~ AliasTaken(q) /\ alias' = [alias EXCEPT ![q] = "ACTIVE"]
            /\ rec'[id].aliases = rec[id].aliases \cup {req[q].value}
         \/ /\ req[q].kind = "unalias" /\ alias[req[q].row] = "ACTIVE"
            /\ alias' = [alias EXCEPT ![req[q].row] = "DEPRECATED"]
            /\ rec'[id].aliases = rec[id].aliases \ {req[req[q].row].value}
         \/ /\ req[q].kind \notin {"alias", "unalias"} /\ alias' = alias
            /\ rec'[id].aliases = rec[id].aliases \/ id \in torn'
<1>1. PICK read \in Record : read = handler[h].read
  BY Committing
<1>2. /\ q \in DOMAIN req /\ req[q] \in Request /\ id \in Records
      /\ rec[id] \in Record /\ ~ Refused(q, read)
  BY <1>1, Committing
<1>3. rec'[id] = Written(rec[id], q, read)
  BY <1>1, CommittedRecord
<1>4. CASE req[q].kind = "alias"
  <2>1. alias' = [alias EXCEPT ![q] = "ACTIVE"]
    BY <1>4 DEF Commit
  <2>2. ~ AliasTaken(q)
    BY <1>2, <1>4 DEF Refused, AliasRefused
  <2>3. rec'[id] = [rec[id] EXCEPT !.aliases = @ \cup {req[q].value}]
    BY <1>3, <1>4 DEF Written
  <2>4. QED
    BY <1>2, <1>4, <2>1, <2>2, <2>3 DEF Record
<1>5. CASE req[q].kind = "unalias"
  <2>1. alias' = [alias EXCEPT ![req[q].row] = "DEPRECATED"]
    BY <1>5 DEF Commit
  <2>2. alias[req[q].row] = "ACTIVE"
    BY <1>2, <1>5 DEF Refused
  <2>3. rec'[id] = [rec[id] EXCEPT !.aliases = @ \ {req[req[q].row].value}]
    BY <1>3, <1>5 DEF Written, Unlisted
  <2>4. QED
    BY <1>2, <1>5, <2>1, <2>2, <2>3 DEF Record
<1>6. CASE req[q].kind \notin {"alias", "unalias"}
  <2>1. alias' = alias
    BY <1>6 DEF Commit
  <2>2. CASE req[q].kind = "edit"
    <3>1. rec'[id].aliases = IF read.aliases = {} THEN rec[id].aliases ELSE read.aliases
      BY <1>2, <1>3, <2>2 DEF Written, Edited, Record
    <3>2. torn' = IF req[q].kind = "edit" /\ read.aliases \notin {{}, rec[id].aliases}
                  THEN torn \cup {id} ELSE torn
      BY <1>1 DEF Commit
    <3>3. QED
      BY <1>6, <2>1, <2>2, <3>1, <3>2
  <2>3. CASE req[q].kind \in {"create", "retire", "bound"}
    <3>1. rec'[id].aliases = rec[id].aliases
      <4>1. CASE req[q].kind = "create"
        BY <1>2, <1>3, <4>1 DEF Written, Record
      <4>2. CASE req[q].kind = "retire"
        <5>1. rec'[id] = Retired(rec[id], q)
          BY <1>3, <4>2 DEF Written
        <5>2. QED
          BY <1>2, <5>1 DEF Retired, Record
      <4>3. CASE req[q].kind = "bound"
        BY <1>2, <1>3, <4>3 DEF Written, Record
      <4>4. QED
        BY <2>3, <4>1, <4>2, <4>3
    <3>2. QED
      BY <1>6, <2>1, <3>1
  <2>4. req[q].kind \in {"create", "edit", "retire", "alias", "unalias", "bound"}
    BY <1>2, RequestTyped
  <2>5. QED
    BY <1>6, <2>2, <2>3, <2>4
<1>7. QED
  BY <1>4, <1>5, <1>6

\* Aliases of one record have different values, so a change to one leaves the
\* others listed as they were.
LEMMA CommitAgrees ==
  ASSUME MutationInv, AliasesAgree, NEW h \in Handlers, Commit(h)
  PROVE  AliasesAgree'
<1>1. PICK q \in DOMAIN req : q = handler[h].req
  BY Committing
<1>2. PICK id \in Records : id = req[q].id
  BY <1>1, Committing
<1>3. /\ req' = req /\ torn \subseteq torn'
      /\ \A r \in Records : r # id => rec'[r] = rec[r]
  BY <1>1, <1>2, Committing, CommittedRecord DEF Commit
<1>4. /\ alias \in [Requests -> {"absent", "ACTIVE", "DEPRECATED"}]
      /\ \A p \in DOMAIN req : p \in Requests /\ req[p].id \in Records
  BY Typed DEF MutationInv, TypeOK
<1>5. \A p \in DOMAIN req : req[p].id # id => rec'[req[p].id].aliases = rec[req[p].id].aliases
  BY <1>3, <1>4
<1>6. CASE /\ req[q].kind = "alias" /\ ~ AliasTaken(q) /\ alias' = [alias EXCEPT ![q] = "ACTIVE"]
           /\ rec'[id].aliases = rec[id].aliases \cup {req[q].value}
  <2>1. alias'[q] = "ACTIVE" /\ \A p \in DOMAIN req : p # q => alias'[p] = alias[p]
    BY <1>4, <1>6
  <2>2. \A p \in DOMAIN req : (req[p].kind = "alias" /\ alias[p] # "absent" /\ req[p].id = id)
           => req[p].value # req[q].value
    BY <1>2, <1>6 DEF AliasTaken
  <2>3. AliasOnce'
    BY <1>2, <1>3, <2>1, <2>2 DEF AliasOnce, AliasesAgree
  <2>4. ASSUME NEW p \in DOMAIN req, req[p].kind = "alias", req[p].id \notin torn'
        PROVE  /\ alias'[p] = "ACTIVE" => req[p].value \in rec'[req[p].id].aliases
               /\ alias'[p] = "DEPRECATED" => req[p].value \notin rec'[req[p].id].aliases
    <3>1. CASE p = q
      BY <1>2, <1>6, <2>1, <3>1
    <3>2. CASE p # q
      <4>1. /\ alias[p] = "ACTIVE" => req[p].value \in rec[req[p].id].aliases
            /\ alias[p] = "DEPRECATED" => req[p].value \notin rec[req[p].id].aliases
        BY <1>3, <2>4 DEF AliasesAgree
      <4>2. QED
        BY <1>5, <1>6, <2>1, <2>2, <2>4, <3>2, <4>1
    <3>3. QED
      BY <3>1, <3>2
  <2>5. QED
    BY <1>3, <2>3, <2>4 DEF AliasesAgree
<1>7. CASE /\ req[q].kind = "unalias" /\ alias[req[q].row] = "ACTIVE"
           /\ alias' = [alias EXCEPT ![req[q].row] = "DEPRECATED"]
           /\ rec'[id].aliases = rec[id].aliases \ {req[req[q].row].value}
  <2>1. PICK row \in DOMAIN req : row = req[q].row /\ req[row].kind = "alias" /\ req[row].id = id
    BY <1>2, <1>7 DEF MutationInv, AskedFirst
  <2>2. alias'[row] = "DEPRECATED" /\ \A p \in DOMAIN req : p # row => alias'[p] = alias[p]
    BY <1>4, <1>7, <2>1
  <2>3. \A p \in DOMAIN req : (/\ req[p].kind = "alias" /\ alias[p] # "absent"
                               /\ req[p].id = id /\ p # row) => req[p].value # req[row].value
    BY <1>7, <2>1 DEF AliasesAgree, AliasOnce
  <2>4. AliasOnce'
    BY <1>3, <1>7, <2>1, <2>2 DEF AliasOnce, AliasesAgree
  <2>5. ASSUME NEW p \in DOMAIN req, req[p].kind = "alias", req[p].id \notin torn'
        PROVE  /\ alias'[p] = "ACTIVE" => req[p].value \in rec'[req[p].id].aliases
               /\ alias'[p] = "DEPRECATED" => req[p].value \notin rec'[req[p].id].aliases
    <3>1. CASE p = row
      BY <1>7, <2>1, <2>2, <3>1
    <3>2. CASE p # row
      <4>1. /\ alias[p] = "ACTIVE" => req[p].value \in rec[req[p].id].aliases
            /\ alias[p] = "DEPRECATED" => req[p].value \notin rec[req[p].id].aliases
        BY <1>3, <2>5 DEF AliasesAgree
      <4>2. QED
        BY <1>5, <1>7, <2>1, <2>2, <2>3, <2>5, <3>2, <4>1
    <3>3. QED
      BY <3>1, <3>2
  <2>6. QED
    BY <1>3, <2>4, <2>5 DEF AliasesAgree
<1>8. CASE /\ req[q].kind \notin {"alias", "unalias"} /\ alias' = alias
           /\ rec'[id].aliases = rec[id].aliases \/ id \in torn'
  <2>1. AliasOnce'
    BY <1>3, <1>8 DEF AliasOnce, AliasesAgree
  <2>2. \A p \in DOMAIN req : req[p].id \notin torn' =>
           rec'[req[p].id].aliases = rec[req[p].id].aliases
    BY <1>5, <1>8
  <2>3. QED
    BY <1>3, <1>8, <2>1, <2>2 DEF AliasesAgree
<1>9. QED
  BY <1>1, <1>2, <1>6, <1>7, <1>8, CommittedLists

LEMMA NextAgrees == MutationInv /\ AliasesAgree /\ [Next]_vars => AliasesAgree'
<1> SUFFICES ASSUME MutationInv, AliasesAgree, [Next]_vars PROVE AliasesAgree'
  OBVIOUS
<1>1. MutationInv' /\ \A q \in DOMAIN req : q \in DOMAIN req' /\ req'[q] = req[q]
  BY NextKeeps
<1>2. CASE UNCHANGED <<rec, redirect, alias, torn>>
  <2>1. \A q \in DOMAIN req' \ DOMAIN req : alias[q] = "absent"
    <3>1. DOMAIN req' \subseteq Requests
      BY <1>1 DEF MutationInv, TypeOK, Requests
    <3>2. QED
      BY <3>1 DEF MutationInv, AskedFirst
  <2>2. AliasOnce'
    BY <1>1, <1>2, <2>1 DEF AliasOnce, AliasesAgree
  <2>3. QED
    BY <1>1, <1>2, <2>1, <2>2 DEF AliasesAgree
<1>3. QED
  BY <1>2, NextKeeps, CommitAgrees

-----------------------------------------------------------------------------
(***************************************************************************)
(* Districts and their regions.                                            *)
(***************************************************************************)
\* An attempt at q that has compared a district's boundary with its region's:
\* the comparison holds unless the region's boundary was edited since.
Fits(q, pc) ==
    /\ req[q].kind = "bound" => rec[req[q].id].status # "absent"
    /\ (/\ pc # "parent" /\ req[q].kind \in {"create", "bound"}
        /\ req[q].id \in Districts /\ ~ RegionMoved(req[q].id)) => Contained(q)

FitInv ==
    /\ DistrictsFit
    /\ \A r \in Records : rec[r].status = "absent" => rec[r].boundary = {}
    /\ \A h \in Handlers : handler[h] # Idle => Fits(handler[h].req, handler[h].pc)

\* Steps that store nothing.
LEMMA FitsOn ==
  ASSUME MutationInv, FitInv, NEW h \in Handlers, NEW new,
         handler' = [handler EXCEPT ![h] = new], UNCHANGED <<rec, audit, req>>,
         new # Idle => Fits(new.req, new.pc)
  PROVE  FitInv'
<1>1. \A d : RegionMoved(d)' <=> RegionMoved(d)
  BY DEF RegionMoved
<1>2. \A q, pc : Fits(q, pc)' <=> Fits(q, pc)
  BY <1>1 DEF Fits, Contained
<1>3. DistrictsFit' /\ \A r \in Records : rec'[r].status = "absent" => rec'[r].boundary = {}
  BY <1>1 DEF FitInv, DistrictsFit
<1>4. ASSUME NEW g \in Handlers, handler'[g] # Idle
      PROVE  Fits(handler[g].req, handler[g].pc)'
  <2>1. handler'[g] = new \/ handler'[g] = handler[g]
    BY DEF MutationInv, TypeOK
  <2>2. ASSUME NEW x, handler'[g] = x, Fits(x.req, x.pc)
        PROVE  Fits(handler[g].req, handler[g].pc)'
    BY <1>1, <2>2 DEF Fits, Contained
  <2>3. CASE handler'[g] = new
    BY <1>4, <2>2, <2>3
  <2>4. CASE handler'[g] = handler[g]
    BY <1>4, <2>2, <2>4 DEF FitInv
  <2>5. QED
    BY <2>1, <2>3, <2>4
<1>5. QED
  BY <1>3, <1>4 DEF FitInv

LEMMA ResponseFits ==
  ASSUME MutationInv, FitInv, NEW h \in Handlers, NEW q, NEW answer,
         Respond(h, q, answer), UNCHANGED <<rec, audit, req>>
  PROVE  FitInv'
BY FitsOn DEF Respond

LEMMA ProceedFits ==
  ASSUME MutationInv, FitInv, NEW h \in Handlers, NEW q \in DOMAIN req, NEW pc,
         Proceed(h, q, pc), UNCHANGED <<rec, audit, req>>, Fits(q, pc)
  PROVE  FitInv'
<1> DEFINE new == [pc |-> pc, req |-> q, read |-> rec[req[q].id], matched |-> FALSE, seen |-> 0]
<1>1. handler' = [handler EXCEPT ![h] = new] /\ new.req = q /\ new.pc = pc
  BY DEF Proceed
<1> HIDE DEF new
<1>2. QED
  BY <1>1, FitsOn

LEMMA ArrivalFits ==
  ASSUME MutationInv, FitInv, NEW h \in Handlers, NEW q \in DOMAIN req,
         ReadForEdit(h, q) \/ ReadBoundary(h, q) \/ Receive(h, q)
  PROVE  FitInv'
<1>1. UNCHANGED <<rec, audit, req>>
  BY DEF ReadForEdit, ReadBoundary, Receive, store
<1>2. CASE ReadForEdit(h, q)
  <2>1. req[q].kind = "edit" /\ (Respond(h, q, "gone") \/ Proceed(h, q, "begin"))
    BY <1>2 DEF ReadForEdit
  <2>2. Fits(q, "begin")
    BY <2>1 DEF Fits
  <2>3. QED
    BY <1>1, <2>1, <2>2, ResponseFits, ProceedFits
<1>3. CASE ReadBoundary(h, q)
  <2> DEFINE pc == IF req[q].id \in Districts THEN "parent" ELSE "begin"
  <2>1. CASE rec[req[q].id].status = "absent"
    <3>1. Respond(h, q, "gone")
      BY <1>3, <2>1 DEF ReadBoundary
    <3>2. QED
      BY <1>1, <3>1, ResponseFits
  <2>2. CASE rec[req[q].id].status # "absent" /\ rec[req[q].id].boundary # req[q].etag
    <3>1. Respond(h, q, "conflict")
      BY <1>3, <2>2 DEF ReadBoundary
    <3>2. QED
      BY <1>1, <3>1, ResponseFits
  <2>3. CASE rec[req[q].id].status # "absent" /\ rec[req[q].id].boundary = req[q].etag
    <3>1. Proceed(h, q, pc)
      BY <1>3, <2>3 DEF ReadBoundary
    <3>2. Fits(q, pc)
      BY <2>3 DEF Fits
    <3> HIDE DEF pc
    <3>3. QED
      BY <1>1, <3>1, <3>2, ProceedFits
  <2>4. QED
    BY <2>1, <2>2, <2>3
<1>4. CASE Receive(h, q)
  <2> DEFINE compares == /\ req[q].kind = "create" /\ req[q].id \in Districts
                         /\ req[q].boundary # {}
             pc == IF compares THEN "parent" ELSE "begin"
  <2>1. Proceed(h, q, pc) /\ req[q].kind # "bound"
    BY <1>4 DEF Receive
  <2>2. Fits(q, pc)
    BY <2>1 DEF Fits, Contained
  <2> HIDE DEF pc
  <2>3. QED
    BY <1>1, <2>1, <2>2, ProceedFits
<1>5. QED
  BY <1>2, <1>3, <1>4

LEMMA WorkFits ==
  ASSUME MutationInv, FitInv, NEW h \in Handlers,
         ReadParent(h) \/ Mutate(h) \/ RunAgain(h) \/ Fail(h)
  PROVE  FitInv'
<1>1. UNCHANGED <<rec, audit, req>> /\ handler[h] # Idle
  BY Busy DEF ReadParent, Mutate, RunAgain, Fail, store
<1>2. PICK q \in DOMAIN req : q = handler[h].req
  BY <1>1, Working
<1>3. handler[h] \in Attempt /\ Fits(q, handler[h].pc)
  BY <1>1, <1>2, Working DEF FitInv
<1>4. ASSUME NEW new, new.req = q, Fits(q, new.pc), handler' = [handler EXCEPT ![h] = new]
      PROVE  FitInv'
  BY <1>1, <1>4, FitsOn
<1>5. CASE ReadParent(h)
  <2> DEFINE new == [handler[h] EXCEPT !.pc = "begin"]
  <2>1. CASE req[q].kind = "bound" /\ ~ Active(req[q].id)
    <3>1. Respond(h, q, "gone")
      BY <1>2, <1>5, <2>1 DEF ReadParent
    <3>2. QED
      BY <1>1, <3>1, ResponseFits
  <2>2. CASE (req[q].kind = "create" \/ Active(req[q].id)) /\ ~ Contained(q)
    <3>1. Respond(h, q, "invalid") \/ Respond(h, q, "gone")
      BY <1>2, <1>5, <2>2 DEF ReadParent
    <3>2. QED
      BY <1>1, <3>1, ResponseFits
  <2>3. CASE /\ ~ (req[q].kind = "bound" /\ ~ Active(req[q].id))
             /\ ~ ((req[q].kind = "create" \/ Active(req[q].id)) /\ ~ Contained(q))
    <3>1. handler' = [handler EXCEPT ![h].pc = "begin"]
      BY <1>2, <1>5, <2>3 DEF ReadParent
    <3>2. handler' = [handler EXCEPT ![h] = new] /\ new.req = q /\ new.pc = "begin"
      BY <1>2, <1>3, <3>1 DEF Attempt
    <3>3. Fits(q, "begin")
      BY <1>3, <2>3 DEF Fits
    <3> HIDE DEF new
    <3>4. QED
      BY <1>4, <3>2, <3>3
  <2>4. QED
    BY <2>1, <2>2, <2>3
<1>6. CASE Mutate(h)
  <2> DEFINE new == [handler[h] EXCEPT !.pc = "append", !.seen = Len(audit),
                                       !.matched = req[q].kind = "bound"]
             claim == Claim(q, EvidenceOf(q, handler[h].read))
  <2>1. \/ \E answer : Respond(h, q, answer)
        \/ handler' = [handler EXCEPT ![h] = new]
    <3>1. CASE claim = "replay"
      BY <1>2, <1>6, <3>1 DEF Mutate
    <3>2. CASE claim = "reused"
      BY <1>2, <1>6, <3>2 DEF Mutate
    <3>3. CASE claim = "new" /\ Refused(q, handler[h].read)
      BY <1>2, <1>6, <3>3 DEF Mutate
    <3>4. CASE claim \notin {"replay", "reused"} /\ ~ (claim = "new" /\ Refused(q, handler[h].read))
      BY <1>2, <1>6, <3>4 DEF Mutate
    <3>5. QED
      BY <3>1, <3>2, <3>3, <3>4
  <2>2. new.req = q /\ new.pc = "append" /\ handler[h].pc = "begin"
    BY <1>2, <1>3, <1>6 DEF Attempt, Mutate
  <2>3. Fits(q, "append")
    BY <1>3, <2>2 DEF Fits
  <2> HIDE DEF new
  <2>4. QED
    BY <1>1, <1>4, <2>1, <2>2, <2>3, ResponseFits
<1>7. CASE RunAgain(h)
  <2> DEFINE new == [handler[h] EXCEPT !.pc = "begin", !.seen = 0]
  <2>1. /\ handler' = [handler EXCEPT ![h] = new] /\ new.req = q /\ new.pc = "begin"
        /\ handler[h].pc = "append"
    BY <1>2, <1>3, <1>7 DEF Attempt, RunAgain
  <2>2. Fits(q, "begin")
    BY <1>3, <2>1 DEF Fits
  <2> HIDE DEF new
  <2>3. QED
    BY <1>4, <2>1, <2>2
<1>8. CASE Fail(h)
  BY <1>1, <1>2, <1>8, ResponseFits DEF Fail
<1>9. QED
  BY <1>5, <1>6, <1>7, <1>8

\* A region's boundary shrinks only when it is edited: before it is created it
\* is empty.
LEMMA CommitFits ==
  ASSUME MutationInv, FitInv, NEW h \in Handlers, Commit(h)
  PROVE  FitInv'
<1>1. PICK q \in DOMAIN req : q = handler[h].req
  BY Committing
<1>2. PICK read \in Record : read = handler[h].read
  BY Committing
<1>3. PICK id \in Records : id = req[q].id
  BY <1>1, Committing
<1>4. /\ req[q] \in Request /\ rec[id] \in Record /\ ~ Refused(q, read) /\ req' = req
      /\ \A r \in Records : r # id => rec'[r] = rec[r]
      /\ handler[h].pc = "append" /\ handler[h] # Idle
  BY <1>1, <1>2, <1>3, Busy, Committing, CommittedRecord DEF Commit
<1>5. rec'[id].boundary = IF req[q].kind \in {"create", "bound"} THEN req[q].boundary
                                                                  ELSE rec[id].boundary
  <2>1. rec'[id] = Written(rec[id], q, read)
    BY <1>1, <1>2, <1>3, CommittedRecord
  <2>2. req[q].kind \in {"create", "edit", "retire", "alias", "unalias", "bound"}
    BY <1>4, RequestTyped
  <2>3. CASE req[q].kind = "create"
    BY <1>4, <2>1, <2>3 DEF Written, Record
  <2>4. CASE req[q].kind = "edit"
    BY <1>4, <2>1, <2>4 DEF Written, Edited, Record
  <2>5. CASE req[q].kind = "retire"
    BY <1>4, <2>1, <2>5 DEF Written, Retired, Record
  <2>6. CASE req[q].kind = "alias"
    BY <1>4, <2>1, <2>6 DEF Written, Record
  <2>7. CASE req[q].kind = "unalias"
    BY <1>4, <2>1, <2>7 DEF Written, Unlisted, Record
  <2>8. CASE req[q].kind = "bound"
    BY <1>4, <2>1, <2>8 DEF Written, Record
  <2>9. QED
    BY <2>2, <2>3, <2>4, <2>5, <2>6, <2>7, <2>8
<1>6. \A r \in Records : rec[r].status # "absent" => rec'[r].status # "absent"
  BY CommittedStatus
<1>7. Fits(q, "append")
  BY <1>1, <1>4 DEF FitInv
<1>8. /\ \A d : RegionMoved(d) => RegionMoved(d)'
      /\ req[q].kind = "bound" => \A d \in Districts : Region[d] = id => RegionMoved(d)'
  <2>1. /\ Len(audit) + 1 \in DOMAIN audit' /\ audit'[Len(audit) + 1].req = q
        /\ audit'[Len(audit) + 1].id = id
        /\ \A k \in DOMAIN audit : k \in DOMAIN audit' /\ audit'[k] = audit[k]
    BY <1>1, <1>3, CommittedAudit
  <2>2. QED
    BY <1>4, <2>1 DEF RegionMoved
<1>9. ASSUME NEW d \in Districts, ~ RegionMoved(d)'
      PROVE  /\ ~ RegionMoved(d)
             /\ rec[Region[d]].boundary \subseteq rec'[Region[d]].boundary
  <2>1. Region[d] \in Records
    OBVIOUS
  <2>2. CASE Region[d] # id
    BY <1>4, <1>8, <1>9, <2>1, <2>2
  <2>3. CASE Region[d] = id
    <3>1. req[q].kind # "bound"
      BY <1>8, <1>9, <2>3
    <3>2. req[q].kind = "create" => rec[id].boundary = {}
      BY <1>3, <1>4 DEF Refused, FitInv
    <3>3. QED
      BY <1>5, <1>8, <1>9, <2>3, <3>1, <3>2
  <2>4. QED
    BY <2>2, <2>3
<1>10. DistrictsFit'
  <2> SUFFICES ASSUME NEW d \in Districts, ~ RegionMoved(d)'
               PROVE  rec'[d].boundary \subseteq rec'[Region[d]].boundary
    BY DEF DistrictsFit
  <2>1. d \in Records /\ rec[d].boundary \subseteq rec[Region[d]].boundary
    BY <1>9 DEF FitInv, DistrictsFit
  <2>2. rec'[d].boundary \subseteq rec[Region[d]].boundary
    <3>1. CASE d # id
      BY <1>4, <2>1, <3>1
    <3>2. CASE d = id /\ req[q].kind \in {"create", "bound"}
      <4>1. Contained(q)
        BY <1>3, <1>7, <1>9, <3>2 DEF Fits
      <4>2. QED
        BY <1>3, <1>5, <3>2, <4>1 DEF Contained
    <3>3. CASE d = id /\ req[q].kind \notin {"create", "bound"}
      BY <1>5, <2>1, <3>3
    <3>4. QED
      BY <3>1, <3>2, <3>3
  <2>3. QED
    BY <1>9, <2>2
<1>11. ASSUME NEW r \in Records, rec'[r].status = "absent" PROVE rec'[r].boundary = {}
  <2>1. rec[r].status = "absent" /\ rec[r].boundary = {}
    BY <1>6, <1>11 DEF FitInv
  <2>2. CASE r # id
    BY <1>4, <2>1, <2>2
  <2>3. CASE r = id
    <3>1. req[q].kind # "bound"
      BY <1>3, <1>7, <2>1, <2>3 DEF Fits
    <3>2. req[q].kind # "create"
      BY <1>1, <1>2, <1>3, <1>4, <1>11, <2>3, CommittedRecord, WrittenTyped
    <3>3. QED
      BY <1>5, <2>1, <2>3, <3>1, <3>2
  <2>4. QED
    BY <2>2, <2>3
<1>12. ASSUME NEW g \in Handlers, handler'[g] # Idle
       PROVE  Fits(handler[g].req, handler[g].pc)'
  <2>1. handler'[g] = handler[g] /\ handler[g] # Idle
    BY <1>12 DEF Commit, Respond, MutationInv, TypeOK
  <2>2. PICK p \in DOMAIN req : p = handler[g].req
    BY <2>1, Working
  <2>3. Fits(p, handler[g].pc) /\ req[p].id \in Records
    BY <2>1, <2>2, Typed DEF FitInv, MutationInv
  <2>4. QED
    BY <1>4, <1>6, <1>9, <2>1, <2>2, <2>3 DEF Fits, Contained
<1>13. QED
  BY <1>10, <1>11, <1>12 DEF FitInv

LEMMA NextFits == MutationInv /\ FitInv /\ [Next]_vars => FitInv'
<1> SUFFICES ASSUME MutationInv, FitInv, [Next]_vars PROVE FitInv'
  OBVIOUS
<1>1. ASSUME \/ \E new \in Menu : Ask(new)
             \/ \E q \in Requests : Expire(q)
             \/ UNCHANGED vars
      PROVE  FitInv'
  <2>1. /\ UNCHANGED <<rec, audit, handler>>
        /\ \A q \in DOMAIN req : q \in DOMAIN req' /\ req'[q] = req[q]
    BY <1>1, NextKeeps DEF Ask, Expire, store, vars
  <2>2. \A n \in DOMAIN audit : audit[n].req \in DOMAIN req
    BY DEF MutationInv, AskedFirst
  <2>3. \A d : RegionMoved(d)' <=> RegionMoved(d)
    BY <2>1, <2>2 DEF RegionMoved
  <2>4. ASSUME NEW g \in Handlers, handler[g] # Idle
        PROVE  Fits(handler[g].req, handler[g].pc)'
    <3>1. PICK p \in DOMAIN req : p = handler[g].req
      BY <2>4, Working
    <3>2. Fits(p, handler[g].pc)
      BY <2>4, <3>1 DEF FitInv
    <3>3. QED
      BY <2>1, <2>3, <3>1, <3>2 DEF Fits, Contained
  <2>5. QED
    BY <2>1, <2>3, <2>4 DEF FitInv, DistrictsFit
<1>2. QED
  BY <1>1, ArrivalFits, WorkFits, CommitFits DEF Next, Step

(***************************************************************************)
(* However often a request with one Idempotency-Key is sent, fails and     *)
(* comes back, it takes effect once, and what was answered as done has its *)
(* audit row (AdminGeographyRepo.atomic and claim).                        *)
(***************************************************************************)
THEOREM OnceWithEvidence == Spec => []MutationInv
<1>1. Init => MutationInv
  BY InitKeeps
<1>2. MutationInv /\ [Next]_vars => MutationInv'
  BY NextKeeps
<1>3. QED
  BY <1>1, <1>2, PTL DEF Spec

(***************************************************************************)
(* However merges interleave, every merged id leads to a record that was   *)
(* not merged: the redirects have no cycle (AdminGeographyRepo.Deprecate). *)
(***************************************************************************)
THEOREM RedirectsEnd == Spec => []RedirectsLead
<1>1. Init => RedirectsLead
  BY InitKeeps
<1>2. QED
  BY <1>1, OnceWithEvidence, NextLeads, PTL DEF Spec

(***************************************************************************)
(* No step brings a merged or deprecated record back or moves its          *)
(* redirect, whatever had been read of it before (AdminGeographyRepo).     *)
(***************************************************************************)
THEOREM RetiredForGood == Spec => RetiredStays
<1>1. MutationInv /\ [Next]_vars =>
         [\A r \in Records : rec[r].status \in {"MERGED", "DEPRECATED"} =>
             rec'[r].status = rec[r].status /\ redirect'[r] = redirect[r]]_vars
  <2> SUFFICES ASSUME MutationInv, [Next]_vars, NEW r \in Records, rec[r].status \in Gone
               PROVE  rec'[r].status = rec[r].status /\ redirect'[r] = redirect[r]
    BY DEF Gone
  <2>1. CASE UNCHANGED <<rec, redirect>>
    BY <2>1
  <2>2. ASSUME NEW h \in Handlers, Commit(h)
        PROVE  rec'[r].status = rec[r].status /\ redirect'[r] = redirect[r]
    BY <2>2, CommittedStatus
  <2>3. QED
    BY <2>1, <2>2, NextKeeps
<1>2. QED
  BY <1>1, OnceWithEvidence, PTL DEF Spec, RetiredStays

(***************************************************************************)
(* A place lists its active aliases and no deprecated one, unless an edit  *)
(* wrote back a list it had read before another request changed it         *)
(* (AdminGeographyRepo.CreateAlias, DeprecateAlias and UpdatePlace).       *)
(***************************************************************************)
THEOREM AliasesStayTrue == Spec => []AliasesAgree
<1>1. Init => AliasesAgree
  <2> SUFFICES ASSUME Init PROVE AliasesAgree
    OBVIOUS
  <2>1. DOMAIN req = {}
    BY DEF Init
  <2>2. QED
    BY <2>1 DEF AliasesAgree, AliasOnce
<1>2. QED
  BY <1>1, OnceWithEvidence, NextAgrees, PTL DEF Spec
(***************************************************************************)
(* A district's boundary is within its region's until the region's own is  *)
(* edited, although they are compared outside the transaction that stores  *)
(* it (CreateAdminGeography, UpdateAdminBoundary).                         *)
(***************************************************************************)
THEOREM DistrictsStayWithin == Spec => []DistrictsFit
<1>1. Init => FitInv
  BY DEF Init, FitInv, DistrictsFit
<1>2. FitInv => DistrictsFit
  BY DEF FitInv
<1>3. QED
  BY <1>1, <1>2, OnceWithEvidence, NextFits, PTL DEF Spec
=============================================================================
