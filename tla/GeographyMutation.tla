-------------------------- MODULE GeographyMutation --------------------------
(***************************************************************************)
(* Stewards' changes to the canonical records: internal/app/geography      *)
(* (mutations.go) over internal/adapters/mongo (admin_geography.go and the *)
(* boundary writes of repositories.go).                                    *)
(*                                                                         *)
(* A request carries an Idempotency-Key, here its number; a client that    *)
(* heard nothing sends it again, so two attempts at one request may run at *)
(* once, in any replica.  What an attempt reads first is read outside its  *)
(* transaction.  The transaction claims the key, mutates the records and   *)
(* appends the audit row, or does nothing.  Any two such transactions      *)
(* write-conflict on the audit chain (AuditLog, ChainFollowsCommits): one  *)
(* whose snapshot is older than the newest audit row is run again.         *)
(*                                                                         *)
(* A record stands for one of any collection.  Its fields are abstracted   *)
(* to a required one (name) and an optional one (code); a boundary is the  *)
(* set of cells it covers, none if there is no geometry.                   *)
(***************************************************************************)
EXTENDS Integers, Sequences, FiniteSets

CONSTANTS
    Records,     \* stable ids of regions, districts, places, roads and POIs
    Districts,   \* those of them that are districts
    Region,      \* Region[d]: the region of district d
    Names,       \* values of a required field
    Codes,       \* values of an optional field
    Values,      \* normalised alias values
    Cells,       \* the ground boundaries cover
    Menu,        \* bound: what clients may ask for
    Handlers,    \* requests the replicas can run at the same time
    MaxRequests, \* bound: requests issued
    MaxOpen,     \* bound: requests not answered yet
    MaxResends,  \* bound: times a request is sent again
    MaxExpired,  \* bound: claims that expire
    Nothing      \* no record, no state, no claim

ASSUME RegionAssumption ==
    Districts \subseteq Records /\ Region \in [Districts -> Records \ Districts]

ASSUME BoundsAssumption ==
    {MaxRequests, MaxOpen, MaxResends, MaxExpired} \subseteq Nat

Blank == "blank"  \* an optional field that is not there
Keep == "keep"    \* a field that a PATCH leaves out

\* alias requests make the row of their own number, unalias names one.
Request ==
    [kind : {"create"}, id : Records, name : Names, boundary : SUBSET Cells]
    \cup [kind : {"edit"}, id : Records, name : Names \cup {Keep},
          code : Codes \cup {Blank, Keep}]
    \cup [kind : {"retire"}, id : Records, target : Records \cup {Nothing}]
    \cup [kind : {"alias"}, id : Records, value : Values]
    \cup [kind : {"unalias"}, id : Records, row : Nat]
    \cup [kind : {"bound"}, id : Records, etag : SUBSET Cells, boundary : SUBSET Cells]

ASSUME MenuAssumption == Menu \subseteq Request

VARIABLES
    rec,       \* the canonical collections
    redirect,  \* place_redirects: where a merged id leads
    alias,     \* place_aliases: the status of the row request q made
    key,       \* admin_mutation_keys: the evidence request q claimed
    audit,     \* the audit rows of mutations that took effect
    req,       \* the requests issued
    handler,   \* handler[h]: the attempt h works on, with what it read
    answers,   \* answers[q]: what attempts at q were answered
    resends,   \* times a request was sent again
    expired,   \* requests whose claim expired (history)
    torn       \* records whose aliases an edit wrote back stale (history)

vars == <<rec, redirect, alias, key, audit, req, handler, answers, resends, expired, torn>>

store == <<rec, redirect, alias, key, audit, torn>>

Status == {"absent", "ACTIVE", "MERGED", "DEPRECATED"}

Record ==
    [status : Status, name : Names, code : Codes \cup {Blank},
     aliases : SUBSET Values, boundary : SUBSET Cells]

\* What an edit's evidence shows of a record, and what other evidence does not.
State == [name : Names, code : Codes \cup {Blank}]

Evidence == [before : State \cup {Nothing}, after : State \cup {Nothing}]

ASSUME ValuesAssumption ==
    /\ Nothing \notin Records \cup State \cup Evidence
    /\ {Blank, Keep} \cap (Names \cup Codes) = {}

Idle == [pc |-> "idle"]

\* read: the record, as an edit or a boundary change read it first; matched:
\* a run of the transaction has found the boundary as expected; seen: the
\* audit rows in the transaction's snapshot.
Attempt == [pc : {"parent", "begin", "append"}, req : Nat, read : Record,
            matched : BOOLEAN, seen : Nat]

Answer == {"ok", "gone", "conflict", "reused", "refused", "invalid", "internal"}

Requests == 1..MaxRequests

TypeOK ==
    /\ rec \in [Records -> Record]
    /\ redirect \in [Records -> Records \cup {Nothing}]
    /\ alias \in [Requests -> {"absent", "ACTIVE", "DEPRECATED"}]
    /\ key \in [Requests -> Evidence \cup {Nothing}]
    /\ audit \in Seq([req : Nat, id : Records, evidence : Evidence])
    /\ req \in Seq(Request) /\ Len(req) <= MaxRequests
    /\ handler \in [Handlers -> {Idle} \cup Attempt]
    /\ answers \in [Requests -> SUBSET Answer]
    /\ resends \in Nat
    /\ expired \subseteq Requests
    /\ torn \subseteq Records

-----------------------------------------------------------------------------
Active(r) == rec[r].status = "ACTIVE"

\* RegionChanges.applyTo and its siblings.
Changed(r, q) ==
    [name |-> IF req[q].name = Keep THEN r.name ELSE req[q].name,
     code |-> IF req[q].code = Keep THEN r.code ELSE req[q].code]

Shown(r) == [name |-> r.name, code |-> r.code]

\* mutationEvidence: only an edit shows the state it changed.
EvidenceOf(q, r) ==
    IF req[q].kind = "edit" THEN [before |-> Shown(r), after |-> Changed(r, q)]
                            ELSE [before |-> Nothing, after |-> Nothing]

\* An edit that finds its record by id alone.
EditRefused_AnyStatus(q) == FALSE

EditRefused(q) == ~ Active(req[q].id)

RetireRefused(q) ==
    \/ ~ Active(req[q].id)
    \/ /\ req[q].target # Nothing
       /\ req[q].target = req[q].id \/ ~ Active(req[q].target)

\* The unique index on place and value counts deprecated rows too.
AliasTaken(q) ==
    \E p \in DOMAIN req :
       /\ req[p].kind = "alias" /\ alias[p] # "absent"
       /\ req[p].id = req[q].id /\ req[p].value = req[q].value

AliasRefused(q) ==
    \/ ~ Active(req[q].id)
    \/ AliasTaken(q)
    \/ req[q].value \in rec[req[q].id].aliases

BoundaryMoved(q, read) == rec[req[q].id].boundary # read.boundary

\* Why mutate fails in the transaction.
Refused(q, read) ==
    \/ req[q].kind = "create" /\ rec[req[q].id].status # "absent"
    \/ req[q].kind = "edit" /\ EditRefused(q)
    \/ req[q].kind = "retire" /\ RetireRefused(q)
    \/ req[q].kind = "alias" /\ AliasRefused(q)
    \/ req[q].kind = "unalias" /\ alias[req[q].row] # "ACTIVE"
    \/ req[q].kind = "bound" /\ BoundaryMoved(q, read)

\* toPlaceDoc and mergeFields: a blank field or an empty list is left out of
\* the $set, everything else is written as it was read.
Edited(r, q, read) ==
    LET next == Changed(read, q)
    IN [r EXCEPT !.status = "ACTIVE", !.name = next.name,
                 !.code = IF next.code = Blank THEN @ ELSE next.code,
                 !.aliases = IF read.aliases = {} THEN @ ELSE read.aliases]

Retired(r, q) ==
    [r EXCEPT !.status = IF req[q].target = Nothing THEN "DEPRECATED" ELSE "MERGED"]

\* Without the $pull.
Unlisted_Left(r, q) == r

Unlisted(r, q) == [r EXCEPT !.aliases = @ \ {req[req[q].row].value}]

\* The record of q after q.
Written(r, q, read) ==
    CASE req[q].kind = "create"  ->
           [r EXCEPT !.status = "ACTIVE", !.name = req[q].name, !.code = Blank,
                     !.boundary = req[q].boundary]
      [] req[q].kind = "edit"    -> Edited(r, q, read)
      [] req[q].kind = "retire"  -> Retired(r, q)
      [] req[q].kind = "alias"   -> [r EXCEPT !.aliases = @ \cup {req[q].value}]
      [] req[q].kind = "unalias" -> Unlisted(r, q)
      [] req[q].kind = "bound"   -> [r EXCEPT !.boundary = req[q].boundary]

-----------------------------------------------------------------------------
\* A client asks.  It has loaded the boundary it edits; the alias it retires
\* is one that was asked for.
Ask(q) ==
    /\ Len(req) < MaxRequests
    /\ Cardinality({p \in DOMAIN req : answers[p] = {}}) < MaxOpen
    /\ q.kind = "bound" => q.etag = rec[q.id].boundary
    /\ q.kind = "unalias" =>
          q.row \in DOMAIN req /\ req[q.row].kind = "alias" /\ req[q.row].id = q.id
    /\ req' = Append(req, q)
    /\ UNCHANGED <<store, handler, answers, resends, expired>>

\* Request q arrives at a handler, for the first time or again.
Arrives(h, q) ==
    /\ handler[h] = Idle
    /\ IF answers[q] = {} /\ \A g \in Handlers : handler[g] = Idle \/ handler[g].req # q
       THEN UNCHANGED resends
       ELSE resends < MaxResends /\ resends' = resends + 1

Respond(h, q, answer) ==
    /\ handler' = [handler EXCEPT ![h] = Idle]
    /\ answers' = [answers EXCEPT ![q] = @ \cup {answer}]

Proceed(h, q, pc) ==
    /\ handler' = [handler EXCEPT ![h] =
                     [pc |-> pc, req |-> q, read |-> rec[req[q].id],
                      matched |-> FALSE, seen |-> 0]]
    /\ UNCHANGED answers

\* UpdateRegion, UpdateDistrict, UpdatePlace: GetX answers 404 or 410.
ReadForEdit(h, q) ==
    /\ req[q].kind = "edit"
    /\ Arrives(h, q)
    /\ IF Active(req[q].id) THEN Proceed(h, q, "begin") ELSE Respond(h, q, "gone")
    /\ UNCHANGED <<store, req, expired>>

\* UpdateAdminBoundary: GetGeometry, then If-Match.
ReadBoundary(h, q) ==
    /\ req[q].kind = "bound"
    /\ Arrives(h, q)
    /\ LET r == rec[req[q].id]
       IN CASE r.status = "absent"         -> Respond(h, q, "gone")
            [] r.status # "absent" /\ r.boundary # req[q].etag -> Respond(h, q, "conflict")
            [] OTHER -> Proceed(h, q, IF req[q].id \in Districts THEN "parent" ELSE "begin")
    /\ UNCHANGED <<store, req, expired>>

\* The other use cases read nothing first, but a new district's boundary is
\* compared with its region's.
Receive(h, q) ==
    /\ req[q].kind \in {"create", "retire", "alias", "unalias"}
    /\ Arrives(h, q)
    /\ Proceed(h, q, IF /\ req[q].kind = "create" /\ req[q].id \in Districts
                        /\ req[q].boundary # {}
                     THEN "parent" ELSE "begin")
    /\ UNCHANGED <<store, req, expired>>

\* A boundary is taken as it comes.
Contained_Unchecked(q) == TRUE

Contained(q) == req[q].boundary \subseteq rec[Region[req[q].id]].boundary

\* The district boundary must be within its region's, as that is stored now.
ReadParent(h) ==
    /\ handler[h].pc = "parent"
    /\ LET q == handler[h].req
       IN CASE req[q].kind = "bound" /\ ~ Active(req[q].id) -> Respond(h, q, "gone")
            [] (req[q].kind = "create" \/ Active(req[q].id)) /\ ~ Contained(q) ->
                  Respond(h, q, "invalid")
            [] OTHER -> /\ handler' = [handler EXCEPT ![h].pc = "begin"]
                        /\ UNCHANGED answers
    /\ UNCHANGED <<store, req, resends, expired>>

\* claim; a boundary change claims no key.
Claim(q, e) ==
    CASE req[q].kind = "bound" \/ key[q] = Nothing -> "new"
      [] req[q].kind # "bound" /\ key[q] = e       -> "replay"
      [] OTHER                                     -> "reused"

\* A transaction that has written a record keeps others from writing it: they
\* are run again until it ends.
Locked(h) ==
    \E g \in Handlers \ {h} :
       handler[g].pc = "append" /\ req[handler[g].req].id = req[handler[h].req].id

\* atomicGeometryCAS returns whether any run of its closure has matched.
Swapped(h) == IF handler[h].matched THEN "ok" ELSE "refused"

\* atomic: the snapshot is taken, the key claimed and mutate run.
Mutate(h) ==
    /\ handler[h].pc = "begin"
    /\ ~ Locked(h)
    /\ LET q == handler[h].req
           claim == Claim(q, EvidenceOf(q, handler[h].read))
       IN CASE claim = "replay" -> Respond(h, q, "ok")
            [] claim = "reused" -> Respond(h, q, "reused")
            [] claim = "new" /\ Refused(q, handler[h].read) -> Respond(h, q, Swapped(h))
            [] OTHER -> /\ handler' = [handler EXCEPT
                             ![h].pc = "append", ![h].seen = Len(audit),
                             ![h].matched = req[q].kind = "bound"]
                        /\ UNCHANGED answers
    /\ UNCHANGED <<store, req, resends, expired>>

\* Two transactions that append from one snapshot both commit.
Conflicts_Never(h) == FALSE

\* Another row was committed after the snapshot.
Conflicts(h) == Len(audit) # handler[h].seen

\* The transaction with its audit row commits.
Commit(h) ==
    /\ handler[h].pc = "append"
    /\ ~ Conflicts(h)
    /\ LET q == handler[h].req
           id == req[q].id
           read == handler[h].read
           e == EvidenceOf(q, read)
           to == IF req[q].kind = "retire" THEN req[q].target ELSE Nothing
       IN /\ rec' = [rec EXCEPT ![id] = Written(@, q, read)]
          /\ redirect' = [redirect EXCEPT ![id] = IF to = Nothing THEN @ ELSE to]
          /\ alias' = CASE req[q].kind = "alias"   -> [alias EXCEPT ![q] = "ACTIVE"]
                        [] req[q].kind = "unalias" ->
                              [alias EXCEPT ![req[q].row] = "DEPRECATED"]
                        [] OTHER -> alias
          /\ key' = [key EXCEPT ![q] = IF req[q].kind = "bound" THEN @ ELSE e]
          /\ audit' = Append(audit, [req |-> q, id |-> id, evidence |-> e])
          /\ torn' = IF req[q].kind = "edit" /\ read.aliases \notin {{}, rec[id].aliases}
                     THEN torn \cup {id} ELSE torn
          /\ Respond(h, q, "ok")
    /\ UNCHANGED <<req, resends, expired>>

\* The driver runs the closure again, with what was read before it.
RunAgain(h) ==
    /\ handler[h].pc = "append"
    /\ Conflicts(h)
    /\ handler' = [handler EXCEPT ![h].pc = "begin", ![h].seen = 0]
    /\ UNCHANGED <<store, req, answers, resends, expired>>

\* A claim that is made before the transaction and outlives it.
Fail_ClaimStays(h) ==
    /\ handler[h] # Idle
    /\ Respond(h, handler[h].req, "internal")
    /\ key' = [key EXCEPT ![handler[h].req] = EvidenceOf(handler[h].req, handler[h].read)]
    /\ UNCHANGED <<rec, redirect, alias, audit, torn, req, resends, expired>>

\* The transaction aborts for good, or the process dies.
Fail(h) ==
    /\ handler[h] # Idle
    /\ Respond(h, handler[h].req, "internal")
    /\ UNCHANGED <<store, req, resends, expired>>

\* The index on createdAt drops a claim after a day.
Expire(q) ==
    /\ Cardinality(expired) < MaxExpired
    /\ key[q] # Nothing
    /\ key' = [key EXCEPT ![q] = Nothing]
    /\ expired' = expired \cup {q}
    /\ UNCHANGED <<rec, redirect, alias, audit, torn, req, handler, answers, resends>>

Init ==
    /\ rec \in [Records -> Record]
    /\ \A r \in Records : rec[r].status \in {"absent", "ACTIVE"}
    /\ \A r \in Records : rec[r].status = "absent" => rec[r].aliases \cup rec[r].boundary = {}
    /\ \A d \in Districts : rec[d].boundary \subseteq rec[Region[d]].boundary
    /\ redirect = [r \in Records |-> Nothing]
    /\ alias = [q \in Requests |-> "absent"]
    /\ key = [q \in Requests |-> Nothing]
    /\ audit = << >>
    /\ req = << >>
    /\ handler = [h \in Handlers |-> Idle]
    /\ answers = [q \in Requests |-> {}]
    /\ resends = 0
    /\ expired = {}
    /\ torn = {}

Step(h) == ReadParent(h) \/ Mutate(h) \/ Commit(h) \/ RunAgain(h)

Next ==
    \/ \E q \in Menu : Ask(q)
    \/ \E h \in Handlers, q \in DOMAIN req :
          ReadForEdit(h, q) \/ ReadBoundary(h, q) \/ Receive(h, q)
    \/ \E h \in Handlers : Step(h) \/ Fail(h)
    \/ \E q \in Requests : Expire(q)

Spec == Init /\ [][Next]_vars

-----------------------------------------------------------------------------
Merged == {r \in Records : rec[r].status = "MERGED"}

(***************************************************************************)
(* Every merged id leads somewhere, and following redirects ends at a      *)
(* record that was not merged: no merges, however they interleave, close a *)
(* cycle, although a merge only reads its target.  ("redirect preserves a  *)
(* merged or deprecated ID so old identifiers keep resolving",             *)
(* domain/geography.)                                                      *)
(***************************************************************************)
RedirectsLead ==
    /\ \A r \in Records : redirect[r] # Nothing <=> r \in Merged
    /\ \A S \in SUBSET Merged : S # {} => \E r \in S : redirect[r] \notin S

(***************************************************************************)
(* A record that was merged or deprecated stays so and keeps its redirect: *)
(* not even an edit that had read it while it was active brings it back.   *)
(***************************************************************************)
RetiredStays ==
    [][\A r \in Records : rec[r].status \in {"MERGED", "DEPRECATED"} =>
          rec'[r].status = rec[r].status /\ redirect'[r] = redirect[r]]_vars

Rows(q) == {n \in DOMAIN audit : audit[n].req = q}

\* A request other than an edit or a boundary change takes effect once even
\* when it comes back after its claim expired.
OncePerKey ==
    \A q \in DOMAIN req :
       (req[q].kind # "bound" /\ (req[q].kind = "edit" => q \notin expired))
          => Cardinality(Rows(q)) <= 1

DoneIsAudited ==
    \A q \in DOMAIN req :
       (req[q].kind # "bound" /\ "ok" \in answers[q]) => Rows(q) # {}

\* Nothing is known of a request before it is asked; an alias that is to be
\* retired was asked for.
AskedFirst ==
    /\ \A q \in Requests \ DOMAIN req :
          alias[q] = "absent" /\ key[q] = Nothing /\ answers[q] = {}
    /\ \A n \in DOMAIN audit : audit[n].req \in DOMAIN req
    /\ \A q \in DOMAIN req : req[q].kind = "unalias" =>
          /\ req[q].row \in DOMAIN req
          /\ req[req[q].row].kind = "alias" /\ req[req[q].row].id = req[q].id

\* What the transaction of h found holds until another one commits.
SnapshotHolds ==
    \A h \in Handlers : handler[h] # Idle =>
       LET q == handler[h].req
       IN /\ q \in DOMAIN req
          /\ handler[h].matched => req[q].kind = "bound"
          /\ handler[h].pc = "append" =>
                /\ handler[h].seen <= Len(audit)
                /\ handler[h].seen = Len(audit) =>
                      /\ ~ Refused(q, handler[h].read)
                      /\ req[q].kind # "bound" => key[q] = Nothing

\* Why request q cannot take effect again.
Spent(q) ==
    /\ req[q].kind = "create"  => rec[req[q].id].status # "absent"
    /\ req[q].kind = "edit"    => q \in expired \/ key[q] # Nothing
    /\ req[q].kind = "retire"  => rec[req[q].id].status \in {"MERGED", "DEPRECATED"}
    /\ req[q].kind = "alias"   => alias[q] # "absent"
    /\ req[q].kind = "unalias" => alias[req[q].row] = "DEPRECATED"

EffectStays ==
    \A q \in DOMAIN req :
       /\ Rows(q) # {} => Spent(q)
       /\ key[q] # Nothing => Rows(q) # {}

(***************************************************************************)
(* However often a request is sent, it takes effect once, with one audit   *)
(* row; and a mutation that was answered as done is in the log, also when  *)
(* the answer came from the claim of an earlier attempt.                   *)
(***************************************************************************)
MutationInv ==
    TypeOK /\ OncePerKey /\ DoneIsAudited /\ AskedFirst /\ SnapshotHolds /\ EffectStays

(***************************************************************************)
(* A boundary that was answered as saved was saved, with its audit row:    *)
(* "Every mutation writes an audit row" (mutations.go).                    *)
(***************************************************************************)
BoundaryIsAudited ==
    \A q \in DOMAIN req :
       (req[q].kind = "bound" /\ "ok" \in answers[q]) => Rows(q) # {}

\* An alias of a record has one row.
AliasOnce ==
    \A p, q \in DOMAIN req :
       (/\ req[p].kind = "alias" /\ alias[p] # "absent"
        /\ req[q].kind = "alias" /\ alias[q] # "absent"
        /\ req[p].id = req[q].id /\ req[p].value = req[q].value) => p = q

(***************************************************************************)
(* A place lists the aliases that are active and none that was deprecated, *)
(* unless an edit wrote back a list it had read before another request     *)
(* changed it: that is the only way the two part.                          *)
(***************************************************************************)
AliasesAgree ==
    /\ AliasOnce
    /\ \A q \in DOMAIN req : (req[q].kind = "alias" /\ req[q].id \notin torn) =>
          /\ alias[q] = "ACTIVE" => req[q].value \in rec[req[q].id].aliases
          /\ alias[q] = "DEPRECATED" => req[q].value \notin rec[req[q].id].aliases

RegionMoved(d) ==
    \E n \in DOMAIN audit : req[audit[n].req].kind = "bound" /\ audit[n].id = Region[d]

(***************************************************************************)
(* Districts stay within their region as long as the region's own boundary *)
(* is not edited, which checks no district.                                *)
(***************************************************************************)
DistrictsFit ==
    \A d \in Districts :
       ~ RegionMoved(d) => rec[d].boundary \subseteq rec[Region[d]].boundary
=============================================================================
