---------------------------- MODULE ChangeRequest ----------------------------
(***************************************************************************)
(* Moderated proposals: internal/app/changerequest over the lifecycle of   *)
(* internal/domain/changerequest and the repository of                     *)
(* internal/adapters/mongo/change_requests.go.                             *)
(*                                                                         *)
(* A command is what a client sends under one Idempotency-Key, with the    *)
(* version of the document it was looking at; the key is the number of the *)
(* command.  A client that heard nothing sends the command again, so that  *)
(* several attempts at it may run at the same time, in any replica: each   *)
(* reads, decides, writes in a transaction with its audit row, and, if the *)
(* document moved on, reads again to tell a replay from a conflict.        *)
(* Proposals are told apart by the command that made them.                 *)
(***************************************************************************)
EXTENDS Integers, Sequences, FiniteSets

CONSTANTS
    Actors,       \* signed-in people who may propose changes
    Reviewers,    \* those of them who may also review
    Handlers,     \* requests the replicas can run at the same time
    MaxDocs,      \* bound: while there are fewer documents, one may be submitted
    MaxCommands,  \* bound: commands issued
    MaxOpen,      \* bound: commands not answered yet
    MaxResends    \* bound: times a command is sent again

ASSUME ActorsAssumption == Reviewers \subseteq Actors
ASSUME BoundsAssumption == {MaxDocs, MaxCommands, MaxOpen, MaxResends} \subseteq Nat

VARIABLES
    docs,     \* the change_requests collection, in the order of creation
    audit,    \* the audit rows of the collection: document and key
    cmd,      \* the commands issued
    handler,  \* handler[h]: the attempt h works on, with the document it read
    answers,  \* answers[c]: what attempts at command c were answered
    resends,  \* times a command was sent again
    unread    \* history: commands answered a conflict although the document
              \* could not be read again

vars == <<docs, audit, cmd, handler, answers, resends, unread>>

Nobody == "nobody"

ASSUME NobodyAssumption == Nobody \notin Actors

State == {"submitted", "in_review", "changes_requested", "approved", "rejected"}

Terminal == {"approved", "rejected"}

Review == State \ {"submitted"}

Event == [key : Nat, actor : Actors, to : State]

Comments == [key : Nat, actor : Actors]

Doc == [key : Nat, submitter : Actors, reviewer : Actors \cup {Nobody},
        state : State, version : Nat, history : Seq(Event),
        comments : Seq(Comments), revisions : Seq(Nat)]

\* seen: the revisions the client was shown.
Command == [kind : {"submit", "transition", "revise", "comment"}, actor : Actors,
            doc : Nat, expected : Nat, to : State, seen : Nat, sent : BOOLEAN]

Idle == [pc |-> "idle"]

Attempt == [pc : {"create"}, cmd : Nat]
           \cup [pc : {"write"}, cmd : Nat, read : Doc]
           \cup [pc : {"again"}, cmd : Nat]

Answer == {"ok", "denied", "invalid", "conflict", "internal"}

TypeOK ==
    /\ docs \in Seq(Doc)
    /\ audit \in Seq([doc : Nat, key : Nat])
    /\ cmd \in Seq(Command)
    /\ handler \in [Handlers -> {Idle} \cup Attempt]
    /\ answers \in [1..MaxCommands -> SUBSET Answer]
    /\ resends \in Nat
    /\ unread \subseteq Nat

-----------------------------------------------------------------------------
CanTransition(from, to) ==
    \/ from = "submitted" /\ to = "in_review"
    \/ from = "in_review" /\ to \in {"changes_requested"} \cup Terminal
    \/ from = "changes_requested" /\ to = "submitted"

May(c) == cmd[c].kind \in {"submit", "revise"} \/ cmd[c].actor \in Reviewers

\* Any reviewer may go on with a review.
Reviewable_ByAnyone(d, a) == a # d.submitter

Reviewable(d, a) == a # d.submitter /\ d.reviewer \in {Nobody, a}

\* The checks of ChangeRequest.Transition, Revise and AddComment.
Legal(d, c) ==
    CASE cmd[c].kind = "transition" ->
           /\ CanTransition(d.state, cmd[c].to)
           /\ cmd[c].to \in Review /\ Reviewable(d, cmd[c].actor)
      [] cmd[c].kind = "revise" ->
           d.state = "changes_requested" /\ cmd[c].actor = d.submitter
      [] OTHER -> TRUE

\* transitionReplay, commentReplay.
Replay(d, c) ==
    IF cmd[c].kind = "comment"
    THEN \E i \in DOMAIN d.comments :
            d.comments[i] = [key |-> c, actor |-> cmd[c].actor]
    ELSE \E i \in DOMAIN d.history :
            d.history[i] = [key |-> c, actor |-> cmd[c].actor, to |-> cmd[c].to]

Happened(d, c) ==
    Append(d.history, [key |-> c, actor |-> cmd[c].actor, to |-> cmd[c].to])

\* A comment that does not count as a version.
Comment_Unversioned(stored, read, c) ==
    [stored EXCEPT !.comments = Append(@, [key |-> c, actor |-> cmd[c].actor])]

Comment(stored, read, c) ==
    [stored EXCEPT !.version = read.version + 1,
                   !.comments = Append(@, [key |-> c, actor |-> cmd[c].actor])]

Transition(stored, read, c) ==
    [stored EXCEPT !.version = read.version + 1, !.state = cmd[c].to,
                   !.reviewer = cmd[c].actor, !.history = Happened(stored, c)]

Revise(stored, read, c) ==
    [stored EXCEPT !.version = read.version + 1, !.state = "submitted",
                   !.reviewer = Nobody, !.history = Happened(stored, c),
                   !.revisions = Append(@, c)]

\* What the update sets and pushes, on the stored document.
Updated(stored, read, c) ==
    CASE cmd[c].kind = "comment"    -> Comment(stored, read, c)
      [] cmd[c].kind = "transition" -> Transition(stored, read, c)
      [] cmd[c].kind = "revise"     -> Revise(stored, read, c)

\* An update by id alone.
Matches_AnyVersion(stored, c) == TRUE

\* The filter of atomicAppend.
Matches(stored, c) == stored.version = cmd[c].expected

\* Without the unique index on requestId.
KeyTaken_Never(c) == FALSE

KeyTaken(c) == \E d \in DOMAIN docs : docs[d].key = c

-----------------------------------------------------------------------------
Init ==
    /\ docs = << >>
    /\ audit = << >>
    /\ cmd = << >>
    /\ handler = [h \in Handlers |-> Idle]
    /\ answers = [c \in 1..MaxCommands |-> {}]
    /\ resends = 0
    /\ unread = {}

Issue(command) ==
    /\ Len(cmd) < MaxCommands
    /\ Cardinality({c \in DOMAIN cmd : answers[c] = {}}) < MaxOpen
    /\ cmd' = Append(cmd, command)
    /\ UNCHANGED <<docs, audit, handler, answers, resends, unread>>

IssueSubmit(a) ==
    /\ Len(docs) < MaxDocs
    /\ Issue([kind |-> "submit", actor |-> a, doc |-> 0, expected |-> 0,
              to |-> "submitted", seen |-> 0, sent |-> FALSE])

\* A client acts on the document as it is shown.  What the shown state rules
\* out could only be refused and is not issued.
IssueUpdate(a, d, kind, to) ==
    /\ IF kind = "transition" THEN CanTransition(docs[d].state, to) ELSE to = "submitted"
    /\ Issue([kind |-> kind, actor |-> a, doc |-> d, expected |-> docs[d].version,
              to |-> to, seen |-> Len(docs[d].revisions), sent |-> FALSE])

\* The command arrives at a handler, for the first time or again.
Arrives(h, c) ==
    /\ handler[h] = Idle
    /\ IF cmd[c].sent
       THEN resends < MaxResends /\ resends' = resends + 1
       ELSE UNCHANGED resends
    /\ cmd' = [cmd EXCEPT ![c].sent = TRUE]

Respond(h, c, answer) ==
    /\ handler' = [handler EXCEPT ![h] = Idle]
    /\ answers' = [answers EXCEPT ![c] = @ \cup {answer}]

Deny(h, c) ==
    /\ Arrives(h, c)
    /\ ~ May(c)
    /\ Respond(h, c, "denied")
    /\ UNCHANGED <<docs, audit, unread>>

\* Create begins: is there a document with this key?
FindExisting(h, c) ==
    /\ cmd[c].kind = "submit"
    /\ Arrives(h, c)
    /\ IF \E d \in DOMAIN docs : docs[d].key = c
       THEN Respond(h, c, "ok")
       ELSE /\ handler' = [handler EXCEPT ![h] = [pc |-> "create", cmd |-> c]]
            /\ UNCHANGED answers
    /\ UNCHANGED <<docs, audit, unread>>

NewDoc(c) ==
    [key |-> c, submitter |-> cmd[c].actor, reviewer |-> Nobody, state |-> "submitted",
     version |-> 1, history |-> <<[key |-> c, actor |-> cmd[c].actor, to |-> "submitted"]>>,
     comments |-> << >>, revisions |-> <<c>>]

\* Create's transaction; a duplicate key finds the document after all.
Create(h) ==
    /\ handler[h].pc = "create"
    /\ LET c == handler[h].cmd
       IN /\ IF KeyTaken(c)
             THEN UNCHANGED <<docs, audit>>
             ELSE /\ docs' = Append(docs, NewDoc(c))
                  /\ audit' = Append(audit, [doc |-> Len(docs) + 1, key |-> c])
          /\ Respond(h, c, "ok")
    /\ UNCHANGED <<cmd, resends, unread>>

\* The read that Transition, Revise and AddReviewerComment begin with, and
\* what they decide on it.
ReadForUpdate(h, c) ==
    /\ cmd[c].kind # "submit"
    /\ May(c)
    /\ Arrives(h, c)
    /\ LET d == docs[cmd[c].doc]
       IN \/ /\ cmd[c].kind = "comment" /\ d.state \in Terminal
             /\ Respond(h, c, "invalid")
          \/ /\ ~ (cmd[c].kind = "comment" /\ d.state \in Terminal)
             /\ d.version # cmd[c].expected
             /\ Respond(h, c, IF Replay(d, c) THEN "ok" ELSE "conflict")
          \/ /\ ~ (cmd[c].kind = "comment" /\ d.state \in Terminal)
             /\ d.version = cmd[c].expected
             /\ IF Legal(d, c)
                THEN /\ handler' = [handler EXCEPT ![h] =
                                      [pc |-> "write", cmd |-> c, read |-> d]]
                     /\ UNCHANGED answers
                ELSE Respond(h, c, "invalid")
    /\ UNCHANGED <<docs, audit, unread>>

\* The transaction: the update and its audit row, or neither.
AtomicAppend(h) ==
    /\ handler[h].pc = "write"
    /\ LET c == handler[h].cmd
           d == cmd[c].doc
       IN IF Matches(docs[d], c)
          THEN /\ docs' = [docs EXCEPT ![d] = Updated(@, handler[h].read, c)]
               /\ audit' = Append(audit, [doc |-> d, key |-> c])
               /\ Respond(h, c, "ok")
          ELSE /\ handler' = [handler EXCEPT ![h] = [pc |-> "again", cmd |-> c]]
               /\ UNCHANGED <<docs, audit, answers>>
    /\ UNCHANGED <<cmd, resends, unread>>

\* The conflict is final.
Resolved_Conflict(d, c) == "conflict"

Resolved(d, c) == IF Replay(d, c) THEN "ok" ELSE "conflict"

\* After a lost race: was it against another attempt at the same command?  If
\* the document cannot be read the answer is a conflict all the same.
ReadAgain(h) ==
    /\ handler[h].pc = "again"
    /\ LET c == handler[h].cmd
       IN \/ /\ Respond(h, c, Resolved(docs[cmd[c].doc], c))
             /\ UNCHANGED unread
          \/ /\ Respond(h, c, "conflict")
             /\ unread' = unread \cup {c}
    /\ UNCHANGED <<docs, audit, cmd, resends>>

\* The transaction aborts, an audit append fails, or the process dies.
FailWrite(h) ==
    /\ handler[h].pc \in {"create", "write"}
    /\ Respond(h, handler[h].cmd, "internal")
    /\ UNCHANGED <<docs, audit, cmd, resends, unread>>

Next ==
    \/ \E a \in Actors : IssueSubmit(a)
    \/ \E a \in Actors, d \in DOMAIN docs, kind \in {"transition", "revise", "comment"},
          to \in State : IssueUpdate(a, d, kind, to)
    \/ \E h \in Handlers, c \in DOMAIN cmd :
          Deny(h, c) \/ FindExisting(h, c) \/ ReadForUpdate(h, c)
    \/ \E h \in Handlers : Create(h) \/ AtomicAppend(h) \/ ReadAgain(h) \/ FailWrite(h)

Spec == Init /\ [][Next]_vars

-----------------------------------------------------------------------------
Keys(d) ==
    [i \in DOMAIN d.history |-> d.history[i].key]
       \o [i \in DOMAIN d.comments |-> d.comments[i].key]

Applications(c) ==
    UNION {{<<d, i>> : i \in {j \in DOMAIN Keys(docs[d]) : Keys(docs[d])[j] = c}} :
             d \in DOMAIN docs}

Applied(c) == Applications(c) # {}

(***************************************************************************)
(* However often a command is sent, it takes effect at most once: one      *)
(* document for a submission, one entry of one document for the rest.      *)
(* (openapi v1.yaml, IdempotencyKey.)                                      *)
(***************************************************************************)
OncePerKey == \A c \in DOMAIN cmd : Cardinality(Applications(c)) <= 1

RowsOf(d) == {i \in DOMAIN audit : audit[i].doc = d}

(***************************************************************************)
(* The audit rows of a document are its versions: every mutation has one   *)
(* row, in the same order, and no row is about a mutation that was lost.   *)
(***************************************************************************)
EvidenceIsPaired ==
    \A d \in DOMAIN docs :
       /\ Cardinality(RowsOf(d)) = docs[d].version
       /\ {audit[i].key : i \in RowsOf(d)}
            = {Keys(docs[d])[i] : i \in DOMAIN Keys(docs[d])}
       /\ \A i, j \in RowsOf(d), m, n \in DOMAIN docs[d].history :
             (/\ i < j
              /\ audit[i].key = docs[d].history[m].key
              /\ audit[j].key = docs[d].history[n].key) => m < n

(***************************************************************************)
(* A decision is the work of one reviewer, not the submitter, who took the *)
(* latest revision into review and decided it.                             *)
(***************************************************************************)
DecidedByItsReviewer ==
    \A d \in DOMAIN docs :
       docs[d].state \in Terminal =>
          LET h == docs[d].history
              judge == h[Len(h)].actor
          IN /\ judge \in Reviewers \ {docs[d].submitter}
             /\ \E i \in DOMAIN h :
                   /\ h[i].to = "in_review" /\ h[i].actor = judge
                   /\ \A j \in (i + 1)..Len(h) : h[j].to # "submitted"

(***************************************************************************)
(* A decision is about the revision its reviewer was shown, although the   *)
(* submitter may revise the proposal while the decision is on its way.     *)
(***************************************************************************)
DecidedAsSeen ==
    \A d \in DOMAIN docs :
       LET h == docs[d].history
       IN docs[d].state \in Terminal =>
             cmd[h[Len(h)].key].seen = Len(docs[d].revisions)

(***************************************************************************)
(* A decision stands: nothing is changed or commented after it, even by a  *)
(* comment that was accepted before it (CanTransition: "Terminal decisions *)
(* cannot be reopened"; Revision: "append-only").                          *)
(***************************************************************************)
DecisionsStand ==
    [][\A d \in DOMAIN docs : docs[d].state \in Terminal => docs'[d] = docs[d]]_vars

(***************************************************************************)
(* "The change request changed" is said only when the document is no       *)
(* longer the one the client expected.  It is said of a command that took  *)
(* effect, by another attempt at it, only if the document could not be     *)
(* read again after the lost race; otherwise the command took no effect    *)
(* and never will.                                                         *)
(***************************************************************************)
ConflictsAreTrue ==
    \A c \in DOMAIN cmd : "conflict" \in answers[c] =>
       /\ docs[cmd[c].doc].version # cmd[c].expected
       /\ Applied(c) => c \in unread

-----------------------------------------------------------------------------
(***************************************************************************)
(* The inductive invariant of the proofs.  The version decides everything: *)
(* while a document has the version a client was shown or a handler read,  *)
(* it is the document they know.                                           *)
(***************************************************************************)
\* What the client was shown is current or has been left behind.
CommandsHold ==
    \A c \in DOMAIN cmd : cmd[c].kind # "submit" =>
       LET d == cmd[c].doc
       IN /\ d \in DOMAIN docs
          /\ cmd[c].expected <= docs[d].version
          /\ cmd[c].expected = docs[d].version => cmd[c].seen = Len(docs[d].revisions)

\* An attempt about to write decided on the version the client expects.
Decided(h) ==
    LET c == handler[h].cmd
        read == handler[h].read
        stored == docs[cmd[c].doc]
    IN /\ May(c) /\ Legal(read, c)
       /\ read.state \notin Terminal
       /\ read.version = cmd[c].expected
       /\ stored.version = read.version => stored = read

AttemptHolds(h) ==
    handler[h] # Idle =>
       /\ handler[h].cmd \in DOMAIN cmd
       /\ handler[h].pc \in {"write", "again"} => cmd[handler[h].cmd].kind # "submit"
       /\ handler[h].pc = "write" => Decided(h)

\* The reviewer of d took its latest revision into review.
UnderReview(d) ==
    /\ d.reviewer \in Reviewers \ {d.submitter}
    /\ \E i \in DOMAIN d.history :
          /\ d.history[i].to = "in_review" /\ d.history[i].actor = d.reviewer
          /\ \A j \in (i + 1)..Len(d.history) : d.history[j].to # "submitted"

\* The last event of a decided document is the decision on its last revision.
Closed(d) ==
    LET decision == d.history[Len(d.history)]
    IN /\ decision.actor = d.reviewer
       /\ decision.key \in DOMAIN cmd
       /\ cmd[decision.key].seen = Len(d.revisions)

ReviewHolds(d) ==
    /\ docs[d].state \in {"in_review"} \cup Terminal => UnderReview(docs[d])
    /\ docs[d].state \in Terminal => Closed(docs[d])

RequestInv ==
    /\ TypeOK
    /\ CommandsHold
    /\ \A h \in Handlers : AttemptHolds(h)
    /\ \A d \in DOMAIN docs : ReviewHolds(d)

-----------------------------------------------------------------------------
(***************************************************************************)
(* The rest of the inductive invariant.  What a document took was expected *)
(* at an earlier version, so that no command is taken twice, and one that  *)
(* was refused for the version is never taken.                             *)
(***************************************************************************)
\* The commands a document took.
Taken(doc) ==
    {doc.history[i].key : i \in DOMAIN doc.history}
       \cup {doc.comments[i].key : i \in DOMAIN doc.comments}

SubmitsHold ==
    /\ \A c \in DOMAIN cmd :
          cmd[c].kind = "submit" => cmd[c].expected = 0 /\ cmd[c].to = "submitted"
    /\ \A h \in Handlers : handler[h].pc = "create" => cmd[handler[h].cmd].kind = "submit"
    /\ \A d, e \in DOMAIN docs : docs[d].key = docs[e].key => d = e

\* Every entry of document d is of a command of its own, sent to d.
EntriesHold(d, doc) ==
    /\ doc.key \in DOMAIN cmd /\ cmd[doc.key].kind = "submit"
    /\ \A c \in Taken(doc) :
          /\ c \in DOMAIN cmd
          /\ cmd[c].expected < doc.version
          /\ IF cmd[c].kind = "submit" THEN c = doc.key ELSE cmd[c].doc = d
    /\ \A i \in DOMAIN doc.history :
          LET c == doc.history[i].key
          IN /\ cmd[c].kind # "comment"
             /\ doc.history[i] = [key |-> c, actor |-> cmd[c].actor, to |-> cmd[c].to]
    /\ \A i \in DOMAIN doc.comments :
          LET c == doc.comments[i].key
          IN /\ cmd[c].kind = "comment"
             /\ doc.comments[i] = [key |-> c, actor |-> cmd[c].actor]
    /\ \A i, j \in DOMAIN doc.history : doc.history[i].key = doc.history[j].key => i = j
    /\ \A i, j \in DOMAIN doc.comments : doc.comments[i].key = doc.comments[j].key => i = j

\* The audit rows of d are one for each command it took, in that order.
RowsHold(d, doc) ==
    /\ Cardinality(RowsOf(d)) = doc.version
    /\ {audit[i].key : i \in RowsOf(d)} = Taken(doc)
    /\ \A i, j \in RowsOf(d), m, n \in DOMAIN doc.history :
          (i < j /\ audit[i].key = doc.history[m].key /\ audit[j].key = doc.history[n].key)
             => m < n

\* A conflict was answered to a command that came too late; it was not taken,
\* unless the document could not be read.
ConflictsHold ==
    /\ Len(cmd) <= MaxCommands
    /\ \A c \in 1..MaxCommands : c \notin DOMAIN cmd => answers[c] = {}
    /\ \A c \in DOMAIN cmd : "conflict" \in answers[c] =>
          /\ cmd[c].kind # "submit"
          /\ cmd[c].expected < docs[cmd[c].doc].version
          /\ c \in Taken(docs[cmd[c].doc]) => c \in unread
    /\ \A h \in Handlers : handler[h].pc = "again" =>
          LET c == handler[h].cmd IN cmd[c].expected < docs[cmd[c].doc].version

EffectInv ==
    /\ SubmitsHold
    /\ \A d \in DOMAIN docs : EntriesHold(d, docs[d]) /\ RowsHold(d, docs[d])
    /\ \A i \in DOMAIN audit : audit[i].doc \in DOMAIN docs
    /\ ConflictsHold
=============================================================================
