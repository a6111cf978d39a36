------------------------- MODULE ChangeRequestProofs -------------------------
(***************************************************************************)
(* Proofs about ChangeRequest for any people, handlers and bounds.         *)
(***************************************************************************)
EXTENDS ChangeRequest, SequenceTheorems, FiniteSetTheorems, TLAPS

USE ActorsAssumption, BoundsAssumption, NobodyAssumption

-----------------------------------------------------------------------------
(***************************************************************************)
(* The collection and the commands as sequences.                           *)
(***************************************************************************)
LEMMA Lengths ==
  ASSUME TypeOK
  PROVE  /\ Len(docs) \in Nat /\ DOMAIN docs = 1..Len(docs)
         /\ Len(cmd) \in Nat /\ DOMAIN cmd = 1..Len(cmd)
         /\ \A d \in DOMAIN docs : d \in Nat /\ docs[d] \in Doc
         /\ \A c \in DOMAIN cmd : c \in Nat /\ cmd[c] \in Command
BY DEF TypeOK

\* A document is added.
LEMMA AddDoc ==
  ASSUME TypeOK, NEW new \in Doc, docs' = Append(docs, new)
  PROVE  /\ docs' \in Seq(Doc)
         /\ DOMAIN docs' = DOMAIN docs \cup {Len(docs) + 1}
         /\ docs'[Len(docs) + 1] = new
         /\ \A d \in DOMAIN docs : docs'[d] = docs[d]
<1>1. Len(docs) \in Nat /\ DOMAIN docs = 1..Len(docs)
  BY Lengths
<1>2. docs' \in Seq(Doc) /\ DOMAIN docs' = 1..(Len(docs) + 1)
  BY DEF TypeOK
<1>3. docs'[Len(docs) + 1] = new /\ \A d \in 1..Len(docs) : docs'[d] = docs[d]
  BY DEF TypeOK
<1>4. QED
  BY <1>1, <1>2, <1>3

\* A document is replaced.
LEMMA ReplaceDoc ==
  ASSUME TypeOK, NEW d \in DOMAIN docs, NEW new \in Doc, docs' = [docs EXCEPT ![d] = new]
  PROVE  /\ docs' \in Seq(Doc)
         /\ DOMAIN docs' = DOMAIN docs
         /\ docs'[d] = new
         /\ \A x \in DOMAIN docs : x # d => docs'[x] = docs[x]
<1>1. docs \in Seq(Doc) /\ d \in 1..Len(docs)
  BY Lengths DEF TypeOK
<1>2. docs' \in Seq(Doc)
  BY <1>1, ExceptSeq
<1>3. QED
  BY <1>2

\* A command is added.
LEMMA AddCommand ==
  ASSUME TypeOK, NEW new \in Command, cmd' = Append(cmd, new)
  PROVE  /\ cmd' \in Seq(Command)
         /\ DOMAIN cmd' = DOMAIN cmd \cup {Len(cmd) + 1}
         /\ cmd'[Len(cmd) + 1] = new
         /\ \A c \in DOMAIN cmd : cmd'[c] = cmd[c]
<1>1. Len(cmd) \in Nat /\ DOMAIN cmd = 1..Len(cmd)
  BY Lengths
<1>2. cmd' \in Seq(Command) /\ DOMAIN cmd' = 1..(Len(cmd) + 1)
  BY DEF TypeOK
<1>3. cmd'[Len(cmd) + 1] = new /\ \A c \in 1..Len(cmd) : cmd'[c] = cmd[c]
  BY DEF TypeOK
<1>4. QED
  BY <1>1, <1>2, <1>3

\* Nothing but the sending of commands changes.
CommandsKept ==
    \A c \in DOMAIN cmd :
       /\ c \in DOMAIN cmd'
       /\ cmd'[c].kind = cmd[c].kind /\ cmd'[c].actor = cmd[c].actor
       /\ cmd'[c].doc = cmd[c].doc /\ cmd'[c].expected = cmd[c].expected
       /\ cmd'[c].to = cmd[c].to /\ cmd'[c].seen = cmd[c].seen

LEMMA MarkCommand ==
  ASSUME TypeOK, NEW h \in Handlers, NEW c \in DOMAIN cmd, Arrives(h, c)
  PROVE  /\ cmd' \in Seq(Command)
         /\ DOMAIN cmd' = DOMAIN cmd
         /\ CommandsKept
         /\ resends' \in Nat
<1>1. cmd \in Seq(Command) /\ c \in 1..Len(cmd) /\ cmd[c] \in Command
  BY Lengths DEF TypeOK
<1>2. PICK new : new = [cmd[c] EXCEPT !.sent = TRUE]
  OBVIOUS
<1>3. /\ new \in Command
      /\ new.kind = cmd[c].kind /\ new.actor = cmd[c].actor
      /\ new.doc = cmd[c].doc /\ new.expected = cmd[c].expected
      /\ new.to = cmd[c].to /\ new.seen = cmd[c].seen
  BY <1>1, <1>2 DEF Command
<1>4. cmd' = [cmd EXCEPT ![c] = new]
  BY <1>2 DEF Arrives
<1>5. cmd' \in Seq(Command)
  BY <1>1, <1>3, <1>4, ExceptSeq
<1>6. DOMAIN cmd' = DOMAIN cmd /\ cmd'[c] = new /\ \A x \in DOMAIN cmd : x # c => cmd'[x] = cmd[x]
  BY <1>4
<1>7. CommandsKept
  BY <1>3, <1>6 DEF CommandsKept
<1>8. resends' \in Nat
  BY DEF Arrives, TypeOK
<1>9. QED
  BY <1>5, <1>6, <1>7, <1>8

\* Then what they allow stays.
LEMMA KeptMeaning ==
  ASSUME CommandsKept, NEW c \in DOMAIN cmd, NEW d
  PROVE  (May(c))' = May(c) /\ Legal(d, c)' = Legal(d, c)
BY DEF CommandsKept, May, Legal

-----------------------------------------------------------------------------
(***************************************************************************)
(* What an update makes of a document.                                     *)
(***************************************************************************)
LEMMA HappenedType ==
  ASSUME NEW d \in Doc, NEW c \in Nat, cmd[c] \in Command
  PROVE  /\ Happened(d, c) \in Seq(Event)
         /\ Len(Happened(d, c)) = Len(d.history) + 1
         /\ Happened(d, c)[Len(d.history) + 1] =
              [key |-> c, actor |-> cmd[c].actor, to |-> cmd[c].to]
         /\ \A i \in 1..Len(d.history) : Happened(d, c)[i] = d.history[i]
<1>1. PICK new : new = [key |-> c, actor |-> cmd[c].actor, to |-> cmd[c].to]
  OBVIOUS
<1>2. new \in Event
  BY <1>1 DEF Event, Command
<1>3. d.history \in Seq(Event)
  BY DEF Doc
<1>4. Happened(d, c) = Append(d.history, new)
  BY <1>1 DEF Happened
<1>5. QED
  BY <1>1, <1>2, <1>3, <1>4

LEMMA Appended ==
  ASSUME NEW S, NEW s \in Seq(S), NEW e \in S
  PROVE  Append(s, e) \in Seq(S)
OBVIOUS

LEMMA Parts ==
  ASSUME NEW d \in Doc
  PROVE  /\ d.version \in Nat /\ d.version + 1 \in Nat
         /\ d.history \in Seq(Event) /\ d.comments \in Seq(Comments) /\ d.revisions \in Seq(Nat)
BY DEF Doc

\* What an update may set.
LEMMA SetComments ==
  ASSUME NEW d \in Doc, NEW version \in Nat, NEW comments \in Seq(Comments)
  PROVE  [d EXCEPT !.version = version, !.comments = comments] \in Doc
BY DEF Doc

LEMMA SetState ==
  ASSUME NEW d \in Doc, NEW version \in Nat, NEW state \in State,
         NEW reviewer \in Actors \cup {Nobody}, NEW history \in Seq(Event)
  PROVE  [d EXCEPT !.version = version, !.state = state, !.reviewer = reviewer,
                   !.history = history] \in Doc
BY DEF Doc

LEMMA SetRevision ==
  ASSUME NEW d \in Doc, NEW version \in Nat, NEW history \in Seq(Event),
         NEW revisions \in Seq(Nat)
  PROVE  [d EXCEPT !.version = version, !.state = "submitted", !.reviewer = Nobody,
                   !.history = history, !.revisions = revisions] \in Doc
BY DEF Doc, State

LEMMA CommentKeeps ==
  ASSUME NEW d \in Doc, NEW r, NEW c
  PROVE  LET new == Comment(d, r, c)
         IN  /\ new.state = d.state /\ new.reviewer = d.reviewer
             /\ new.submitter = d.submitter /\ new.history = d.history
             /\ new.revisions = d.revisions
BY DEF Comment, Doc

LEMMA CommentStep ==
  ASSUME NEW d \in Doc, NEW r \in Doc, NEW c \in Nat, cmd[c] \in Command
  PROVE  /\ Comment(d, r, c) \in Doc
         /\ Comment(d, r, c).version = r.version + 1
         /\ Comment(d, r, c).state = d.state /\ Comment(d, r, c).reviewer = d.reviewer
         /\ Comment(d, r, c).submitter = d.submitter /\ Comment(d, r, c).history = d.history
         /\ Comment(d, r, c).revisions = d.revisions
<1>1. [key |-> c, actor |-> cmd[c].actor] \in Comments
  BY DEF Command, Comments
<1>2. Append(d.comments, [key |-> c, actor |-> cmd[c].actor]) \in Seq(Comments)
  BY <1>1, Parts, Appended
<1>3. r.version + 1 \in Nat
  BY Parts
<1>4. Comment(d, r, c) \in Doc
  BY <1>2, <1>3, SetComments, Zenon DEF Comment
<1>5. QED
  BY <1>4 DEF Comment, Doc

LEMMA TransitionStep ==
  ASSUME NEW d \in Doc, NEW r \in Doc, NEW c \in Nat, cmd[c] \in Command
  PROVE  /\ Transition(d, r, c) \in Doc
         /\ Transition(d, r, c).version = r.version + 1
         /\ Transition(d, r, c).state = cmd[c].to
         /\ Transition(d, r, c).reviewer = cmd[c].actor
         /\ Transition(d, r, c).submitter = d.submitter
         /\ Transition(d, r, c).history = Happened(d, c)
         /\ Transition(d, r, c).revisions = d.revisions
<1>1. Happened(d, c) \in Seq(Event) /\ r.version + 1 \in Nat
  BY HappenedType, Parts
<1>2. cmd[c].to \in State /\ cmd[c].actor \in Actors
  BY DEF Command
<1>3. Transition(d, r, c) \in Doc
  BY <1>1, <1>2, SetState, Zenon DEF Transition
<1>4. QED
  BY <1>3 DEF Transition, Doc

LEMMA ReviseStep ==
  ASSUME NEW d \in Doc, NEW r \in Doc, NEW c \in Nat, cmd[c] \in Command
  PROVE  /\ Revise(d, r, c) \in Doc
         /\ Revise(d, r, c).version = r.version + 1
         /\ Revise(d, r, c).state = "submitted"
<1>1. Happened(d, c) \in Seq(Event) /\ r.version + 1 \in Nat
  BY HappenedType, Parts
<1>2. Append(d.revisions, c) \in Seq(Nat)
  BY Parts, Appended
<1>3. "submitted" \in State
  BY DEF State
<1>4. Revise(d, r, c) \in Doc
  BY <1>1, <1>2, SetRevision, Zenon DEF Revise
<1>5. QED
  BY <1>4 DEF Revise, Doc

\* An update of any kind makes a document of the next version.
LEMMA UpdateStep ==
  ASSUME NEW d \in Doc, NEW r \in Doc, NEW c \in Nat, cmd[c] \in Command,
         cmd[c].kind # "submit"
  PROVE  /\ Updated(d, r, c) \in Doc
         /\ Updated(d, r, c).version = r.version + 1
<1>1. cmd[c].kind \in {"comment", "transition", "revise"}
  BY DEF Command
<1>2. CASE cmd[c].kind = "comment"
  <2>1. Updated(d, r, c) = Comment(d, r, c)
    BY <1>2 DEF Updated
  <2>2. QED
    BY <2>1, CommentStep
<1>3. CASE cmd[c].kind = "transition"
  <2>1. Updated(d, r, c) = Transition(d, r, c)
    BY <1>3 DEF Updated
  <2>2. QED
    BY <2>1, TransitionStep
<1>4. CASE cmd[c].kind = "revise"
  <2>1. Updated(d, r, c) = Revise(d, r, c)
    BY <1>4 DEF Updated
  <2>2. QED
    BY <2>1, ReviseStep
<1>5. QED
  BY <1>1, <1>2, <1>3, <1>4

LEMMA NewDocType ==
  ASSUME NEW c \in Nat, cmd[c] \in Command
  PROVE  NewDoc(c) \in Doc /\ NewDoc(c).state = "submitted"
<1> DEFINE first == [key |-> c, actor |-> cmd[c].actor, to |-> "submitted"]
<1>1. cmd[c].actor \in Actors /\ "submitted" \in State
  BY DEF Command, State
<1>2. first \in Event
  BY <1>1 DEF Event
<1> HIDE DEF first
<1>3. <<first>> \in Seq(Event) /\ << >> \in Seq(Comments) /\ <<c>> \in Seq(Nat)
  BY <1>2
<1>4. NewDoc(c) = [key |-> c, submitter |-> cmd[c].actor, reviewer |-> Nobody,
                   state |-> "submitted", version |-> 1, history |-> <<first>>,
                   comments |-> << >>, revisions |-> <<c>>]
  BY DEF NewDoc, first
<1>5. QED
  BY <1>1, <1>3, <1>4 DEF Doc

-----------------------------------------------------------------------------
(***************************************************************************)
(* Type correctness.                                                       *)
(***************************************************************************)
LEMMA AttemptTypes ==
  /\ Idle.pc = "idle"
  /\ \A h \in Attempt : h # Idle /\ h.pc \in {"create", "write", "again"} /\ h.cmd \in Nat
                        /\ (h.pc = "write" => h.read \in Doc)
  /\ \A c \in Nat : /\ [pc |-> "create", cmd |-> c] \in Attempt
                     /\ [pc |-> "again", cmd |-> c] \in Attempt
                     /\ \A d \in Doc : [pc |-> "write", cmd |-> c, read |-> d] \in Attempt
BY DEF Idle, Attempt

\* A handler at work has an attempt.
LEMMA AtWork ==
  ASSUME TypeOK, NEW h \in Handlers, handler[h].pc \in {"create", "write", "again"}
  PROVE  /\ handler[h] \in Attempt /\ handler[h] # Idle
         /\ handler[h].cmd \in Nat
         /\ handler[h].pc = "write" => handler[h].read \in Doc
<1>1. handler[h] \in {Idle} \cup Attempt
  BY DEF TypeOK
<1>2. handler[h] # Idle
  BY AttemptTypes
<1>3. QED
  BY <1>1, <1>2, AttemptTypes

LEMMA RespondType ==
  ASSUME TypeOK, NEW h \in Handlers, NEW c, NEW answer \in Answer, Respond(h, c, answer)
  PROVE  /\ handler' \in [Handlers -> {Idle} \cup Attempt]
         /\ answers' \in [1..MaxCommands -> SUBSET Answer]
         /\ handler'[h] = Idle
         /\ \A g \in Handlers \ {h} : handler'[g] = handler[g]
BY DEF TypeOK, Respond

LEMMA Answers == {"ok", "denied", "invalid", "conflict", "internal"} \subseteq Answer
BY DEF Answer

LEMMA AuditType ==
  ASSUME TypeOK, NEW d \in Nat, NEW c \in Nat, audit' = Append(audit, [doc |-> d, key |-> c])
  PROVE  audit' \in Seq([doc : Nat, key : Nat])
<1>1. [doc |-> d, key |-> c] \in [doc : Nat, key : Nat]
  OBVIOUS
<1>2. QED
  BY <1>1, Appended DEF TypeOK

LEMMA InitType == Init => TypeOK
BY DEF Init, TypeOK

\* Issuing adds a command and changes nothing else.
LEMMA IssueStep ==
  ASSUME TypeOK, NEW new \in Command, Issue(new)
  PROVE  /\ TypeOK'
         /\ DOMAIN cmd' = DOMAIN cmd \cup {Len(cmd) + 1}
         /\ cmd'[Len(cmd) + 1] = new
         /\ CommandsKept
         /\ UNCHANGED <<docs, handler>>
<1>1. /\ cmd' \in Seq(Command)
      /\ DOMAIN cmd' = DOMAIN cmd \cup {Len(cmd) + 1}
      /\ cmd'[Len(cmd) + 1] = new
      /\ \A c \in DOMAIN cmd : cmd'[c] = cmd[c]
  BY AddCommand DEF Issue
<1>2. TypeOK'
  BY <1>1 DEF Issue, TypeOK
<1>3. CommandsKept
  BY <1>1 DEF CommandsKept
<1>4. QED
  BY <1>1, <1>2, <1>3 DEF Issue

LEMMA SubmitCommand ==
  ASSUME NEW a \in Actors
  PROVE  [kind |-> "submit", actor |-> a, doc |-> 0, expected |-> 0,
          to |-> "submitted", seen |-> 0, sent |-> FALSE] \in Command
BY DEF Command, State

LEMMA UpdateCommand ==
  ASSUME TypeOK, NEW a \in Actors, NEW d \in DOMAIN docs,
         NEW kind \in {"transition", "revise", "comment"}, NEW to \in State
  PROVE  [kind |-> kind, actor |-> a, doc |-> d, expected |-> docs[d].version,
          to |-> to, seen |-> Len(docs[d].revisions), sent |-> FALSE] \in Command
<1>1. d \in Nat /\ docs[d].version \in Nat /\ docs[d].revisions \in Seq(Nat)
  BY Lengths, Parts
<1>2. Len(docs[d].revisions) \in Nat
  BY <1>1
<1>3. QED
  BY <1>1, <1>2 DEF Command

-----------------------------------------------------------------------------
(***************************************************************************)
(* What a step leaves alone keeps its part of the invariant.               *)
(***************************************************************************)
DocsGrow ==
    \A d \in DOMAIN docs :
       /\ d \in DOMAIN docs'
       /\ docs[d].version <= docs'[d].version
       /\ docs[d].version = docs'[d].version => docs'[d] = docs[d]

LEMMA SameDocsGrow == ASSUME TypeOK, UNCHANGED docs PROVE DocsGrow
<1>1. ASSUME NEW d \in DOMAIN docs PROVE docs[d].version \in Nat
  BY Lengths, Parts
<1>2. QED
  BY <1>1 DEF DocsGrow

\* The document a command is about only moves on from what the client saw.
LEMMA CommandDoc ==
  ASSUME RequestInv, DocsGrow, TypeOK', NEW c \in DOMAIN cmd, cmd[c].kind # "submit"
  PROVE  LET d == cmd[c].doc
         IN /\ d \in DOMAIN docs /\ d \in DOMAIN docs'
            /\ cmd[c].expected <= docs[d].version
            /\ cmd[c].expected <= docs'[d].version
            /\ cmd[c].expected = docs'[d].version =>
                  /\ docs'[d] = docs[d] /\ docs[d].version = cmd[c].expected
                  /\ cmd[c].seen = Len(docs[d].revisions)
<1> DEFINE d == cmd[c].doc
<1>1. /\ d \in DOMAIN docs
      /\ cmd[c].expected <= docs[d].version
      /\ cmd[c].expected = docs[d].version => cmd[c].seen = Len(docs[d].revisions)
  BY DEF RequestInv, CommandsHold
<1>2. /\ d \in DOMAIN docs'
      /\ docs[d].version <= docs'[d].version
      /\ docs[d].version = docs'[d].version => docs'[d] = docs[d]
  BY <1>1 DEF DocsGrow
<1>3. docs[d].version \in Nat /\ cmd[c].expected \in Nat
  BY <1>1, Lengths, Parts DEF RequestInv, Command
<1>4. docs'[d] \in Doc
  BY <1>2 DEF TypeOK
<1>5. docs'[d].version \in Nat
  BY <1>4, Parts
<1> HIDE DEF d
<1>6. /\ cmd[c].expected <= docs'[d].version
      /\ cmd[c].expected = docs'[d].version => docs[d].version = cmd[c].expected
  BY <1>1, <1>2, <1>3, <1>5
<1>7. QED
  BY <1>1, <1>2, <1>6 DEF d

LEMMA KeepCommands ==
  ASSUME RequestInv, CommandsKept, DocsGrow, TypeOK', DOMAIN cmd' = DOMAIN cmd
  PROVE  CommandsHold'
<1>1. ASSUME NEW c \in DOMAIN cmd', cmd'[c].kind # "submit"
      PROVE  LET d == cmd'[c].doc
             IN /\ d \in DOMAIN docs'
                /\ cmd'[c].expected <= docs'[d].version
                /\ cmd'[c].expected = docs'[d].version => cmd'[c].seen = Len(docs'[d].revisions)
  <2>1. /\ c \in DOMAIN cmd /\ cmd[c].kind # "submit"
        /\ cmd'[c].doc = cmd[c].doc /\ cmd'[c].expected = cmd[c].expected
        /\ cmd'[c].seen = cmd[c].seen
    BY <1>1 DEF CommandsKept
  <2>2. QED
    BY <2>1, CommandDoc
<1>2. QED
  BY <1>1 DEF CommandsHold

LEMMA KeepAttempt ==
  ASSUME RequestInv, CommandsKept, DocsGrow, TypeOK', NEW g \in Handlers, handler'[g] = handler[g]
  PROVE  AttemptHolds(g)'
<1> SUFFICES ASSUME handler[g] # Idle
             PROVE  /\ handler[g].cmd \in DOMAIN cmd'
                    /\ handler[g].pc \in {"write", "again"} => cmd'[handler[g].cmd].kind # "submit"
                    /\ handler[g].pc = "write" => Decided(g)'
  BY DEF AttemptHolds
<1>1. /\ handler[g].cmd \in DOMAIN cmd
      /\ handler[g].pc \in {"write", "again"} => cmd[handler[g].cmd].kind # "submit"
      /\ handler[g].pc = "write" => Decided(g)
  BY DEF RequestInv, AttemptHolds
<1>2. PICK c \in DOMAIN cmd : c = handler[g].cmd
  BY <1>1
<1>3. /\ c \in DOMAIN cmd' /\ cmd'[c].kind = cmd[c].kind
      /\ cmd'[c].doc = cmd[c].doc /\ cmd'[c].expected = cmd[c].expected
  BY DEF CommandsKept
<1>4. ASSUME handler[g].pc = "write" PROVE Decided(g)'
  <2>1. cmd[c].kind # "submit"
    BY <1>1, <1>2, <1>4
  <2>2. PICK r : r = handler[g].read
    OBVIOUS
  <2>3. /\ May(c) /\ Legal(r, c) /\ r.state \notin Terminal
        /\ r.version = cmd[c].expected
        /\ docs[cmd[c].doc].version = r.version => docs[cmd[c].doc] = r
    BY <1>1, <1>2, <1>4, <2>2 DEF Decided
  <2>4. May(c)' /\ Legal(r, c)'
    BY <2>3, KeptMeaning
  <2>5. docs'[cmd[c].doc].version = r.version => docs'[cmd[c].doc] = r
    BY <2>1, <2>3, CommandDoc
  <2>6. handler'[g].cmd = c /\ handler'[g].read = r
    BY <1>2, <2>2
  <2>7. QED
    BY <1>3, <2>3, <2>4, <2>5, <2>6 DEF Decided
<1>5. QED
  BY <1>1, <1>2, <1>3, <1>4

LEMMA KeepReview ==
  ASSUME RequestInv, CommandsKept, NEW d \in DOMAIN docs, docs'[d] = docs[d]
  PROVE  ReviewHolds(d)'
<1>1. ReviewHolds(d)
  BY DEF RequestInv
<1>2. UnderReview(docs[d])' <=> UnderReview(docs[d])
  BY DEF UnderReview
<1>3. Closed(docs[d]) => Closed(docs[d])'
  BY DEF Closed, CommandsKept
<1>4. QED
  BY <1>1, <1>2, <1>3 DEF ReviewHolds

\* A step that changes no document.
LEMMA QuietStep ==
  ASSUME RequestInv, TypeOK', UNCHANGED docs, CommandsKept, DOMAIN cmd' = DOMAIN cmd,
         \A g \in Handlers : handler'[g] = handler[g] \/ handler'[g] = Idle \/ AttemptHolds(g)'
  PROVE  RequestInv'
<1>1. DocsGrow
  BY SameDocsGrow DEF RequestInv
<1>2. CommandsHold'
  BY <1>1, KeepCommands
<1>3. ASSUME NEW g \in Handlers PROVE AttemptHolds(g)'
  <2>1. CASE handler'[g] = Idle
    BY <2>1 DEF AttemptHolds
  <2>2. QED
    BY <2>1, <1>1, KeepAttempt
<1>4. ASSUME NEW d \in DOMAIN docs' PROVE ReviewHolds(d)'
  BY KeepReview
<1>5. QED
  BY <1>2, <1>3, <1>4 DEF RequestInv

-----------------------------------------------------------------------------
(***************************************************************************)
(* The initial state and the actions that change no document.              *)
(***************************************************************************)
LEMMA InitHolds == Init => RequestInv
<1> SUFFICES ASSUME Init PROVE RequestInv
  OBVIOUS
<1>1. DOMAIN docs = {} /\ DOMAIN cmd = {} /\ \A h \in Handlers : handler[h] = Idle
  BY DEF Init
<1>2. CommandsHold /\ (\A h \in Handlers : AttemptHolds(h)) /\ \A d \in DOMAIN docs : ReviewHolds(d)
  BY <1>1 DEF CommandsHold, AttemptHolds
<1>3. QED
  BY <1>2, InitType DEF RequestInv

LEMMA IssueHolds ==
  ASSUME RequestInv, NEW new \in Command, Issue(new),
         new.kind # "submit" =>
            /\ new.doc \in DOMAIN docs
            /\ new.expected = docs[new.doc].version
            /\ new.seen = Len(docs[new.doc].revisions)
  PROVE  RequestInv'
<1>1. /\ TypeOK'
      /\ DOMAIN cmd' = DOMAIN cmd \cup {Len(cmd) + 1}
      /\ cmd'[Len(cmd) + 1] = new
      /\ CommandsKept
      /\ UNCHANGED <<docs, handler>>
  BY IssueStep DEF RequestInv
<1>2. DocsGrow
  BY <1>1, SameDocsGrow DEF RequestInv
<1>3. ASSUME NEW c \in DOMAIN cmd', cmd'[c].kind # "submit"
      PROVE  LET d == cmd'[c].doc
             IN /\ d \in DOMAIN docs'
                /\ cmd'[c].expected <= docs'[d].version
                /\ cmd'[c].expected = docs'[d].version => cmd'[c].seen = Len(docs'[d].revisions)
  <2>1. CASE c = Len(cmd) + 1
    <3>1. cmd'[c] = new /\ docs' = docs
      BY <1>1, <2>1
    <3>2. /\ new.doc \in DOMAIN docs
          /\ new.expected = docs[new.doc].version
          /\ new.seen = Len(docs[new.doc].revisions)
      BY <1>3, <3>1
    <3>3. docs[new.doc].version \in Nat
      BY <3>2, Lengths, Parts DEF RequestInv
    <3>4. new.expected <= docs[new.doc].version
      BY <3>2, <3>3
    <3>5. QED
      BY <3>1, <3>2, <3>4
  <2>2. CASE c \in DOMAIN cmd
    <3>1. /\ cmd'[c].kind = cmd[c].kind /\ cmd'[c].doc = cmd[c].doc
          /\ cmd'[c].expected = cmd[c].expected /\ cmd'[c].seen = cmd[c].seen
      BY <1>1, <2>2 DEF CommandsKept
    <3>2. QED
      BY <1>1, <1>2, <1>3, <2>2, <3>1, CommandDoc
  <2>3. QED
    BY <1>1, <2>1, <2>2
<1>4. CommandsHold'
  BY <1>3 DEF CommandsHold
<1>5. ASSUME NEW g \in Handlers PROVE AttemptHolds(g)'
  BY <1>1, <1>2, KeepAttempt
<1>6. ASSUME NEW d \in DOMAIN docs' PROVE ReviewHolds(d)'
  BY <1>1, KeepReview
<1>7. QED
  BY <1>1, <1>4, <1>5, <1>6 DEF RequestInv

LEMMA IssueSubmitHolds ==
  ASSUME RequestInv, NEW a \in Actors, IssueSubmit(a) PROVE RequestInv'
<1> DEFINE new == [kind |-> "submit", actor |-> a, doc |-> 0, expected |-> 0,
                   to |-> "submitted", seen |-> 0, sent |-> FALSE]
<1>1. new \in Command /\ Issue(new) /\ new.kind = "submit"
  BY SubmitCommand DEF IssueSubmit
<1> HIDE DEF new
<1>2. QED
  BY <1>1, IssueHolds

LEMMA IssueUpdateHolds ==
  ASSUME RequestInv, NEW a \in Actors, NEW d \in DOMAIN docs,
         NEW kind \in {"transition", "revise", "comment"}, NEW to \in State,
         IssueUpdate(a, d, kind, to)
  PROVE  RequestInv'
<1> DEFINE new == [kind |-> kind, actor |-> a, doc |-> d, expected |-> docs[d].version,
                   to |-> to, seen |-> Len(docs[d].revisions), sent |-> FALSE]
<1>1. new \in Command
  BY UpdateCommand DEF RequestInv
<1>2. Issue(new)
  BY DEF IssueUpdate
<1>3. /\ new.doc = d /\ new.expected = docs[d].version
      /\ new.seen = Len(docs[d].revisions)
  OBVIOUS
<1> HIDE DEF new
<1>4. QED
  BY <1>1, <1>2, <1>3, IssueHolds

\* A request is answered as it arrives.
LEMMA AnsweredHolds ==
  ASSUME RequestInv, NEW h \in Handlers, NEW c \in DOMAIN cmd, NEW answer \in Answer,
         Arrives(h, c), Respond(h, c, answer), UNCHANGED <<docs, audit, unread>>
  PROVE  RequestInv'
<1>1. TypeOK
  BY DEF RequestInv
<1>2. /\ cmd' \in Seq(Command) /\ DOMAIN cmd' = DOMAIN cmd
      /\ CommandsKept /\ resends' \in Nat
  BY <1>1, MarkCommand
<1>3. /\ handler' \in [Handlers -> {Idle} \cup Attempt]
      /\ answers' \in [1..MaxCommands -> SUBSET Answer]
      /\ handler'[h] = Idle
      /\ \A g \in Handlers \ {h} : handler'[g] = handler[g]
  BY <1>1, RespondType
<1>4. TypeOK'
  BY <1>1, <1>2, <1>3 DEF TypeOK
<1>5. QED
  BY <1>2, <1>3, <1>4, QuietStep

\* A request is taken up as it arrives.
LEMMA TakenUpHolds ==
  ASSUME RequestInv, NEW h \in Handlers, NEW c \in DOMAIN cmd, NEW attempt \in Attempt,
         Arrives(h, c), handler' = [handler EXCEPT ![h] = attempt],
         UNCHANGED <<docs, audit, answers, unread>>,
         attempt.cmd = c,
         attempt.pc = "create" \/ (attempt.pc = "write" /\ cmd[c].kind # "submit" /\ Decided(h)')
  PROVE  RequestInv'
<1>1. TypeOK
  BY DEF RequestInv
<1>2. /\ cmd' \in Seq(Command) /\ DOMAIN cmd' = DOMAIN cmd
      /\ CommandsKept /\ resends' \in Nat
  BY <1>1, MarkCommand
<1>3. /\ handler' \in [Handlers -> {Idle} \cup Attempt]
      /\ handler'[h] = attempt
      /\ \A g \in Handlers \ {h} : handler'[g] = handler[g]
  BY <1>1 DEF TypeOK
<1>4. TypeOK'
  BY <1>1, <1>2, <1>3 DEF TypeOK
<1>5. cmd'[c].kind = cmd[c].kind
  BY <1>2 DEF CommandsKept
<1>6. AttemptHolds(h)'
  BY <1>2, <1>3, <1>5 DEF AttemptHolds
<1>7. QED
  BY <1>2, <1>3, <1>4, <1>6, QuietStep

LEMMA DenyHolds ==
  ASSUME RequestInv, NEW h \in Handlers, NEW c \in DOMAIN cmd, Deny(h, c) PROVE RequestInv'
<1>1. Arrives(h, c) /\ Respond(h, c, "denied") /\ UNCHANGED <<docs, audit, unread>> /\ "denied" \in Answer
  BY DEF Deny, Answer
<1>2. QED
  BY <1>1, AnsweredHolds

LEMMA FindExistingHolds ==
  ASSUME RequestInv, NEW h \in Handlers, NEW c \in DOMAIN cmd, FindExisting(h, c)
  PROVE  RequestInv'
<1>1. Arrives(h, c) /\ UNCHANGED <<docs, audit, unread>> /\ "ok" \in Answer
  BY DEF FindExisting, Answer
<1>2. CASE Respond(h, c, "ok")
  BY <1>1, <1>2, AnsweredHolds
<1>3. CASE /\ handler' = [handler EXCEPT ![h] = [pc |-> "create", cmd |-> c]]
           /\ UNCHANGED answers
  <2>1. c \in Nat
    BY Lengths DEF RequestInv
  <2>2. PICK attempt \in Attempt : attempt = [pc |-> "create", cmd |-> c]
    BY <2>1, AttemptTypes
  <2>3. attempt.cmd = c /\ attempt.pc = "create"
    BY <2>2
  <2>4. handler' = [handler EXCEPT ![h] = attempt]
    BY <1>3, <2>2
  <2>5. QED
    BY <1>1, <1>3, <2>3, <2>4, TakenUpHolds
<1>4. QED
  BY <1>2, <1>3 DEF FindExisting

LEMMA ReadForUpdateHolds ==
  ASSUME RequestInv, NEW h \in Handlers, NEW c \in DOMAIN cmd, ReadForUpdate(h, c)
  PROVE  RequestInv'
<1> DEFINE d == docs[cmd[c].doc]
<1>1. /\ Arrives(h, c) /\ UNCHANGED <<docs, audit, unread>>
      /\ cmd[c].kind # "submit" /\ May(c)
      /\ {"ok", "conflict", "invalid"} \subseteq Answer
  BY DEF ReadForUpdate, Answer
<1>2. ASSUME NEW answer \in {"ok", "conflict", "invalid"}, Respond(h, c, answer)
      PROVE  RequestInv'
  BY <1>1, <1>2, AnsweredHolds
<1>3. ASSUME /\ handler' = [handler EXCEPT ![h] = [pc |-> "write", cmd |-> c, read |-> d]]
             /\ UNCHANGED answers
             /\ ~ (cmd[c].kind = "comment" /\ d.state \in Terminal)
             /\ d.version = cmd[c].expected
             /\ Legal(d, c)
      PROVE  RequestInv'
  <2>1. c \in Nat /\ cmd[c].doc \in DOMAIN docs /\ d \in Doc
    BY <1>1, Lengths DEF RequestInv, CommandsHold
  <2>2. PICK r \in Doc : r = d
    BY <2>1
  <2>3. PICK attempt \in Attempt : attempt = [pc |-> "write", cmd |-> c, read |-> r]
    BY <2>1, AttemptTypes
  <2>4. attempt.cmd = c /\ attempt.pc = "write" /\ attempt.read = r
    BY <2>3
  <2>5. handler' = [handler EXCEPT ![h] = attempt]
    BY <1>3, <2>2, <2>3
  <2>6. CommandsKept
    BY <1>1, MarkCommand DEF RequestInv
  <2>7. /\ r.version = cmd[c].expected /\ Legal(r, c)
        /\ ~ (cmd[c].kind = "comment" /\ r.state \in Terminal)
    BY <1>3, <2>2
  <2>8. r.state \notin Terminal
    <3>1. cmd[c].kind \in {"transition", "revise", "comment"}
      BY <1>1, Lengths DEF RequestInv, Command
    <3>2. QED
      BY <2>7, <3>1 DEF Legal, CanTransition, Terminal
  <2>9. May(c)' /\ Legal(r, c)'
    BY <1>1, <2>6, <2>7, KeptMeaning
  <2>10. cmd'[c].expected = cmd[c].expected /\ cmd'[c].doc = cmd[c].doc
    BY <2>6 DEF CommandsKept
  <2>11. handler'[h] = attempt
    BY <2>5 DEF RequestInv, TypeOK
  <2>12. docs'[cmd[c].doc] = r
    BY <1>1, <2>2
  <2> HIDE DEF d
  <2>13. Decided(h)'
    BY <2>4, <2>7, <2>8, <2>9, <2>10, <2>11, <2>12 DEF Decided
  <2>14. QED
    BY <1>1, <1>3, <2>4, <2>5, <2>13, TakenUpHolds
<1>4. QED
  BY <1>2, <1>3 DEF ReadForUpdate

\* An attempt is over without an effect.
LEMMA OverHolds ==
  ASSUME RequestInv, NEW h \in Handlers, NEW c, NEW answer \in Answer, Respond(h, c, answer),
         UNCHANGED <<docs, audit, cmd, resends>>, unread' \subseteq Nat
  PROVE  RequestInv'
<1>1. TypeOK
  BY DEF RequestInv
<1>2. /\ handler' \in [Handlers -> {Idle} \cup Attempt]
      /\ answers' \in [1..MaxCommands -> SUBSET Answer]
      /\ handler'[h] = Idle
      /\ \A g \in Handlers \ {h} : handler'[g] = handler[g]
  BY <1>1, RespondType
<1>3. TypeOK'
  BY <1>1, <1>2 DEF TypeOK
<1>4. CommandsKept
  BY DEF CommandsKept
<1>5. QED
  BY <1>2, <1>3, <1>4, QuietStep

LEMMA ReadAgainHolds ==
  ASSUME RequestInv, NEW h \in Handlers, ReadAgain(h) PROVE RequestInv'
<1> DEFINE c == handler[h].cmd
<1>1. UNCHANGED <<docs, audit, cmd, resends>>
  BY DEF ReadAgain
<1>2. c \in Nat /\ unread \subseteq Nat
  <2>1. handler[h].pc = "again" /\ handler[h] # Idle
    BY DEF ReadAgain, Idle
  <2>2. c \in DOMAIN cmd
    BY <2>1 DEF RequestInv, AttemptHolds
  <2>3. QED
    BY <2>2, Lengths DEF RequestInv, TypeOK
<1>3. unread' \subseteq Nat
  BY <1>2 DEF ReadAgain
<1>4. PICK answer \in Answer : Respond(h, c, answer)
  BY DEF ReadAgain, Resolved, Answer
<1>5. QED
  BY <1>1, <1>3, <1>4, OverHolds

LEMMA FailWriteHolds ==
  ASSUME RequestInv, NEW h \in Handlers, FailWrite(h) PROVE RequestInv'
<1>1. /\ UNCHANGED <<docs, audit, cmd, resends>> /\ "internal" \in Answer
      /\ Respond(h, handler[h].cmd, "internal") /\ unread' \subseteq Nat
  BY DEF FailWrite, Answer, RequestInv, TypeOK
<1>2. QED
  BY <1>1, OverHolds

-----------------------------------------------------------------------------
(***************************************************************************)
(* The transactions.                                                       *)
(***************************************************************************)
\* A transaction leaves the other documents and attempts as they are.
LEMMA TransactionHolds ==
  ASSUME RequestInv, TypeOK', DocsGrow, UNCHANGED cmd,
         NEW h \in Handlers, handler'[h] = Idle,
         \A g \in Handlers \ {h} : handler'[g] = handler[g],
         NEW d \in DOMAIN docs', ReviewHolds(d)',
         \A x \in DOMAIN docs' : x # d => x \in DOMAIN docs /\ docs'[x] = docs[x]
  PROVE  RequestInv'
<1>1. CommandsKept
  BY DEF CommandsKept
<1>2. CommandsHold'
  BY <1>1, KeepCommands
<1>3. ASSUME NEW g \in Handlers PROVE AttemptHolds(g)'
  <2>1. CASE g = h
    BY <2>1 DEF AttemptHolds
  <2>2. CASE g # h
    BY <2>2, <1>1, KeepAttempt
  <2>3. QED
    BY <2>1, <2>2
<1>4. ASSUME NEW x \in DOMAIN docs' PROVE ReviewHolds(x)'
  BY <1>1, KeepReview
<1>5. QED
  BY <1>2, <1>3, <1>4 DEF RequestInv

LEMMA CreateHolds ==
  ASSUME RequestInv, NEW h \in Handlers, Create(h) PROVE RequestInv'
<1> DEFINE c == handler[h].cmd
<1>1. /\ Respond(h, c, "ok") /\ "ok" \in Answer /\ UNCHANGED <<cmd, resends, unread>>
      /\ unread' \subseteq Nat
  BY DEF Create, Answer, RequestInv, TypeOK
<1>2. CASE UNCHANGED <<docs, audit>>
  BY <1>1, <1>2, OverHolds
<1>3. CASE /\ docs' = Append(docs, NewDoc(c))
           /\ audit' = Append(audit, [doc |-> Len(docs) + 1, key |-> c])
  <2>1. TypeOK
    BY DEF RequestInv
  <2>2. handler[h] # Idle
    BY <2>1, AtWork DEF Create
  <2>3. c \in DOMAIN cmd
    BY <2>2 DEF RequestInv, AttemptHolds
  <2>4. c \in Nat /\ cmd[c] \in Command /\ Len(docs) \in Nat /\ DOMAIN docs = 1..Len(docs)
    BY <2>1, <2>3, Lengths
  <2>5. PICK new \in Doc : new = NewDoc(c) /\ new.state = "submitted"
    BY <2>4, NewDocType
  <2>6. PICK x \in Nat : x = Len(docs) + 1
    BY <2>4
  <2>7. /\ docs' \in Seq(Doc)
        /\ DOMAIN docs' = DOMAIN docs \cup {x}
        /\ docs'[x] = new
        /\ \A d \in DOMAIN docs : docs'[d] = docs[d]
    BY <1>3, <2>1, <2>5, <2>6, AddDoc
  <2>8. audit' \in Seq([doc : Nat, key : Nat])
    <3>1. audit' = Append(audit, [doc |-> x, key |-> c])
      BY <1>3, <2>6
    <3>2. QED
      BY <3>1, <2>1, <2>4, AuditType
  <2>9. /\ handler' \in [Handlers -> {Idle} \cup Attempt]
        /\ answers' \in [1..MaxCommands -> SUBSET Answer]
        /\ handler'[h] = Idle
        /\ \A g \in Handlers \ {h} : handler'[g] = handler[g]
    BY <1>1, <2>1, RespondType
  <2>10. TypeOK'
    BY <1>1, <2>1, <2>7, <2>8, <2>9 DEF TypeOK
  <2>11. DocsGrow
    <3>1. ASSUME NEW d \in DOMAIN docs PROVE docs[d].version \in Nat
      BY <2>1, Lengths, Parts
    <3>2. QED
      BY <2>7, <3>1 DEF DocsGrow
  <2>12. ReviewHolds(x)'
    <3>1. docs'[x].state = "submitted"
      BY <2>5, <2>7
    <3>2. QED
      BY <3>1 DEF ReviewHolds, Terminal
  <2>13. x \in DOMAIN docs' /\ \A y \in DOMAIN docs' : y # x => y \in DOMAIN docs /\ docs'[y] = docs[y]
    BY <2>7
  <2>14. QED
    BY <1>1, <2>9, <2>10, <2>11, <2>12, <2>13, TransactionHolds
<1>4. QED
  BY <1>2, <1>3 DEF Create

\* A decided document is under review by its reviewer; so is one taken into review.
LEMMA TransitionReview ==
  ASSUME RequestInv, NEW d \in DOMAIN docs, NEW c \in DOMAIN cmd, UNCHANGED cmd,
         ReviewHolds(d), cmd[c].kind = "transition", May(c), Legal(docs[d], c),
         cmd[c].seen = Len(docs[d].revisions),
         NEW r \in Doc, docs'[d] = Transition(docs[d], r, c)
  PROVE  ReviewHolds(d)'
<1>1. /\ TypeOK /\ c \in Nat /\ cmd[c] \in Command /\ docs[d] \in Doc
  BY Lengths DEF RequestInv
<1>2. PICK old \in Doc : old = docs[d]
  BY <1>1
<1>3. PICK new \in Doc : new = docs'[d]
  BY <1>1, TransitionStep
<1>4. /\ new.state = cmd[c].to /\ new.reviewer = cmd[c].actor
      /\ new.submitter = old.submitter /\ new.history = Happened(old, c)
      /\ new.revisions = old.revisions
  <2>1. /\ Transition(old, r, c).state = cmd[c].to /\ Transition(old, r, c).reviewer = cmd[c].actor
        /\ Transition(old, r, c).submitter = old.submitter
        /\ Transition(old, r, c).history = Happened(old, c)
        /\ Transition(old, r, c).revisions = old.revisions
    BY DEF Transition, Doc
  <2>2. new = Transition(old, r, c)
    BY <1>2, <1>3
  <2>3. QED
    BY <2>1, <2>2
<1>5. PICK n \in Nat : n = Len(old.history)
  BY Parts
<1>6. /\ Len(new.history) = n + 1 /\ DOMAIN new.history = 1..(n + 1)
      /\ new.history[n + 1] = [key |-> c, actor |-> cmd[c].actor, to |-> cmd[c].to]
      /\ \A i \in 1..n : new.history[i] = old.history[i]
  <2>1. /\ Happened(old, c) \in Seq(Event)
        /\ Len(Happened(old, c)) = n + 1
        /\ Happened(old, c)[n + 1] = [key |-> c, actor |-> cmd[c].actor, to |-> cmd[c].to]
        /\ \A i \in 1..n : Happened(old, c)[i] = old.history[i]
    BY <1>1, <1>5, HappenedType
  <2>2. DOMAIN Happened(old, c) = 1..(n + 1)
    BY <2>1, LenProperties
  <2>3. QED
    BY <1>4, <2>1, <2>2
<1>7. /\ CanTransition(old.state, cmd[c].to)
      /\ cmd[c].actor # old.submitter /\ old.reviewer \in {Nobody, cmd[c].actor}
      /\ cmd[c].actor \in Reviewers
  BY <1>2 DEF May, Legal, Reviewable
<1>8. ASSUME cmd[c].to \in {"in_review"} \cup Terminal
      PROVE  UnderReview(new)
  <2>1. new.reviewer \in Reviewers \ {new.submitter}
    BY <1>4, <1>7
  <2>2. CASE cmd[c].to = "in_review"
    <3>1. /\ n + 1 \in DOMAIN new.history
          /\ new.history[n + 1].to = "in_review" /\ new.history[n + 1].actor = new.reviewer
          /\ \A j \in (n + 2)..Len(new.history) : new.history[j].to # "submitted"
      BY <1>4, <1>6, <2>2
    <3>2. PICK k \in DOMAIN new.history : k = n + 1 /\ k + 1 = n + 2
      BY <3>1
    <3>3. /\ new.history[k].to = "in_review" /\ new.history[k].actor = new.reviewer
          /\ \A j \in (k + 1)..Len(new.history) : new.history[j].to # "submitted"
      BY <3>1, <3>2
    <3>4. QED
      BY <2>1, <3>3 DEF UnderReview
  <2>3. CASE cmd[c].to \in Terminal
    <3>1. old.state = "in_review"
      BY <1>7, <2>3 DEF CanTransition, Terminal
    <3>2. UnderReview(old)
      BY <1>2, <3>1 DEF ReviewHolds
    <3>3. PICK i \in DOMAIN old.history :
             /\ old.history[i].to = "in_review" /\ old.history[i].actor = old.reviewer
             /\ \A j \in (i + 1)..n : old.history[j].to # "submitted"
      BY <1>5, <3>2 DEF UnderReview
    <3>4. i \in 1..n
      BY <1>5, Parts, LenProperties
    <3>5. old.reviewer = cmd[c].actor
      BY <1>7, <3>2 DEF UnderReview
    <3>6. /\ i \in DOMAIN new.history
          /\ new.history[i].to = "in_review" /\ new.history[i].actor = new.reviewer
      BY <1>4, <1>6, <3>3, <3>4, <3>5
    <3>7. new.history[n + 1].to # "submitted"
      BY <1>6, <2>3 DEF Terminal
    <3>8. ASSUME NEW j \in (i + 1)..(n + 1) PROVE new.history[j].to # "submitted"
      <4>1. CASE j = n + 1
        BY <3>7, <4>1
      <4>2. CASE j \in (i + 1)..n
        <5>1. j \in 1..n
          BY <3>4, <4>2
        <5>2. new.history[j] = old.history[j] /\ old.history[j].to # "submitted"
          BY <1>6, <3>3, <4>2, <5>1
        <5>3. QED
          BY <5>2
      <4>3. QED
        BY <3>4, <4>1, <4>2
    <3>9. QED
      BY <1>6, <2>1, <3>6, <3>8 DEF UnderReview
  <2>4. QED
    BY <1>8, <2>2, <2>3
<1>9. Closed(docs[d])'
  <2>1. new.history[Len(new.history)] = [key |-> c, actor |-> cmd[c].actor, to |-> cmd[c].to]
    BY <1>6
  <2>2. cmd[c].seen = Len(new.revisions)
    BY <1>2, <1>4
  <2>3. new.reviewer = cmd[c].actor /\ docs'[d] = new
    BY <1>3, <1>4
  <2>4. QED
    BY <2>1, <2>2, <2>3 DEF Closed
<1>10. docs'[d].state \in {"in_review"} \cup Terminal => UnderReview(docs[d])'
  BY <1>3, <1>4, <1>8 DEF UnderReview
<1>11. QED
  BY <1>9, <1>10 DEF ReviewHolds

LEMMA AtomicAppendHolds ==
  ASSUME RequestInv, NEW h \in Handlers, AtomicAppend(h) PROVE RequestInv'
<1>1. TypeOK /\ handler[h].pc = "write" /\ UNCHANGED <<cmd, resends, unread>>
  BY DEF RequestInv, AtomicAppend
<1>2. /\ handler[h] # Idle /\ handler[h].read \in Doc
  BY <1>1, AtWork
<1>3. /\ handler[h].cmd \in DOMAIN cmd /\ cmd[handler[h].cmd].kind # "submit" /\ Decided(h)
  BY <1>1, <1>2 DEF RequestInv, AttemptHolds
<1>4. PICK c \in DOMAIN cmd : c = handler[h].cmd
  BY <1>3
<1>5. PICK r \in Doc : r = handler[h].read
  BY <1>2
<1>6. c \in Nat /\ cmd[c] \in Command /\ cmd[c].kind # "submit"
  BY <1>1, <1>3, <1>4, Lengths
<1>7. /\ cmd[c].doc \in DOMAIN docs
      /\ cmd[c].expected = docs[cmd[c].doc].version
            => cmd[c].seen = Len(docs[cmd[c].doc].revisions)
  BY <1>6 DEF RequestInv, CommandsHold
<1>8. PICK d \in DOMAIN docs : d = cmd[c].doc
  BY <1>7
<1>9. d \in Nat /\ docs[d] \in Doc
  BY <1>1, Lengths
<1>10. CASE /\ ~ Matches(docs[d], c)
            /\ handler' = [handler EXCEPT ![h] = [pc |-> "again", cmd |-> c]]
            /\ UNCHANGED <<docs, audit, answers>>
  <2>1. PICK attempt \in Attempt : attempt = [pc |-> "again", cmd |-> c]
    BY <1>6, AttemptTypes
  <2>2. attempt.pc = "again" /\ attempt.cmd = c
    BY <2>1
  <2>3. /\ handler' \in [Handlers -> {Idle} \cup Attempt]
        /\ handler'[h] = attempt
        /\ \A g \in Handlers \ {h} : handler'[g] = handler[g]
    BY <1>1, <1>10, <2>1 DEF TypeOK
  <2>4. TypeOK'
    BY <1>1, <1>10, <2>3 DEF TypeOK
  <2>5. CommandsKept
    BY <1>1 DEF CommandsKept
  <2>6. AttemptHolds(h)'
    BY <1>1, <1>6, <2>2, <2>3 DEF AttemptHolds
  <2>7. QED
    BY <1>1, <1>10, <2>3, <2>4, <2>5, <2>6, QuietStep
<1>11. CASE /\ Matches(docs[d], c)
            /\ docs' = [docs EXCEPT ![d] = Updated(docs[d], r, c)]
            /\ audit' = Append(audit, [doc |-> d, key |-> c])
            /\ Respond(h, c, "ok")
  <2>1. /\ May(c) /\ Legal(r, c) /\ r.version = cmd[c].expected
        /\ docs[d].version = r.version => docs[d] = r
    BY <1>3, <1>4, <1>5, <1>8 DEF Decided
  <2>2. docs[d] = r /\ cmd[c].seen = Len(docs[d].revisions)
    BY <1>7, <1>8, <1>11, <2>1 DEF Matches
  <2>3. PICK new \in Doc : new = Updated(docs[d], r, c) /\ new.version = r.version + 1
    <3>1. /\ Updated(docs[d], r, c) \in Doc
          /\ Updated(docs[d], r, c).version = r.version + 1
      BY <1>6, <1>9, UpdateStep
    <3>2. QED
      BY <3>1
  <2>4. /\ docs' \in Seq(Doc) /\ DOMAIN docs' = DOMAIN docs /\ docs'[d] = new
        /\ \A x \in DOMAIN docs : x # d => docs'[x] = docs[x]
    BY <1>1, <1>11, <2>3, ReplaceDoc
  <2>5. audit' \in Seq([doc : Nat, key : Nat])
    BY <1>1, <1>6, <1>9, <1>11, AuditType
  <2>6. /\ handler' \in [Handlers -> {Idle} \cup Attempt]
        /\ answers' \in [1..MaxCommands -> SUBSET Answer]
        /\ handler'[h] = Idle
        /\ \A g \in Handlers \ {h} : handler'[g] = handler[g]
    BY <1>1, <1>11, RespondType, Answers
  <2>7. TypeOK'
    BY <1>1, <2>4, <2>5, <2>6 DEF TypeOK
  <2>8. DocsGrow
    <3>1. ASSUME NEW x \in DOMAIN docs PROVE docs[x].version \in Nat
      BY <1>1, Lengths, Parts
    <3>2. QED
      BY <2>2, <2>3, <2>4, <3>1 DEF DocsGrow
  <2>9. ReviewHolds(d)'
    <3>1. ReviewHolds(d)
      BY DEF RequestInv
    <3>2. CASE cmd[c].kind = "comment"
      <4>1. docs'[d] = Comment(docs[d], r, c)
        BY <2>3, <2>4, <3>2 DEF Updated
      <4>2. /\ docs'[d].state = docs[d].state /\ docs'[d].reviewer = docs[d].reviewer
            /\ docs'[d].submitter = docs[d].submitter /\ docs'[d].history = docs[d].history
            /\ docs'[d].revisions = docs[d].revisions
        <5>1. docs[d] \in Doc
          BY <1>9
        <5>2. QED
          BY <4>1, <5>1, CommentKeeps
      <4>3. QED
        BY <1>1, <3>1, <4>2 DEF ReviewHolds, UnderReview, Closed
    <3>3. CASE cmd[c].kind = "transition"
      <4>1. docs'[d] = Transition(docs[d], r, c)
        BY <2>3, <2>4, <3>3 DEF Updated
      <4>2. QED
        BY <1>1, <2>1, <2>2, <3>1, <3>3, <4>1, TransitionReview
    <3>4. CASE cmd[c].kind = "revise"
      <4>1. docs'[d] = Revise(docs[d], r, c)
        BY <2>3, <2>4, <3>4 DEF Updated
      <4>2. docs'[d].state = "submitted"
        <5>1. Revise(r, r, c).state = "submitted"
          BY <1>6, ReviseStep
        <5>2. QED
          BY <2>2, <4>1, <5>1
      <4>3. QED
        BY <4>2 DEF ReviewHolds, Terminal
    <3>5. QED
      BY <1>6, <3>2, <3>3, <3>4 DEF Command
  <2>10. QED
    BY <1>1, <2>4, <2>6, <2>7, <2>8, <2>9, TransactionHolds
<1>12. QED
  BY <1>4, <1>5, <1>8, <1>10, <1>11 DEF AtomicAppend

-----------------------------------------------------------------------------
LEMMA StepHolds == RequestInv /\ [Next]_vars => RequestInv'
<1> SUFFICES ASSUME RequestInv, [Next]_vars PROVE RequestInv'
  OBVIOUS
<1>1. ASSUME NEW a \in Actors, IssueSubmit(a) PROVE RequestInv'
  BY <1>1, IssueSubmitHolds
<1>2. ASSUME NEW a \in Actors, NEW d \in DOMAIN docs, NEW to \in State,
             NEW kind \in {"transition", "revise", "comment"}, IssueUpdate(a, d, kind, to)
      PROVE  RequestInv'
  BY <1>2, IssueUpdateHolds
<1>3. ASSUME NEW h \in Handlers, NEW c \in DOMAIN cmd,
             Deny(h, c) \/ FindExisting(h, c) \/ ReadForUpdate(h, c)
      PROVE  RequestInv'
  BY <1>3, DenyHolds, FindExistingHolds, ReadForUpdateHolds
<1>4. ASSUME NEW h \in Handlers, Create(h) \/ AtomicAppend(h) \/ ReadAgain(h) \/ FailWrite(h)
      PROVE  RequestInv'
  BY <1>4, CreateHolds, AtomicAppendHolds, ReadAgainHolds, FailWriteHolds
<1>5. CASE UNCHANGED vars
  <2>1. /\ UNCHANGED docs /\ CommandsKept /\ DOMAIN cmd' = DOMAIN cmd
        /\ \A g \in Handlers : handler'[g] = handler[g]
    BY <1>5 DEF vars, CommandsKept
  <2>2. TypeOK'
    BY <1>5 DEF RequestInv, TypeOK, vars
  <2>3. QED
    BY <2>1, <2>2, QuietStep
<1>6. QED
  BY <1>1, <1>2, <1>3, <1>4, <1>5 DEF Next

(***************************************************************************)
(* While a document has the version a handler read, it is the document the *)
(* handler read, and a command that expects it was sent by a client that   *)
(* was shown its revisions; a decision is by the reviewer it is under.     *)
(***************************************************************************)
THEOREM RequestsHold == Spec => []RequestInv
<1>1. QED
  BY InitHolds, StepHolds, PTL DEF Spec

(***************************************************************************)
(* Documents, commands and attempts keep their shape: version, history,    *)
(* comments and revisions of a change request are well formed.             *)
(***************************************************************************)
THEOREM RequestsAreTyped == Spec => []TypeOK
<1>1. RequestInv => TypeOK
  BY DEF RequestInv
<1>2. QED
  BY <1>1, RequestsHold, PTL

(***************************************************************************)
(* A decision is about the last revision its reviewer was shown, however   *)
(* many submitters, reviewers and attempts race (Service.Transition and    *)
(* the version filter of atomicAppend).                                    *)
(***************************************************************************)
THEOREM DecisionsAreAsSeen == Spec => []DecidedAsSeen
<1>1. RequestInv => DecidedAsSeen
  BY DEF RequestInv, ReviewHolds, Closed, DecidedAsSeen
<1>2. QED
  BY <1>1, RequestsHold, PTL

(***************************************************************************)
(* A decision is the work of a reviewer who is not the submitter and took  *)
(* the latest revision into review (ChangeRequest.Transition).             *)
(***************************************************************************)
THEOREM DecisionsAreByTheReviewer == Spec => []DecidedByItsReviewer
<1>1. RequestInv => DecidedByItsReviewer
  <2> SUFFICES ASSUME RequestInv, NEW d \in DOMAIN docs, docs[d].state \in Terminal
               PROVE  LET h == docs[d].history
                          judge == h[Len(h)].actor
                      IN /\ judge \in Reviewers \ {docs[d].submitter}
                         /\ \E i \in DOMAIN h :
                               /\ h[i].to = "in_review" /\ h[i].actor = judge
                               /\ \A j \in (i + 1)..Len(h) : h[j].to # "submitted"
    BY DEF DecidedByItsReviewer
  <2>1. UnderReview(docs[d]) /\ Closed(docs[d])
    BY DEF RequestInv, ReviewHolds
  <2>2. QED
    BY <2>1 DEF UnderReview, Closed
<1>2. QED
  BY <1>1, RequestsHold, PTL

(***************************************************************************)
(* A decided change request never changes again, by whatever was accepted  *)
(* before the decision and arrives after it (atomicAppend's filter).       *)
(***************************************************************************)
THEOREM DecisionsAreFinal == Spec => DecisionsStand
<1>1. ASSUME RequestInv, [Next]_vars, NEW d \in DOMAIN docs, docs[d].state \in Terminal
      PROVE  docs'[d] = docs[d]
  <2>1. TypeOK
    BY <1>1 DEF RequestInv
  <2>2. ASSUME NEW a \in Actors, IssueSubmit(a) PROVE UNCHANGED docs
    BY <2>2 DEF IssueSubmit, Issue
  <2>3. ASSUME NEW a \in Actors, NEW x \in DOMAIN docs, NEW to \in State,
               NEW kind \in {"transition", "revise", "comment"}, IssueUpdate(a, x, kind, to)
        PROVE  UNCHANGED docs
    BY <2>3 DEF IssueUpdate, Issue
  <2>4. ASSUME NEW h \in Handlers, NEW c \in DOMAIN cmd,
               Deny(h, c) \/ FindExisting(h, c) \/ ReadForUpdate(h, c)
        PROVE  UNCHANGED docs
    BY <2>4 DEF Deny, FindExisting, ReadForUpdate
  <2>5. ASSUME NEW h \in Handlers, ReadAgain(h) \/ FailWrite(h) PROVE UNCHANGED docs
    BY <2>5 DEF ReadAgain, FailWrite
  <2>6. ASSUME NEW h \in Handlers, Create(h) PROVE docs'[d] = docs[d]
    <3>1. d \in 1..Len(docs) /\ docs \in Seq(Doc)
      BY <2>1, Lengths DEF TypeOK
    <3>2. CASE UNCHANGED docs
      BY <3>2
    <3>3. CASE docs' = Append(docs, NewDoc(handler[h].cmd))
      BY <3>1, <3>3
    <3>4. QED
      BY <2>6, <3>2, <3>3 DEF Create
  <2>7. ASSUME NEW h \in Handlers, AtomicAppend(h) PROVE docs'[d] = docs[d]
    <3> DEFINE x == cmd[handler[h].cmd].doc
               u == Updated(docs[x], handler[h].read, handler[h].cmd)
    <3>1. handler[h].pc = "write"
      BY <2>7 DEF AtomicAppend
    <3>2. Decided(h)
      BY <1>1, <2>1, <3>1, AtWork DEF RequestInv, AttemptHolds
    <3>3. CASE UNCHANGED docs
      BY <3>3
    <3>4. CASE Matches(docs[x], handler[h].cmd) /\ docs' = [docs EXCEPT ![x] = u]
      <4>1. docs[x].version = handler[h].read.version
        BY <3>2, <3>4 DEF Matches, Decided
      <4>2. docs[x] = handler[h].read /\ handler[h].read.state \notin Terminal
        BY <3>2, <4>1 DEF Decided
      <4>3. x # d
        BY <1>1, <4>2
      <4> HIDE DEF u, x
      <4>4. QED
        BY <3>4, <4>3
    <3>5. QED
      BY <2>7, <3>3, <3>4 DEF AtomicAppend
  <2>8. CASE UNCHANGED vars
    BY <2>8 DEF vars
  <2>9. QED
    BY <1>1, <2>2, <2>3, <2>4, <2>5, <2>6, <2>7, <2>8 DEF Next
<1>2. RequestInv /\ [Next]_vars
        => [\A d \in DOMAIN docs : docs[d].state \in Terminal => docs'[d] = docs[d]]_vars
  BY <1>1
<1>3. QED
  BY <1>2, RequestsHold, PTL DEF Spec, DecisionsStand

-----------------------------------------------------------------------------
(***************************************************************************)
(* What a document took.                                                   *)
(***************************************************************************)
\* Keys lists the history and then the comments.
LEMMA Joined ==
  ASSUME NEW s \in Seq(Nat), NEW t \in Seq(Nat)
  PROVE  /\ (s \o t) \in Seq(Nat) /\ Len(s \o t) = Len(s) + Len(t)
         /\ \A i \in 1..(Len(s) + Len(t)) :
               (s \o t)[i] = IF i <= Len(s) THEN s[i] ELSE t[i - Len(s)]
BY ConcatProperties

LEMMA KeysParts ==
  ASSUME NEW doc \in Doc
  PROVE  /\ DOMAIN Keys(doc) = 1..(Len(doc.history) + Len(doc.comments))
         /\ \A i \in 1..Len(doc.history) : Keys(doc)[i] = doc.history[i].key
         /\ \A i \in 1..Len(doc.comments) :
               Keys(doc)[Len(doc.history) + i] = doc.comments[i].key
<1> DEFINE h == [i \in DOMAIN doc.history |-> doc.history[i].key]
           k == [i \in DOMAIN doc.comments |-> doc.comments[i].key]
<1>1. /\ Len(doc.history) \in Nat /\ DOMAIN doc.history = 1..Len(doc.history)
      /\ Len(doc.comments) \in Nat /\ DOMAIN doc.comments = 1..Len(doc.comments)
      /\ \A i \in DOMAIN doc.history : doc.history[i] \in Event
      /\ \A i \in DOMAIN doc.comments : doc.comments[i] \in Comments
  BY Parts
<1>2. h \in [1..Len(doc.history) -> Nat] /\ k \in [1..Len(doc.comments) -> Nat]
  BY <1>1 DEF Event, Comments
<1>3. h \in Seq(Nat) /\ Len(h) = Len(doc.history) /\ k \in Seq(Nat) /\ Len(k) = Len(doc.comments)
  BY <1>1, <1>2
<1>4. \A i \in 1..Len(doc.history) : h[i] = doc.history[i].key
  BY <1>1
<1>5. \A i \in 1..Len(doc.comments) : k[i] = doc.comments[i].key
  BY <1>1
<1>6. Keys(doc) = h \o k
  BY DEF Keys
<1> HIDE DEF h, k
<1>7. /\ DOMAIN (h \o k) = 1..(Len(h) + Len(k))
      /\ \A i \in 1..Len(h) : (h \o k)[i] = h[i]
      /\ \A i \in 1..Len(k) : (h \o k)[Len(h) + i] = k[i]
  <2>1. /\ (h \o k) \in Seq(Nat) /\ Len(h \o k) = Len(h) + Len(k)
        /\ \A i \in 1..(Len(h) + Len(k)) :
              (h \o k)[i] = IF i <= Len(h) THEN h[i] ELSE k[i - Len(h)]
    BY <1>3, Joined
  <2>2. DOMAIN (h \o k) = 1..(Len(h) + Len(k))
    BY <2>1, LenProperties
  <2>3. Len(h) \in Nat /\ Len(k) \in Nat
    BY <1>1, <1>3
  <2>4. ASSUME NEW i \in 1..Len(h) PROVE (h \o k)[i] = h[i]
    <3>1. i \in 1..(Len(h) + Len(k)) /\ i <= Len(h)
      BY <2>3
    <3>2. QED
      BY <2>1, <3>1
  <2>5. ASSUME NEW i \in 1..Len(k) PROVE (h \o k)[Len(h) + i] = k[i]
    <3>1. /\ Len(h) + i \in 1..(Len(h) + Len(k)) /\ ~ (Len(h) + i <= Len(h))
          /\ Len(h) + i - Len(h) = i
      BY <2>3
    <3>2. (h \o k)[Len(h) + i] = k[Len(h) + i - Len(h)]
      BY <2>1, <3>1
    <3>3. QED
      BY <3>1, <3>2
  <2>6. QED
    BY <2>2, <2>4, <2>5
<1>8. QED
  BY <1>3, <1>4, <1>5, <1>6, <1>7

LEMMA KeysAreTaken ==
  ASSUME NEW doc \in Doc
  PROVE  {Keys(doc)[i] : i \in DOMAIN Keys(doc)} = Taken(doc)
<1>1. PICK n \in Nat, m \in Nat : /\ n = Len(doc.history) /\ DOMAIN doc.history = 1..n
                                  /\ m = Len(doc.comments) /\ DOMAIN doc.comments = 1..m
  <2>1. doc.history \in Seq(Event) /\ doc.comments \in Seq(Comments)
    BY Parts
  <2>2. QED
    BY <2>1, LenProperties
<1>2. /\ DOMAIN Keys(doc) = 1..(n + m)
      /\ \A i \in 1..n : Keys(doc)[i] = doc.history[i].key
      /\ \A i \in 1..m : Keys(doc)[n + i] = doc.comments[i].key
  BY <1>1, KeysParts
<1>3. ASSUME NEW i \in 1..(n + m) PROVE Keys(doc)[i] \in Taken(doc)
  <2>1. CASE i \in 1..n
    BY <1>1, <1>2, <2>1 DEF Taken
  <2>2. CASE i \notin 1..n
    <3>1. PICK j \in 1..m : i = n + j
      <4>1. i - n \in 1..m /\ i = n + (i - n)
        BY <2>2
      <4>2. QED
        BY <4>1
    <3>2. Keys(doc)[i] = doc.comments[j].key
      BY <1>2, <3>1
    <3>3. QED
      BY <1>1, <3>2 DEF Taken
  <2>3. QED
    BY <2>1, <2>2
<1>4. ASSUME NEW c \in Taken(doc) PROVE \E i \in 1..(n + m) : Keys(doc)[i] = c
  <2>1. CASE \E i \in 1..n : c = doc.history[i].key
    <3>1. PICK i \in 1..n : c = doc.history[i].key
      BY <2>1
    <3>2. i \in 1..(n + m) /\ Keys(doc)[i] = c
      BY <1>2, <3>1
    <3>3. QED
      BY <3>2
  <2>2. CASE \E i \in 1..m : c = doc.comments[i].key
    <3>1. PICK i \in 1..m : c = doc.comments[i].key
      BY <2>2
    <3>2. n + i \in 1..(n + m) /\ Keys(doc)[n + i] = c
      BY <1>2, <3>1
    <3>3. QED
      BY <3>2
  <2>3. QED
    BY <1>1, <2>1, <2>2 DEF Taken
<1>5. QED
  BY <1>2, <1>3, <1>4

\* The document took one more command.
Entered(old, new, c) ==
    /\ new.key = old.key /\ new.version = old.version + 1
    /\ IF cmd[c].kind = "comment"
       THEN /\ new.history = old.history
            /\ new.comments = Append(old.comments, [key |-> c, actor |-> cmd[c].actor])
       ELSE /\ new.history = Append(old.history,
                                    [key |-> c, actor |-> cmd[c].actor, to |-> cmd[c].to])
            /\ new.comments = old.comments

LEMMA UpdateEnters ==
  ASSUME NEW d \in Doc, NEW c \in Nat, cmd[c] \in Command, cmd[c].kind # "submit"
  PROVE  Entered(d, Updated(d, d, c), c)
<1>1. cmd[c].kind \in {"comment", "transition", "revise"}
  BY DEF Command
<1>2. CASE cmd[c].kind = "comment"
  <2>1. Updated(d, d, c) = Comment(d, d, c)
    BY <1>2 DEF Updated
  <2>2. QED
    BY <1>2, <2>1 DEF Entered, Comment, Doc
<1>3. CASE cmd[c].kind = "transition"
  <2>1. Updated(d, d, c) = Transition(d, d, c)
    BY <1>3 DEF Updated
  <2>2. QED
    BY <1>3, <2>1 DEF Entered, Transition, Happened, Doc
<1>4. CASE cmd[c].kind = "revise"
  <2>1. Updated(d, d, c) = Revise(d, d, c)
    BY <1>4 DEF Updated
  <2>2. QED
    BY <1>4, <2>1 DEF Entered, Revise, Happened, Doc
<1>5. QED
  BY <1>1, <1>2, <1>3, <1>4

\* Its entries are the old ones and one more.
LEMMA CommentAdded ==
  ASSUME NEW old \in Doc, NEW new \in Doc, NEW c, Entered(old, new, c), cmd[c].kind = "comment"
  PROVE  /\ new.history = old.history
         /\ DOMAIN new.comments = DOMAIN old.comments \cup {Len(old.comments) + 1}
         /\ new.comments[Len(old.comments) + 1] = [key |-> c, actor |-> cmd[c].actor]
         /\ \A i \in DOMAIN old.comments : new.comments[i] = old.comments[i]
<1> DEFINE e == [key |-> c, actor |-> cmd[c].actor]
           s == Append(old.comments, e)
<1>1. /\ Len(old.comments) \in Nat /\ DOMAIN old.comments = 1..Len(old.comments)
      /\ old.comments \in Seq(Comments)
  BY Parts
<1>2. new.history = old.history /\ new.comments = s
  BY DEF Entered
<1> HIDE DEF e
<1>3. /\ DOMAIN s = 1..(Len(old.comments) + 1) /\ s[Len(old.comments) + 1] = e
      /\ \A i \in 1..Len(old.comments) : s[i] = old.comments[i]
  BY <1>1, AppendProperties
<1> HIDE DEF s
<1>4. QED
  BY <1>1, <1>2, <1>3 DEF e

LEMMA EventAdded ==
  ASSUME NEW old \in Doc, NEW new \in Doc, NEW c, Entered(old, new, c), cmd[c].kind # "comment"
  PROVE  /\ new.comments = old.comments
         /\ DOMAIN new.history = DOMAIN old.history \cup {Len(old.history) + 1}
         /\ new.history[Len(old.history) + 1] =
               [key |-> c, actor |-> cmd[c].actor, to |-> cmd[c].to]
         /\ \A i \in DOMAIN old.history :
               i \in Nat /\ i < Len(old.history) + 1 /\ new.history[i] = old.history[i]
<1> DEFINE e == [key |-> c, actor |-> cmd[c].actor, to |-> cmd[c].to]
           s == Append(old.history, e)
<1>1. /\ Len(old.history) \in Nat /\ DOMAIN old.history = 1..Len(old.history)
      /\ old.history \in Seq(Event)
  BY Parts
<1>2. new.comments = old.comments /\ new.history = s
  BY DEF Entered
<1> HIDE DEF e
<1>3. /\ DOMAIN s = 1..(Len(old.history) + 1) /\ s[Len(old.history) + 1] = e
      /\ \A i \in 1..Len(old.history) : s[i] = old.history[i]
  BY <1>1, AppendProperties
<1> HIDE DEF s
<1>4. QED
  BY <1>1, <1>2, <1>3 DEF e

LEMMA EnteredTaken ==
  ASSUME NEW old \in Doc, NEW new \in Doc, NEW c, Entered(old, new, c)
  PROVE  Taken(new) = Taken(old) \cup {c}
<1>1. CASE cmd[c].kind = "comment"
  <2>1. /\ new.history = old.history
        /\ DOMAIN new.comments = DOMAIN old.comments \cup {Len(old.comments) + 1}
        /\ new.comments[Len(old.comments) + 1] = [key |-> c, actor |-> cmd[c].actor]
        /\ \A i \in DOMAIN old.comments : new.comments[i] = old.comments[i]
    BY <1>1, CommentAdded
  <2>2. QED
    BY <2>1 DEF Taken
<1>2. CASE cmd[c].kind # "comment"
  <2>1. /\ new.comments = old.comments
        /\ DOMAIN new.history = DOMAIN old.history \cup {Len(old.history) + 1}
        /\ new.history[Len(old.history) + 1] =
              [key |-> c, actor |-> cmd[c].actor, to |-> cmd[c].to]
        /\ \A i \in DOMAIN old.history : new.history[i] = old.history[i]
    BY <1>2, EventAdded
  <2>2. QED
    BY <2>1 DEF Taken
<1>3. QED
  BY <1>1, <1>2

-----------------------------------------------------------------------------
(***************************************************************************)
(* The entries and the audit rows of a document.                           *)
(***************************************************************************)
\* Commands stay as they were sent.
LEMMA KeepEntries ==
  ASSUME CommandsKept, NEW d, NEW doc, EntriesHold(d, doc)
  PROVE  EntriesHold(d, doc)'
<1>1. /\ doc.key \in DOMAIN cmd' /\ cmd'[doc.key].kind = "submit"
      /\ \A c \in Taken(doc) :
            /\ c \in DOMAIN cmd'
            /\ cmd'[c].expected < doc.version
            /\ IF cmd'[c].kind = "submit" THEN c = doc.key ELSE cmd'[c].doc = d
  BY DEF EntriesHold, CommandsKept
<1>2. ASSUME NEW i \in DOMAIN doc.history
      PROVE  LET c == doc.history[i].key
             IN /\ cmd'[c].kind # "comment"
                /\ doc.history[i] = [key |-> c, actor |-> cmd'[c].actor, to |-> cmd'[c].to]
  <2>1. PICK c : c = doc.history[i].key
    OBVIOUS
  <2>2. c \in DOMAIN cmd
    BY <2>1 DEF EntriesHold, Taken
  <2>3. /\ cmd[c].kind # "comment"
        /\ doc.history[i] = [key |-> c, actor |-> cmd[c].actor, to |-> cmd[c].to]
    BY <2>1 DEF EntriesHold
  <2>4. QED
    BY <2>1, <2>2, <2>3 DEF CommandsKept
<1>3. ASSUME NEW i \in DOMAIN doc.comments
      PROVE  LET c == doc.comments[i].key
             IN /\ cmd'[c].kind = "comment"
                /\ doc.comments[i] = [key |-> c, actor |-> cmd'[c].actor]
  <2>1. PICK c : c = doc.comments[i].key
    OBVIOUS
  <2>2. c \in DOMAIN cmd
    BY <2>1 DEF EntriesHold, Taken
  <2>3. /\ cmd[c].kind = "comment"
        /\ doc.comments[i] = [key |-> c, actor |-> cmd[c].actor]
    BY <2>1 DEF EntriesHold
  <2>4. QED
    BY <2>1, <2>2, <2>3 DEF CommandsKept
<1>4. /\ \A i, j \in DOMAIN doc.history : doc.history[i].key = doc.history[j].key => i = j
      /\ \A i, j \in DOMAIN doc.comments : doc.comments[i].key = doc.comments[j].key => i = j
  BY DEF EntriesHold
<1>5. QED
  BY <1>1, <1>2, <1>3, <1>4 DEF EntriesHold

\* What EntriesHold says of one command and of one entry.
LEMMA EntryFacts ==
  ASSUME NEW d, NEW doc, EntriesHold(d, doc)
  PROVE  /\ \A c \in Taken(doc) :
               /\ c \in DOMAIN cmd /\ cmd[c].expected < doc.version
               /\ IF cmd[c].kind = "submit" THEN c = doc.key ELSE cmd[c].doc = d
         /\ \A i, j \in DOMAIN doc.history : doc.history[i].key = doc.history[j].key => i = j
         /\ \A i, j \in DOMAIN doc.comments : doc.comments[i].key = doc.comments[j].key => i = j
BY DEF EntriesHold

LEMMA EventFacts ==
  ASSUME NEW d, NEW doc, EntriesHold(d, doc), NEW i \in DOMAIN doc.history
  PROVE  LET k == doc.history[i].key
         IN  /\ cmd[k].kind # "comment"
             /\ doc.history[i] = [key |-> k, actor |-> cmd[k].actor, to |-> cmd[k].to]
BY DEF EntriesHold

LEMMA CommentFacts ==
  ASSUME NEW d, NEW doc, EntriesHold(d, doc), NEW i \in DOMAIN doc.comments
  PROVE  LET k == doc.comments[i].key
         IN  /\ cmd[k].kind = "comment"
             /\ doc.comments[i] = [key |-> k, actor |-> cmd[k].actor]
BY DEF EntriesHold

\* The same of the document that has the number.
LEMMA EntriesAt ==
  ASSUME NEW d, NEW doc, docs'[d] = doc, EntriesHold(d, doc)'
  PROVE  EntriesHold(d, docs[d])'
<1>1. docs'[d].key \in DOMAIN cmd' /\ cmd'[docs'[d].key].kind = "submit"
  BY DEF EntriesHold
<1>2. ASSUME NEW c \in Taken(docs[d])'
      PROVE  /\ c \in DOMAIN cmd' /\ cmd'[c].expected < docs'[d].version
             /\ IF cmd'[c].kind = "submit" THEN c = docs'[d].key ELSE cmd'[c].doc = d
  <2>1. c \in Taken(doc)
    BY DEF Taken
  <2>2. QED
    BY <2>1 DEF EntriesHold
<1>3. ASSUME NEW i \in DOMAIN docs'[d].history
      PROVE  /\ cmd'[docs'[d].history[i].key].kind # "comment"
             /\ docs'[d].history[i] = [key |-> docs'[d].history[i].key,
                                       actor |-> cmd'[docs'[d].history[i].key].actor,
                                       to |-> cmd'[docs'[d].history[i].key].to]
  <2>1. i \in DOMAIN doc.history
    OBVIOUS
  <2>2. /\ cmd'[doc.history[i].key].kind # "comment"
        /\ doc.history[i] = [key |-> doc.history[i].key, actor |-> cmd'[doc.history[i].key].actor,
                             to |-> cmd'[doc.history[i].key].to]
    BY <2>1 DEF EntriesHold
  <2>3. QED
    BY <2>2
<1>4. ASSUME NEW i \in DOMAIN docs'[d].comments
      PROVE  /\ cmd'[docs'[d].comments[i].key].kind = "comment"
             /\ docs'[d].comments[i] = [key |-> docs'[d].comments[i].key,
                                        actor |-> cmd'[docs'[d].comments[i].key].actor]
  <2>1. i \in DOMAIN doc.comments
    OBVIOUS
  <2>2. /\ cmd'[doc.comments[i].key].kind = "comment"
        /\ doc.comments[i] = [key |-> doc.comments[i].key,
                              actor |-> cmd'[doc.comments[i].key].actor]
    BY <2>1 DEF EntriesHold
  <2>3. QED
    BY <2>2
<1>5. /\ \A i, j \in DOMAIN docs'[d].history :
            docs'[d].history[i].key = docs'[d].history[j].key => i = j
      /\ \A i, j \in DOMAIN docs'[d].comments :
            docs'[d].comments[i].key = docs'[d].comments[j].key => i = j
  <2>1. /\ \A i, j \in DOMAIN doc.history : doc.history[i].key = doc.history[j].key => i = j
        /\ \A i, j \in DOMAIN doc.comments : doc.comments[i].key = doc.comments[j].key => i = j
    BY DEF EntriesHold
  <2>2. QED
    BY <2>1
<1>6. QED
  BY <1>1, <1>2, <1>3, <1>4, <1>5 DEF EntriesHold

\* A command that expects the version of d was not taken by d.
LEMMA NotTakenYet ==
  ASSUME NEW d, NEW doc \in Doc, EntriesHold(d, doc), NEW c, cmd[c].expected = doc.version
  PROVE  c \notin Taken(doc)
<1>1. doc.version \in Nat
  BY Parts
<1>2. QED
  BY <1>1 DEF EntriesHold

LEMMA EntriesEnter ==
  ASSUME NEW d, NEW old \in Doc, NEW new \in Doc, NEW c \in DOMAIN cmd,
         cmd \in Seq(Command), EntriesHold(d, old), Entered(old, new, c),
         cmd[c].kind # "submit", cmd[c].doc = d, cmd[c].expected = old.version
  PROVE  EntriesHold(d, new)
<1>1. /\ new.key = old.key /\ new.version = old.version + 1 /\ old.version \in Nat
      /\ Taken(new) = Taken(old) \cup {c} /\ c \notin Taken(old)
  BY NotTakenYet, EnteredTaken, Parts DEF Entered
<1>2. new.key \in DOMAIN cmd /\ cmd[new.key].kind = "submit"
  BY <1>1 DEF EntriesHold
<1>3. ASSUME NEW k \in Taken(new)
      PROVE  /\ k \in DOMAIN cmd
             /\ cmd[k].expected < new.version
             /\ IF cmd[k].kind = "submit" THEN k = new.key ELSE cmd[k].doc = d
  <2>1. CASE k = c
    BY <1>1, <2>1
  <2>2. CASE k \in Taken(old)
    <3>1. k \in DOMAIN cmd /\ cmd[k].expected < old.version
      BY <2>2 DEF EntriesHold
    <3>2. cmd[k] \in Command /\ cmd[k].expected \in Nat
      <4>1. cmd[k] \in Command
        BY <3>1, LenProperties
      <4>2. QED
        BY <4>1 DEF Command
    <3>3. cmd[k].expected < new.version
      BY <1>1, <3>1, <3>2
    <3>4. QED
      BY <1>1, <2>2, <3>1, <3>3 DEF EntriesHold
  <2>3. QED
    BY <1>1, <2>1, <2>2
<1>4. CASE cmd[c].kind = "comment"
  <2> DEFINE n == Len(old.comments) + 1
  <2>1. /\ new.history = old.history
        /\ DOMAIN new.comments = DOMAIN old.comments \cup {n}
        /\ new.comments[n] = [key |-> c, actor |-> cmd[c].actor]
        /\ \A i \in DOMAIN old.comments : new.comments[i] = old.comments[i]
    BY <1>4, CommentAdded
  <2> HIDE DEF n
  <2>2. \A i \in DOMAIN old.comments : old.comments[i].key # c
    BY <1>1 DEF Taken
  <2>3. new.comments[n].key = c
    BY <2>1
  <2>4. \A i, j \in DOMAIN new.comments : new.comments[i].key = new.comments[j].key => i = j
    BY <2>1, <2>2, <2>3 DEF EntriesHold
  <2>5. ASSUME NEW i \in DOMAIN new.comments
        PROVE  LET k == new.comments[i].key
               IN /\ cmd[k].kind = "comment"
                  /\ new.comments[i] = [key |-> k, actor |-> cmd[k].actor]
    <3>1. CASE i = n
      BY <1>4, <2>1, <2>3, <3>1
    <3>2. CASE i \in DOMAIN old.comments
      <4>1. new.comments[i] = old.comments[i]
        BY <2>1, <3>2
      <4>2. LET k == old.comments[i].key
            IN  /\ cmd[k].kind = "comment"
                /\ old.comments[i] = [key |-> k, actor |-> cmd[k].actor]
        BY <3>2, CommentFacts
      <4>3. QED
        BY <4>1, <4>2
    <3>3. QED
      BY <2>1, <3>1, <3>2
  <2>6. ASSUME NEW i \in DOMAIN new.history
        PROVE  LET k == new.history[i].key
               IN /\ cmd[k].kind # "comment"
                  /\ new.history[i] = [key |-> k, actor |-> cmd[k].actor, to |-> cmd[k].to]
    <3>1. i \in DOMAIN old.history /\ new.history[i] = old.history[i]
      BY <2>1
    <3>2. LET k == old.history[i].key
          IN  /\ cmd[k].kind # "comment"
              /\ old.history[i] = [key |-> k, actor |-> cmd[k].actor, to |-> cmd[k].to]
      BY <3>1, EventFacts
    <3>3. QED
      BY <3>1, <3>2
  <2>7. \A i, j \in DOMAIN new.history : new.history[i].key = new.history[j].key => i = j
    BY <2>1, EntryFacts
  <2>8. QED
    BY <1>2, <1>3, <2>4, <2>5, <2>6, <2>7 DEF EntriesHold
<1>5. CASE cmd[c].kind # "comment"
  <2> DEFINE n == Len(old.history) + 1
  <2>1. /\ new.comments = old.comments
        /\ DOMAIN new.history = DOMAIN old.history \cup {n}
        /\ new.history[n] = [key |-> c, actor |-> cmd[c].actor, to |-> cmd[c].to]
        /\ \A i \in DOMAIN old.history : new.history[i] = old.history[i]
    BY <1>5, EventAdded
  <2> HIDE DEF n
  <2>2. \A i \in DOMAIN old.history : old.history[i].key # c
    BY <1>1 DEF Taken
  <2>3. new.history[n].key = c
    BY <2>1
  <2>4. \A i, j \in DOMAIN new.history : new.history[i].key = new.history[j].key => i = j
    BY <2>1, <2>2, <2>3 DEF EntriesHold
  <2>5. ASSUME NEW i \in DOMAIN new.history
        PROVE  LET k == new.history[i].key
               IN /\ cmd[k].kind # "comment"
                  /\ new.history[i] = [key |-> k, actor |-> cmd[k].actor, to |-> cmd[k].to]
    <3>1. CASE i = n
      BY <1>5, <2>1, <2>3, <3>1
    <3>2. CASE i \in DOMAIN old.history
      <4>1. new.history[i] = old.history[i]
        BY <2>1, <3>2
      <4>2. LET k == old.history[i].key
            IN  /\ cmd[k].kind # "comment"
                /\ old.history[i] = [key |-> k, actor |-> cmd[k].actor, to |-> cmd[k].to]
        BY <3>2, EventFacts
      <4>3. QED
        BY <4>1, <4>2
    <3>3. QED
      BY <2>1, <3>1, <3>2
  <2>6. ASSUME NEW i \in DOMAIN new.comments
        PROVE  LET k == new.comments[i].key
               IN /\ cmd[k].kind = "comment"
                  /\ new.comments[i] = [key |-> k, actor |-> cmd[k].actor]
    <3>1. i \in DOMAIN old.comments /\ new.comments[i] = old.comments[i]
      BY <2>1
    <3>2. LET k == old.comments[i].key
          IN  /\ cmd[k].kind = "comment"
              /\ old.comments[i] = [key |-> k, actor |-> cmd[k].actor]
      BY <3>1, CommentFacts
    <3>3. QED
      BY <3>1, <3>2
  <2>7. \A i, j \in DOMAIN new.comments :
           new.comments[i].key = new.comments[j].key => i = j
    BY <2>1, EntryFacts
  <2>8. QED
    BY <1>2, <1>3, <2>4, <2>5, <2>6, <2>7 DEF EntriesHold
<1>6. QED
  BY <1>4, <1>5

LEMMA NewDocEntries ==
  ASSUME NEW d, NEW c \in DOMAIN cmd, c \in Nat, cmd[c] \in Command,
         cmd[c].kind = "submit", cmd[c].expected = 0, cmd[c].to = "submitted",
         NewDoc(c) \in Doc
  PROVE  /\ EntriesHold(d, NewDoc(c)) /\ Taken(NewDoc(c)) = {c}
         /\ NewDoc(c).key = c /\ NewDoc(c).version = 1
         /\ DOMAIN NewDoc(c).history = {1}
<1> DEFINE e == [key |-> c, actor |-> cmd[c].actor, to |-> "submitted"]
<1>1. PICK new \in Doc : new = NewDoc(c)
  OBVIOUS
<1>2. /\ new.key = c /\ new.version = 1 /\ new.history = <<e>> /\ new.comments = << >>
  BY <1>1 DEF NewDoc
<1>3. e.key = c /\ e = [key |-> e.key, actor |-> cmd[e.key].actor, to |-> cmd[e.key].to]
  OBVIOUS
<1> HIDE DEF e
<1>4. /\ DOMAIN new.history = {1} /\ new.history[1] = e /\ DOMAIN new.comments = {}
  BY <1>2
<1>5. Taken(new) = {c}
  BY <1>3, <1>4 DEF Taken
<1>6. EntriesHold(d, new)
  BY <1>2, <1>3, <1>4, <1>5 DEF EntriesHold
<1>7. QED
  BY <1>1, <1>2, <1>4, <1>5, <1>6

-----------------------------------------------------------------------------
\* One audit row is added.
AuditRow == [doc : Nat, key : Nat]

LEMMA RowsAdded ==
  ASSUME audit \in Seq(AuditRow), NEW d, NEW c, [doc |-> d, key |-> c] \in AuditRow,
         audit' = Append(audit, [doc |-> d, key |-> c])
  PROVE  /\ RowsOf(d)' = RowsOf(d) \cup {Len(audit) + 1}
         /\ Len(audit) + 1 \notin RowsOf(d)
         /\ \A i \in RowsOf(d) : i \in Nat /\ i < Len(audit) + 1
         /\ \A e : e # d => RowsOf(e)' = RowsOf(e)
         /\ \A i \in DOMAIN audit : audit'[i] = audit[i]
         /\ audit'[Len(audit) + 1].key = c /\ audit'[Len(audit) + 1].doc = d
         /\ DOMAIN audit' = DOMAIN audit \cup {Len(audit) + 1}
<1> DEFINE r == [doc |-> d, key |-> c]
<1>1. Len(audit) \in Nat /\ DOMAIN audit = 1..Len(audit)
  BY LenProperties
<1>2. r.doc = d /\ r.key = c /\ audit' = Append(audit, r) /\ r \in AuditRow
  OBVIOUS
<1> HIDE DEF r
<1>3. /\ DOMAIN audit' = 1..(Len(audit) + 1) /\ audit'[Len(audit) + 1] = r
      /\ \A i \in 1..Len(audit) : audit'[i] = audit[i]
  BY <1>1, <1>2
<1>4. DOMAIN audit' = DOMAIN audit \cup {Len(audit) + 1}
  BY <1>1, <1>3
<1>5. Len(audit) + 1 \notin DOMAIN audit /\ \A i \in DOMAIN audit : i \in Nat /\ i < Len(audit) + 1
  BY <1>1
<1>6. \A i \in DOMAIN audit : audit'[i] = audit[i]
  BY <1>1, <1>3
<1>7. \A e : e # d => RowsOf(e)' = RowsOf(e)
  BY <1>2, <1>3, <1>4, <1>6 DEF RowsOf
<1>8. RowsOf(d)' = RowsOf(d) \cup {Len(audit) + 1}
  BY <1>2, <1>3, <1>4, <1>6 DEF RowsOf
<1>9. \A i \in RowsOf(d) : i \in DOMAIN audit
  BY DEF RowsOf
<1>10. QED
  BY <1>2, <1>3, <1>4, <1>5, <1>6, <1>7, <1>8, <1>9

LEMMA RowsFinite == ASSUME NEW S, audit \in Seq(S), NEW d PROVE IsFiniteSet(RowsOf(d))
<1>1. Len(audit) \in Nat /\ DOMAIN audit = 1..Len(audit)
  BY LenProperties
<1>2. IsFiniteSet(1..Len(audit))
  BY <1>1, FS_Interval
<1>3. RowsOf(d) \subseteq 1..Len(audit)
  BY <1>1 DEF RowsOf
<1>4. QED
  BY <1>2, <1>3, FS_Subset

\* The rows of a document that nothing happened to.
LEMMA KeepRows ==
  ASSUME NEW d, NEW doc, RowsHold(d, doc), RowsOf(d)' = RowsOf(d),
         \A i \in RowsOf(d) : audit'[i] = audit[i]
  PROVE  RowsHold(d, doc)'
BY DEF RowsHold

LEMMA RowsEnter ==
  ASSUME audit \in Seq(AuditRow), NEW d, NEW c, [doc |-> d, key |-> c] \in AuditRow,
         audit' = Append(audit, [doc |-> d, key |-> c]),
         NEW old \in Doc, NEW new \in Doc, RowsHold(d, old), EntriesHold(d, old),
         Entered(old, new, c), c \notin Taken(old)
  PROVE  RowsHold(d, new)'
<1> DEFINE n == Len(audit) + 1
<1>1. /\ RowsOf(d)' = RowsOf(d) \cup {n} /\ n \notin RowsOf(d)
      /\ \A i \in RowsOf(d) : i \in Nat /\ i < n
      /\ \A i \in RowsOf(d) : audit'[i] = audit[i]
      /\ audit'[n].key = c
  BY RowsAdded DEF RowsOf
<1> HIDE DEF n
<1>2. Taken(new) = Taken(old) \cup {c}
  BY EnteredTaken
<1>3. Cardinality(RowsOf(d)') = new.version
  BY <1>1, RowsFinite, FS_AddElement DEF RowsHold, Entered
<1>4. {audit'[i].key : i \in RowsOf(d)'} = Taken(new)
  <2>1. {audit[i].key : i \in RowsOf(d)} = Taken(old)
    BY DEF RowsHold
  <2>2. {audit'[i].key : i \in RowsOf(d)'} = {audit[i].key : i \in RowsOf(d)} \cup {c}
    BY <1>1
  <2>3. QED
    BY <1>2, <2>1, <2>2
<1>5. ASSUME NEW i \in RowsOf(d)', NEW j \in RowsOf(d)', NEW p \in DOMAIN new.history,
             NEW q \in DOMAIN new.history, i < j,
             audit'[i].key = new.history[p].key, audit'[j].key = new.history[q].key
      PROVE  p < q
  <2>1. n \in Nat /\ i \in RowsOf(d)
    <3>1. n \in Nat
      BY LenProperties DEF n
    <3>2. QED
      BY <1>1, <1>5, <3>1
  <2>2. audit'[i].key \in Taken(old) /\ audit'[i].key # c
    BY <1>1, <2>1 DEF RowsHold
  <2>3. CASE cmd[c].kind = "comment"
    <3>1. new.history = old.history
      BY <2>3, CommentAdded
    <3>2. new.history[q].key # c
      BY <3>1 DEF Taken
    <3>3. j \in RowsOf(d)
      BY <1>1, <1>5, <3>2
    <3>4. QED
      BY <1>1, <1>5, <2>1, <3>1, <3>3 DEF RowsHold
  <2>4. CASE cmd[c].kind # "comment"
    <3> DEFINE m == Len(old.history) + 1
    <3>1. /\ DOMAIN new.history = DOMAIN old.history \cup {m}
          /\ new.history[m] = [key |-> c, actor |-> cmd[c].actor, to |-> cmd[c].to]
          /\ \A x \in DOMAIN old.history :
                x \in Nat /\ x < m /\ new.history[x] = old.history[x]
      BY <2>4, EventAdded
    <3> HIDE DEF m
    <3>2. new.history[m].key = c
      BY <3>1
    <3>3. p \in DOMAIN old.history
      BY <1>5, <2>2, <3>1, <3>2
    <3>4. CASE q = m
      BY <3>1, <3>3, <3>4
    <3>5. CASE q \in DOMAIN old.history
      <4>1. new.history[q].key \in Taken(old)
        BY <3>1, <3>5 DEF Taken
      <4>2. j \in RowsOf(d)
        BY <1>1, <1>5, <4>1
      <4>3. QED
        BY <1>1, <1>5, <2>1, <3>1, <3>3, <3>5, <4>2 DEF RowsHold
    <3>6. QED
      BY <3>1, <3>4, <3>5
  <2>5. QED
    BY <2>3, <2>4
<1>6. QED
  BY <1>3, <1>4, <1>5 DEF RowsHold

-----------------------------------------------------------------------------
(***************************************************************************)
(* The effects of commands under the actions that change no document.      *)
(***************************************************************************)
LEMMA AuditTyped == ASSUME RequestInv PROVE audit \in Seq(AuditRow)
BY DEF RequestInv, TypeOK, AuditRow

LEMMA SubmitsKept ==
  ASSUME RequestInv, SubmitsHold, UNCHANGED docs, CommandsKept, DOMAIN cmd' = DOMAIN cmd,
         \A g \in Handlers :
            \/ handler'[g] = handler[g]
            \/ handler'[g].pc # "create"
            \/ handler'[g].cmd \in DOMAIN cmd /\ cmd[handler'[g].cmd].kind = "submit"
  PROVE  SubmitsHold'
<1>1. \A c \in DOMAIN cmd' :
         cmd'[c].kind = "submit" => cmd'[c].expected = 0 /\ cmd'[c].to = "submitted"
  BY DEF SubmitsHold, CommandsKept
<1>2. ASSUME NEW g \in Handlers, handler'[g].pc = "create"
      PROVE  cmd'[handler'[g].cmd].kind = "submit"
  <2>1. handler'[g].cmd \in DOMAIN cmd /\ cmd[handler'[g].cmd].kind = "submit"
    <3>1. CASE handler'[g] = handler[g]
      <4>1. handler[g] # Idle
        BY <1>2, <3>1 DEF Idle
      <4>2. handler[g].cmd \in DOMAIN cmd
        BY <4>1 DEF RequestInv, AttemptHolds
      <4>3. QED
        BY <1>2, <3>1, <4>2 DEF SubmitsHold
    <3>2. QED
      BY <1>2, <3>1
  <2>2. QED
    BY <2>1 DEF CommandsKept
<1>3. \A d, e \in DOMAIN docs' : docs'[d].key = docs'[e].key => d = e
  BY DEF SubmitsHold
<1>4. QED
  BY <1>1, <1>2, <1>3 DEF SubmitsHold

\* Answers of "conflict" may be added to what came too late.
LEMMA ConflictsKept ==
  ASSUME RequestInv, ConflictsHold, UNCHANGED docs, CommandsKept, unread \subseteq unread',
         DOMAIN cmd' = DOMAIN cmd, Len(cmd') = Len(cmd),
         \A c \in 1..MaxCommands : c \notin DOMAIN cmd => answers'[c] = answers[c],
         \A c \in DOMAIN cmd : "conflict" \in answers'[c] =>
            \/ "conflict" \in answers[c]
            \/ /\ cmd[c].kind # "submit"
               /\ cmd[c].expected < docs[cmd[c].doc].version
               /\ c \in Taken(docs[cmd[c].doc]) => c \in unread',
         \A g \in Handlers : handler'[g] = handler[g] \/ handler'[g].pc # "again"
  PROVE  ConflictsHold'
<1>1. Len(cmd') <= MaxCommands /\ \A c \in 1..MaxCommands : c \notin DOMAIN cmd' => answers'[c] = {}
  BY DEF ConflictsHold
<1>2. ASSUME NEW c \in DOMAIN cmd', "conflict" \in answers'[c]
      PROVE  /\ cmd'[c].kind # "submit"
             /\ cmd'[c].expected < docs'[cmd'[c].doc].version
             /\ c \in Taken(docs'[cmd'[c].doc]) => c \in unread'
  BY <1>2 DEF ConflictsHold, CommandsKept
<1>3. ASSUME NEW g \in Handlers, handler'[g].pc = "again"
      PROVE  cmd'[handler'[g].cmd].expected < docs'[cmd'[handler'[g].cmd].doc].version
  <2>1. handler'[g] = handler[g] /\ handler[g] # Idle
    BY <1>3 DEF Idle
  <2>2. handler[g].cmd \in DOMAIN cmd
    BY <2>1 DEF RequestInv, AttemptHolds
  <2>3. QED
    BY <1>3, <2>1, <2>2 DEF ConflictsHold, CommandsKept
<1>4. QED
  BY <1>1, <1>2, <1>3 DEF ConflictsHold

LEMMA QuietEffects ==
  ASSUME EffectInv, UNCHANGED <<docs, audit>>, CommandsKept, SubmitsHold', ConflictsHold'
  PROVE  EffectInv'
<1>1. ASSUME NEW d \in DOMAIN docs' PROVE EntriesHold(d, docs[d])' /\ RowsHold(d, docs[d])'
  <2>1. PICK doc : doc = docs[d]
    OBVIOUS
  <2>2. EntriesHold(d, doc) /\ RowsHold(d, doc)
    BY <2>1 DEF EffectInv
  <2>3. EntriesHold(d, doc)'
    BY <2>2, KeepEntries
  <2>4. RowsHold(d, doc)'
    BY <2>2, KeepRows DEF RowsOf
  <2>5. docs'[d] = doc
    BY <2>1
  <2>6. EntriesHold(d, docs[d])'
    BY <2>3, <2>5, EntriesAt
  <2>7. RowsHold(d, docs[d])'
    BY <2>4, <2>5 DEF RowsHold
  <2>8. QED
    BY <2>6, <2>7
<1>2. \A i \in DOMAIN audit' : audit'[i].doc \in DOMAIN docs'
  BY DEF EffectInv
<1>3. QED
  BY <1>1, <1>2 DEF EffectInv

LEMMA CommandsBounded ==
  ASSUME RequestInv, EffectInv
  PROVE  DOMAIN cmd \subseteq 1..MaxCommands
<1>1. Len(cmd) \in Nat /\ DOMAIN cmd = 1..Len(cmd)
  BY Lengths DEF RequestInv
<1>2. Len(cmd) <= MaxCommands /\ MaxCommands \in Nat
  BY DEF EffectInv, ConflictsHold
<1>3. QED
  BY <1>1, <1>2

\* A command whose version has passed, and that is no replay, was not taken.
LEMMA LateAndNotTaken ==
  ASSUME RequestInv, EffectInv, NEW c \in DOMAIN cmd, cmd[c].kind # "submit",
         ~ Replay(docs[cmd[c].doc], c)
  PROVE  c \notin Taken(docs[cmd[c].doc])
<1>1. PICK d \in DOMAIN docs : d = cmd[c].doc
  BY DEF RequestInv, CommandsHold
<1>2. PICK doc : doc = docs[d]
  OBVIOUS
<1>3. EntriesHold(d, doc)
  BY <1>2 DEF EffectInv
<1>4. ASSUME NEW i \in DOMAIN doc.history, doc.history[i].key = c PROVE FALSE
  <2>1. cmd[c].kind # "comment" /\ doc.history[i] = [key |-> c, actor |-> cmd[c].actor, to |-> cmd[c].to]
    BY <1>3, <1>4 DEF EntriesHold
  <2>2. QED
    BY <1>1, <1>2, <2>1 DEF Replay
<1>5. ASSUME NEW i \in DOMAIN doc.comments, doc.comments[i].key = c PROVE FALSE
  <2>1. cmd[c].kind = "comment" /\ doc.comments[i] = [key |-> c, actor |-> cmd[c].actor]
    BY <1>3, <1>5 DEF EntriesHold
  <2>2. QED
    BY <1>1, <1>2, <2>1 DEF Replay
<1>6. QED
  BY <1>1, <1>2, <1>4, <1>5 DEF Taken

\* An attempt ends with an answer, a conflict only if it came too late.
LEMMA AnswerEffects ==
  ASSUME RequestInv, EffectInv, NEW h \in Handlers, NEW c \in DOMAIN cmd, NEW answer,
         CommandsKept, DOMAIN cmd' = DOMAIN cmd, Len(cmd') = Len(cmd),
         Respond(h, c, answer), UNCHANGED <<docs, audit>>, unread \subseteq unread',
         answer = "conflict" => /\ cmd[c].kind # "submit"
                                /\ cmd[c].expected < docs[cmd[c].doc].version
                                /\ Replay(docs[cmd[c].doc], c) => c \in unread'
  PROVE  EffectInv'
<1>1. TypeOK
  BY DEF RequestInv
<1>2. handler'[h] = Idle /\ \A g \in Handlers \ {h} : handler'[g] = handler[g]
  BY <1>1 DEF Respond, TypeOK
<1>3. /\ \A x \in 1..MaxCommands : x # c => answers'[x] = answers[x]
      /\ c \in 1..MaxCommands /\ answers'[c] = answers[c] \cup {answer}
  <2>1. c \in 1..MaxCommands
    BY CommandsBounded
  <2>2. QED
    BY <1>1, <2>1 DEF Respond, TypeOK
<1>4. SubmitsHold'
  BY <1>2, SubmitsKept DEF EffectInv, Idle
<1>5. DOMAIN cmd \subseteq 1..MaxCommands
  BY CommandsBounded
<1>6. ConflictsHold'
  <2>1. \A x \in 1..MaxCommands : x \notin DOMAIN cmd => answers'[x] = answers[x]
    BY <1>3
  <2>2. \A x \in DOMAIN cmd : "conflict" \in answers'[x] =>
            \/ "conflict" \in answers[x]
            \/ /\ cmd[x].kind # "submit"
               /\ cmd[x].expected < docs[cmd[x].doc].version
               /\ x \in Taken(docs[cmd[x].doc]) => x \in unread'
    BY <1>3, <1>5, LateAndNotTaken
  <2>3. \A g \in Handlers : handler'[g] = handler[g] \/ handler'[g].pc # "again"
    BY <1>2 DEF Idle
  <2>4. QED
    BY <2>1, <2>2, <2>3, ConflictsKept DEF EffectInv
<1>7. QED
  BY <1>4, <1>6, QuietEffects

\* A command is taken up.
LEMMA TakenUpEffects ==
  ASSUME RequestInv, EffectInv, NEW h \in Handlers, NEW c \in DOMAIN cmd, NEW attempt,
         CommandsKept, DOMAIN cmd' = DOMAIN cmd, Len(cmd') = Len(cmd),
         handler' = [handler EXCEPT ![h] = attempt], UNCHANGED <<docs, audit, answers, unread>>,
         attempt.cmd = c, attempt.pc # "again",
         attempt.pc = "create" => cmd[c].kind = "submit"
  PROVE  EffectInv'
<1>1. handler'[h] = attempt /\ \A g \in Handlers \ {h} : handler'[g] = handler[g]
  BY DEF RequestInv, TypeOK
<1>2. SubmitsHold'
  BY <1>1, SubmitsKept DEF EffectInv
<1>3. ConflictsHold'
  BY <1>1, ConflictsKept DEF EffectInv
<1>4. QED
  BY <1>2, <1>3, QuietEffects

LEMMA MarkLength ==
  ASSUME TypeOK, NEW h \in Handlers, NEW c \in DOMAIN cmd, Arrives(h, c)
  PROVE  CommandsKept /\ DOMAIN cmd' = DOMAIN cmd /\ Len(cmd') = Len(cmd)
<1>1. CommandsKept /\ DOMAIN cmd' = DOMAIN cmd /\ cmd' \in Seq(Command)
  BY MarkCommand
<1>2. /\ Len(cmd) \in Nat /\ DOMAIN cmd = 1..Len(cmd)
      /\ Len(cmd') \in Nat /\ DOMAIN cmd' = 1..Len(cmd')
  BY <1>1, LenProperties DEF TypeOK
<1>3. QED
  BY <1>1, <1>2

LEMMA DenyEffects ==
  ASSUME RequestInv, EffectInv, NEW h \in Handlers, NEW c \in DOMAIN cmd, Deny(h, c)
  PROVE  EffectInv'
<1>1. CommandsKept /\ DOMAIN cmd' = DOMAIN cmd /\ Len(cmd') = Len(cmd)
  BY MarkLength DEF RequestInv, Deny
<1>2. QED
  BY <1>1, AnswerEffects DEF Deny

LEMMA FindExistingEffects ==
  ASSUME RequestInv, EffectInv, NEW h \in Handlers, NEW c \in DOMAIN cmd, FindExisting(h, c)
  PROVE  EffectInv'
<1>1. CommandsKept /\ DOMAIN cmd' = DOMAIN cmd /\ Len(cmd') = Len(cmd)
  BY MarkLength DEF RequestInv, FindExisting
<1>2. CASE Respond(h, c, "ok")
  BY <1>1, <1>2, AnswerEffects DEF FindExisting
<1>3. CASE /\ handler' = [handler EXCEPT ![h] = [pc |-> "create", cmd |-> c]]
           /\ UNCHANGED answers
  <2>1. PICK attempt : attempt = [pc |-> "create", cmd |-> c]
    OBVIOUS
  <2>2. attempt.pc = "create" /\ attempt.cmd = c
    BY <2>1
  <2>3. handler' = [handler EXCEPT ![h] = attempt]
    BY <1>3, <2>1
  <2>4. QED
    BY <1>1, <1>3, <2>2, <2>3, TakenUpEffects DEF FindExisting
<1>4. QED
  BY <1>2, <1>3 DEF FindExisting

LEMMA ReadForUpdateEffects ==
  ASSUME RequestInv, EffectInv, NEW h \in Handlers, NEW c \in DOMAIN cmd, ReadForUpdate(h, c)
  PROVE  EffectInv'
<1> DEFINE d == docs[cmd[c].doc]
<1>1. CommandsKept /\ DOMAIN cmd' = DOMAIN cmd /\ Len(cmd') = Len(cmd)
  BY MarkLength DEF RequestInv, ReadForUpdate
<1>2. cmd[c].kind # "submit" /\ UNCHANGED <<docs, audit, unread>>
  BY DEF ReadForUpdate
<1>3. CASE Respond(h, c, "invalid") \/ Respond(h, c, "ok")
  BY <1>1, <1>2, <1>3, AnswerEffects
<1>4. CASE d.version # cmd[c].expected /\ ~ Replay(d, c) /\ Respond(h, c, "conflict")
  <2>1. cmd[c].doc \in DOMAIN docs /\ cmd[c].expected <= d.version
    BY <1>2 DEF RequestInv, CommandsHold
  <2>2. cmd[c] \in Command /\ docs[cmd[c].doc] \in Doc
    BY <2>1, Lengths DEF RequestInv
  <2>3. cmd[c].expected \in Nat /\ d.version \in Nat
    BY <2>2 DEF Command, Doc
  <2>4. cmd[c].expected < d.version
    BY <1>4, <2>1, <2>3
  <2>5. QED
    BY <1>1, <1>2, <1>4, <2>4, AnswerEffects
<1>5. CASE /\ handler' = [handler EXCEPT ![h] = [pc |-> "write", cmd |-> c, read |-> d]]
           /\ UNCHANGED answers
  <2>1. PICK attempt : attempt = [pc |-> "write", cmd |-> c, read |-> d]
    OBVIOUS
  <2>2. attempt.pc = "write" /\ attempt.cmd = c
    BY <2>1
  <2>3. handler' = [handler EXCEPT ![h] = attempt]
    BY <1>5, <2>1
  <2>4. QED
    BY <1>1, <1>2, <1>5, <2>2, <2>3, TakenUpEffects
<1>6. QED
  BY <1>3, <1>4, <1>5 DEF ReadForUpdate

LEMMA ReadAgainEffects ==
  ASSUME RequestInv, EffectInv, NEW h \in Handlers, ReadAgain(h) PROVE EffectInv'
<1>1. handler[h].pc = "again" /\ handler[h] # Idle
  BY DEF ReadAgain, Idle
<1>2. PICK c \in DOMAIN cmd : c = handler[h].cmd
  BY <1>1 DEF RequestInv, AttemptHolds
<1>3. cmd[c].kind # "submit" /\ cmd[c].expected < docs[cmd[c].doc].version
  BY <1>1, <1>2 DEF RequestInv, AttemptHolds, EffectInv, ConflictsHold
<1>4. CommandsKept /\ UNCHANGED <<docs, audit, cmd>> /\ unread \subseteq unread'
  BY DEF ReadAgain, CommandsKept
<1>5. PICK answer : /\ Respond(h, c, answer)
                    /\ answer = "conflict" /\ Replay(docs[cmd[c].doc], c) => c \in unread'
  BY <1>2 DEF ReadAgain, Resolved
<1>6. QED
  BY <1>3, <1>4, <1>5, AnswerEffects

LEMMA FailWriteEffects ==
  ASSUME RequestInv, EffectInv, NEW h \in Handlers, FailWrite(h) PROVE EffectInv'
<1>1. handler[h] # Idle
  BY DEF FailWrite, Idle
<1>2. handler[h].cmd \in DOMAIN cmd
  BY <1>1 DEF RequestInv, AttemptHolds
<1>3. CommandsKept
  BY DEF FailWrite, CommandsKept
<1>4. QED
  BY <1>2, <1>3, AnswerEffects DEF FailWrite

LEMMA IssueEffects ==
  ASSUME RequestInv, EffectInv, NEW new \in Command, Issue(new),
         new.kind = "submit" => new.expected = 0 /\ new.to = "submitted"
  PROVE  EffectInv'
<1> DEFINE n == Len(cmd) + 1
<1>1. /\ TypeOK
      /\ DOMAIN cmd' = DOMAIN cmd \cup {n}
      /\ cmd'[n] = new /\ CommandsKept
      /\ UNCHANGED <<docs, audit, handler, answers, unread>>
  BY IssueStep DEF RequestInv, Issue
<1>2. /\ Len(cmd) \in Nat /\ DOMAIN cmd = 1..Len(cmd) /\ Len(cmd') = n /\ Len(cmd) < MaxCommands
  BY <1>1, Lengths DEF Issue, TypeOK
<1>3. n \in 1..MaxCommands /\ n \notin DOMAIN cmd
  <2>1. MaxCommands \in Nat
    OBVIOUS
  <2>2. QED
    BY <1>2, <2>1
<1> HIDE DEF n
<1>4. SubmitsHold'
  <2>1. \A c \in DOMAIN cmd' :
           cmd'[c].kind = "submit" => cmd'[c].expected = 0 /\ cmd'[c].to = "submitted"
    BY <1>1 DEF EffectInv, SubmitsHold, CommandsKept
  <2>2. ASSUME NEW g \in Handlers, handler[g].pc = "create"
        PROVE  cmd'[handler[g].cmd].kind = "submit"
    <3>1. handler[g].cmd \in DOMAIN cmd
      BY <2>2 DEF RequestInv, AttemptHolds, Idle
    <3>2. QED
      BY <1>1, <2>2, <3>1 DEF EffectInv, SubmitsHold, CommandsKept
  <2>3. QED
    BY <1>1, <2>1, <2>2 DEF EffectInv, SubmitsHold
<1>5. ConflictsHold'
  <2>1. Len(cmd') <= MaxCommands
    BY <1>2, <1>3
  <2>2. \A c \in 1..MaxCommands : c \notin DOMAIN cmd' => answers'[c] = {}
    BY <1>1 DEF EffectInv, ConflictsHold
  <2>3. ASSUME NEW c \in DOMAIN cmd', "conflict" \in answers'[c]
        PROVE  /\ cmd'[c].kind # "submit"
               /\ cmd'[c].expected < docs'[cmd'[c].doc].version
               /\ c \in Taken(docs'[cmd'[c].doc]) => c \in unread'
    <3>1. c \in DOMAIN cmd
      BY <1>1, <1>3, <2>3 DEF EffectInv, ConflictsHold
    <3>2. QED
      BY <1>1, <2>3, <3>1 DEF EffectInv, ConflictsHold, CommandsKept
  <2>4. ASSUME NEW g \in Handlers, handler'[g].pc = "again"
        PROVE  cmd'[handler'[g].cmd].expected < docs'[cmd'[handler'[g].cmd].doc].version
    <3>1. handler[g].cmd \in DOMAIN cmd /\ handler'[g] = handler[g]
      BY <1>1, <2>4 DEF RequestInv, AttemptHolds, Idle
    <3>2. QED
      BY <1>1, <2>4, <3>1 DEF EffectInv, ConflictsHold, CommandsKept
  <2>5. QED
    BY <2>1, <2>2, <2>3, <2>4 DEF ConflictsHold
<1>6. QED
  BY <1>1, <1>4, <1>5, QuietEffects

-----------------------------------------------------------------------------
(***************************************************************************)
(* The effects of the transactions.                                        *)
(***************************************************************************)
\* After a transaction: one document is new or took one more command.
LEMMA TransactionEffects ==
  ASSUME RequestInv, EffectInv, RequestInv', UNCHANGED <<cmd, unread>>,
         NEW h \in Handlers, NEW c \in DOMAIN cmd, Respond(h, c, "ok"),
         NEW d \in DOMAIN docs',
         \A x \in DOMAIN docs' : x # d => x \in DOMAIN docs /\ docs'[x] = docs[x],
         \A x \in DOMAIN docs : x \in DOMAIN docs',
         audit' = Append(audit, [doc |-> d, key |-> c]),
         EntriesHold(d, docs'[d]), RowsHold(d, docs[d])',
         \A x \in DOMAIN docs' : docs'[x].key = docs'[d].key => x = d,
         \A x \in DOMAIN cmd : (cmd[x].kind # "submit" /\ cmd[x].doc = d) =>
            /\ docs[d].version <= docs'[d].version
            /\ x \in Taken(docs'[d]) => x \in Taken(docs[d]) \/ cmd[x].expected = docs[d].version
  PROVE  EffectInv'
<1>1. TypeOK /\ TypeOK' /\ CommandsKept
  BY DEF RequestInv, CommandsKept
<1>2. handler'[h] = Idle /\ \A g \in Handlers \ {h} : handler'[g] = handler[g]
  BY <1>1 DEF Respond, TypeOK
<1>3. c \in Nat /\ d \in Nat
  BY <1>1, Lengths DEF TypeOK
<1>4. [doc |-> d, key |-> c] \in AuditRow /\ audit \in Seq(AuditRow)
  BY <1>3, AuditTyped DEF AuditRow
<1>5. SubmitsHold'
  <2>1. \A g \in Handlers : handler'[g].pc = "create" => cmd'[handler'[g].cmd].kind = "submit"
    BY <1>2 DEF EffectInv, SubmitsHold, Idle
  <2>2. \A x, y \in DOMAIN docs' : docs'[x].key = docs'[y].key => x = y
    <3>1. ASSUME NEW x \in DOMAIN docs', NEW y \in DOMAIN docs', docs'[x].key = docs'[y].key
          PROVE  x = y
      <4>1. CASE x = d \/ y = d
        BY <3>1, <4>1
      <4>2. CASE x # d /\ y # d
        BY <3>1, <4>2 DEF EffectInv, SubmitsHold
      <4>3. QED
        BY <4>1, <4>2
    <3>2. QED
      BY <3>1
  <2>3. QED
    BY <2>1, <2>2 DEF EffectInv, SubmitsHold
<1>6. ASSUME NEW x \in DOMAIN docs' PROVE EntriesHold(x, docs[x])' /\ RowsHold(x, docs[x])'
  <2>1. CASE x = d
    <3>1. PICK new : new = docs'[d]
      OBVIOUS
    <3>2. EntriesHold(d, new)
      BY <3>1
    <3>3. EntriesHold(d, new)'
      BY <1>1, <3>2, KeepEntries
    <3>4. EntriesHold(d, docs[d])'
      BY <3>1, <3>3, EntriesAt
    <3>5. QED
      BY <2>1, <3>4
  <2>2. CASE x # d
    <3>1. PICK doc : doc = docs'[x]
      OBVIOUS
    <3>2. EntriesHold(x, doc) /\ RowsHold(x, doc)
      BY <2>2, <3>1 DEF EffectInv
    <3>3. EntriesHold(x, doc)'
      BY <1>1, <3>2, KeepEntries
    <3>4. RowsOf(x)' = RowsOf(x) /\ \A i \in RowsOf(x) : audit'[i] = audit[i]
      <4>1. RowsOf(x)' = RowsOf(x) /\ \A i \in DOMAIN audit : audit'[i] = audit[i]
        <5>1. /\ \A e : e # d => RowsOf(e)' = RowsOf(e)
              /\ \A i \in DOMAIN audit : audit'[i] = audit[i]
          BY <1>4, RowsAdded
        <5>2. QED
          BY <2>2, <5>1
      <4>2. RowsOf(x) \subseteq DOMAIN audit
        BY DEF RowsOf
      <4>3. QED
        BY <4>1, <4>2
    <3>5. RowsHold(x, doc)'
      BY <3>2, <3>4, KeepRows
    <3>6. QED
      <4>1. EntriesHold(x, docs[x])'
        BY <3>1, <3>3, EntriesAt
      <4>2. RowsHold(x, docs[x])'
        BY <3>1, <3>5 DEF RowsHold
      <4>3. QED
        BY <4>1, <4>2
  <2>3. QED
    BY <2>1, <2>2
<1>7. ASSUME NEW i \in DOMAIN audit' PROVE audit'[i].doc \in DOMAIN docs'
  <2>1. /\ DOMAIN audit' = DOMAIN audit \cup {Len(audit) + 1}
        /\ audit'[Len(audit) + 1].doc = d
        /\ \A j \in DOMAIN audit : audit'[j] = audit[j]
    BY <1>4, RowsAdded
  <2>2. QED
    BY <2>1 DEF EffectInv
\* What came too late still does, and is not what was taken now.
<1>8. ASSUME NEW x \in DOMAIN cmd, cmd[x].kind # "submit",
             cmd[x].expected < docs[cmd[x].doc].version
      PROVE  /\ cmd[x].expected < docs'[cmd[x].doc].version
             /\ x \notin Taken(docs[cmd[x].doc]) => x \notin Taken(docs'[cmd[x].doc])
  <2>1. cmd[x].doc \in DOMAIN docs
    BY <1>8 DEF RequestInv, CommandsHold
  <2>2. cmd[x].expected \in Nat /\ docs[cmd[x].doc].version \in Nat /\ docs'[cmd[x].doc].version \in Nat
    <3>1. cmd[x] \in Command /\ docs[cmd[x].doc] \in Doc
      BY <1>1, <2>1, Lengths
    <3>2. docs'[cmd[x].doc] \in Doc
      <4>1. docs' \in Seq(Doc) /\ cmd[x].doc \in DOMAIN docs'
        BY <1>1, <2>1 DEF TypeOK
      <4>2. QED
        BY <4>1, LenProperties, ElementOfSeq
    <3>3. QED
      BY <3>1, <3>2, Parts DEF Command
  <2>3. CASE cmd[x].doc = d
    <3>1. docs[d].version <= docs'[d].version
      BY <1>8, <2>3
    <3>2. cmd[x].expected < docs'[d].version /\ cmd[x].expected # docs[d].version
      BY <1>8, <2>2, <2>3, <3>1
    <3>3. QED
      BY <1>8, <2>3, <3>2
  <2>4. CASE cmd[x].doc # d
    BY <1>8, <2>1, <2>4
  <2>5. QED
    BY <2>3, <2>4
<1>9. ConflictsHold'
  <2>1. /\ \A x \in 1..MaxCommands : x # c => answers'[x] = answers[x]
        /\ c \in 1..MaxCommands /\ answers'[c] = answers[c] \cup {"ok"}
    <3>1. c \in 1..MaxCommands
      BY CommandsBounded
    <3>2. QED
      BY <1>1, <3>1 DEF Respond, TypeOK
  <2>2. ASSUME NEW x \in DOMAIN cmd, "conflict" \in answers'[x]
        PROVE  /\ cmd[x].kind # "submit"
               /\ cmd[x].expected < docs'[cmd[x].doc].version
               /\ x \in Taken(docs'[cmd[x].doc]) => x \in unread'
    <3>1. "conflict" \in answers[x]
      BY <2>1, <2>2, CommandsBounded
    <3>2. /\ cmd[x].kind # "submit" /\ cmd[x].expected < docs[cmd[x].doc].version
          /\ x \in Taken(docs[cmd[x].doc]) => x \in unread
      BY <3>1 DEF EffectInv, ConflictsHold
    <3>3. QED
      BY <1>8, <3>2
  <2>3. ASSUME NEW g \in Handlers, handler'[g].pc = "again"
        PROVE  cmd[handler'[g].cmd].expected < docs'[cmd[handler'[g].cmd].doc].version
    <3>1. handler'[g] = handler[g] /\ handler[g] # Idle
      BY <1>2, <2>3 DEF Idle
    <3>2. handler[g].cmd \in DOMAIN cmd /\ cmd[handler[g].cmd].kind # "submit"
      BY <2>3, <3>1 DEF RequestInv, AttemptHolds
    <3>3. cmd[handler[g].cmd].expected < docs[cmd[handler[g].cmd].doc].version
      BY <2>3, <3>1 DEF EffectInv, ConflictsHold
    <3>4. QED
      BY <1>8, <3>1, <3>2, <3>3
  <2>4. \A x \in 1..MaxCommands : x \notin DOMAIN cmd => answers'[x] = {}
    BY <2>1 DEF EffectInv, ConflictsHold
  <2>5. QED
    BY <2>2, <2>3, <2>4 DEF EffectInv, ConflictsHold
<1>10. QED
  BY <1>5, <1>6, <1>7, <1>9 DEF EffectInv

LEMMA CreateEffects ==
  ASSUME RequestInv, EffectInv, RequestInv', NEW h \in Handlers, Create(h) PROVE EffectInv'
<1>1. TypeOK /\ TypeOK' /\ handler[h].pc = "create" /\ handler[h] # Idle
  BY DEF RequestInv, Create, Idle
<1>2. PICK c \in DOMAIN cmd : c = handler[h].cmd
  BY <1>1 DEF RequestInv, AttemptHolds
<1>3. /\ cmd[c].kind = "submit" /\ cmd[c].expected = 0 /\ cmd[c].to = "submitted"
  BY <1>1, <1>2 DEF EffectInv, SubmitsHold
<1>4. c \in Nat /\ cmd[c] \in Command
  BY <1>1, Lengths
<1>5. Respond(h, c, "ok") /\ UNCHANGED <<cmd, unread>> /\ CommandsKept
  BY <1>2 DEF Create, CommandsKept
<1>6. CASE UNCHANGED <<docs, audit>>
  BY <1>5, <1>6, AnswerEffects
<1>7. CASE /\ ~ KeyTaken(c)
           /\ docs' = Append(docs, NewDoc(c))
           /\ audit' = Append(audit, [doc |-> Len(docs) + 1, key |-> c])
  <2>0. PICK d : d = Len(docs) + 1
    OBVIOUS
  <2>1. PICK new \in Doc : new = NewDoc(c)
    BY <1>4, NewDocType
  <2>2. /\ new.key = c /\ new.version = 1 /\ Taken(new) = {c}
        /\ DOMAIN new.history = {1} /\ EntriesHold(d, new)
    BY <1>3, <1>4, <2>1, NewDocEntries
  <2>3. /\ Len(docs) \in Nat /\ DOMAIN docs = 1..Len(docs)
        /\ DOMAIN docs' = DOMAIN docs \cup {d} /\ docs'[d] = new
        /\ \A x \in DOMAIN docs : docs'[x] = docs[x]
    BY <1>1, <1>7, <2>0, <2>1, AddDoc, Lengths
  <2>4. d \in Nat /\ d \notin DOMAIN docs
    BY <2>0, <2>3
  <2>5. audit' = Append(audit, [doc |-> d, key |-> c])
    BY <1>7, <2>0
  <2>6. [doc |-> d, key |-> c] \in AuditRow /\ audit \in Seq(AuditRow)
    BY <1>4, <2>4, AuditTyped DEF AuditRow
  <2>7. RowsHold(d, docs[d])'
    <3> DEFINE n == Len(audit) + 1
    <3>1. RowsOf(d) = {}
      BY <2>4 DEF EffectInv, RowsOf
    <3>2. RowsOf(d)' = RowsOf(d) \cup {n} /\ audit'[n].key = c
      BY <2>5, <2>6, RowsAdded
    <3> HIDE DEF n
    <3>3. RowsOf(d)' = {n}
      BY <3>1, <3>2
    <3>4. n \in Nat
      BY <2>6, LenProperties DEF n
    <3>5. Cardinality(RowsOf(d)') = 1
      BY <3>3, FS_Singleton
    <3>6. {audit'[i].key : i \in RowsOf(d)'} = {c}
      BY <3>2, <3>3
    <3>7. \A i, j \in RowsOf(d)' : ~ (i < j)
      BY <3>3, <3>4
    <3>8. RowsHold(d, new)'
      BY <2>2, <3>5, <3>6, <3>7 DEF RowsHold
    <3>9. QED
      BY <2>3, <3>8 DEF RowsHold
  <2>8. \A x \in DOMAIN docs' : docs'[x].key = docs'[d].key => x = d
    BY <1>7, <2>2, <2>3 DEF KeyTaken
  <2>9. ASSUME NEW x \in DOMAIN cmd, cmd[x].kind # "submit", cmd[x].doc = d PROVE FALSE
    BY <2>4, <2>9 DEF RequestInv, CommandsHold
  <2>10. /\ d \in DOMAIN docs' /\ EntriesHold(d, docs'[d])
         /\ \A x \in DOMAIN docs' : x # d => x \in DOMAIN docs /\ docs'[x] = docs[x]
         /\ \A x \in DOMAIN docs : x \in DOMAIN docs'
    BY <2>2, <2>3
  <2>11. QED
    BY <1>5, <2>5, <2>7, <2>8, <2>9, <2>10, TransactionEffects
<1>8. QED
  BY <1>2, <1>6, <1>7 DEF Create

LEMMA AtomicAppendEffects ==
  ASSUME RequestInv, EffectInv, RequestInv', NEW h \in Handlers, AtomicAppend(h)
  PROVE  EffectInv'
<1>1. TypeOK /\ TypeOK' /\ handler[h].pc = "write" /\ handler[h] # Idle
  BY DEF RequestInv, AtomicAppend, Idle
<1>2. PICK c \in DOMAIN cmd : c = handler[h].cmd
  BY <1>1 DEF RequestInv, AttemptHolds
<1>3. cmd[c].kind # "submit" /\ Decided(h)
  BY <1>1, <1>2 DEF RequestInv, AttemptHolds
<1>4. PICK d \in DOMAIN docs : d = cmd[c].doc
  BY <1>3 DEF RequestInv, CommandsHold
<1>5. PICK r : r = handler[h].read
  OBVIOUS
<1>6. /\ c \in Nat /\ cmd[c] \in Command /\ d \in Nat /\ docs[d] \in Doc
      /\ cmd[c].expected <= docs[d].version
  BY <1>1, <1>3, <1>4, Lengths DEF RequestInv, CommandsHold
<1>7. UNCHANGED <<cmd, unread>> /\ CommandsKept
  BY DEF AtomicAppend, CommandsKept
<1>8. CASE /\ ~ Matches(docs[d], c)
           /\ handler' = [handler EXCEPT ![h] = [pc |-> "again", cmd |-> c]]
           /\ UNCHANGED <<docs, audit, answers>>
  <2>1. PICK attempt : attempt = [pc |-> "again", cmd |-> c]
    OBVIOUS
  <2>2. attempt.pc = "again" /\ attempt.cmd = c
    BY <2>1
  <2>3. handler'[h] = attempt /\ \A g \in Handlers \ {h} : handler'[g] = handler[g]
    BY <1>1, <1>8, <2>1 DEF TypeOK
  <2>4. cmd[c].expected < docs[d].version
    <3>1. cmd[c].expected # docs[d].version
      BY <1>8 DEF Matches
    <3>2. cmd[c].expected \in Nat /\ docs[d].version \in Nat
      BY <1>6, Parts DEF Command
    <3>3. QED
      BY <1>6, <3>1, <3>2
  <2>5. SubmitsHold'
    BY <1>7, <1>8, <2>2, <2>3, SubmitsKept DEF EffectInv
  <2>6. ConflictsHold'
    <3>1. ASSUME NEW g \in Handlers, handler'[g].pc = "again"
          PROVE  cmd[handler'[g].cmd].expected < docs[cmd[handler'[g].cmd].doc].version
      <4>1. CASE g = h
        BY <1>4, <2>2, <2>3, <2>4, <4>1
      <4>2. CASE g # h
        BY <2>3, <3>1, <4>2 DEF EffectInv, ConflictsHold
      <4>3. QED
        BY <4>1, <4>2
    <3>2. QED
      BY <1>7, <1>8, <3>1 DEF EffectInv, ConflictsHold
  <2>7. QED
    BY <1>7, <1>8, <2>5, <2>6, QuietEffects
<1>9. CASE /\ Matches(docs[d], c)
           /\ docs' = [docs EXCEPT ![d] = Updated(docs[d], r, c)]
           /\ audit' = Append(audit, [doc |-> d, key |-> c])
           /\ Respond(h, c, "ok")
  <2>1. docs[d] = r /\ cmd[c].expected = docs[d].version
    BY <1>2, <1>3, <1>4, <1>5, <1>9 DEF Matches, Decided
  <2>2. PICK old \in Doc : old = docs[d]
    BY <1>6
  <2>3. PICK new \in Doc : new = Updated(old, old, c)
    BY <1>3, <1>6, UpdateStep
  <2>4. Entered(old, new, c)
    BY <1>3, <1>6, <2>3, UpdateEnters
  <2>5. /\ DOMAIN docs' = DOMAIN docs /\ docs'[d] = new
        /\ \A x \in DOMAIN docs : x # d => docs'[x] = docs[x]
    BY <1>1, <1>9, <2>1, <2>2, <2>3, ReplaceDoc
  <2>6. EntriesHold(d, old) /\ RowsHold(d, old)
    BY <2>2 DEF EffectInv
  <2>7. EntriesHold(d, new)
    BY <1>1, <1>3, <1>4, <2>1, <2>2, <2>4, <2>6, EntriesEnter DEF TypeOK
  <2>8. c \notin Taken(old) /\ Taken(new) = Taken(old) \cup {c}
    BY <2>1, <2>2, <2>4, <2>6, NotTakenYet, EnteredTaken
  <2>9. [doc |-> d, key |-> c] \in AuditRow /\ audit \in Seq(AuditRow)
    BY <1>6, AuditTyped DEF AuditRow
  <2>10. RowsHold(d, new)'
    BY <1>9, <2>4, <2>6, <2>8, <2>9, RowsEnter
  <2>11. RowsHold(d, docs[d])'
    BY <2>5, <2>10 DEF RowsHold
  <2>12. \A x \in DOMAIN docs' : docs'[x].key = docs'[d].key => x = d
    BY <2>2, <2>4, <2>5 DEF Entered, EffectInv, SubmitsHold
  <2>13. ASSUME NEW x \in DOMAIN cmd
         PROVE  /\ docs[d].version <= docs'[d].version
                /\ x \in Taken(docs'[d]) =>
                      x \in Taken(docs[d]) \/ cmd[x].expected = docs[d].version
    <3>1. docs[d].version \in Nat /\ docs'[d].version = docs[d].version + 1
      BY <2>2, <2>4, <2>5, Parts DEF Entered
    <3>2. docs[d].version <= docs'[d].version
      BY <3>1
    <3>3. QED
      BY <2>1, <2>2, <2>5, <2>8, <3>2
  <2>14. QED
    BY <1>7, <1>9, <2>5, <2>7, <2>11, <2>12, <2>13, TransactionEffects
<1>10. QED
  BY <1>2, <1>4, <1>5, <1>8, <1>9 DEF AtomicAppend

-----------------------------------------------------------------------------
LEMMA InitEffects == Init => EffectInv
<1> SUFFICES ASSUME Init PROVE EffectInv
  OBVIOUS
<1>1. /\ DOMAIN docs = {} /\ DOMAIN cmd = {} /\ DOMAIN audit = {} /\ Len(cmd) = 0
      /\ \A h \in Handlers : handler[h] = Idle
      /\ \A c \in 1..MaxCommands : answers[c] = {}
  BY DEF Init
<1>2. SubmitsHold
  BY <1>1 DEF SubmitsHold, Idle
<1>3. ConflictsHold
  BY <1>1 DEF ConflictsHold, Idle
<1>4. QED
  BY <1>1, <1>2, <1>3 DEF EffectInv

LEMMA StepEffects == RequestInv /\ EffectInv /\ RequestInv' /\ [Next]_vars => EffectInv'
<1> SUFFICES ASSUME RequestInv, EffectInv, RequestInv', [Next]_vars PROVE EffectInv'
  OBVIOUS
<1>1. ASSUME NEW a \in Actors, IssueSubmit(a) PROVE EffectInv'
  <2> DEFINE new == [kind |-> "submit", actor |-> a, doc |-> 0, expected |-> 0,
                     to |-> "submitted", seen |-> 0, sent |-> FALSE]
  <2>1. new \in Command /\ Issue(new) /\ new.expected = 0 /\ new.to = "submitted"
    BY <1>1, SubmitCommand DEF IssueSubmit
  <2> HIDE DEF new
  <2>2. QED
    BY <2>1, IssueEffects
<1>2. ASSUME NEW a \in Actors, NEW d \in DOMAIN docs, NEW to \in State,
             NEW kind \in {"transition", "revise", "comment"}, IssueUpdate(a, d, kind, to)
      PROVE  EffectInv'
  <2> DEFINE new == [kind |-> kind, actor |-> a, doc |-> d, expected |-> docs[d].version,
                     to |-> to, seen |-> Len(docs[d].revisions), sent |-> FALSE]
  <2>1. new \in Command
    BY UpdateCommand DEF RequestInv
  <2>2. Issue(new) /\ new.kind # "submit"
    BY <1>2 DEF IssueUpdate
  <2> HIDE DEF new
  <2>3. QED
    BY <2>1, <2>2, IssueEffects
<1>3. ASSUME NEW h \in Handlers, NEW c \in DOMAIN cmd,
             Deny(h, c) \/ FindExisting(h, c) \/ ReadForUpdate(h, c)
      PROVE  EffectInv'
  BY <1>3, DenyEffects, FindExistingEffects, ReadForUpdateEffects
<1>4. ASSUME NEW h \in Handlers, Create(h) \/ AtomicAppend(h) \/ ReadAgain(h) \/ FailWrite(h)
      PROVE  EffectInv'
  BY <1>4, CreateEffects, AtomicAppendEffects, ReadAgainEffects, FailWriteEffects
<1>5. CASE UNCHANGED vars
  <2>1. CommandsKept /\ UNCHANGED <<docs, audit>>
    BY <1>5 DEF vars, CommandsKept
  <2>2. SubmitsHold' /\ ConflictsHold'
    BY <1>5 DEF EffectInv, SubmitsHold, ConflictsHold, vars
  <2>3. QED
    BY <2>1, <2>2, QuietEffects
<1>6. QED
  BY <1>1, <1>2, <1>3, <1>4, <1>5 DEF Next

(***************************************************************************)
(* A document takes a command at the version it expects and then moves on: *)
(* its entries and its audit rows are of different commands, and what came *)
(* too late is never taken.                                                *)
(***************************************************************************)
THEOREM EffectsHold == Spec => []EffectInv
<1>1. QED
  BY InitEffects, StepEffects, RequestsHold, PTL DEF Spec

(***************************************************************************)
(* A command takes effect at most once, however often it is sent and       *)
(* however its attempts overlap (the unique index on requestId and the     *)
(* version filter of atomicAppend).                                        *)
(***************************************************************************)
THEOREM CommandsTakeEffectOnce == Spec => []OncePerKey
<1>1. ASSUME RequestInv, EffectInv, NEW c \in DOMAIN cmd PROVE Cardinality(Applications(c)) <= 1
  <2>1. ASSUME NEW d \in DOMAIN docs, NEW e \in DOMAIN docs,
               c \in Taken(docs[d]), c \in Taken(docs[e])
        PROVE  d = e
    <3>1. /\ IF cmd[c].kind = "submit" THEN c = docs[d].key ELSE cmd[c].doc = d
          /\ IF cmd[c].kind = "submit" THEN c = docs[e].key ELSE cmd[c].doc = e
      BY <1>1, <2>1 DEF EffectInv, EntriesHold
    <3>2. QED
      BY <1>1, <3>1 DEF EffectInv, SubmitsHold
  <2>2. ASSUME NEW d \in DOMAIN docs,
               NEW i \in DOMAIN Keys(docs[d]), NEW j \in DOMAIN Keys(docs[d]),
               Keys(docs[d])[i] = c, Keys(docs[d])[j] = c
        PROVE  i = j
    <3>1. PICK doc \in Doc : doc = docs[d]
      BY <1>1, Lengths DEF RequestInv
    <3>2. EntriesHold(d, doc)
      BY <1>1, <3>1 DEF EffectInv
    <3>3. PICK n \in Nat, m \in Nat : /\ n = Len(doc.history) /\ DOMAIN doc.history = 1..n
                                      /\ m = Len(doc.comments) /\ DOMAIN doc.comments = 1..m
      <4>1. doc.history \in Seq(Event) /\ doc.comments \in Seq(Comments)
        BY Parts
      <4>2. QED
        BY <4>1, LenProperties
    <3>4. ASSUME NEW x \in DOMAIN Keys(doc), Keys(doc)[x] = c
          PROVE  \/ x \in 1..n /\ doc.history[x].key = c /\ cmd[c].kind # "comment"
                 \/ /\ x - n \in 1..m /\ doc.comments[x - n].key = c
                    /\ cmd[c].kind = "comment"
      <4>1. x \in 1..(n + m)
        BY <3>3, KeysParts
      <4>2. CASE x \in 1..n
        <5>1. Keys(doc)[x] = doc.history[x].key
          BY <3>3, <4>2, KeysParts
        <5>2. QED
          <6>1. x \in DOMAIN doc.history /\ doc.history[x].key = c
            BY <3>3, <3>4, <4>2, <5>1
          <6>2. cmd[doc.history[x].key].kind # "comment"
            BY <3>2, <6>1, EventFacts
          <6>3. QED
            BY <4>2, <6>1, <6>2
      <4>3. CASE x \notin 1..n
        <5>1. x - n \in 1..m /\ n + (x - n) = x
          BY <4>1, <4>3
        <5>2. Keys(doc)[n + (x - n)] = doc.comments[x - n].key
          BY <3>3, <5>1, KeysParts
        <5>3. doc.comments[x - n].key = c
          BY <3>4, <5>1, <5>2
        <5>4. cmd[c].kind = "comment"
          <6>1. PICK p \in DOMAIN doc.comments : p = x - n
            BY <3>3, <5>1
          <6>2. LET k == doc.comments[p].key
                IN  /\ cmd[k].kind = "comment"
                    /\ doc.comments[p] = [key |-> k, actor |-> cmd[k].actor]
            BY <3>2, CommentFacts
          <6>3. QED
            BY <5>3, <6>1, <6>2
        <5>5. QED
          BY <5>1, <5>3, <5>4
      <4>4. QED
        BY <4>2, <4>3
    <3>5. i \in 1..(n + m) /\ j \in 1..(n + m)
      BY <3>1, <3>3, KeysParts
    <3>6. CASE cmd[c].kind = "comment"
      <4>1. /\ i - n \in 1..m /\ doc.comments[i - n].key = c
            /\ j - n \in 1..m /\ doc.comments[j - n].key = c
        BY <2>2, <3>1, <3>4, <3>6
      <4>2. i - n = j - n
        BY <3>2, <3>3, <4>1 DEF EntriesHold
      <4>3. QED
        BY <3>5, <4>2
    <3>7. CASE cmd[c].kind # "comment"
      <4>1. /\ i \in 1..n /\ doc.history[i].key = c
            /\ j \in 1..n /\ doc.history[j].key = c
        BY <2>2, <3>1, <3>4, <3>7
      <4>2. QED
        BY <3>2, <3>3, <4>1 DEF EntriesHold
    <3>8. QED
      BY <3>6, <3>7
  <2>3. ASSUME NEW d \in DOMAIN docs, NEW i \in DOMAIN Keys(docs[d]), Keys(docs[d])[i] = c
        PROVE  c \in Taken(docs[d])
    <3>1. docs[d] \in Doc
      BY <1>1, Lengths DEF RequestInv
    <3>2. QED
      BY <2>3, <3>1, KeysAreTaken
  <2>4. ASSUME NEW p \in Applications(c), NEW q \in Applications(c) PROVE p = q
    <3>1. PICK d \in DOMAIN docs : \E i \in DOMAIN Keys(docs[d]) :
             p = <<d, i>> /\ Keys(docs[d])[i] = c
      BY DEF Applications
    <3>2. PICK i \in DOMAIN Keys(docs[d]) : p = <<d, i>> /\ Keys(docs[d])[i] = c
      BY <3>1
    <3>3. PICK e \in DOMAIN docs : \E j \in DOMAIN Keys(docs[e]) :
             q = <<e, j>> /\ Keys(docs[e])[j] = c
      BY DEF Applications
    <3>4. PICK j \in DOMAIN Keys(docs[e]) : q = <<e, j>> /\ Keys(docs[e])[j] = c
      BY <3>3
    <3>5. d = e
      BY <2>1, <2>3, <3>2, <3>4
    <3>6. i = j
      BY <2>2, <3>2, <3>4, <3>5
    <3>7. QED
      BY <3>2, <3>4, <3>5, <3>6
  <2>5. CASE Applications(c) = {}
    BY <2>5, FS_EmptySet
  <2>6. CASE Applications(c) # {}
    <3>1. PICK p : Applications(c) = {p}
      BY <2>4, <2>6
    <3>2. QED
      BY <3>1, FS_Singleton
  <2>7. QED
    BY <2>5, <2>6
<1>2. RequestInv /\ EffectInv => OncePerKey
  BY <1>1 DEF OncePerKey
<1>3. QED
  BY <1>2, RequestsHold, EffectsHold, PTL

(***************************************************************************)
(* Every mutation of a document has one audit row, in its order, and no    *)
(* row is about a mutation that was lost (atomicAppend's transaction).     *)
(***************************************************************************)
THEOREM MutationsAreEvidenced == Spec => []EvidenceIsPaired
<1>1. ASSUME RequestInv, EffectInv, NEW d \in DOMAIN docs
      PROVE  /\ Cardinality(RowsOf(d)) = docs[d].version
             /\ {audit[i].key : i \in RowsOf(d)}
                  = {Keys(docs[d])[i] : i \in DOMAIN Keys(docs[d])}
             /\ \A i, j \in RowsOf(d), m, n \in DOMAIN docs[d].history :
                   (/\ i < j
                    /\ audit[i].key = docs[d].history[m].key
                    /\ audit[j].key = docs[d].history[n].key) => m < n
  <2>1. docs[d] \in Doc /\ RowsHold(d, docs[d])
    BY <1>1, Lengths DEF RequestInv, EffectInv
  <2>2. QED
    BY <2>1, KeysAreTaken DEF RowsHold
<1>2. RequestInv /\ EffectInv => EvidenceIsPaired
  BY <1>1 DEF EvidenceIsPaired
<1>3. QED
  BY <1>2, RequestsHold, EffectsHold, PTL

(***************************************************************************)
(* Whoever is told that the change request changed expected a version it   *)
(* has left behind, and has changed nothing, nor will any attempt at the   *)
(* command, unless the document could not be read to see whether another   *)
(* attempt had (transitionReplay and commentReplay after a conflict).      *)
(***************************************************************************)
THEOREM ConflictsAreFinal == Spec => []ConflictsAreTrue
<1>1. ASSUME RequestInv, EffectInv, NEW c \in DOMAIN cmd, "conflict" \in answers[c]
      PROVE  docs[cmd[c].doc].version # cmd[c].expected /\ (Applied(c) => c \in unread)
  <2>1. /\ cmd[c].kind # "submit" /\ cmd[c].expected < docs[cmd[c].doc].version
        /\ c \in Taken(docs[cmd[c].doc]) => c \in unread
    BY <1>1 DEF EffectInv, ConflictsHold
  <2>2. docs[cmd[c].doc].version # cmd[c].expected
    <3>1. cmd[c].doc \in DOMAIN docs
      BY <1>1, <2>1 DEF RequestInv, CommandsHold
    <3>2. cmd[c] \in Command /\ docs[cmd[c].doc] \in Doc
      BY <1>1, <3>1, Lengths DEF RequestInv
    <3>3. cmd[c].expected \in Nat /\ docs[cmd[c].doc].version \in Nat
      BY <3>2 DEF Command, Doc
    <3>4. QED
      BY <2>1, <3>3
  <2>3. ASSUME NEW d \in DOMAIN docs, NEW i \in DOMAIN Keys(docs[d]), Keys(docs[d])[i] = c
        PROVE  c \in unread
    <3>1. docs[d] \in Doc
      BY <1>1, Lengths DEF RequestInv
    <3>2. c \in Taken(docs[d])
      BY <2>3, <3>1, KeysAreTaken
    <3>3. cmd[c].doc = d
      <4>1. EntriesHold(d, docs[d])
        BY <1>1 DEF EffectInv
      <4>2. QED
        BY <2>1, <3>2, <4>1, EntryFacts
    <3>4. QED
      BY <2>1, <3>2, <3>3
  <2>4. QED
    BY <2>2, <2>3 DEF Applied, Applications
<1>2. RequestInv /\ EffectInv => ConflictsAreTrue
  BY <1>1 DEF ConflictsAreTrue
<1>3. QED
  BY <1>2, RequestsHold, EffectsHold, PTL
=============================================================================
