----------------------------- MODULE ChangeFeed -----------------------------
(***************************************************************************)
(* The public change feed: StreamDatasetChanges of                         *)
(* internal/transport/grpc/server.go polling ChangesAfter over the audit   *)
(* log (AuditLog, extended here) with the id of the last row sent as its   *)
(* cursor.  A client that loses its stream resumes from the last cursor    *)
(* it received; one that received none starts at the tail again.           *)
(***************************************************************************)
EXTENDS AuditLog, SequencesExt

CONSTANTS
    Clients,
    PageLimit  \* rows of one ChangesAfter page (100 in the code)

ASSUME PageAssumption == PageLimit \in Nat \ {0}

NoCursor == [at |-> -1, nonce |-> -1]

VARIABLES
    stream,    \* stream[c]: is c's stream open?
    cursor,    \* cursor[c]: the server's cursor, while the stream is open
    page,      \* page[c]: rows read by ChangesAfter and not sent yet
    received,  \* received[c]: the ids c received, in order
    since      \* since[c]: rows committed before c subscribed (history)

feedVars == <<stream, cursor, page, received, since>>

FeedTypeOK ==
    /\ stream \in [Clients -> BOOLEAN]
    /\ cursor \in [Clients -> Id \cup {NoCursor}]
    /\ page \in [Clients -> Seq(Id)]
    /\ received \in [Clients -> Seq(Id)]
    /\ since \in [Clients -> Nat \cup {-1}]

-----------------------------------------------------------------------------
Changes == {r.id : r \in {q \in Rows : q.change}}

\* LatestChangeCursor; the empty cursor filters nothing out.
LatestChangeCursor ==
    IF Changes = {} THEN NoCursor
    ELSE CHOOSE i \in Changes : \A j \in Changes : i = j \/ Precedes(j, i)

\* A page that is cut to its last rows instead of its first.
ChangesAfter_LastPage(i, limit) ==
    LET found == {j \in Changes : Precedes(i, j)}
        rank(j) == Cardinality({k \in found : Precedes(j, k)})
        size == IF Cardinality(found) < limit THEN Cardinality(found) ELSE limit
    IN [n \in 1..size |-> CHOOSE j \in found : rank(j) = size - n]

\* A filter that keeps the cursor's own row.
ChangesAfter_Inclusive(i, limit) ==
    LET found == {j \in Changes : i = j \/ Precedes(i, j)}
        rank(j) == Cardinality({k \in found : Precedes(k, j)})
        size == IF Cardinality(found) < limit THEN Cardinality(found) ELSE limit
    IN [n \in 1..size |-> CHOOSE j \in found : rank(j) = n - 1]

\* The changes after a cursor in id order, at most limit of them.
ChangesAfter(i, limit) ==
    LET found == {j \in Changes : Precedes(i, j)}
        rank(j) == Cardinality({k \in found : Precedes(k, j)})
        size == IF Cardinality(found) < limit THEN Cardinality(found) ELSE limit
    IN [n \in 1..size |-> CHOOSE j \in found : rank(j) = n - 1]

FeedInit ==
    /\ Init
    /\ stream = [c \in Clients |-> FALSE]
    /\ cursor = [c \in Clients |-> NoCursor]
    /\ page = [c \in Clients |-> << >>]
    /\ received = [c \in Clients |-> << >>]
    /\ since = [c \in Clients |-> -1]

\* since_cursor is ignored: every stream starts at the current tail.
Open_AlwaysAtTail(c) ==
    /\ ~ stream[c]
    /\ stream' = [stream EXCEPT ![c] = TRUE]
    /\ cursor' = [cursor EXCEPT ![c] = LatestChangeCursor]
    /\ since' = [since EXCEPT ![c] = IF @ = -1 THEN Len(log) ELSE @]
    /\ UNCHANGED <<vars, page, received>>

\* Open with the client's since_cursor: the last one it received, or none,
\* which means the current tail of the feed.
Open(c) ==
    /\ ~ stream[c]
    /\ stream' = [stream EXCEPT ![c] = TRUE]
    /\ IF received[c] = << >>
       THEN /\ cursor' = [cursor EXCEPT ![c] = LatestChangeCursor]
            /\ since' = [since EXCEPT ![c] = Len(log)]
       ELSE /\ cursor' = [cursor EXCEPT ![c] = Last(received[c])]
            /\ UNCHANGED since
    /\ UNCHANGED <<vars, page, received>>

\* One tick of the stream's loop.
Poll(c) ==
    /\ stream[c]
    /\ page[c] = << >>
    /\ page' = [page EXCEPT ![c] = ChangesAfter(cursor[c], PageLimit)]
    /\ page'[c] # << >>
    /\ UNCHANGED <<vars, stream, cursor, received, since>>

Send(c) ==
    /\ stream[c]
    /\ page[c] # << >>
    /\ cursor' = [cursor EXCEPT ![c] = Head(page[c])]
    /\ received' = [received EXCEPT ![c] = Append(@, Head(page[c]))]
    /\ page' = [page EXCEPT ![c] = Tail(@)]
    /\ UNCHANGED <<vars, stream, since>>

\* The stream breaks; what was read and not received is dropped.
Break(c) ==
    /\ stream[c]
    /\ stream' = [stream EXCEPT ![c] = FALSE]
    /\ page' = [page EXCEPT ![c] = << >>]
    /\ UNCHANGED <<vars, cursor, received, since>>

FeedNext ==
    \/ Next /\ UNCHANGED feedVars
    \/ \E c \in Clients :
          Open(c) \/ Poll(c) \/ Send(c) \/ Break(c)

FeedSpec == FeedInit /\ [][FeedNext]_<<vars, feedVars>>

\* The server's loop runs on and the client comes back; the network breaks a
\* stream only so often that polls and rows still get through.
FeedFairness ==
    \A c \in Clients :
       /\ WF_<<vars, feedVars>>(Open(c))
       /\ SF_<<vars, feedVars>>(Poll(c))
       /\ SF_<<vars, feedVars>>(Send(c))

FairFeedSpec == FeedSpec /\ FeedFairness /\ \A w \in Writers : WF_vars(Step(w))

-----------------------------------------------------------------------------
Subscribed(c) == since[c] # -1

\* The change rows committed since c subscribed.
Owed(c) == {log[k].id : k \in {n \in DOMAIN log : n > since[c] /\ log[n].change}}

(***************************************************************************)
(* Across pages, breaks and resumes a client receives changes in id order, *)
(* each at most once: the resume cursor repeats nothing.                   *)
(***************************************************************************)
ReceivedInOrder ==
    \A c \in Clients : \A m, n \in DOMAIN received[c] :
       m < n => Precedes(received[c][m], received[c][n])

(***************************************************************************)
(* Every change committed since a client subscribed that is not after its  *)
(* cursor has reached it.  This is what "the last delivered id is a        *)
(* durable resume cursor" (audit.go, ChangesAfter) promises.               *)
(***************************************************************************)
FeedHasNoGap ==
    \A c \in Clients : Subscribed(c) =>
       \A i \in Owed(c) : Precedes(cursor[c], i) \/ i \in Range(received[c])

(***************************************************************************)
(* The promise holds as long as rows commit in the order of their ids.     *)
(***************************************************************************)
OrderedFeedHasNoGap == StampsOrdered => FeedHasNoGap

(***************************************************************************)
(* As long as rows commit in the order of their ids, a change committed    *)
(* while a client is subscribed reaches it, or the client starts over at a *)
(* later tail because it had received nothing.                             *)
(***************************************************************************)
OrderedChangesArrive ==
    []StampsOrdered =>
      \A c \in Clients : \A k \in 1..MaxRows :
         (Subscribed(c) /\ k > since[c] /\ k \in DOMAIN log /\ log[k].change)
         ~> (k <= since[c] \/ (k \in DOMAIN log /\ log[k].id \in Range(received[c])))

-----------------------------------------------------------------------------
(***************************************************************************)
(* What makes both an invariant: the cursor is that of the last change     *)
(* received, and a page that was read holds changes after it, in order.    *)
(***************************************************************************)
CursorInv(c) ==
    /\ cursor[c] \in Changes \cup {NoCursor}
    /\ received[c] # << >> => cursor[c] = Last(received[c])
    /\ page[c] # << >> => stream[c]
    /\ \A n \in DOMAIN page[c] : page[c][n] \in Changes /\ Precedes(cursor[c], page[c][n])
    /\ \A m, n \in DOMAIN page[c] : m < n => Precedes(page[c][m], page[c][n])

\* No change is missing between the cursor and a row of the page.
PageHasNoGap(c) ==
    \A n \in DOMAIN page[c] : \A i \in Changes :
       (Precedes(cursor[c], i) /\ Precedes(i, page[c][n])) =>
          \E m \in DOMAIN page[c] : m < n /\ page[c][m] = i

FeedInv ==
    /\ FeedTypeOK
    /\ \A c \in Clients : CursorInv(c)
    /\ ReceivedInOrder
    /\ StampsOrdered => FeedHasNoGap /\ \A c \in Clients : PageHasNoGap(c)
=============================================================================
