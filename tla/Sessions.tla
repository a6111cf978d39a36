-------------------------------- MODULE Sessions --------------------------------
(***************************************************************************)
(* Browser sessions, password resets and staff changes of access:          *)
(* internal/app/account over internal/adapters/mongo (sessions.go,         *)
(* accounts.go).                                                           *)
(*                                                                         *)
(* A session token is the number of its row.  Rotation keeps the old row,  *)
(* superseded, and inserts the next one of the same chain.  A request is   *)
(* first authenticated, by reads of the session and of the account and,    *)
(* when the token is due, by a rotation; then it does what it is for.      *)
(* Every call of the database is a step of its own, and any request may    *)
(* fail between two of them.  The token of a rotation leaves with the      *)
(* answer, after all that the request does; until then the browser goes on *)
(* sending the old one.                                                    *)
(*                                                                         *)
(* A browser holds one cookie, and its requests run in parallel.  Time is  *)
(* counted in ticks and read from one clock.  Whoever signs in knows the   *)
(* password; the second factor of a privileged role is right or wrong.     *)
(***************************************************************************)
EXTENDS Integers, Sequences, FiniteSets

CONSTANTS
    Accounts,
    Clients,           \* browsers
    Owner,             \* Owner[c]: the account that browser c signs in to
    Handlers,          \* requests the replicas can work on at the same time
    RotationGrace, RotationInterval, IdleTimeout,  \* lifetimes, in ticks
    Arriving,          \* what a request may take to arrive ...
    Answering,         \* ... and an answer after the rotation it reports
    AbsoluteTimeout, PrivilegedAbsoluteTimeout,
    Cooldown,          \* passwordResetCooldown
    PasswordResetTTL,
    MaxTime,           \* bound: ticks
    MaxRows,           \* bound: session rows
    MaxRequests,       \* bound: requests sent
    MaxLinks,          \* bound: reset links issued
    Nothing

ASSUME OwnerAssumption == Owner \in [Clients -> Accounts]

ASSUME LifetimesAssumption ==
    {RotationGrace, RotationInterval, IdleTimeout, AbsoluteTimeout,
     PrivilegedAbsoluteTimeout, Cooldown, PasswordResetTTL} \subseteq Nat

\* Of the network and the replicas: nothing in the code makes it so.
ASSUME PromptAssumption ==
    {Arriving, Answering} \subseteq Nat /\ Arriving + Answering <= RotationGrace

ASSUME BoundsAssumption == {MaxTime, MaxRows, MaxRequests, MaxLinks} \subseteq Nat

ASSUME ClientsAssumption == IsFiniteSet(Clients)

VARIABLES
    now,
    account,   \* accounts
    row,       \* sessions, in the order they were inserted
    reset,     \* reset[a]: the one reset row of account a in one_time_tokens
    inbox,     \* inbox[a]: reset links that were delivered
    jar,       \* jar[c]: the token in the cookie of c, 0 if none
    task,      \* task[h]: the request h works on
    sent,      \* requests sent
    links,     \* reset links issued
    ends,      \* ends[a]: times all sessions of a were ended (history)
    spent,     \* spent[l]: times link l changed a password (history)
    crossed,   \* links whose submission spent another link's row (history)
    alarmed,   \* accounts ended by a replayed token (history)
    excused    \* accounts whose browser lost an answer or was slow (history)

vars == <<now, account, row, reset, inbox, jar, task, sent, links,
          ends, spent, crossed, alarmed, excused>>

Roles == {"SUPER_ADMIN", "DEVELOPER"}

RequiresMFA(role) == role # "DEVELOPER"

StaffKinds == {"demote", "promote", "disable", "enable"}

\* Requests that go through requireSession.
SessionKinds == {"use", "everywhere"} \cup StaffKinds

Kinds == SessionKinds \cup {"logout", "login", "complete", "forgot", "confirm"}

Account == [role : Roles, disabled : BOOLEAN, epoch : Nat]

\* proof: ends of the account when the password, or the second factor, that the
\* session was made for was checked (history); chain: the row its rotations
\* began with.
Row == [account : Accounts, role : Roles, stage : {"pending", "authenticated"},
        epoch : Nat, used : Nat, expires : Nat, superseded : Nat \cup {Nothing},
        revoked : BOOLEAN, chain : Nat, proof : Nat]

Reset == [link : Nat, created : Nat, used : BOOLEAN]

ASSUME NothingAssumption == Nothing \notin Nat /\ Nothing \notin Reset

Idle == [pc |-> "idle"]

Stages == {"sent", "found", "rotate", "alarm", "alarmPurge", "act", "write", "purge",
           "served", "refused", "revoke", "create", "elevate", "spend", "issue", "mail",
           "release", "consume"}

\* token: the session or the link presented; revoked, read: what was read of
\* the session and of the account; at: when the request was sent, then when
\* its handler began; next: the session made for the answer, 0 if none; since:
\* ends when it was sent, then when its password or second factor was checked.
Task == [pc : Stages,
         kind : Kinds, client : Clients, target : Accounts, token : Nat,
         revoked : BOOLEAN, read : Account \cup {Nothing}, at : Nat, next : Nat,
         since : Nat]

TypeOK ==
    /\ now \in Nat /\ sent \in Nat /\ links \in 0..MaxLinks
    /\ account \in [Accounts -> Account]
    /\ row \in Seq(Row)
    /\ reset \in [Accounts -> Reset \cup {Nothing}]
    /\ inbox \in [Accounts -> SUBSET (1..MaxLinks)]
    /\ jar \in [Clients -> 0..Len(row)]
    /\ task \in [Handlers -> {Idle} \cup Task]
    /\ ends \in [Accounts -> Nat]
    /\ spent \in [1..MaxLinks -> Nat]
    /\ crossed \subseteq 1..MaxLinks
    /\ alarmed \subseteq Accounts /\ excused \subseteq Accounts

-----------------------------------------------------------------------------
Free(h) == task[h].pc = "idle"

\* A session was made that the answer is to tell the browser of.
Made(h) == task[h].pc # "idle" /\ task[h].next # 0

\* The request rotated the session it presents, and is not answered yet.
Rotated(h) == Made(h) /\ task[h].kind \in SessionKinds

SessionOf(h) == row[task[h].token]

AccountOf(h) == Owner[task[h].client]

Goto(h, pc) == task' = [task EXCEPT ![h].pc = pc]

Finish(h) == task' = [task EXCEPT ![h] = Idle]

\* The answer sets the cookie of the browser, or clears it (0).
SetCookie(h, token) == jar' = [jar EXCEPT ![task[h].client] = token]

history == <<ends, spent, crossed, alarmed, excused>>

resets == <<reset, inbox, links>>

\* A browser sends a request with the cookie it holds, or a link it received.
Send(h, c, kind, target, link) ==
    /\ Free(h)
    /\ sent < MaxRequests
    /\ kind \in SessionKinds \cup {"logout", "complete"} => jar[c] # 0
    /\ kind = "confirm" => link \in inbox[Owner[c]]
    /\ kind # "confirm" => link = 0
    /\ IF kind \in StaffKinds THEN target # Owner[c] ELSE target = Owner[c]
    /\ task' = [task EXCEPT ![h] =
          [pc |-> "sent", kind |-> kind, client |-> c, target |-> target,
           token |-> IF kind = "confirm" THEN link ELSE jar[c],
           revoked |-> FALSE, read |-> Nothing, at |-> now, next |-> 0,
           since |-> ends[Owner[c]]]]
    /\ sent' = sent + 1
    /\ UNCHANGED <<now, account, row, resets, jar, history>>

\* Any superseded token is a replay.
Replayed_AtOnce(s) == s.superseded # Nothing

\* ByToken: superseded longer ago than the grace.
Replayed(s) == s.superseded # Nothing /\ now - s.superseded > RotationGrace

\* resolve: the session is looked up.
Find(h) ==
    /\ task[h].pc = "sent"
    /\ task[h].kind \in SessionKinds \cup {"complete"}
    /\ task' = [task EXCEPT ![h].pc = IF Replayed(SessionOf(h)) THEN "alarm" ELSE "found",
                            ![h].revoked = SessionOf(h).revoked, ![h].at = now]
    /\ excused' = IF now - task[h].at > Arriving
                  THEN excused \cup {AccountOf(h)} ELSE excused
    /\ UNCHANGED <<now, account, row, resets, jar, sent, ends, spent, crossed,
                   alarmed>>

\* Session.Verify.
Verified(s, revoked, a, at) ==
    /\ ~ revoked
    /\ ~ a.disabled
    /\ s.epoch = a.epoch
    /\ at <= s.expires
    /\ at - s.used <= IdleTimeout
    /\ s.role = a.role
    /\ s.stage = "authenticated"

\* What a request does once it is authenticated; staff changes need role:manage.
Action(kind, a) ==
    CASE kind = "use"        -> "served"
      [] kind = "everywhere" -> "act"
      [] kind \in StaffKinds -> IF a.role = "SUPER_ADMIN" THEN "act" ELSE "served"

\* Authenticate: the account is read and the session verified against it.
Authenticate(h) ==
    /\ task[h].pc = "found" /\ task[h].kind \in SessionKinds
    /\ LET a == account[AccountOf(h)]
           s == SessionOf(h)
       IN IF Verified(s, task[h].revoked, a, task[h].at)
          THEN /\ task' = [task EXCEPT ![h].read = a,
                     ![h].pc = IF task[h].at - s.used >= RotationInterval
                               THEN "rotate" ELSE Action(task[h].kind, a)]
               /\ UNCHANGED jar
          ELSE Finish(h) /\ SetCookie(h, 0)
    /\ UNCHANGED <<now, account, row, resets, sent, history>>

\* By id alone.
RotationLost_Never(s) == FALSE

\* The filter of SessionRepo.Rotate matches nothing.
RotationLost(s) == s.superseded # Nothing \/ s.revoked

\* Rotate: one transaction supersedes the row and inserts the next of its
\* chain.  Its token waits for the answer; a commit that is reported as an error
\* is answered by an error.
Rotate(h) ==
    /\ task[h].pc = "rotate"
    /\ LET s == SessionOf(h)
           go == Action(task[h].kind, task[h].read)
       IN IF RotationLost(s)
          THEN Goto(h, go) /\ UNCHANGED row
          ELSE /\ Len(row) < MaxRows
               /\ row' = Append([row EXCEPT ![task[h].token].superseded = now],
                                [s EXCEPT !.used = task[h].at, !.superseded = Nothing])
               /\ \E pc \in {go, "refused"} :
                     task' = [task EXCEPT ![h].pc = pc, ![h].next = Len(row) + 1]
    /\ UNCHANGED <<now, account, resets, jar, sent, history>>

AllRevoked(a) ==
    [i \in DOMAIN row |-> IF row[i].account = a THEN [row[i] EXCEPT !.revoked = TRUE]
                                                ELSE row[i]]

EndAll(a) ==
    /\ account' = [account EXCEPT ![a].epoch = @ + 1]
    /\ ends' = [ends EXCEPT ![a] = @ + 1]

\* A superseded token was presented: every session of the account is ended.
\* The errors of both calls are dropped.
Alarm(h) ==
    /\ task[h].pc = "alarm"
    /\ Goto(h, "alarmPurge")
    /\ \/ EndAll(AccountOf(h)) /\ alarmed' = alarmed \cup {AccountOf(h)}
       \/ UNCHANGED <<account, ends, alarmed>>
    /\ UNCHANGED <<now, row, resets, jar, sent, spent, crossed, excused>>

AlarmPurge(h) ==
    /\ task[h].pc = "alarmPurge"
    /\ row' \in {row, AllRevoked(AccountOf(h))}
    /\ Finish(h)
    /\ IF task[h].kind = "complete" THEN UNCHANGED jar ELSE SetCookie(h, 0)
    /\ UNCHANGED <<now, account, resets, sent, history>>

\* Logout: a token that was superseded is as good as gone.
FindForLogout(h) ==
    /\ task[h].pc = "sent" /\ task[h].kind = "logout"
    /\ IF SessionOf(h).superseded # Nothing
       THEN Finish(h) /\ SetCookie(h, 0)
       ELSE Goto(h, "revoke") /\ UNCHANGED jar
    /\ UNCHANGED <<now, account, row, resets, sent, history>>

Revoke(h) ==
    /\ task[h].pc = "revoke"
    /\ row' = [row EXCEPT ![task[h].token].revoked = TRUE]
    /\ Finish(h)
    /\ SetCookie(h, 0)
    /\ UNCHANGED <<now, account, resets, sent, history>>

\* LogoutEverywhere: the epoch first, then the rows.
BumpEpoch(h) ==
    /\ task[h].pc = "act" /\ task[h].kind = "everywhere"
    /\ EndAll(AccountOf(h))
    /\ Goto(h, "purge")
    /\ UNCHANGED <<now, row, resets, jar, sent, spent, crossed, alarmed, excused>>

\* SetStaffRole, SetStaffDisabled: nothing is done if nothing changes.
Changes(kind, a) ==
    CASE kind = "demote"  -> a.role # "DEVELOPER"
      [] kind = "promote" -> a.role # "SUPER_ADMIN"
      [] kind = "disable" -> ~ a.disabled
      [] kind = "enable"  -> a.disabled

ReadStaff(h) ==
    /\ task[h].pc = "act" /\ task[h].kind \in StaffKinds
    /\ Goto(h, IF Changes(task[h].kind, account[task[h].target]) THEN "write" ELSE "served")
    /\ UNCHANGED <<now, account, row, resets, jar, sent, history>>

WriteStaff(h) ==
    /\ task[h].pc = "write"
    /\ LET t == task[h].target
       IN account' = CASE task[h].kind = "demote"  -> [account EXCEPT ![t].role = "DEVELOPER"]
                       [] task[h].kind = "promote" -> [account EXCEPT ![t].role = "SUPER_ADMIN"]
                       [] task[h].kind = "disable" -> [account EXCEPT ![t].disabled = TRUE]
                       [] task[h].kind = "enable"  -> [account EXCEPT ![t].disabled = FALSE]
    /\ Goto(h, IF task[h].kind = "enable" THEN "served" ELSE "purge")
    /\ UNCHANGED <<now, row, resets, jar, sent, history>>

\* RevokeAllForAccount, after the epoch or the staff change; after the latter
\* its failure is only logged.
Purge(h) ==
    /\ task[h].pc = "purge"
    /\ \/ row' = AllRevoked(task[h].target)
       \/ task[h].kind \in StaffKinds /\ UNCHANGED row
    /\ Goto(h, "served")
    /\ UNCHANGED <<now, account, resets, jar, sent, history>>

\* The browser is not told of the session that was made for it.
Unheard(h) == excused' = IF Rotated(h) THEN excused \cup {AccountOf(h)} ELSE excused

\* The cookie the answer leaves: an error of requireSession and a logout
\* everywhere clear it, a rotation sets it.
Cookie(h) ==
    IF task[h].pc = "refused" \/ task[h].kind = "everywhere" THEN 0
    ELSE IF Rotated(h) THEN task[h].next
    ELSE jar[task[h].client]

\* The answer reaches the browser, or is lost.
Answer(h) ==
    /\ task[h].pc \in {"served", "refused"}
    /\ Finish(h)
    /\ \/ SetCookie(h, Cookie(h)) /\ UNCHANGED excused
       \/ UNCHANGED jar /\ Unheard(h)
    /\ UNCHANGED <<now, account, row, resets, sent, ends, spent, crossed, alarmed>>

\* Login: the password is checked against the account as it is read.
CheckPassword(h) ==
    /\ task[h].pc = "sent" /\ task[h].kind = "login"
    /\ LET a == account[AccountOf(h)]
       IN IF a.disabled
          THEN Finish(h)
          ELSE task' = [task EXCEPT ![h].pc = "create", ![h].read = a, ![h].at = now,
                                    ![h].since = ends[AccountOf(h)]]
    /\ UNCHANGED <<now, account, row, resets, jar, sent, history>>

\* absoluteTimeoutFor.
Lifetime(role) == IF RequiresMFA(role) THEN PrivilegedAbsoluteTimeout ELSE AbsoluteTimeout

\* Issue.
NewRow(h, stage) ==
    LET a == task[h].read
    IN [account |-> AccountOf(h), role |-> a.role, stage |-> stage, epoch |-> a.epoch,
        used |-> task[h].at,
        expires |-> task[h].at + Lifetime(a.role),
        superseded |-> Nothing, revoked |-> FALSE, chain |-> Len(row) + 1,
        proof |-> task[h].since]

\* Login: a privileged role still has to present its second factor.
CreateSession(h) ==
    /\ task[h].pc = "create"
    /\ Len(row) < MaxRows
    /\ row' = Append(row, NewRow(h, IF RequiresMFA(task[h].read.role) THEN "pending"
                                    ELSE "authenticated"))
    /\ SetCookie(h, Len(row) + 1)
    /\ Finish(h)
    /\ UNCHANGED <<now, account, resets, sent, history>>

\* CompleteTOTP, RecoverMFA: the pending session is only looked up.
CheckFactor(h) ==
    /\ task[h].pc = "found" /\ task[h].kind = "complete"
    /\ \/ /\ SessionOf(h).stage = "pending"
          /\ task' = [task EXCEPT ![h].pc = "elevate", ![h].read = account[AccountOf(h)],
                                  ![h].since = ends[AccountOf(h)]]
       \/ Finish(h)
    /\ UNCHANGED <<now, account, row, resets, jar, sent, history>>

\* elevate: a new session, with a new token.
Elevate(h) ==
    /\ task[h].pc = "elevate"
    /\ Len(row) < MaxRows
    /\ row' = Append(row, NewRow(h, "authenticated"))
    /\ task' = [task EXCEPT ![h].pc = "spend", ![h].next = Len(row) + 1]
    /\ UNCHANGED <<now, account, resets, jar, sent, history>>

\* The pending session is revoked; the error is dropped.
Spend(h) ==
    /\ task[h].pc = "spend"
    /\ row' \in {row, [row EXCEPT ![task[h].token].revoked = TRUE]}
    /\ SetCookie(h, task[h].next)
    /\ Finish(h)
    /\ UNCHANGED <<now, account, resets, sent, history>>

-----------------------------------------------------------------------------
\* RequestPasswordReset answers the same whatever it finds.
ReadForReset(h) ==
    /\ task[h].pc = "sent" /\ task[h].kind = "forgot"
    /\ IF account[AccountOf(h)].disabled THEN Finish(h) ELSE Goto(h, "issue")
    /\ UNCHANGED <<now, account, row, resets, jar, sent, history>>

\* The filter of CreatePasswordReset matches nothing and the upsert collides.
Cooling(r) == r # Nothing /\ ~ r.used /\ r.created >= now - Cooldown

\* CreatePasswordReset: one row per account.
IssueLink(h) ==
    /\ task[h].pc = "issue"
    /\ LET a == AccountOf(h)
       IN IF Cooling(reset[a])
          THEN Finish(h) /\ UNCHANGED <<reset, links>>
          ELSE /\ links < MaxLinks
               /\ links' = links + 1
               /\ reset' = [reset EXCEPT ![a] = [link |-> links + 1, created |-> now,
                                                 used |-> FALSE]]
               /\ task' = [task EXCEPT ![h].pc = "mail", ![h].token = links + 1]
    /\ UNCHANGED <<now, account, row, inbox, jar, sent, history>>

Mail(h) ==
    /\ task[h].pc = "mail"
    /\ \/ inbox' = [inbox EXCEPT ![AccountOf(h)] = @ \cup {task[h].token}] /\ Finish(h)
       \/ UNCHANGED inbox /\ Goto(h, "release")
    /\ UNCHANGED <<now, account, row, reset, links, jar, sent, history>>

\* The account's row, whatever link it holds.
Releasable_AnyLink(r, link) == r # Nothing /\ ~ r.used

Releasable(r, link) == r # Nothing /\ r.link = link /\ ~ r.used

\* ReleasePasswordReset.
Release(h) ==
    /\ task[h].pc = "release"
    /\ reset' = [reset EXCEPT ![AccountOf(h)] =
                    IF Releasable(@, task[h].token) THEN Nothing ELSE @]
    /\ Finish(h)
    /\ UNCHANGED <<now, account, row, inbox, links, jar, sent, history>>

\* ConfirmPasswordReset: Redeem, and an account that is not disabled.  Both
\* are read again in the transaction, the link is not.
ReadLink(h) ==
    /\ task[h].pc = "sent" /\ task[h].kind = "confirm"
    /\ LET r == reset[AccountOf(h)]
       IN IF /\ r # Nothing /\ r.link = task[h].token /\ ~ r.used
             /\ now <= r.created + PasswordResetTTL
             /\ ~ account[AccountOf(h)].disabled
          THEN Goto(h, "consume")
          ELSE Finish(h)
    /\ UNCHANGED <<now, account, row, resets, jar, sent, history>>

\* Read before the transaction only.
Consumable_Used(r, a) == r # Nothing /\ ~ a.disabled

Consumable(r, a) == r # Nothing /\ ~ r.used /\ ~ a.disabled

\* Without the increment of sessionEpoch.
Credential_SameEpoch(a) == a

\* The account with the new password.
Credential(a) == [a EXCEPT !.epoch = @ + 1]

\* ConsumePasswordReset, a transaction.
Consume(h) ==
    /\ task[h].pc = "consume"
    /\ LET a == AccountOf(h)
           l == task[h].token
       IN IF Consumable(reset[a], account[a])
          THEN /\ reset' = [reset EXCEPT ![a].used = TRUE]
               /\ account' = [account EXCEPT ![a] = Credential(@)]
               /\ row' = AllRevoked(a)
               /\ SetCookie(h, 0)
               /\ ends' = [ends EXCEPT ![a] = @ + 1]
               /\ spent' = [spent EXCEPT ![l] = @ + 1]
               /\ crossed' = IF reset[a].link = l THEN crossed ELSE crossed \cup {l}
          ELSE UNCHANGED <<reset, account, row, jar, ends, spent, crossed>>
    /\ Finish(h)
    /\ UNCHANGED <<now, inbox, links, sent, alarmed, excused>>

-----------------------------------------------------------------------------
\* A request fails or its process dies.  requireSession and authLogout answer
\* an error with a cleared cookie, a later error carries the token of the
\* rotation, and an answer that is lost leaves the cookie.
Fail(h) ==
    /\ task[h].pc \notin {"idle", "served", "refused"}
    /\ Finish(h)
    /\ \/ UNCHANGED jar /\ Unheard(h)
       \/ /\ task[h].kind \in SessionKinds \cup {"logout"}
          /\ task[h].pc \in {"sent", "found", "rotate", "revoke"}
          /\ SetCookie(h, 0) /\ UNCHANGED excused
       \/ Rotated(h) /\ SetCookie(h, task[h].next) /\ UNCHANGED excused
    /\ UNCHANGED <<now, account, row, resets, sent, ends, spent, crossed, alarmed>>

\* The rotation of h is no longer answered in time.
Late(h) == Rotated(h) /\ now + 1 - SessionOf(h).superseded > Answering

Tick ==
    /\ now < MaxTime
    /\ now' = now + 1
    /\ excused' = excused \cup {AccountOf(h) : h \in {g \in Handlers : Late(g)}}
    /\ UNCHANGED <<account, row, resets, jar, task, sent, ends, spent, crossed, alarmed>>

Fresh(role) == [role |-> role, disabled |-> FALSE, epoch |-> 1]

\* Every browser has signed in.
Init ==
    /\ now = 0
    /\ account \in [Accounts -> {Fresh(role) : role \in Roles}]
    /\ jar \in [Clients -> 1..Cardinality(Clients)]
    /\ \A c, d \in Clients : c # d => jar[c] # jar[d]
    /\ row = [i \in 1..Cardinality(Clients) |->
          LET a == Owner[CHOOSE c \in Clients : jar[c] = i]
          IN [account |-> a, role |-> account[a].role, stage |-> "authenticated",
              epoch |-> 1, used |-> 0, expires |-> Lifetime(account[a].role),
              superseded |-> Nothing, revoked |-> FALSE, chain |-> i, proof |-> 0]]
    /\ reset = [a \in Accounts |-> Nothing]
    /\ inbox = [a \in Accounts |-> {}]
    /\ task = [h \in Handlers |-> Idle]
    /\ sent = 0
    /\ links = 0
    /\ ends = [a \in Accounts |-> 0]
    /\ spent = [l \in 1..MaxLinks |-> 0]
    /\ crossed = {}
    /\ alarmed = {} /\ excused = {}

Step(h) ==
    \/ Find(h) \/ Authenticate(h) \/ Rotate(h) \/ Alarm(h) \/ AlarmPurge(h)
    \/ FindForLogout(h) \/ Revoke(h) \/ BumpEpoch(h) \/ ReadStaff(h) \/ WriteStaff(h)
    \/ Purge(h) \/ Answer(h) \/ CheckPassword(h) \/ CreateSession(h) \/ CheckFactor(h)
    \/ Elevate(h) \/ Spend(h) \/ ReadForReset(h) \/ IssueLink(h) \/ Mail(h) \/ Release(h)
    \/ ReadLink(h) \/ Consume(h) \/ Fail(h)

Next ==
    \/ \E h \in Handlers, c \in Clients, kind \in Kinds, target \in Accounts,
          link \in 0..MaxLinks : Send(h, c, kind, target, link)
    \/ \E h \in Handlers : Step(h)
    \/ Tick

Spec == Init /\ [][Next]_vars

-----------------------------------------------------------------------------
OneCurrentToken ==
    \A c \in {row[i].chain : i \in DOMAIN row} :
       Cardinality({i \in DOMAIN row : row[i].chain = c /\ row[i].superseded = Nothing}) = 1

(***************************************************************************)
(* Each sign-in has one current token: whatever parallel requests rotate   *)
(* it, exactly one row of its chain is not superseded.  ("A parallel       *)
(* request won ... must not overwrite the winner's Set-Cookie response     *)
(* with another branch", Authenticate.)                                    *)
(***************************************************************************)
SessionInv == TypeOK /\ OneCurrentToken

\* The request was let in by its session.
Admitted(h) ==
    /\ task[h].pc \in {"rotate", "act", "write", "purge", "served"}
    /\ task[h].kind \in SessionKinds

(***************************************************************************)
(* A request sent after all sessions were ended, by a reset, by a logout   *)
(* everywhere or by the alarm, is not let in by a password or a second     *)
(* factor that was checked before, although a sign-in or a rotation may    *)
(* insert a session after the rows were revoked.  (What counts for a       *)
(* sign-in in two steps is its second factor: a pending session can be     *)
(* completed whatever ended in the meantime.)                              *)
(***************************************************************************)
EndedStaysEnded ==
    \A h \in Handlers : Admitted(h) => SessionOf(h).proof >= task[h].since

(***************************************************************************)
(* Parallel requests of one browser do not look like a replay: sessions    *)
(* are ended by the alarm only if an answer with a new token was lost, or  *)
(* came later than Answering after the rotation, or a request took longer  *)
(* than Arriving, two times that together make up the grace                *)
(* (RotationGrace).                                                        *)
(***************************************************************************)
NoFalseAlarm == alarmed \subseteq excused

(***************************************************************************)
(* A reset link changes one password, however often it is submitted, but   *)
(* for a submission that was under way while the account's row was spent   *)
(* and issued anew.  ("two concurrent submissions cannot both succeed",    *)
(* ConfirmPasswordReset.)                                                  *)
(***************************************************************************)
ResetOnce == \A l \in 1..MaxLinks : l \notin crossed => spent[l] <= 1

(***************************************************************************)
(* A link that was delivered stands until it is used or a newer one is     *)
(* issued: the late failure of an earlier delivery does not take it away   *)
(* (ReleasePasswordReset).                                                 *)
(***************************************************************************)
DeliveredStands ==
    [][\A a \in Accounts :
          (reset[a] # Nothing /\ reset[a].link \in inbox[a]) =>
             reset'[a] # Nothing /\ reset'[a].link >= reset[a].link]_vars

-----------------------------------------------------------------------------
\* The request presents the token of a session.
Presents(h) == task[h].pc # "idle" /\ task[h].kind \in SessionKinds \cup {"logout", "complete"}

Rows == 1..Len(row)

\* What a request is at each stage, and what it read on the way there.
RequestInv(h) ==
    /\ Presents(h) => task[h].token \in Rows
    /\ task[h].pc \in {"found", "alarm", "alarmPurge"} =>
          task[h].kind \in SessionKinds \cup {"complete"}
    /\ task[h].pc \in {"rotate", "act", "served", "refused"} => task[h].kind \in SessionKinds
    /\ task[h].pc = "rotate" => task[h].read \in Account
    /\ task[h].pc = "write" => task[h].kind \in StaffKinds
    /\ task[h].pc = "purge" => task[h].kind \in StaffKinds \cup {"everywhere"}
    /\ task[h].pc = "revoke" => task[h].kind = "logout"
    /\ task[h].pc = "create" => task[h].kind = "login" /\ task[h].read \in Account
    /\ task[h].pc = "elevate" => task[h].kind = "complete" /\ task[h].read \in Account
    /\ task[h].pc = "spend" => task[h].kind = "complete"
    /\ Made(h) => /\ task[h].next \in Rows
                  /\ task[h].pc \in {"act", "write", "purge", "served", "refused", "spend"}
    /\ task[h].pc \in {"issue", "mail", "release"} => task[h].kind = "forgot"
    /\ task[h].pc \in {"mail", "release"} => task[h].token \in 1..links
    /\ task[h].pc = "consume" => task[h].kind = "confirm"
    /\ task[h].pc # "idle" /\ task[h].kind = "confirm" => task[h].token \in inbox[AccountOf(h)]

RequestsInv == \A h \in Handlers : RequestInv(h)

Current(i) == row[i].superseded = Nothing

\* Every chain has its one current row, and began with one of the rows.
ChainInv ==
    /\ \A i \in Rows : row[i].chain \in Rows
    /\ \A i \in Rows : \E j \in Rows : row[j].chain = row[i].chain /\ Current(j)
    /\ \A i, j \in Rows : row[i].chain = row[j].chain /\ Current(i) /\ Current(j) => i = j

\* Each session follows the epoch of its account, and a request that was let
\* in presents one that was made since it was sent.
EpochInv ==
    /\ \A a \in Accounts : account[a].epoch = ends[a] + 1
    /\ \A i \in Rows : row[i].epoch = row[i].proof + 1
    /\ \A h \in Handlers :
          /\ task[h].pc # "idle" => task[h].since <= ends[AccountOf(h)]
          /\ task[h].pc \in {"create", "elevate"} => task[h].read.epoch = task[h].since + 1
          /\ Admitted(h) => SessionOf(h).proof >= task[h].since

\* Browser c has the token of row i, in its cookie, in a request or in an answer
\* that is on its way.
Holds(c, i) ==
    \/ jar[c] = i
    \/ \E h \in Handlers : /\ task[h].pc # "idle" /\ task[h].client = c
                           /\ \/ Presents(h) /\ task[h].token = i
                              \/ task[h].next = i

\* No two browsers have one token.
HolderInv == \A c, d \in Clients : \A i \in Rows : Holds(c, i) /\ Holds(d, i) => c = d

\* The session that an answer tells of is nobody's until then.
AnswerInv ==
    \A h \in Handlers : Made(h) =>
       /\ Current(task[h].next)
       /\ \A c \in Clients : jar[c] # task[h].next
       /\ \A g \in Handlers :
             /\ Presents(g) => task[g].token # task[h].next
             /\ Made(g) /\ g # h => task[g].next # task[h].next

\* Browser c waits for the answer of a request that rotated row i.
Waits(c, i) == \E h \in Handlers : Rotated(h) /\ task[h].client = c /\ task[h].token = i

\* A browser that has had every answer in time holds a current token, or waits
\* for its successor; what it sent is of a token that was such when it was sent.
GraceInv ==
    /\ \A c \in Clients : jar[c] # 0 =>
          Owner[c] \in excused \/ Current(jar[c]) \/ Waits(c, jar[c])
    /\ \A h \in Handlers : Rotated(h) =>
          /\ ~ Current(task[h].token)
          /\ AccountOf(h) \in excused \/ now - SessionOf(h).superseded <= Answering
    /\ \A h \in Handlers : task[h].pc = "sent" /\ Presents(h) =>
          \/ AccountOf(h) \in excused
          \/ task[h].at <= now /\ Current(task[h].token)
          \/ task[h].at <= now /\ task[h].at - SessionOf(h).superseded <= Answering
    /\ \A h \in Handlers : task[h].pc = "alarm" => AccountOf(h) \in excused

\* No two sessions of links are alike: a link is of one account, it is in the
\* post or in the inbox, and it is spent with its row.
LinkInv ==
    /\ \A a \in Accounts : inbox[a] \subseteq 1..links
    /\ \A a \in Accounts : reset[a] # Nothing => reset[a].link \in 1..links
    /\ \A a, b \in Accounts : reset[a] # Nothing /\ reset[b] # Nothing /\ a # b =>
          reset[a].link # reset[b].link
    /\ \A h \in Handlers : task[h].pc \in {"mail", "release"} =>
          /\ task[h].token \in 1..links
          /\ \A a \in Accounts : task[h].token \notin inbox[a]
          /\ \A g \in Handlers : task[g].pc \in {"mail", "release"} /\ g # h =>
                task[g].token # task[h].token
    /\ \A l \in 1..MaxLinks : l > links => spent[l] = 0
    /\ \A l \in (1..MaxLinks) \ crossed :
          \/ spent[l] = 0
          \/ /\ spent[l] = 1
             /\ \A a \in Accounts : reset[a] # Nothing /\ reset[a].link = l => reset[a].used

\* What every step keeps, all together.
SignInInv ==
    TypeOK /\ RequestsInv /\ ChainInv /\ EpochInv /\ HolderInv /\ AnswerInv /\ GraceInv /\ LinkInv
=============================================================================
