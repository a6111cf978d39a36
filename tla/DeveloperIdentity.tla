--------------------------- MODULE DeveloperIdentity ---------------------------
(***************************************************************************)
(* One organization of the developer portal, its members, invitations and  *)
(* the API keys of its application: internal/app/developer/usecases.go     *)
(* over internal/adapters/mongo/identity.go, and the operator's changes of *)
(* keys (app/adminidentity, adapters/mongo/admin_identity.go).             *)
(*                                                                         *)
(* Each use case is a few calls of the database, one document each, with   *)
(* no transaction around them but the operator's; each call is a step, the *)
(* steps of different requests interleave, and a request can end between   *)
(* any two.  An account stands for its email address.  The audit row that  *)
(* follows a change is left out: its error is dropped and nothing reads it *)
(* here (AuditLog models the log).                                         *)
(***************************************************************************)
EXTENDS Integers, Sequences, FiniteSets

CONSTANTS
    Accounts,
    Handlers,     \* requests the replicas can work on at the same time
    MaxRequests,  \* bound: requests sent
    MaxInvites,   \* bound: invitations created
    MaxKeys,      \* bound: keys created
    Nobody

ASSUME NobodyAssumption == Nobody \notin Accounts

ASSUME BoundsAssumption == {MaxRequests, MaxInvites, MaxKeys} \subseteq Nat

VARIABLES
    owner,      \* ownerId of the organization, Nobody before it is there
    members,    \* its members, in the order they joined
    invites,    \* organization_invitations
    hasApp,     \* its application is there
    keys,       \* api_keys of the application
    task,       \* task[h]: the request h works on
    sent,       \* requests sent
    excused     \* a key was taken away on purpose, or an answer lost (history)

vars == <<owner, members, invites, hasApp, keys, task, sent, excused>>

InviteRoles == {"ADMIN", "MEMBER", "VIEWER"}

Roles == InviteRoles \cup {"OWNER"}

KeyKinds == {"create", "revoke", "rotate"}

AdminKinds == {"suspend", "ban"}

Kinds == {"organization", "application", "invite", "withdraw", "accept", "transfer"} \cup KeyKinds \cup AdminKinds

\* by: the invitation it came by, 0 for who created the organization (history).
Member == [account : Accounts, role : Roles, by : Nat]

\* EXPIRED: removed by the index on expiresAt.
Invite == [account : Accounts, role : InviteRoles,
           status : {"PENDING", "ACCEPTED", "REVOKED", "EXPIRED"}]

\* held: its secret was answered to the developer (history);
\* from: the key it replaces, 0 if none (history).
Key == [revoked : BOOLEAN, suspended : BOOLEAN, held : BOOLEAN, from : Nat]

Idle == [pc |-> "idle"]

\* who, role: the account and role it names; item: the invitation or key it
\* names; made: the key it created.
Task == [pc : {"sent", "application", "invite", "withdraw", "add", "accept", "transfer", "key", "create",
               "revoke", "revokeOld", "undo", "answer"},
         kind : Kinds, actor : Accounts, who : Accounts \cup {Nobody}, role : InviteRoles, item : Nat,
         made : Nat]

TypeOK ==
    /\ owner \in Accounts \cup {Nobody}
    /\ hasApp \in BOOLEAN
    /\ members \in Seq(Member)
    /\ invites \in Seq(Invite)
    /\ keys \in Seq(Key)
    /\ task \in [Handlers -> {Idle} \cup Task]
    /\ sent \in Nat
    /\ excused \in BOOLEAN

-----------------------------------------------------------------------------
IsMember(a) == \E i \in DOMAIN members : members[i].account = a

HasRole(a, roles) == \E i \in DOMAIN members : members[i].account = a /\ members[i].role \in roles

Goto(h, pc) == task' = [task EXCEPT ![h].pc = pc]

Finish(h) == task' = [task EXCEPT ![h] = Idle]

organization == <<owner, members, invites, hasApp>>

\* What can be asked for; a field that a kind has no use for has one value.
Requests ==
    LET Ask(kinds, whos, roles, items) ==
            [kind : kinds, actor : Accounts, who : whos, role : roles, item : items]
    IN UNION {Ask({"invite"}, Accounts, InviteRoles, {0}),
              Ask({"transfer"}, Accounts, {"VIEWER"}, {0}),
              Ask({"withdraw", "accept"}, {Nobody}, {"VIEWER"}, 1..MaxInvites),
              Ask({"organization", "application", "create"}, {Nobody}, {"VIEWER"}, {0}),
              Ask({"revoke", "rotate"} \cup AdminKinds, {Nobody}, {"VIEWER"}, 1..MaxKeys)}

\* An account sends a request; one that accepts has the token of its invitation.
Send(h, r) ==
    /\ task[h] = Idle
    /\ sent < MaxRequests
    /\ r.kind \in {"revoke", "rotate"} \cup AdminKinds => r.item \in DOMAIN keys
    /\ r.kind \in {"withdraw", "accept"} => r.item \in DOMAIN invites
    /\ r.kind = "accept" => invites[r.item].account = r.actor
    /\ task' = [task EXCEPT ![h] = [pc |-> "sent", kind |-> r.kind, actor |-> r.actor,
                                    who |-> r.who, role |-> r.role, item |-> r.item,
                                    made |-> 0]]
    /\ sent' = sent + 1
    /\ UNCHANGED <<organization, keys, excused>>

\* CreateOrganization: whoever asks is its owner.  Further organizations are
\* not modelled.
CreateOrganization(h) ==
    /\ task[h].pc = "sent" /\ task[h].kind = "organization"
    /\ owner = Nobody
    /\ owner' = task[h].actor
    /\ members' = <<[account |-> task[h].actor, role |-> "OWNER", by |-> 0]>>
    /\ Finish(h)
    /\ UNCHANGED <<invites, hasApp, keys, sent, excused>>

\* requireRole, and the checks made on the organization or, for keys, on the
\* application (requireApplicationRole).
Permitted(t) ==
    CASE t.kind = "invite"   -> HasRole(t.actor, {"OWNER", "ADMIN"}) /\ ~ IsMember(t.who)
      [] t.kind = "withdraw" -> HasRole(t.actor, {"OWNER", "ADMIN"})
      [] t.kind = "transfer" -> /\ HasRole(t.actor, {"OWNER"})
                                /\ t.who # t.actor /\ IsMember(t.who)
      [] t.kind \in KeyKinds -> hasApp /\ HasRole(t.actor, {"OWNER", "ADMIN", "MEMBER"})
      [] t.kind = "application" -> HasRole(t.actor, {"OWNER", "ADMIN", "MEMBER"})

Authorize(h) ==
    /\ task[h].pc = "sent" /\ task[h].kind \in Kinds \ ({"organization", "accept"} \cup AdminKinds)
    /\ IF Permitted(task[h])
       THEN Goto(h, IF task[h].kind \in {"revoke", "rotate"} THEN "key" ELSE task[h].kind)
       ELSE Finish(h)
    /\ UNCHANGED <<organization, keys, sent, excused>>

\* CreateApplication.  Further applications are not modelled.
CreateApplication(h) ==
    /\ task[h].pc = "application"
    /\ ~ hasApp
    /\ hasApp' = TRUE
    /\ Finish(h)
    /\ UNCHANGED <<owner, members, invites, keys, sent, excused>>

\* InviteMember.
CreateInvite(h) ==
    /\ task[h].pc = "invite"
    /\ Len(invites) < MaxInvites
    /\ invites' = Append(invites, [account |-> task[h].who, role |-> task[h].role,
                                   status |-> "PENDING"])
    /\ Finish(h)
    /\ UNCHANGED <<owner, members, hasApp, keys, sent, excused>>

Pending(i) == invites[i].status = "PENDING"

\* RevokeInvitation: an invitation that is not pending is not found.
RevokeInvite(h) ==
    /\ task[h].pc = "withdraw"
    /\ invites' = [invites EXCEPT ![task[h].item].status = IF @ = "PENDING" THEN "REVOKED" ELSE @]
    /\ Finish(h)
    /\ UNCHANGED <<owner, members, hasApp, keys, sent, excused>>

\* AcceptInvitation: ByTokenHash finds pending invitations, expired ones are
\* refused.
ReadInvite(h) ==
    /\ task[h].pc = "sent" /\ task[h].kind = "accept"
    /\ IF Pending(task[h].item) THEN Goto(h, "add") ELSE Finish(h)
    /\ UNCHANGED <<organization, keys, sent, excused>>

Joined(h) ==
    Append(members, [account |-> task[h].actor, role |-> invites[task[h].item].role,
                     by |-> task[h].item])

\* Somebody who is a member already is good enough.
AddMember_Lenient(h) ==
    /\ task[h].pc = "add"
    /\ members' = IF IsMember(task[h].actor) THEN members ELSE Joined(h)
    /\ Goto(h, "accept")
    /\ UNCHANGED <<owner, invites, hasApp, keys, sent, excused>>

\* AddMember matches an organization without the member, or the request fails.
AddMember(h) ==
    /\ task[h].pc = "add"
    /\ IF IsMember(task[h].actor)
       THEN Finish(h) /\ UNCHANGED members
       ELSE Goto(h, "accept") /\ members' = Joined(h)
    /\ UNCHANGED <<owner, invites, hasApp, keys, sent, excused>>

Accept(h) ==
    /\ task[h].pc = "accept"
    /\ invites' = [invites EXCEPT ![task[h].item].status = IF @ = "PENDING" THEN "ACCEPTED" ELSE @]
    /\ Finish(h)
    /\ UNCHANGED <<owner, members, hasApp, keys, sent, excused>>

\* Without ownerId in the filter.
Transferable_ByAnyOwner(from, to) == IsMember(to)

\* The filter of TransferOwnership.
Transferable(from, to) == owner = from /\ IsMember(to)

Transfer(h) ==
    /\ task[h].pc = "transfer"
    /\ LET from == task[h].actor
           to == task[h].who
           Role(m) == IF m.account = to THEN "OWNER" ELSE IF m.account = from THEN "ADMIN"
                                                          ELSE m.role
       IN IF Transferable(from, to)
          THEN /\ owner' = to
               /\ members' = [i \in DOMAIN members |-> [members[i] EXCEPT !.role = Role(members[i])]]
          ELSE UNCHANGED <<owner, members>>
    /\ Finish(h)
    /\ UNCHANGED <<invites, hasApp, keys, sent, excused>>

-----------------------------------------------------------------------------
\* ByIDForApplication, in RevokeKey and RotateKey: a revoked key ends both.
ReadKey(h) ==
    /\ task[h].pc = "key"
    /\ IF keys[task[h].item].revoked THEN Finish(h)
       ELSE Goto(h, IF task[h].kind = "rotate" THEN "create" ELSE "revoke")
    /\ UNCHANGED <<organization, keys, sent, excused>>

\* CreateKey, also as the first half of RotateKey; a rotation replaces the key.
CreateKey(h) ==
    /\ task[h].pc = "create"
    /\ Len(keys) < MaxKeys
    /\ keys' = Append(keys, [revoked |-> FALSE, suspended |-> FALSE, held |-> FALSE,
                             from |-> task[h].item])
    /\ task' = [task EXCEPT ![h].made = Len(keys) + 1,
                            ![h].pc = IF task[h].kind = "rotate" THEN "revokeOld" ELSE "answer"]
    /\ UNCHANGED <<organization, sent, excused>>

Revoked(k) == [keys EXCEPT ![k].revoked = TRUE]

\* RotateKey: the old key is revoked, or the call fails, and may have revoked
\* it all the same.
RevokeOld(h) ==
    /\ task[h].pc = "revokeOld"
    /\ \/ keys' = Revoked(task[h].item) /\ Goto(h, "answer") /\ UNCHANGED excused
       \/ UNCHANGED <<keys, excused>> /\ Goto(h, "undo")
       \/ keys' = Revoked(task[h].item) /\ Goto(h, "undo") /\ excused' = TRUE
    /\ UNCHANGED <<organization, sent>>

\* The key the rotation began with.
Undone_Old(h) == task[h].item

\* The key a rotation that failed takes back.
Undone(h) == task[h].made

\* The error of the revocation is dropped.
Undo(h) ==
    /\ task[h].pc = "undo"
    /\ keys' \in {keys, Revoked(Undone(h))}
    /\ Finish(h)
    /\ UNCHANGED <<organization, sent, excused>>

\* The only answer that shows the secret.
AnswerKey(h) ==
    /\ task[h].pc = "answer"
    /\ keys' = [keys EXCEPT ![task[h].made].held = TRUE]
    /\ Finish(h)
    /\ UNCHANGED <<organization, sent, excused>>

RevokeKey(h) ==
    /\ task[h].pc = "revoke"
    /\ keys' = Revoked(task[h].item)
    /\ excused' = TRUE
    /\ Finish(h)
    /\ UNCHANGED <<organization, sent>>

\* SetKeyState, a transaction with its audit row: a revoked key stays as it is.
SetKeyState(h) ==
    /\ task[h].pc = "sent" /\ task[h].kind \in AdminKinds
    /\ IF keys[task[h].item].revoked THEN UNCHANGED keys
       ELSE keys' = IF task[h].kind = "ban" THEN Revoked(task[h].item)
                    ELSE [keys EXCEPT ![task[h].item].suspended = TRUE]
    /\ excused' = TRUE
    /\ Finish(h)
    /\ UNCHANGED <<organization, sent>>

\* A call fails, the process dies or the answer is lost.
Fail(h) ==
    /\ task[h] # Idle
    /\ excused' = (excused \/ (task[h].kind = "rotate" /\ task[h].pc = "answer"))
    /\ Finish(h)
    /\ UNCHANGED <<organization, keys, sent>>

\* Seven days have passed.
Expire(i) ==
    /\ i \in DOMAIN invites /\ invites[i].status # "EXPIRED"
    /\ invites' = [invites EXCEPT ![i].status = "EXPIRED"]
    /\ UNCHANGED <<owner, members, hasApp, keys, task, sent, excused>>

\* Nothing is there yet.
Init ==
    /\ owner = Nobody
    /\ members = << >> /\ invites = << >> /\ keys = << >>
    /\ hasApp = FALSE
    /\ task = [h \in Handlers |-> Idle]
    /\ sent = 0
    /\ excused = FALSE

Step(h) ==
    \/ CreateOrganization(h) \/ CreateApplication(h)
    \/ Authorize(h) \/ CreateInvite(h) \/ RevokeInvite(h) \/ ReadInvite(h) \/ AddMember(h)
    \/ Accept(h) \/ Transfer(h) \/ ReadKey(h) \/ CreateKey(h) \/ RevokeOld(h) \/ Undo(h)
    \/ AnswerKey(h) \/ RevokeKey(h) \/ SetKeyState(h) \/ Fail(h)

Next ==
    \/ \E h \in Handlers, r \in Requests : Send(h, r)
    \/ \E h \in Handlers : Step(h)
    \/ \E i \in DOMAIN invites : Expire(i)

Spec == Init /\ [][Next]_vars

-----------------------------------------------------------------------------
\* The owner is the member that ownerId names.
OneOwner == \A i \in DOMAIN members : members[i].role = "OWNER" <=> members[i].account = owner

MemberOnce ==
    \A i, j \in DOMAIN members : members[i].account = members[j].account => i = j

\* Before the organization is there, nothing else is, and nobody is allowed anything.
Founded ==
    IF owner = Nobody
    THEN /\ members = << >> /\ invites = << >>
         /\ \A h \in Handlers : task[h].pc \in {"idle", "sent"}
    ELSE IsMember(owner)

JoinedBy(a, i) == \E n \in DOMAIN members : members[n].account = a /\ members[n].by = i

\* A request that invites names an account; one that accepts is about its
\* actor's invitation, and has joined before it marks it.
RequestsMatch ==
    \A h \in Handlers : task[h] # Idle =>
       /\ task[h].kind = "invite" \/ task[h].pc = "invite" => task[h].who # Nobody
       /\ task[h].kind = "accept" \/ task[h].pc \in {"add", "accept"} =>
             /\ task[h].item \in DOMAIN invites
             /\ invites[task[h].item].account = task[h].actor
       /\ task[h].pc = "accept" => JoinedBy(task[h].actor, task[h].item)

(***************************************************************************)
(* The organization has one owner, the member that ownerId names, although *)
(* a transfer acts on a role it read while others were under way           *)
(* (TransferOwnership); and whoever accepts several invitations is a       *)
(* member once (AddMember).                                                *)
(***************************************************************************)
OrganizationInv == TypeOK /\ OneOwner /\ MemberOnce /\ Founded /\ RequestsMatch

(***************************************************************************)
(* An accepted invitation is the one its account became a member by: of    *)
(* two, with different roles, only one is accepted (AcceptInvitation).     *)
(***************************************************************************)
AcceptanceIsTrue ==
    \A i \in DOMAIN invites :
       invites[i].status = "ACCEPTED" => JoinedBy(invites[i].account, i)

\* A key that authenticates, and whose secret the developer was given or is
\* being answered.
Usable(k) ==
    /\ ~ keys[k].revoked /\ ~ keys[k].suspended
    /\ keys[k].held \/ \E h \in Handlers : task[h].pc = "answer" /\ task[h].made = k

(***************************************************************************)
(* However rotations of one key overlap and fail, a developer who has been *)
(* given a key is left with a usable one, unless one was revoked or        *)
(* suspended on purpose, an answer with a new key was lost, or a failed    *)
(* call had taken effect.  And a rotation that was answered has revoked    *)
(* the key it replaces ("The previous key is revoked").                    *)
(***************************************************************************)
RotationKeepsAccess ==
    /\ (~ excused /\ \E k \in DOMAIN keys : keys[k].held) => \E k \in DOMAIN keys : Usable(k)
    /\ \A k \in DOMAIN keys : keys[k].held /\ keys[k].from # 0 => keys[keys[k].from].revoked

-----------------------------------------------------------------------------
(***************************************************************************)
(* The inductive invariant of RotationKeepsAccess.                         *)
(***************************************************************************)
HasMade(h) == task[h].pc \in {"revokeOld", "undo", "answer"}

\* What a request about keys knows of the key it names and the one it made.
KeyRequest(h) ==
    task[h] # Idle =>
       /\ task[h].pc = "key" => task[h].kind \in {"revoke", "rotate"}
       /\ task[h].pc = "create" \/ HasMade(h) => task[h].kind \in {"create", "rotate"}
       /\ task[h].pc \in {"revokeOld", "undo"} => task[h].kind = "rotate"
       /\ task[h].kind = "create" => task[h].item = 0
       /\ task[h].kind \in {"revoke", "rotate"} => task[h].item \in DOMAIN keys
       /\ HasMade(h) => /\ task[h].made \in DOMAIN keys
                        /\ ~ keys[task[h].made].held
                        /\ keys[task[h].made].from = task[h].item
       /\ task[h].pc = "answer" /\ task[h].item # 0 => keys[task[h].item].revoked

KeyRequests ==
    /\ \A h \in Handlers : KeyRequest(h)
    /\ \A h, g \in Handlers : HasMade(h) /\ HasMade(g) /\ task[h].made = task[g].made => h = g

\* A key replaces an older one, revoked before the secret of the new is shown.
KeyReplaces(k) ==
    /\ keys[k].from < k
    /\ keys[k].held /\ keys[k].from # 0 => keys[keys[k].from].revoked

\* The key is or may yet be shown to the developer ...
Promised(k) ==
    keys[k].held \/ \E h \in Handlers : task[h].pc \in {"revokeOld", "answer"} /\ task[h].made = k

\* ... and only an answer that is lost keeps it from them.
Relied(k) ==
    \/ keys[k].held
    \/ \E h \in Handlers : task[h].pc = "answer" /\ task[h].kind = "rotate" /\ task[h].made = k

\* A promised key that is revoked has a later one in its place.
Succeeded(k) ==
    keys[k].revoked /\ Promised(k) =>
       \E x \in DOMAIN keys : k < x /\ ~ keys[x].revoked /\ Relied(x)

AccessInv ==
    /\ KeyRequests
    /\ \A k \in DOMAIN keys : KeyReplaces(k)
    /\ ~ excused => \A k \in DOMAIN keys : ~ keys[k].suspended /\ Succeeded(k)
=============================================================================
