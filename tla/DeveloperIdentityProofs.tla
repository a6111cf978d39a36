------------------------ MODULE DeveloperIdentityProofs ------------------------
(***************************************************************************)
(* Proofs about DeveloperIdentity for any accounts, handlers and bounds.   *)
(***************************************************************************)
EXTENDS DeveloperIdentity, SequenceTheorems, TLAPS

USE NobodyAssumption, BoundsAssumption

Inv == OrganizationInv /\ AcceptanceIsTrue

-----------------------------------------------------------------------------
(***************************************************************************)
(* Sequences that grow or have one element replaced.                       *)
(***************************************************************************)
LEMMA Grown ==
  ASSUME NEW S, NEW s \in Seq(S), NEW e \in S
  PROVE  /\ Append(s, e) \in Seq(S)
         /\ Len(s) \in Nat /\ DOMAIN s = 1..Len(s)
         /\ DOMAIN Append(s, e) = DOMAIN s \cup {Len(s) + 1}
         /\ Len(s) + 1 \notin DOMAIN s
         /\ Append(s, e)[Len(s) + 1] = e
         /\ \A i \in DOMAIN s : Append(s, e)[i] = s[i]
<1>1. Len(s) \in Nat /\ DOMAIN s = 1..Len(s)
  OBVIOUS
<1>2. Append(s, e) \in Seq(S) /\ DOMAIN Append(s, e) = 1..(Len(s) + 1)
  OBVIOUS
<1>3. Append(s, e)[Len(s) + 1] = e /\ \A i \in 1..Len(s) : Append(s, e)[i] = s[i]
  OBVIOUS
<1>4. QED
  BY <1>1, <1>2, <1>3

LEMMA Replaced ==
  ASSUME NEW S, NEW s \in Seq(S), NEW i, NEW e \in S
  PROVE  /\ [s EXCEPT ![i] = e] \in Seq(S)
         /\ DOMAIN [s EXCEPT ![i] = e] = DOMAIN s
<1>1. CASE i \in 1..Len(s)
  BY <1>1, ExceptSeq
<1>2. CASE i \notin 1..Len(s)
  <2>1. DOMAIN s = 1..Len(s) /\ s = [n \in 1..Len(s) |-> s[n]]
    OBVIOUS
  <2>2. [s EXCEPT ![i] = e] = s
    BY <1>2, <2>1
  <2>3. QED
    BY <2>2
<1>3. QED
  BY <1>1, <1>2

-----------------------------------------------------------------------------
(***************************************************************************)
(* What every step keeps: accounts of invitations, and memberships.        *)
(***************************************************************************)
InvitesKept ==
    \A i \in DOMAIN invites : i \in DOMAIN invites' /\ invites'[i].account = invites[i].account

MembersKept ==
    \A n \in DOMAIN members :
       n \in DOMAIN members' /\ members'[n].account = members[n].account /\ members'[n].by = members[n].by

\* Founded and RequestsMatch for one request.
Sound(h) ==
    /\ owner = Nobody => task[h].pc \in {"idle", "sent"}
    /\ task[h] # Idle =>
          /\ task[h].kind = "invite" \/ task[h].pc = "invite" => task[h].who # Nobody
          /\ task[h].kind = "accept" \/ task[h].pc \in {"add", "accept"} =>
                /\ task[h].item \in DOMAIN invites
                /\ invites[task[h].item].account = task[h].actor
          /\ task[h].pc = "accept" => JoinedBy(task[h].actor, task[h].item)

LEMMA AllSound == ASSUME Inv, NEW h \in Handlers PROVE Sound(h)
BY DEF Inv, OrganizationInv, Founded, RequestsMatch, Sound

\* The owner's membership, and nothing else, before and after.
Place ==
    IF owner = Nobody THEN members = << >> /\ invites = << >> ELSE IsMember(owner)

LEMMA Frame ==
  ASSUME Inv, TypeOK', OneOwner', MemberOnce', AcceptanceIsTrue', Place',
         InvitesKept, MembersKept, owner' = Nobody => owner = Nobody,
         \A h \in Handlers : task'[h] = task[h] \/ Sound(h)'
  PROVE  Inv'
<1>1. \A h \in Handlers : Sound(h)'
  <2> SUFFICES ASSUME NEW h \in Handlers, task'[h] = task[h] PROVE Sound(h)'
    OBVIOUS
  <2>1. Sound(h)
    BY AllSound
  <2>2. JoinedBy(task[h].actor, task[h].item) => JoinedBy(task[h].actor, task[h].item)'
    BY DEF MembersKept, JoinedBy
  <2>3. QED
    BY <2>1, <2>2 DEF Sound, InvitesKept
<1>2. Founded'
  BY <1>1 DEF Founded, Place, Sound
<1>3. RequestsMatch'
  BY <1>1 DEF RequestsMatch, Sound
<1>4. QED
  BY <1>2, <1>3 DEF Inv, OrganizationInv

\* A step of request h that leaves the organization alone.
LEMMA RequestStep ==
  ASSUME Inv, NEW h \in Handlers, NEW new \in Task \cup {Idle},
         task' = [task EXCEPT ![h] = new],
         UNCHANGED <<owner, members, invites>>,
         hasApp' \in BOOLEAN, keys' \in Seq(Key), sent' \in Nat, excused' \in BOOLEAN,
         owner = Nobody => new.pc \in {"idle", "sent"},
         new # Idle =>
            /\ new.kind = "invite" \/ new.pc = "invite" => new.who # Nobody
            /\ new.kind = "accept" \/ new.pc \in {"add", "accept"} =>
                  new.item \in DOMAIN invites /\ invites[new.item].account = new.actor
            /\ new.pc # "accept"
  PROVE  Inv'
<1>1. TypeOK'
  BY DEF Inv, OrganizationInv, TypeOK
<1>2. OneOwner' /\ MemberOnce'
  BY DEF Inv, OrganizationInv, OneOwner, MemberOnce
<1>3. AcceptanceIsTrue'
  BY DEF Inv, AcceptanceIsTrue, JoinedBy
<1>4. Place'
  BY DEF Inv, OrganizationInv, Founded, Place, IsMember
<1>5. InvitesKept /\ MembersKept
  BY DEF InvitesKept, MembersKept
<1>6. task'[h] = new /\ \A k \in Handlers : k # h => task'[k] = task[k]
  BY DEF Inv, OrganizationInv, TypeOK
<1>7. Sound(h)'
  BY <1>6 DEF Sound
<1>8. QED
  BY <1>1, <1>2, <1>3, <1>4, <1>5, <1>6, <1>7, Frame

\* The request ends.
LEMMA EndStep ==
  ASSUME Inv, NEW h \in Handlers, Finish(h),
         UNCHANGED <<owner, members, invites>>,
         hasApp' \in BOOLEAN, keys' \in Seq(Key), sent' \in Nat, excused' \in BOOLEAN
  PROVE  Inv'
<1>1. Idle.pc = "idle"
  BY DEF Idle
<1>2. QED
  BY <1>1, RequestStep DEF Finish

\* The request goes on.
LEMMA MoveStep ==
  ASSUME Inv, NEW h \in Handlers, task[h] # Idle, owner # Nobody,
         NEW pc \in {"application", "invite", "withdraw", "add", "transfer", "key", "create",
                     "revoke", "revokeOld", "undo", "answer"},
         Goto(h, pc), pc = "add" => task[h].kind = "accept", pc = "invite" => task[h].kind = "invite",
         UNCHANGED <<owner, members, invites>>,
         hasApp' \in BOOLEAN, keys' \in Seq(Key), sent' \in Nat, excused' \in BOOLEAN
  PROVE  Inv'
<1> DEFINE new == [task[h] EXCEPT !.pc = pc]
<1>1. task[h] \in Task
  BY DEF Inv, OrganizationInv, TypeOK
<1>2. /\ new \in Task /\ new.pc = pc /\ new.kind = task[h].kind
      /\ new.item = task[h].item /\ new.actor = task[h].actor /\ new.who = task[h].who
  BY <1>1 DEF Task
<1>3. task' = [task EXCEPT ![h] = new]
  BY DEF Goto
<1>4. Sound(h)
  BY AllSound
<1> HIDE DEF new
<1>5. QED
  BY <1>2, <1>3, <1>4, RequestStep DEF Sound

LEMMA Typed ==
  ASSUME Inv
  PROVE  /\ owner \in Accounts \cup {Nobody} /\ hasApp \in BOOLEAN /\ sent \in Nat
         /\ excused \in BOOLEAN /\ keys \in Seq(Key) /\ members \in Seq(Member)
         /\ invites \in Seq(Invite) /\ Len(keys) \in Nat
         /\ \A h \in Handlers : task[h] # Idle => task[h] \in Task
BY DEF Inv, OrganizationInv, TypeOK

LEMMA Busy == ASSUME NEW h \in Handlers, task[h].pc # "idle" PROVE task[h] # Idle
BY DEF Idle

\* Beyond "sent" a request has found its actor among the members.
LEMMA Admitted ==
  ASSUME Inv, NEW h \in Handlers, task[h].pc \notin {"idle", "sent"}
  PROVE  owner # Nobody
BY AllSound DEF Sound

-----------------------------------------------------------------------------
(***************************************************************************)
(* The actions that leave owner, members and invitations alone.            *)
(***************************************************************************)
LEMMA RequestsTyped ==
  ASSUME NEW r \in Requests
  PROVE  /\ r.kind \in Kinds /\ r.actor \in Accounts /\ r.who \in Accounts \cup {Nobody}
         /\ r.role \in InviteRoles /\ r.item \in Nat
         /\ r.kind = "invite" => r.who # Nobody
<1>1. 1..MaxInvites \subseteq Nat /\ 1..MaxKeys \subseteq Nat
  OBVIOUS
<1>2. QED
  BY <1>1 DEF Requests, Kinds, KeyKinds, AdminKinds, InviteRoles

LEMMA SendKeeps == ASSUME Inv, NEW h \in Handlers, NEW r \in Requests, Send(h, r) PROVE Inv'
<1> DEFINE new == [pc |-> "sent", kind |-> r.kind, actor |-> r.actor, who |-> r.who,
                   role |-> r.role, item |-> r.item, made |-> 0]
<1>1. new \in Task
  BY RequestsTyped DEF Task
<1>2. /\ task' = [task EXCEPT ![h] = new] /\ sent' = sent + 1
      /\ UNCHANGED <<owner, members, invites, hasApp, keys, excused>>
      /\ r.kind = "accept" => r.item \in DOMAIN invites /\ invites[r.item].account = r.actor
      /\ r.kind = "invite" => r.who # Nobody
  BY RequestsTyped DEF Send, organization
<1>3. /\ new.pc = "sent" /\ new.kind = r.kind /\ new.item = r.item /\ new.actor = r.actor
      /\ new.who = r.who
  OBVIOUS
<1> HIDE DEF new
<1>4. hasApp' \in BOOLEAN /\ keys' \in Seq(Key) /\ sent' \in Nat /\ excused' \in BOOLEAN
  BY <1>2, Typed
<1>5. new \in Task \cup {Idle} /\ new.pc \in {"idle", "sent"} /\ new.pc # "accept"
  BY <1>1, <1>3
<1>6. new.kind = "accept" \/ new.pc \in {"add", "accept"} =>
         new.item \in DOMAIN invites /\ invites[new.item].account = new.actor
  BY <1>2, <1>3
<1>7. new.kind = "invite" \/ new.pc = "invite" => new.who # Nobody
  BY <1>2, <1>3
<1>8. QED
  BY <1>2, <1>4, <1>5, <1>6, <1>7, RequestStep

LEMMA PermittedIsMember ==
  ASSUME Inv, NEW h \in Handlers, Permitted(task[h]),
         task[h].kind \in Kinds \ ({"organization", "accept"} \cup AdminKinds)
  PROVE  owner # Nobody
<1>1. PICK roles : HasRole(task[h].actor, roles)
  BY DEF Permitted, Kinds, KeyKinds, AdminKinds
<1>2. DOMAIN members # {}
  BY <1>1 DEF HasRole
<1>3. QED
  BY <1>2 DEF Inv, OrganizationInv, Founded

LEMMA AuthorizeKeeps == ASSUME Inv, NEW h \in Handlers, Authorize(h) PROVE Inv'
<1>1. UNCHANGED <<owner, members, invites, hasApp, keys, sent, excused>>
  BY DEF Authorize, organization
<1>2. CASE Permitted(task[h])
  <2> DEFINE pc == IF task[h].kind \in {"revoke", "rotate"} THEN "key" ELSE task[h].kind
  <2>1. owner # Nobody
    BY <1>2, PermittedIsMember DEF Authorize
  <2>2. /\ pc \in {"application", "invite", "withdraw", "transfer", "key", "create"}
        /\ pc = "invite" => task[h].kind = "invite"
    BY DEF Authorize, Kinds, KeyKinds, AdminKinds
  <2>3. Goto(h, pc) /\ task[h] # Idle
    BY <1>2, Busy DEF Authorize
  <2> HIDE DEF pc
  <2>4. QED
    BY <1>1, <2>1, <2>2, <2>3, Typed, MoveStep
<1>3. CASE ~ Permitted(task[h])
  BY <1>1, <1>3, Typed, EndStep DEF Authorize
<1>4. QED
  BY <1>2, <1>3

LEMMA CreateApplicationKeeps == ASSUME Inv, NEW h \in Handlers, CreateApplication(h) PROVE Inv'
BY Typed, EndStep DEF CreateApplication

LEMMA ReadInviteKeeps == ASSUME Inv, NEW h \in Handlers, ReadInvite(h) PROVE Inv'
<1>1. UNCHANGED <<owner, members, invites, hasApp, keys, sent, excused>>
  BY DEF ReadInvite, organization
<1>2. CASE Pending(task[h].item)
  <2>1. task[h] # Idle /\ task[h].kind = "accept" /\ Goto(h, "add")
    BY <1>2, Busy DEF ReadInvite
  <2>2. task[h].item \in DOMAIN invites
    BY <2>1, AllSound DEF Sound
  <2>3. owner # Nobody
    BY <2>2 DEF Inv, OrganizationInv, Founded
  <2>4. QED
    BY <1>1, <2>1, <2>3, Typed, MoveStep
<1>3. CASE ~ Pending(task[h].item)
  BY <1>1, <1>3, Typed, EndStep DEF ReadInvite
<1>4. QED
  BY <1>2, <1>3

LEMMA ReadKeyKeeps == ASSUME Inv, NEW h \in Handlers, ReadKey(h) PROVE Inv'
<1>1. UNCHANGED <<owner, members, invites, hasApp, keys, sent, excused>>
  BY DEF ReadKey, organization
<1>2. CASE keys[task[h].item].revoked
  BY <1>1, <1>2, Typed, EndStep DEF ReadKey
<1>3. CASE ~ keys[task[h].item].revoked
  <2>1. owner # Nobody /\ task[h] # Idle
    BY Admitted, Busy DEF ReadKey
  <2>2. CASE task[h].kind = "rotate"
    BY <1>1, <1>3, <2>1, <2>2, Typed, MoveStep DEF ReadKey
  <2>3. CASE task[h].kind # "rotate"
    BY <1>1, <1>3, <2>1, <2>3, Typed, MoveStep DEF ReadKey
  <2>4. QED
    BY <2>2, <2>3
<1>4. QED
  BY <1>2, <1>3

LEMMA CreateKeyKeeps == ASSUME Inv, NEW h \in Handlers, CreateKey(h) PROVE Inv'
<1> DEFINE pc == IF task[h].kind = "rotate" THEN "revokeOld" ELSE "answer"
           new == [task[h] EXCEPT !.made = Len(keys) + 1, !.pc = pc]
           key == [revoked |-> FALSE, suspended |-> FALSE, held |-> FALSE, from |-> task[h].item]
<1>1. owner # Nobody /\ task[h] \in Task
  BY Typed, Admitted, Busy DEF CreateKey
<1>2. Len(keys) + 1 \in Nat
  BY Typed
<1>3. /\ new \in Task /\ new.pc = pc /\ new.kind = task[h].kind /\ new.item = task[h].item
      /\ new.actor = task[h].actor /\ new.who = task[h].who
  BY <1>1, <1>2 DEF Task
<1>4. task' = [task EXCEPT ![h] = new]
  BY DEF CreateKey
<1>5. key \in Key
  BY <1>1 DEF Task, Key
<1>6. keys' = Append(keys, key)
  BY DEF CreateKey
<1>7. keys' \in Seq(Key)
  BY <1>5, <1>6, Typed, Grown
<1>8. UNCHANGED <<owner, members, invites, hasApp, sent, excused>>
  BY DEF CreateKey, organization
<1>9. Sound(h) /\ pc \in {"revokeOld", "answer"} /\ task[h] # Idle
  BY AllSound, Busy DEF CreateKey
<1> HIDE DEF pc, new
<1>10. QED
  BY <1>1, <1>3, <1>4, <1>7, <1>8, <1>9, Typed, RequestStep DEF Sound

\* A key with one of its flags set.
LEMMA KeyMarked ==
  ASSUME Inv, NEW k
  PROVE  /\ Revoked(k) \in Seq(Key)
         /\ [keys EXCEPT ![k].held = TRUE] \in Seq(Key)
         /\ [keys EXCEPT ![k].suspended = TRUE] \in Seq(Key)
<1>1. keys \in Seq(Key) /\ DOMAIN keys = 1..Len(keys)
  BY Typed
<1>2. CASE k \in DOMAIN keys
  <2>1. keys[k] \in Key
    BY <1>1, <1>2
  <2>2. /\ [keys[k] EXCEPT !.revoked = TRUE] \in Key
        /\ [keys[k] EXCEPT !.held = TRUE] \in Key
        /\ [keys[k] EXCEPT !.suspended = TRUE] \in Key
    BY <2>1 DEF Key
  <2>3. QED
    BY <1>1, <2>2, Replaced DEF Revoked
<1>3. CASE k \notin DOMAIN keys
  <2>1. keys = [n \in DOMAIN keys |-> keys[n]]
    BY <1>1
  <2>2. Revoked(k) = keys
    BY <1>3, <2>1 DEF Revoked
  <2>3. [keys EXCEPT ![k].held = TRUE] = keys
    BY <1>3, <2>1
  <2>4. [keys EXCEPT ![k].suspended = TRUE] = keys
    BY <1>3, <2>1
  <2>5. QED
    BY <1>1, <2>2, <2>3, <2>4
<1>4. QED
  BY <1>2, <1>3

LEMMA RevokeOldKeeps == ASSUME Inv, NEW h \in Handlers, RevokeOld(h) PROVE Inv'
<1>1. owner # Nobody /\ task[h] # Idle /\ UNCHANGED <<owner, members, invites, hasApp, sent>>
  BY Admitted, Busy DEF RevokeOld, organization
<1>2. keys' \in Seq(Key) /\ excused' \in BOOLEAN
  BY Typed, KeyMarked DEF RevokeOld
<1>3. PICK pc \in {"undo", "answer"} : Goto(h, pc)
  BY DEF RevokeOld
<1>4. QED
  BY <1>1, <1>2, <1>3, Typed, MoveStep

LEMMA UndoKeeps == ASSUME Inv, NEW h \in Handlers, Undo(h) PROVE Inv'
<1>1. keys' \in Seq(Key)
  BY Typed, KeyMarked DEF Undo
<1>2. QED
  BY <1>1, Typed, EndStep DEF Undo, organization

LEMMA AnswerKeyKeeps == ASSUME Inv, NEW h \in Handlers, AnswerKey(h) PROVE Inv'
<1>1. keys' \in Seq(Key)
  BY KeyMarked DEF AnswerKey
<1>2. QED
  BY <1>1, Typed, EndStep DEF AnswerKey, organization

LEMMA RevokeKeyKeeps == ASSUME Inv, NEW h \in Handlers, RevokeKey(h) PROVE Inv'
<1>1. keys' \in Seq(Key)
  BY KeyMarked DEF RevokeKey
<1>2. QED
  BY <1>1, Typed, EndStep DEF RevokeKey, organization

LEMMA SetKeyStateKeeps == ASSUME Inv, NEW h \in Handlers, SetKeyState(h) PROVE Inv'
<1>1. keys' \in Seq(Key)
  BY Typed, KeyMarked DEF SetKeyState
<1>2. QED
  BY <1>1, Typed, EndStep DEF SetKeyState, organization

LEMMA FailKeeps == ASSUME Inv, NEW h \in Handlers, Fail(h) PROVE Inv'
<1>1. excused' \in BOOLEAN
  BY Typed DEF Fail
<1>2. QED
  BY <1>1, Typed, EndStep DEF Fail, organization

-----------------------------------------------------------------------------
(***************************************************************************)
(* The actions on the invitations.                                         *)
(***************************************************************************)
\* The members stay, and an invitation is accepted only by who joined by it.
LEMMA InviteStep ==
  ASSUME Inv, owner # Nobody, UNCHANGED <<owner, members, hasApp, keys, excused>>,
         invites' \in Seq(Invite), InvitesKept, sent' = sent,
         \A i \in DOMAIN invites' : invites'[i].status = "ACCEPTED" =>
            \/ i \in DOMAIN invites /\ invites[i].status = "ACCEPTED"
            \/ JoinedBy(invites'[i].account, i),
         task' \in [Handlers -> {Idle} \cup Task],
         \A h \in Handlers : task'[h] = task[h] \/ task'[h] = Idle
  PROVE  Inv'
<1>1. TypeOK'
  BY Typed DEF TypeOK
<1>2. OneOwner' /\ MemberOnce'
  BY DEF Inv, OrganizationInv, OneOwner, MemberOnce
<1>3. AcceptanceIsTrue'
  <2> SUFFICES ASSUME NEW i \in DOMAIN invites', invites'[i].status = "ACCEPTED"
               PROVE  JoinedBy(invites'[i].account, i)
    BY DEF AcceptanceIsTrue, JoinedBy
  <2>1. CASE i \in DOMAIN invites /\ invites[i].status = "ACCEPTED"
    BY <2>1 DEF Inv, AcceptanceIsTrue, InvitesKept
  <2>2. QED
    BY <2>1
<1>4. Place'
  BY DEF Inv, OrganizationInv, Founded, Place, IsMember
<1>5. MembersKept
  BY DEF MembersKept
<1>6. \A h \in Handlers : task'[h] = Idle => Sound(h)'
  BY DEF Sound, Idle
<1>7. QED
  BY <1>1, <1>2, <1>3, <1>4, <1>5, <1>6, Frame

LEMMA Finished ==
  ASSUME Inv, NEW h \in Handlers, Finish(h)
  PROVE  /\ task' \in [Handlers -> {Idle} \cup Task]
         /\ \A k \in Handlers : task'[k] = task[k] \/ task'[k] = Idle
BY DEF Inv, OrganizationInv, TypeOK, Finish

LEMMA CreateInviteKeeps == ASSUME Inv, NEW h \in Handlers, CreateInvite(h) PROVE Inv'
<1> DEFINE new == [account |-> task[h].who, role |-> task[h].role, status |-> "PENDING"]
<1>1. owner # Nobody /\ task[h] \in Task /\ task[h].who # Nobody
  BY Typed, Admitted, Busy, AllSound DEF CreateInvite, Sound
<1>2. new \in Invite
  BY <1>1 DEF Task, Invite
<1>3. new.status # "ACCEPTED"
  OBVIOUS
<1>4. invites' = Append(invites, new)
  BY DEF CreateInvite
<1> HIDE DEF new
<1>5. /\ invites' \in Seq(Invite) /\ DOMAIN invites' = DOMAIN invites \cup {Len(invites) + 1}
      /\ invites'[Len(invites) + 1] = new
      /\ \A i \in DOMAIN invites : invites'[i] = invites[i]
  BY <1>2, <1>4, Typed, Grown
<1>6. InvitesKept
  BY <1>5 DEF InvitesKept
<1>7. \A i \in DOMAIN invites' : invites'[i].status = "ACCEPTED" =>
         i \in DOMAIN invites /\ invites[i].status = "ACCEPTED"
  BY <1>3, <1>5
<1>8. UNCHANGED <<owner, members, hasApp, keys, sent, excused>> /\ Finish(h)
  BY DEF CreateInvite
<1>9. QED
  BY <1>1, <1>5, <1>6, <1>7, <1>8, Finished, InviteStep

\* An invitation takes another status.
LEMMA InviteMarked ==
  ASSUME Inv, NEW i, NEW status,
         i \in DOMAIN invites => status \in {"PENDING", "ACCEPTED", "REVOKED", "EXPIRED"},
         invites' = [invites EXCEPT ![i].status = status]
  PROVE  /\ invites' \in Seq(Invite) /\ InvitesKept
         /\ DOMAIN invites' = DOMAIN invites
         /\ \A k \in DOMAIN invites :
               /\ k # i => invites'[k] = invites[k]
               /\ k = i => invites'[k].status = status
<1>1. invites \in Seq(Invite) /\ DOMAIN invites = 1..Len(invites)
  BY Typed
<1>2. CASE i \in DOMAIN invites
  <2>1. invites[i] \in Invite
    BY <1>1, <1>2
  <2>2. /\ [invites[i] EXCEPT !.status = status] \in Invite
        /\ [invites[i] EXCEPT !.status = status].status = status
        /\ [invites[i] EXCEPT !.status = status].account = invites[i].account
    BY <1>2, <2>1 DEF Invite
  <2>3. PICK new \in Invite : /\ new.status = status /\ new.account = invites[i].account
                              /\ invites' = [invites EXCEPT ![i] = new]
    BY <2>2
  <2>4. invites' \in Seq(Invite) /\ DOMAIN invites' = DOMAIN invites
    BY <1>1, <2>3, Replaced
  <2>5. \A k \in DOMAIN invites : invites'[k] = IF k = i THEN new ELSE invites[k]
    BY <1>1, <2>3
  <2>6. InvitesKept
    BY <2>3, <2>4, <2>5 DEF InvitesKept
  <2>7. QED
    BY <2>3, <2>4, <2>5, <2>6
<1>3. CASE i \notin DOMAIN invites
  <2>1. invites' = invites
    <3>1. invites = [n \in DOMAIN invites |-> invites[n]]
      BY <1>1
    <3>2. QED
      BY <1>3, <3>1
  <2>2. InvitesKept
    BY <2>1 DEF InvitesKept
  <2>3. QED
    BY <1>1, <1>3, <2>1, <2>2
<1>4. QED
  BY <1>2, <1>3

\* Statuses are what their type says.
LEMMA StatusTyped ==
  ASSUME Inv, NEW i \in DOMAIN invites
  PROVE  invites[i] \in Invite /\ invites[i].status \in {"PENDING", "ACCEPTED", "REVOKED", "EXPIRED"}
<1>1. invites[i] \in Invite
  BY Typed
<1>2. QED
  BY <1>1 DEF Invite

LEMMA RevokeInviteKeeps == ASSUME Inv, NEW h \in Handlers, RevokeInvite(h) PROVE Inv'
<1> DEFINE i == task[h].item
           status == IF invites[i].status = "PENDING" THEN "REVOKED" ELSE invites[i].status
<1>1. owner # Nobody
  BY Admitted DEF RevokeInvite
<1>2. i \in DOMAIN invites => status \in {"PENDING", "ACCEPTED", "REVOKED", "EXPIRED"}
  BY StatusTyped
<1>3. invites' = [invites EXCEPT ![i].status = status]
  BY DEF RevokeInvite
<1>4. status = "ACCEPTED" => invites[i].status = "ACCEPTED"
  OBVIOUS
<1>5. UNCHANGED <<owner, members, hasApp, keys, sent, excused>> /\ Finish(h)
  BY DEF RevokeInvite
<1> HIDE DEF i, status
<1>6. /\ invites' \in Seq(Invite) /\ InvitesKept /\ DOMAIN invites' = DOMAIN invites
      /\ \A k \in DOMAIN invites : /\ k # i => invites'[k] = invites[k]
                                   /\ k = i => invites'[k].status = status
  BY <1>2, <1>3, InviteMarked
<1>7. \A k \in DOMAIN invites' : invites'[k].status = "ACCEPTED" => invites[k].status = "ACCEPTED"
  <2> SUFFICES ASSUME NEW k \in DOMAIN invites, invites'[k].status = "ACCEPTED"
               PROVE  invites[k].status = "ACCEPTED"
    BY <1>6
  <2>1. CASE k = i
    BY <1>4, <1>6, <2>1
  <2>2. CASE k # i
    <3>1. invites'[k] = invites[k]
      BY <1>6, <2>2
    <3>2. QED
      BY <3>1
  <2>3. QED
    BY <2>1, <2>2
<1>8. QED
  BY <1>1, <1>5, <1>6, <1>7, Finished, InviteStep

LEMMA AcceptKeeps == ASSUME Inv, NEW h \in Handlers, Accept(h) PROVE Inv'
<1> DEFINE i == task[h].item
           status == IF invites[i].status = "PENDING" THEN "ACCEPTED" ELSE invites[i].status
<1>1. owner # Nobody
  BY Admitted DEF Accept
<1>2. i \in DOMAIN invites /\ JoinedBy(invites[i].account, i)
  BY AllSound, Busy DEF Accept, Sound
<1>3. status \in {"PENDING", "ACCEPTED", "REVOKED", "EXPIRED"}
  BY <1>2, StatusTyped
<1>4. invites' = [invites EXCEPT ![i].status = status]
  BY DEF Accept
<1>5. UNCHANGED <<owner, members, hasApp, keys, sent, excused>> /\ Finish(h)
  BY DEF Accept
<1> HIDE DEF i, status
<1>6. /\ invites' \in Seq(Invite) /\ InvitesKept /\ DOMAIN invites' = DOMAIN invites
      /\ \A k \in DOMAIN invites : k # i => invites'[k] = invites[k]
  BY <1>3, <1>4, InviteMarked
<1>7. JoinedBy(invites'[i].account, i)
  BY <1>2, <1>6 DEF InvitesKept
<1>8. \A k \in DOMAIN invites' : invites'[k].status = "ACCEPTED" =>
         \/ k \in DOMAIN invites /\ invites[k].status = "ACCEPTED"
         \/ JoinedBy(invites'[k].account, k)
  BY <1>6, <1>7
<1>9. QED
  BY <1>1, <1>5, <1>6, <1>8, Finished, InviteStep

LEMMA ExpireKeeps == ASSUME Inv, NEW i \in DOMAIN invites, Expire(i) PROVE Inv'
<1>1. owner # Nobody
  BY DEF Inv, OrganizationInv, Founded
<1>2. invites' = [invites EXCEPT ![i].status = "EXPIRED"]
  BY DEF Expire
<1>3. /\ invites' \in Seq(Invite) /\ InvitesKept /\ DOMAIN invites' = DOMAIN invites
      /\ \A k \in DOMAIN invites : /\ k # i => invites'[k] = invites[k]
                                   /\ k = i => invites'[k].status = "EXPIRED"
  BY <1>2, InviteMarked
<1>4. \A k \in DOMAIN invites' : invites'[k].status = "ACCEPTED" => invites[k].status = "ACCEPTED"
  <2> SUFFICES ASSUME NEW k \in DOMAIN invites, invites'[k].status = "ACCEPTED"
               PROVE  invites[k].status = "ACCEPTED"
    BY <1>3
  <2>1. k # i
    BY <1>3
  <2>2. QED
    BY <1>3, <2>1
<1>5. UNCHANGED <<owner, members, hasApp, keys, task, sent, excused>>
  BY DEF Expire
<1>6. task' \in [Handlers -> {Idle} \cup Task]
  BY <1>5 DEF Inv, OrganizationInv, TypeOK
<1>7. QED
  BY <1>1, <1>3, <1>4, <1>5, <1>6, InviteStep

-----------------------------------------------------------------------------
(***************************************************************************)
(* The actions on the members and the owner.                               *)
(***************************************************************************)
LEMMA CreateOrganizationKeeps ==
  ASSUME Inv, NEW h \in Handlers, CreateOrganization(h) PROVE Inv'
<1> DEFINE first == [account |-> task[h].actor, role |-> "OWNER", by |-> 0]
<1>1. task[h] \in Task /\ members = << >> /\ invites = << >>
  BY Typed, Busy DEF CreateOrganization, Inv, OrganizationInv, Founded
<1>2. first \in Member /\ task[h].actor \in Accounts
  BY <1>1 DEF Task, Member, Roles
<1>3. members' = <<first>> /\ owner' = task[h].actor
  BY DEF CreateOrganization
<1>4. members' \in Seq(Member) /\ DOMAIN members' = {1} /\ members'[1] = first
  BY <1>2, <1>3
<1>5. UNCHANGED <<invites, hasApp, keys, sent, excused>> /\ Finish(h)
  BY DEF CreateOrganization
<1>6. TypeOK'
  BY <1>2, <1>3, <1>4, <1>5, Typed, Finished DEF TypeOK
<1>7. OneOwner' /\ MemberOnce'
  BY <1>3, <1>4 DEF OneOwner, MemberOnce
<1>8. AcceptanceIsTrue'
  BY <1>1, <1>5 DEF AcceptanceIsTrue
<1>9. Place'
  BY <1>2, <1>3, <1>4 DEF Place, IsMember
<1>10. InvitesKept /\ MembersKept
  BY <1>1 DEF InvitesKept, MembersKept
<1>11. \A k \in Handlers : task'[k] = task[k] \/ Sound(k)'
  BY <1>2, <1>3, <1>5, Finished DEF Sound, Idle
<1>12. QED
  BY <1>2, <1>3, <1>6, <1>7, <1>8, <1>9, <1>10, <1>11, Frame

LEMMA AddMemberKeeps == ASSUME Inv, NEW h \in Handlers, AddMember(h) PROVE Inv'
<1>1. UNCHANGED <<owner, invites, hasApp, keys, sent, excused>> /\ owner # Nobody
  BY Admitted DEF AddMember
<1>2. task[h] \in Task /\ task[h] # Idle /\ Sound(h)
  BY Typed, Busy, AllSound DEF AddMember
<1>3. CASE IsMember(task[h].actor)
  BY <1>1, <1>3, Typed, EndStep DEF AddMember
<1>4. CASE ~ IsMember(task[h].actor)
  <2> DEFINE i == task[h].item
             new == [account |-> task[h].actor, role |-> invites[i].role, by |-> i]
             next == [task[h] EXCEPT !.pc = "accept"]
             n == Len(members) + 1
  <2>1. i \in DOMAIN invites /\ invites[i].account = task[h].actor /\ i \in Nat
    BY <1>2 DEF AddMember, Sound, Task
  <2>2. new \in Member /\ new.role # "OWNER" /\ new.account = task[h].actor /\ new.by = i
    BY <1>2, <2>1, StatusTyped DEF Member, Task, Invite, InviteRoles, Roles
  <2>3. members' = Append(members, new) /\ task' = [task EXCEPT ![h] = next]
    BY <1>4 DEF AddMember, Joined, Goto
  <2>4. /\ next \in Task /\ next # Idle /\ next.pc = "accept" /\ next.item = i
        /\ next.actor = task[h].actor /\ next.who = task[h].who /\ next.kind = task[h].kind
    BY <1>2 DEF Task, Idle
  <2> HIDE DEF i, new, next
  <2>5. /\ members' \in Seq(Member) /\ DOMAIN members' = DOMAIN members \cup {n}
        /\ n \notin DOMAIN members /\ members'[n] = new
        /\ \A k \in DOMAIN members : members'[k] = members[k]
    BY <2>2, <2>3, Typed, Grown
  <2> HIDE DEF n
  <2>6. \A k \in DOMAIN members : members[k].account # task[h].actor
    BY <1>4 DEF IsMember
  <2>7. PICK o \in DOMAIN members : members[o].account = owner
    BY <1>1 DEF Inv, OrganizationInv, Founded, IsMember
  <2>8. OneOwner'
    BY <1>1, <2>2, <2>5, <2>6, <2>7 DEF Inv, OrganizationInv, OneOwner
  <2>9. MemberOnce'
    BY <2>2, <2>5, <2>6 DEF Inv, OrganizationInv, MemberOnce
  <2>10. /\ task' \in [Handlers -> {Idle} \cup Task] /\ task'[h] = next
         /\ \A k \in Handlers : k # h => task'[k] = task[k]
    BY <2>3, <2>4 DEF Inv, OrganizationInv, TypeOK
  <2>11. TypeOK'
    BY <1>1, <2>5, <2>10, Typed DEF TypeOK
  <2>12. InvitesKept /\ MembersKept
    BY <1>1, <2>5 DEF InvitesKept, MembersKept
  <2>13. AcceptanceIsTrue'
    BY <1>1, <2>12 DEF Inv, AcceptanceIsTrue, JoinedBy, MembersKept
  <2>14. Place'
    BY <1>1, <2>5, <2>7 DEF Place, IsMember
  <2>15. JoinedBy(task[h].actor, i)'
    <3>1. n \in DOMAIN members' /\ members'[n].account = task[h].actor /\ members'[n].by = i
      BY <2>2, <2>5
    <3>2. \E k \in DOMAIN members' : members'[k].account = next.actor /\ members'[k].by = next.item
      BY <2>4, <3>1
    <3>3. (JoinedBy(task[h].actor, task[h].item))' =
          \E k \in DOMAIN members' : members'[k].account = task'[h].actor /\ members'[k].by = task'[h].item
      BY DEF JoinedBy
    <3>4. QED
      BY <2>10, <3>2, <3>3 DEF i
  <2>16. Sound(h)'
    BY <1>1, <1>2, <2>1, <2>4, <2>10, <2>15 DEF Sound, i
  <2>17. QED
    BY <1>1, <2>8, <2>9, <2>10, <2>11, <2>12, <2>13, <2>14, <2>16, Frame
<1>5. QED
  BY <1>3, <1>4

LEMMA TransferKeeps == ASSUME Inv, NEW h \in Handlers, Transfer(h) PROVE Inv'
<1> DEFINE from == task[h].actor
           to == task[h].who
           Role(m) == IF m.account = to THEN "OWNER"
                      ELSE IF m.account = from THEN "ADMIN" ELSE m.role
<1>1. UNCHANGED <<invites, hasApp, keys, sent, excused>> /\ Finish(h)
  BY DEF Transfer
<1>2. CASE ~ Transferable(from, to)
  BY <1>1, <1>2, Typed, EndStep DEF Transfer
<1>3. CASE Transferable(from, to)
  <2>1. /\ owner' = to /\ owner = from
        /\ members' = [i \in DOMAIN members |-> [members[i] EXCEPT !.role = Role(members[i])]]
    BY <1>3 DEF Transfer, Transferable
  <2>2. PICK t \in DOMAIN members : members[t].account = to
    BY <1>3 DEF Transferable, IsMember
  <2>3. members \in Seq(Member) /\ Len(members) \in Nat /\ DOMAIN members = 1..Len(members)
    BY Typed
  <2>4. \A i \in DOMAIN members : members[i] \in Member /\ Role(members[i]) \in Roles
    <3>1. \A i \in DOMAIN members : members[i] \in Member
      BY <2>3
    <3>2. QED
      BY <3>1 DEF Member, Roles, InviteRoles
  <2>5. \A i \in DOMAIN members :
           /\ members'[i] \in Member /\ members'[i].role = Role(members[i])
           /\ members'[i].account = members[i].account /\ members'[i].by = members[i].by
    BY <2>1, <2>4 DEF Member
  <2>6. members' \in Seq(Member) /\ DOMAIN members' = DOMAIN members
    <3>1. members' = [i \in 1..Len(members) |-> members'[i]]
      BY <2>1, <2>3
    <3>2. QED
      BY <2>3, <2>5, <3>1, IsASeq
  <2>7. to \in Accounts
    BY <2>2, <2>4 DEF Member
  <2> HIDE DEF to, from
  <2>8. OneOwner'
    <3> SUFFICES ASSUME NEW i \in DOMAIN members
                 PROVE  members'[i].role = "OWNER" <=> members'[i].account = owner'
      BY <2>6 DEF OneOwner
    <3>1. members[i].role = "OWNER" <=> members[i].account = from
      BY <2>1 DEF Inv, OrganizationInv, OneOwner
    <3>2. /\ members'[i].account = members[i].account
          /\ members'[i].role = IF members[i].account = to THEN "OWNER"
                                ELSE IF members[i].account = from THEN "ADMIN" ELSE members[i].role
      BY <2>5
    <3>3. QED
      BY <2>1, <3>1, <3>2
  <2>9. MemberOnce'
    BY <2>5, <2>6 DEF Inv, OrganizationInv, MemberOnce
  <2>10. TypeOK'
    BY <1>1, <2>1, <2>6, <2>7, Typed, Finished DEF TypeOK
  <2>11. InvitesKept /\ MembersKept
    BY <1>1, <2>5, <2>6 DEF InvitesKept, MembersKept
  <2>12. AcceptanceIsTrue'
    BY <1>1, <2>11 DEF Inv, AcceptanceIsTrue, JoinedBy, MembersKept
  <2>13. Place'
    BY <2>1, <2>2, <2>5, <2>6, <2>7 DEF Place, IsMember
  <2>14. owner' # Nobody
    BY <2>1, <2>7
  <2>15. \A k \in Handlers : task'[k] = task[k] \/ Sound(k)'
    BY <1>1, <2>14, Finished DEF Sound, Idle
  <2>16. QED
    BY <2>8, <2>9, <2>10, <2>11, <2>12, <2>13, <2>14, <2>15, Frame
<1>4. QED
  BY <1>2, <1>3

-----------------------------------------------------------------------------
LEMMA InitInv == Init => Inv
<1> SUFFICES ASSUME Init PROVE Inv
  OBVIOUS
<1>1. TypeOK
  <2>1. members \in Seq(Member) /\ invites \in Seq(Invite) /\ keys \in Seq(Key)
    BY DEF Init
  <2>2. task \in [Handlers -> {Idle} \cup Task]
    BY DEF Init
  <2>3. owner \in Accounts \cup {Nobody} /\ hasApp \in BOOLEAN /\ sent \in Nat /\ excused \in BOOLEAN
    BY DEF Init
  <2>4. QED
    BY <2>1, <2>2, <2>3 DEF TypeOK
<1>2. OneOwner /\ MemberOnce /\ AcceptanceIsTrue
  BY DEF Init, OneOwner, MemberOnce, AcceptanceIsTrue
<1>3. Founded /\ RequestsMatch
  BY DEF Init, Founded, RequestsMatch, Idle
<1>4. QED
  BY <1>1, <1>2, <1>3 DEF Inv, OrganizationInv

LEMMA StepKeeps == ASSUME Inv, NEW h \in Handlers, Step(h) PROVE Inv'
BY AuthorizeKeeps, CreateOrganizationKeeps, CreateApplicationKeeps, CreateInviteKeeps,
   RevokeInviteKeeps, ReadInviteKeeps, AddMemberKeeps, AcceptKeeps, TransferKeeps, ReadKeyKeeps,
   CreateKeyKeeps, RevokeOldKeeps, UndoKeeps, AnswerKeyKeeps, RevokeKeyKeeps, SetKeyStateKeeps,
   FailKeeps
   DEF Step

LEMMA NextInv == Inv /\ [Next]_vars => Inv'
<1> SUFFICES ASSUME Inv, [Next]_vars PROVE Inv'
  OBVIOUS
<1>1. ASSUME NEW h \in Handlers, NEW r \in Requests, Send(h, r) PROVE Inv'
  BY <1>1, SendKeeps
<1>2. ASSUME NEW h \in Handlers, Step(h) PROVE Inv'
  BY <1>2, StepKeeps
<1>3. ASSUME NEW i \in DOMAIN invites, Expire(i) PROVE Inv'
  BY <1>3, ExpireKeeps
<1>4. CASE UNCHANGED vars
  BY <1>4 DEF vars, Inv, OrganizationInv, TypeOK, OneOwner, MemberOnce, Founded, RequestsMatch,
              AcceptanceIsTrue, JoinedBy, IsMember
<1>5. QED
  BY <1>1, <1>2, <1>3, <1>4 DEF Next

(***************************************************************************)
(* However invitations, acceptances and transfers interleave and fail, the *)
(* organization has one owner, the member that ownerId names, and every    *)
(* account is a member once (AddMember, TransferOwnership).                *)
(***************************************************************************)
THEOREM OneOwnerAlways == Spec => []OrganizationInv
<1>1. Inv => OrganizationInv
  BY DEF Inv
<1>2. QED
  BY InitInv, NextInv, <1>1, PTL DEF Spec

(***************************************************************************)
(* An invitation that is marked accepted is the one its account became a   *)
(* member by, whatever else was accepted or withdrawn meanwhile            *)
(* (AcceptInvitation).                                                     *)
(***************************************************************************)
THEOREM AcceptedIsJoined == Spec => []AcceptanceIsTrue
<1>1. Inv => AcceptanceIsTrue
  BY DEF Inv
<1>2. QED
  BY InitInv, NextInv, <1>1, PTL DEF Spec

-----------------------------------------------------------------------------
(***************************************************************************)
(* The keys and the requests about them under a step of one request.       *)
(***************************************************************************)
LEMMA KeysTyped ==
  ASSUME Inv
  PROVE  /\ DOMAIN keys = 1..Len(keys) /\ Len(keys) \in Nat
         /\ \A k \in DOMAIN keys : k \in Nat /\ keys[k] \in Key /\ keys[k].from \in Nat
<1>1. keys \in Seq(Key)
  BY Typed
<1>2. DOMAIN keys = 1..Len(keys) /\ Len(keys) \in Nat /\ \A k \in DOMAIN keys : keys[k] \in Key
  BY <1>1
<1>3. QED
  BY <1>2 DEF Key

\* Keys stay, keep what they replace, and are shown only when their request
\* answers.
KeysKept(h) ==
    \A k \in DOMAIN keys :
       /\ k \in DOMAIN keys' /\ keys'[k].from = keys[k].from
       /\ keys[k].revoked => keys'[k].revoked
       /\ keys'[k].held => keys[k].held \/ (task[h].pc = "answer" /\ task[h].made = k)

\* A request that acts, and the others.
Acts(h) == \A g \in Handlers : g # h => task'[g] = task[g]

LEMMA RequestsKept ==
  ASSUME Inv, KeyRequests, NEW h \in Handlers, Acts(h), KeysKept(h), KeyRequest(h)',
         HasMade(h)' => \/ HasMade(h) /\ task'[h].made = task[h].made
                        \/ task'[h].made \notin DOMAIN keys
  PROVE  KeyRequests'
<1>1. ASSUME NEW g \in Handlers, g # h PROVE KeyRequest(g)'
  <2>1. KeyRequest(g) /\ task'[g] = task[g]
    BY <1>1 DEF KeyRequests, Acts
  <2>2. ASSUME HasMade(g) PROVE ~ (task[h].pc = "answer" /\ task[h].made = task[g].made)
    BY <1>1, <2>2 DEF KeyRequests, HasMade
  <2>3. QED
    BY <2>1, <2>2 DEF KeyRequest, HasMade, KeysKept
<1>2. ASSUME NEW f \in Handlers, NEW g \in Handlers,
             HasMade(f)', HasMade(g)', task'[f].made = task'[g].made, f # g
      PROVE  FALSE
  <2>1. ASSUME NEW x \in Handlers, NEW y \in Handlers, x # h, y # h, x # y,
               HasMade(x)', HasMade(y)', task'[x].made = task'[y].made
        PROVE  FALSE
    BY <2>1 DEF Acts, KeyRequests, HasMade
  <2>2. ASSUME NEW x \in Handlers, x # h, HasMade(x)', HasMade(h)', task'[x].made = task'[h].made
        PROVE  FALSE
    <3>1. task'[x] = task[x] /\ HasMade(x) /\ task[x] # Idle
      BY <2>2 DEF Acts, HasMade, Idle
    <3>2. task[x].made \in DOMAIN keys
      BY <3>1 DEF KeyRequests, KeyRequest
    <3>3. QED
      BY <2>2, <3>1, <3>2 DEF KeyRequests
  <2>3. QED
    BY <1>2, <2>1, <2>2
<1>3. QED
  BY <1>1, <1>2 DEF KeyRequests

LEMMA ReplacesKept ==
  ASSUME Inv, KeyRequests, \A k \in DOMAIN keys : KeyReplaces(k),
         NEW h \in Handlers, KeysKept(h)
  PROVE  \A k \in DOMAIN keys : KeyReplaces(k)'
<1> SUFFICES ASSUME NEW k \in DOMAIN keys PROVE KeyReplaces(k)'
  OBVIOUS
<1>1. /\ KeyReplaces(k) /\ keys'[k].from = keys[k].from
      /\ keys'[k].held => keys[k].held \/ (task[h].pc = "answer" /\ task[h].made = k)
  BY DEF KeysKept
<1>2. keys[k].from < k
  BY <1>1 DEF KeyReplaces
<1>3. ASSUME keys'[k].held, keys[k].from # 0 PROVE keys'[keys[k].from].revoked
  <2>1. keys[k].from \in DOMAIN keys
    BY <1>2, <1>3, KeysTyped
  <2>2. keys[keys[k].from].revoked
    <3>1. CASE keys[k].held
      BY <1>1, <1>3, <3>1 DEF KeyReplaces
    <3>2. CASE task[h].pc = "answer" /\ task[h].made = k
      BY <1>3, <3>2 DEF KeyRequests, KeyRequest, HasMade, Idle
    <3>3. QED
      BY <1>1, <1>3, <3>1, <3>2
  <2>3. QED
    BY <2>1, <2>2 DEF KeysKept
<1>4. QED
  BY <1>1, <1>2, <1>3 DEF KeyReplaces

\* No key becomes promised and revoked, and none that is relied on is lost.
LEMMA SuccessionKept ==
  ASSUME Inv, NEW h \in Handlers,
         \A k \in DOMAIN keys : Succeeded(k),
         \A k \in DOMAIN keys' : keys'[k].revoked /\ Promised(k)' =>
            k \in DOMAIN keys /\ keys[k].revoked /\ Promised(k),
         \A k \in DOMAIN keys : ~ keys[k].revoked /\ Relied(k) =>
            k \in DOMAIN keys' /\ ~ keys'[k].revoked /\ Relied(k)'
  PROVE  \A k \in DOMAIN keys' : Succeeded(k)'
<1> SUFFICES ASSUME NEW k \in DOMAIN keys', keys'[k].revoked, Promised(k)'
             PROVE  \E x \in DOMAIN keys' : k < x /\ ~ keys'[x].revoked /\ Relied(x)'
  BY DEF Succeeded
<1>1. k \in DOMAIN keys /\ keys[k].revoked /\ Promised(k)
  OBVIOUS
<1>2. PICK x \in DOMAIN keys : k < x /\ ~ keys[x].revoked /\ Relied(x)
  BY <1>1 DEF Succeeded
<1>3. QED
  BY <1>2

-----------------------------------------------------------------------------
(***************************************************************************)
(* The steps that leave the keys alone.                                    *)
(***************************************************************************)
LEMMA QuietAccess ==
  ASSUME Inv, AccessInv, NEW h \in Handlers, Acts(h), keys' = keys, excused => excused',
         task'[h].pc \notin {"revokeOld", "undo", "answer"}, KeyRequest(h)',
         task[h].pc = "answer" /\ task[h].kind = "rotate" => excused'
  PROVE  AccessInv'
<1>1. KeysKept(h) /\ ~ HasMade(h)'
  BY DEF KeysKept, HasMade
<1>2. KeyRequests'
  BY <1>1, RequestsKept DEF AccessInv
<1>3. \A k \in DOMAIN keys' : KeyReplaces(k)'
  BY <1>1, ReplacesKept DEF AccessInv
<1>4. ASSUME ~ excused' PROVE \A k \in DOMAIN keys' : ~ keys'[k].suspended /\ Succeeded(k)'
  <2>1. \A k \in DOMAIN keys : ~ keys[k].suspended /\ Succeeded(k)
    BY <1>4 DEF AccessInv
  <2>2. \A k : Promised(k)' => Promised(k)
    BY DEF Promised, Acts
  <2>3. \A k : Relied(k) => Relied(k)'
    BY <1>4 DEF Relied, Acts
  <2>4. QED
    BY <2>1, <2>2, <2>3, SuccessionKept
<1>5. QED
  BY <1>2, <1>3, <1>4 DEF AccessInv

LEMMA Single ==
  ASSUME Inv, NEW h \in Handlers, NEW new, task' = [task EXCEPT ![h] = new]
  PROVE  task'[h] = new /\ Acts(h)
BY DEF Inv, OrganizationInv, TypeOK, Acts

LEMMA EndAccess ==
  ASSUME Inv, AccessInv, NEW h \in Handlers, Finish(h), keys' = keys, excused => excused',
         task[h].pc = "answer" /\ task[h].kind = "rotate" => excused'
  PROVE  AccessInv'
<1>1. task'[h] = Idle /\ Acts(h) /\ Idle.pc = "idle"
  BY Single DEF Finish, Idle
<1>2. KeyRequest(h)'
  BY <1>1 DEF KeyRequest
<1>3. QED
  BY <1>1, <1>2, QuietAccess

LEMMA Moved ==
  ASSUME Inv, NEW h \in Handlers, NEW pc, Goto(h, pc), task[h] # Idle
  PROVE  /\ task'[h].pc = pc /\ task'[h].kind = task[h].kind /\ task'[h].item = task[h].item
         /\ task'[h].made = task[h].made /\ task'[h].actor = task[h].actor /\ Acts(h)
<1>1. task[h] \in Task
  BY Typed
<1>2. task'[h] = [task[h] EXCEPT !.pc = pc] /\ Acts(h)
  BY Single DEF Goto
<1>3. QED
  BY <1>1, <1>2 DEF Task

LEMMA MoveAccess ==
  ASSUME Inv, AccessInv, NEW h \in Handlers, task[h] # Idle, keys' = keys, excused' = excused,
         NEW pc \in {"application", "invite", "withdraw", "add", "accept", "transfer", "key",
                     "create", "revoke"},
         Goto(h, pc), task[h].pc # "answer",
         pc = "key" => task[h].kind \in {"revoke", "rotate"},
         pc = "create" => task[h].kind \in {"create", "rotate"}
  PROVE  AccessInv'
<1>1. /\ task'[h].pc = pc /\ task'[h].kind = task[h].kind /\ task'[h].item = task[h].item
      /\ task'[h].made = task[h].made /\ Acts(h)
  BY Moved
<1>2. KeyRequest(h)
  BY DEF AccessInv, KeyRequests
<1>3. KeyRequest(h)'
  BY <1>1, <1>2 DEF KeyRequest, HasMade
<1>4. QED
  BY <1>1, <1>3, QuietAccess

-----------------------------------------------------------------------------
LEMMA SendAccess ==
  ASSUME Inv, AccessInv, NEW h \in Handlers, NEW r \in Requests, Send(h, r) PROVE AccessInv'
<1> DEFINE new == [pc |-> "sent", kind |-> r.kind, actor |-> r.actor, who |-> r.who,
                   role |-> r.role, item |-> r.item, made |-> 0]
<1>1. /\ task' = [task EXCEPT ![h] = new] /\ keys' = keys /\ excused' = excused /\ task[h] = Idle
      /\ r.kind \in {"revoke", "rotate"} => r.item \in DOMAIN keys
  BY DEF Send
<1>2. new.pc = "sent" /\ new.kind = r.kind /\ new.item = r.item
  OBVIOUS
<1> HIDE DEF new
<1>3. task'[h] = new /\ Acts(h)
  BY <1>1, Single
<1>4. r.kind = "create" => r.item = 0
  BY DEF Requests, AdminKinds
<1>5. KeyRequest(h)'
  BY <1>1, <1>2, <1>3, <1>4 DEF KeyRequest, HasMade
<1>6. task[h].pc = "idle"
  BY <1>1 DEF Idle
<1>7. QED
  BY <1>1, <1>2, <1>3, <1>5, <1>6, QuietAccess

LEMMA AuthorizeAccess ==
  ASSUME Inv, AccessInv, NEW h \in Handlers, Authorize(h) PROVE AccessInv'
<1>1. keys' = keys /\ excused' = excused /\ task[h].pc = "sent" /\ task[h] # Idle
  BY Busy DEF Authorize
<1>2. CASE Permitted(task[h])
  <2> DEFINE pc == IF task[h].kind \in {"revoke", "rotate"} THEN "key" ELSE task[h].kind
  <2>1. /\ pc \in {"application", "invite", "withdraw", "transfer", "key", "create"}
        /\ pc = "key" => task[h].kind \in {"revoke", "rotate"}
        /\ pc = "create" => task[h].kind \in {"create", "rotate"}
    BY DEF Authorize, Kinds, KeyKinds, AdminKinds
  <2>2. Goto(h, pc)
    BY <1>2 DEF Authorize
  <2> HIDE DEF pc
  <2>3. QED
    BY <1>1, <2>1, <2>2, MoveAccess
<1>3. CASE ~ Permitted(task[h])
  BY <1>1, <1>3, EndAccess DEF Authorize
<1>4. QED
  BY <1>2, <1>3

LEMMA ReadInviteAccess ==
  ASSUME Inv, AccessInv, NEW h \in Handlers, ReadInvite(h) PROVE AccessInv'
<1>1. keys' = keys /\ excused' = excused /\ task[h].pc = "sent" /\ task[h] # Idle
  BY Busy DEF ReadInvite
<1>2. QED
  BY <1>1, MoveAccess, EndAccess DEF ReadInvite

LEMMA AddMemberAccess ==
  ASSUME Inv, AccessInv, NEW h \in Handlers, AddMember(h) PROVE AccessInv'
<1>1. keys' = keys /\ excused' = excused /\ task[h].pc = "add" /\ task[h] # Idle
  BY Busy DEF AddMember
<1>2. QED
  BY <1>1, MoveAccess, EndAccess DEF AddMember

LEMMA ReadKeyAccess ==
  ASSUME Inv, AccessInv, NEW h \in Handlers, ReadKey(h) PROVE AccessInv'
<1>1. keys' = keys /\ excused' = excused /\ task[h].pc = "key" /\ task[h] # Idle
  BY Busy DEF ReadKey
<1>2. CASE keys[task[h].item].revoked
  BY <1>1, <1>2, EndAccess DEF ReadKey
<1>3. CASE ~ keys[task[h].item].revoked /\ task[h].kind = "rotate"
  BY <1>1, <1>3, MoveAccess DEF ReadKey
<1>4. CASE ~ keys[task[h].item].revoked /\ task[h].kind # "rotate"
  BY <1>1, <1>4, MoveAccess DEF ReadKey
<1>5. QED
  BY <1>2, <1>3, <1>4

\* The use cases of the organization end without a key.
LEMMA OrganizationAccess ==
  ASSUME Inv, AccessInv, NEW h \in Handlers,
         \/ CreateOrganization(h) \/ CreateApplication(h) \/ CreateInvite(h)
         \/ RevokeInvite(h) \/ Accept(h) \/ Transfer(h)
  PROVE  AccessInv'
<1>1. keys' = keys /\ excused' = excused /\ Finish(h) /\ task[h].pc # "answer"
  BY DEF CreateOrganization, CreateApplication, CreateInvite, RevokeInvite, Accept, Transfer
<1>2. QED
  BY <1>1, EndAccess

LEMMA FailAccess == ASSUME Inv, AccessInv, NEW h \in Handlers, Fail(h) PROVE AccessInv'
<1>1. keys' = keys /\ Finish(h) /\ (excused => excused')
  BY DEF Fail
<1>2. task[h].pc = "answer" /\ task[h].kind = "rotate" => excused'
  BY DEF Fail
<1>3. QED
  BY <1>1, <1>2, EndAccess

-----------------------------------------------------------------------------
(***************************************************************************)
(* The steps that change the keys.                                         *)
(***************************************************************************)
\* A flag of one key is set.
LEMMA Marked ==
  ASSUME Inv, NEW k \in DOMAIN keys
  PROVE  /\ DOMAIN Revoked(k) = DOMAIN keys /\ Revoked(k)[k].revoked
         /\ \A x \in DOMAIN keys :
               /\ Revoked(k)[x].from = keys[x].from /\ Revoked(k)[x].held = keys[x].held
               /\ Revoked(k)[x].suspended = keys[x].suspended
               /\ keys[x].revoked => Revoked(k)[x].revoked
               /\ x # k => Revoked(k)[x] = keys[x]
<1>1. keys[k] \in Key /\ DOMAIN keys = 1..Len(keys)
  BY KeysTyped
<1>2. /\ DOMAIN Revoked(k) = DOMAIN keys /\ Revoked(k)[k] = [keys[k] EXCEPT !.revoked = TRUE]
      /\ \A x \in DOMAIN keys : x # k => Revoked(k)[x] = keys[x]
  BY <1>1 DEF Revoked
<1>3. /\ Revoked(k)[k].revoked /\ Revoked(k)[k].from = keys[k].from
      /\ Revoked(k)[k].held = keys[k].held /\ Revoked(k)[k].suspended = keys[k].suspended
  BY <1>1, <1>2 DEF Key
<1>4. QED
  BY <1>2, <1>3

LEMMA CreateKeyAccess ==
  ASSUME Inv, AccessInv, Inv', NEW h \in Handlers, CreateKey(h) PROVE AccessInv'
<1> DEFINE pc == IF task[h].kind = "rotate" THEN "revokeOld" ELSE "answer"
           new == [task[h] EXCEPT !.made = Len(keys) + 1, !.pc = pc]
           key == [revoked |-> FALSE, suspended |-> FALSE, held |-> FALSE, from |-> task[h].item]
           n == Len(keys) + 1
<1>1. task[h] \in Task /\ task[h] # Idle /\ task[h].pc = "create" /\ KeyRequest(h)
  BY Typed, Busy DEF CreateKey, AccessInv, KeyRequests
<1>2. n \in Nat /\ 0 < n /\ n \notin DOMAIN keys /\ \A x \in DOMAIN keys : x \in Nat /\ x < n
  BY KeysTyped
<1>3. new.pc = pc /\ new.kind = task[h].kind /\ new.item = task[h].item /\ new.made = n
  BY <1>1, <1>2 DEF Task
<1>4. task' = [task EXCEPT ![h] = new] /\ keys' = Append(keys, key) /\ excused' = excused
  BY DEF CreateKey
<1>5. key \in Key /\ ~ key.revoked /\ ~ key.suspended /\ ~ key.held /\ key.from = task[h].item
  BY <1>1 DEF Task, Key
<1>6. /\ pc \in {"revokeOld", "answer"} /\ (pc = "revokeOld" <=> task[h].kind = "rotate")
  OBVIOUS
<1> HIDE DEF pc, new, key
<1>7. task'[h] = new /\ Acts(h)
  BY <1>4, Single
<1>8. /\ DOMAIN keys' = DOMAIN keys \cup {n} /\ keys'[n] = key
      /\ \A x \in DOMAIN keys : keys'[x] = keys[x]
  BY <1>4, <1>5, Typed, Grown
<1> HIDE DEF n
<1>9. KeysKept(h)
  BY <1>8 DEF KeysKept
<1>10. /\ task[h].kind \in {"create", "rotate"} /\ (task[h].kind = "create" => task[h].item = 0)
       /\ task[h].kind = "rotate" => task[h].item \in DOMAIN keys
  BY <1>1 DEF KeyRequest
<1>11. KeyRequest(h)'
  BY <1>3, <1>5, <1>6, <1>7, <1>8, <1>10 DEF KeyRequest, HasMade
<1>12. KeyRequests'
  BY <1>2, <1>3, <1>7, <1>9, <1>11, RequestsKept DEF AccessInv
<1>13. ASSUME NEW k \in DOMAIN keys' PROVE KeyReplaces(k)'
  <2>1. CASE k \in DOMAIN keys
    BY <1>9, <2>1, ReplacesKept DEF AccessInv
  <2>2. CASE k = n
    <3>1. key.from < n
      BY <1>2, <1>5, <1>10
    <3>2. QED
      BY <1>5, <1>8, <2>2, <3>1 DEF KeyReplaces
  <2>3. QED
    BY <1>8, <2>1, <2>2
<1>14. ASSUME ~ excused' PROVE \A k \in DOMAIN keys' : ~ keys'[k].suspended /\ Succeeded(k)'
  <2>1. \A k \in DOMAIN keys : ~ keys[k].suspended /\ Succeeded(k)
    BY <1>4, <1>14 DEF AccessInv
  <2>2. ASSUME NEW k \in DOMAIN keys', keys'[k].revoked, Promised(k)'
        PROVE  k \in DOMAIN keys /\ keys[k].revoked /\ Promised(k)
    <3>1. k \in DOMAIN keys /\ keys'[k] = keys[k]
      BY <1>5, <1>8, <2>2
    <3>2. k # n
      BY <1>2, <3>1
    <3>3. QED
      BY <1>3, <1>7, <2>2, <3>1, <3>2 DEF Promised, Acts
  <2>3. ASSUME NEW k \in DOMAIN keys, Relied(k) PROVE Relied(k)'
    <3>1. keys'[k] = keys[k]
      BY <1>8
    <3>2. QED
      BY <1>1, <1>7, <2>3, <3>1 DEF Relied, Acts
  <2>4. \A k \in DOMAIN keys' : Succeeded(k)'
    BY <1>8, <2>1, <2>2, <2>3, SuccessionKept
  <2>5. QED
    BY <1>5, <1>8, <2>1, <2>4
<1>15. QED
  BY <1>12, <1>13, <1>14 DEF AccessInv

\* A key is revoked or suspended on purpose.
LEMMA ExcusedAccess ==
  ASSUME Inv, AccessInv, NEW h \in Handlers, excused', KeysKept(h), DOMAIN keys' = DOMAIN keys,
         Acts(h), KeyRequest(h)',
         HasMade(h)' => HasMade(h) /\ task'[h].made = task[h].made
  PROVE  AccessInv'
<1>1. KeyRequests'
  BY RequestsKept DEF AccessInv
<1>2. \A k \in DOMAIN keys' : KeyReplaces(k)'
  BY ReplacesKept DEF AccessInv
<1>3. QED
  BY <1>1, <1>2 DEF AccessInv

LEMMA RevokedKept == ASSUME Inv, NEW h \in Handlers, NEW k, keys' = Revoked(k)
                     PROVE KeysKept(h) /\ DOMAIN keys' = DOMAIN keys
<1>1. CASE k \in DOMAIN keys
  BY <1>1, Marked DEF KeysKept
<1>2. CASE k \notin DOMAIN keys
  <2>1. keys = [x \in DOMAIN keys |-> keys[x]]
    BY Typed
  <2>2. Revoked(k) = keys
    BY <1>2, <2>1 DEF Revoked
  <2>3. QED
    BY <2>2 DEF KeysKept
<1>3. QED
  BY <1>1, <1>2

LEMMA Ends ==
  ASSUME Inv, NEW h \in Handlers, Finish(h)
  PROVE  Acts(h) /\ ~ HasMade(h)' /\ KeyRequest(h)' /\ task'[h] = Idle
<1>1. task'[h] = Idle /\ Acts(h) /\ Idle.pc = "idle"
  BY Single DEF Finish, Idle
<1>2. QED
  BY <1>1 DEF KeyRequest, HasMade

LEMMA RevokeKeyAccess ==
  ASSUME Inv, AccessInv, NEW h \in Handlers, RevokeKey(h) PROVE AccessInv'
<1>1. excused' /\ Finish(h) /\ keys' = Revoked(task[h].item)
  BY DEF RevokeKey
<1>2. QED
  BY <1>1, Ends, RevokedKept, ExcusedAccess

LEMMA SetKeyStateAccess ==
  ASSUME Inv, AccessInv, NEW h \in Handlers, SetKeyState(h) PROVE AccessInv'
<1>1. excused' /\ Finish(h)
  BY DEF SetKeyState
<1>2. KeysKept(h) /\ DOMAIN keys' = DOMAIN keys
  <2> DEFINE i == task[h].item
  <2>1. CASE keys' = keys
    BY <2>1 DEF KeysKept
  <2>2. CASE keys' = Revoked(i)
    BY <2>2, RevokedKept
  <2>3. CASE keys' = [keys EXCEPT ![i].suspended = TRUE]
    <3>1. DOMAIN keys' = DOMAIN keys /\ \A x \in DOMAIN keys : x # i => keys'[x] = keys[x]
      BY <2>3, Typed
    <3>2. i \in DOMAIN keys => keys'[i] = [keys[i] EXCEPT !.suspended = TRUE] /\ keys[i] \in Key
      BY <2>3, KeysTyped
    <3>3. i \in DOMAIN keys => /\ keys'[i].from = keys[i].from /\ keys'[i].held = keys[i].held
                               /\ keys'[i].revoked = keys[i].revoked
      BY <3>2 DEF Key
    <3>4. QED
      BY <3>1, <3>3 DEF KeysKept
  <2>4. QED
    BY <2>1, <2>2, <2>3 DEF SetKeyState
<1>3. QED
  BY <1>1, <1>2, Ends, ExcusedAccess

-----------------------------------------------------------------------------
\* The key of a request that has not been answered is nobody else's.
LEMMA Unshown ==
  ASSUME Inv, KeyRequests, NEW h \in Handlers, HasMade(h)
  PROVE  /\ task[h].made \in DOMAIN keys /\ ~ keys[task[h].made].held
         /\ \A g \in Handlers : HasMade(g) /\ task[g].made = task[h].made => g = h
         /\ keys[task[h].made].from = task[h].item
<1>1. task[h] # Idle
  BY DEF HasMade, Idle
<1>2. QED
  BY <1>1 DEF KeyRequests, KeyRequest

LEMMA UndoAccess == ASSUME Inv, AccessInv, NEW h \in Handlers, Undo(h) PROVE AccessInv'
<1> DEFINE m == task[h].made
<1>1. Finish(h) /\ excused' = excused /\ task[h].pc = "undo" /\ HasMade(h)
  BY DEF Undo, HasMade
<1>2. CASE keys' = keys
  BY <1>1, <1>2, EndAccess
<1>3. CASE keys' = Revoked(m)
  <2>1. /\ m \in DOMAIN keys /\ ~ keys[m].held
        /\ \A g \in Handlers : HasMade(g) /\ task[g].made = m => g = h
    BY <1>1, Unshown DEF AccessInv
  <2>2. Acts(h) /\ ~ HasMade(h)' /\ KeyRequest(h)' /\ task'[h] = Idle
    BY <1>1, Ends
  <2>3. KeysKept(h) /\ DOMAIN keys' = DOMAIN keys
    BY <1>3, RevokedKept
  <2>4. KeyRequests' /\ \A k \in DOMAIN keys' : KeyReplaces(k)'
    BY <2>2, <2>3, RequestsKept, ReplacesKept DEF AccessInv
  <2>5. \A x \in DOMAIN keys : /\ keys'[x].held = keys[x].held
                               /\ keys'[x].suspended = keys[x].suspended
                               /\ x # m => keys'[x] = keys[x]
    BY <1>3, <2>1, Marked
  <2> HIDE DEF m
  <2>6. \A k \in DOMAIN keys : Promised(k)' => Promised(k) /\ k # m
    <3>1. ASSUME NEW k \in DOMAIN keys, NEW g \in Handlers,
                 task'[g].pc \in {"revokeOld", "answer"}, task'[g].made = k
          PROVE  task[g].pc \in {"revokeOld", "answer"} /\ task[g].made = k /\ k # m
      BY <2>1, <2>2, <3>1 DEF HasMade, Acts
    <3>2. QED
      BY <2>1, <2>5, <3>1 DEF Promised
  <2>7. \A k \in DOMAIN keys : Relied(k) => Relied(k)' /\ k # m
    <3>1. ASSUME NEW k \in DOMAIN keys, NEW g \in Handlers,
                 task[g].pc = "answer", task[g].kind = "rotate", task[g].made = k
          PROVE  task'[g] = task[g] /\ k # m
      BY <1>1, <2>1, <2>2, <3>1 DEF HasMade, Acts
    <3>2. QED
      BY <2>1, <2>5, <3>1 DEF Relied
  <2>8. ASSUME ~ excused' PROVE \A k \in DOMAIN keys' : ~ keys'[k].suspended /\ Succeeded(k)'
    <3>1. \A k \in DOMAIN keys : ~ keys[k].suspended /\ Succeeded(k)
      BY <1>1, <2>8 DEF AccessInv
    <3>2. \A k \in DOMAIN keys' : Succeeded(k)'
      BY <2>3, <2>5, <2>6, <2>7, <3>1, SuccessionKept
    <3>3. QED
      BY <2>3, <2>5, <3>1, <3>2
  <2>9. QED
    BY <2>4, <2>8 DEF AccessInv
<1>4. QED
  BY <1>2, <1>3 DEF Undo, Undone

LEMMA AnswerKeyAccess == ASSUME Inv, AccessInv, NEW h \in Handlers, AnswerKey(h) PROVE AccessInv'
<1>0. PICK m : m = task[h].made
  OBVIOUS
<1>1. /\ Finish(h) /\ excused' = excused /\ task[h].pc = "answer" /\ HasMade(h)
      /\ keys' = [keys EXCEPT ![m].held = TRUE]
  BY <1>0 DEF AnswerKey, HasMade
<1>2. m \in DOMAIN keys /\ keys[m] \in Key
  BY <1>0, <1>1, Unshown, KeysTyped DEF AccessInv
<1>3. DOMAIN keys' = DOMAIN keys /\ \A x \in DOMAIN keys : x # m => keys'[x] = keys[x]
  BY <1>1, <1>2
<1>4. keys'[m] = [keys[m] EXCEPT !.held = TRUE]
  BY <1>1, <1>2
<1>5. /\ keys'[m].held /\ keys'[m].from = keys[m].from /\ keys'[m].revoked = keys[m].revoked
      /\ keys'[m].suspended = keys[m].suspended
  BY <1>2, <1>4 DEF Key
<1>6. KeysKept(h)
  BY <1>0, <1>1, <1>3, <1>5 DEF KeysKept
<1>7. Acts(h) /\ ~ HasMade(h)' /\ KeyRequest(h)' /\ task'[h] = Idle
  BY <1>1, Ends
<1>8. KeyRequests' /\ \A k \in DOMAIN keys' : KeyReplaces(k)'
  BY <1>3, <1>6, <1>7, RequestsKept, ReplacesKept DEF AccessInv
<1>9. \A k \in DOMAIN keys : Promised(k)' => Promised(k)
  <2>1. Promised(m)
    BY <1>0, <1>1 DEF Promised
  <2>2. ASSUME NEW k \in DOMAIN keys, k # m, Promised(k)' PROVE Promised(k)
    <3>1. keys'[k] = keys[k]
      BY <1>3, <2>2
    <3>2. task'[h].pc = "idle"
      BY <1>7 DEF Idle
    <3>3. QED
      BY <1>7, <2>2, <3>1, <3>2 DEF Promised, Acts
  <2>3. QED
    BY <2>1, <2>2
<1>10. \A k \in DOMAIN keys : Relied(k) => Relied(k)'
  <2>1. Relied(m)'
    BY <1>5 DEF Relied
  <2>2. ASSUME NEW k \in DOMAIN keys, k # m, Relied(k) PROVE Relied(k)'
    <3>1. keys'[k] = keys[k]
      BY <1>3, <2>2
    <3>2. QED
      BY <1>0, <1>7, <2>2, <3>1 DEF Relied, Acts
  <2>3. QED
    BY <2>1, <2>2
<1>11. \A k \in DOMAIN keys : /\ keys'[k].revoked = keys[k].revoked
                              /\ keys'[k].suspended = keys[k].suspended
  BY <1>3, <1>5
<1>12. ASSUME ~ excused' PROVE \A k \in DOMAIN keys' : ~ keys'[k].suspended /\ Succeeded(k)'
  <2>1. \A k \in DOMAIN keys : ~ keys[k].suspended /\ Succeeded(k)
    BY <1>1, <1>12 DEF AccessInv
  <2>2. \A k \in DOMAIN keys' : Succeeded(k)'
    BY <1>3, <1>9, <1>10, <1>11, <2>1, SuccessionKept
  <2>3. QED
    BY <1>3, <1>11, <2>1, <2>2
<1>13. QED
  BY <1>8, <1>12 DEF AccessInv

\* The old key goes, and the new one, or a later one in its place, is there.
LEMMA RevokeOldAccess == ASSUME Inv, AccessInv, NEW h \in Handlers, RevokeOld(h) PROVE AccessInv'
<1>1. task[h].pc = "revokeOld" /\ HasMade(h) /\ task[h] # Idle
  BY Busy DEF RevokeOld, HasMade
<1>2. KeyRequest(h) /\ task[h].kind = "rotate"
  BY <1>1 DEF AccessInv, KeyRequests, KeyRequest
<1>3. PICK m, i : m = task[h].made /\ i = task[h].item
  OBVIOUS
<1>4. /\ m \in DOMAIN keys /\ ~ keys[m].held /\ keys[m].from = i
      /\ \A g \in Handlers : HasMade(g) /\ task[g].made = m => g = h
  BY <1>1, <1>3, Unshown DEF AccessInv
<1>5. i \in DOMAIN keys /\ i \in Nat /\ m \in Nat /\ i < m
  <2>1. i \in DOMAIN keys
    BY <1>1, <1>2, <1>3 DEF KeyRequest
  <2>2. QED
    BY <1>4, <2>1, KeysTyped DEF AccessInv, KeyReplaces
<1>6. PICK pc \in {"undo", "answer"} : Goto(h, pc) /\ (pc = "answer" => keys' = Revoked(i) /\ excused' = excused)
  BY <1>3 DEF RevokeOld
<1>7. /\ task'[h].pc = pc /\ task'[h].kind = "rotate" /\ task'[h].item = i
      /\ task'[h].made = m /\ Acts(h)
  BY <1>1, <1>2, <1>3, <1>6, Moved
<1>8. keys' = keys \/ keys' = Revoked(i)
  BY <1>3 DEF RevokeOld
<1>9. KeysKept(h) /\ DOMAIN keys' = DOMAIN keys
  <2>1. CASE keys' = keys
    BY <2>1 DEF KeysKept
  <2>2. QED
    BY <1>8, <2>1, RevokedKept
<1>10. keys' = Revoked(i) => /\ keys'[i].revoked
                             /\ \A x \in DOMAIN keys : /\ keys'[x].held = keys[x].held
                                                       /\ keys'[x].suspended = keys[x].suspended
                                                       /\ x # i => keys'[x] = keys[x]
  BY <1>5, Marked
<1>11. keys'[m].held = keys[m].held /\ keys'[m].from = keys[m].from
  BY <1>4, <1>8, Marked, <1>5
<1>12. KeyRequest(h)'
  <2>1. pc = "answer" => keys'[i].revoked
    BY <1>6, <1>10
  <2>2. QED
    BY <1>4, <1>5, <1>7, <1>9, <1>11, <2>1 DEF KeyRequest, HasMade
<1>13. KeyRequests' /\ \A k \in DOMAIN keys' : KeyReplaces(k)'
  BY <1>1, <1>3, <1>7, <1>9, <1>12, RequestsKept, ReplacesKept DEF AccessInv
<1>14. ASSUME ~ excused' PROVE \A k \in DOMAIN keys' : ~ keys'[k].suspended /\ Succeeded(k)'
  <2>1. ~ excused
    BY <1>14 DEF RevokeOld
  <2>2. \A k \in DOMAIN keys : ~ keys[k].suspended /\ Succeeded(k)
    BY <2>1 DEF AccessInv
  <2>3. \A k \in DOMAIN keys : Relied(k) => Relied(k)'
    <3>1. \A k \in DOMAIN keys : keys'[k].held = keys[k].held
      BY <1>8, <1>10
    <3>2. QED
      BY <1>1, <1>7, <3>1 DEF Relied, Acts
  <2>4. \A k \in DOMAIN keys : Promised(k)' => Promised(k)
    <3>1. \A k \in DOMAIN keys : keys'[k].held = keys[k].held
      BY <1>8, <1>10
    <3>2. QED
      BY <1>1, <1>3, <1>7, <3>1 DEF Promised, Acts
  <2>5. CASE pc = "undo"
    <3>1. keys' = keys
      BY <1>6, <1>7, <1>14, <2>5, <1>1, Moved DEF RevokeOld
    <3>2. QED
      BY <2>2, <2>3, <2>4, <3>1, SuccessionKept
  <2>6. CASE pc = "answer"
    <3>1. keys' = Revoked(i)
      BY <1>6, <2>6
    <3>2. Relied(m)' /\ Promised(m)
      BY <1>1, <1>3, <1>7, <2>6 DEF Relied, Promised
    \* What the rotation leaves in the place of the old key.
    <3>3. PICK x \in DOMAIN keys : i < x /\ ~ keys'[x].revoked /\ Relied(x)'
      <4>1. CASE ~ keys[m].revoked
        BY <1>4, <1>5, <1>10, <3>1, <3>2, <4>1
      <4>2. CASE keys[m].revoked
        <5>1. PICK x \in DOMAIN keys : m < x /\ ~ keys[x].revoked /\ Relied(x)
          BY <1>4, <2>2, <3>2, <4>2 DEF Succeeded
        <5>2. x \in Nat /\ i < x /\ x # i
          BY <1>5, <5>1, KeysTyped
        <5>3. QED
          BY <1>10, <2>3, <3>1, <5>1, <5>2
      <4>3. QED
        BY <4>1, <4>2
    <3>4. ASSUME NEW k \in DOMAIN keys', keys'[k].revoked, Promised(k)'
          PROVE  \E y \in DOMAIN keys' : k < y /\ ~ keys'[y].revoked /\ Relied(y)'
      <4>1. k \in DOMAIN keys /\ k \in Nat /\ x \in Nat
        BY <1>9, <3>4, KeysTyped
      <4>2. CASE k = i
        BY <1>9, <3>3, <4>2
      <4>3. CASE k # i
        <5>1. keys[k].revoked /\ Promised(k)
          BY <1>10, <2>4, <3>1, <3>4, <4>1, <4>3
        <5>2. PICK y \in DOMAIN keys : k < y /\ ~ keys[y].revoked /\ Relied(y)
          BY <2>2, <4>1, <5>1 DEF Succeeded
        <5>3. CASE y = i
          <6>1. k < x
            BY <1>5, <3>3, <4>1, <5>2, <5>3
          <6>2. QED
            BY <1>9, <3>3, <6>1
        <5>4. CASE y # i
          BY <1>9, <1>10, <2>3, <3>1, <5>2, <5>4
        <5>5. QED
          BY <5>3, <5>4
      <4>4. QED
        BY <4>2, <4>3
    <3>5. \A k \in DOMAIN keys' : ~ keys'[k].suspended
      BY <1>9, <1>10, <2>2, <3>1
    <3>6. QED
      BY <3>4, <3>5 DEF Succeeded
  <2>7. QED
    BY <2>5, <2>6
<1>15. QED
  BY <1>13, <1>14 DEF AccessInv

LEMMA StepAccess == ASSUME Inv, AccessInv, Inv', NEW h \in Handlers, Step(h) PROVE AccessInv'
BY AuthorizeAccess, OrganizationAccess, ReadInviteAccess, AddMemberAccess, ReadKeyAccess,
   CreateKeyAccess, RevokeOldAccess, UndoAccess, AnswerKeyAccess, RevokeKeyAccess,
   SetKeyStateAccess, FailAccess
   DEF Step

LEMMA SameAccess == ASSUME AccessInv, UNCHANGED <<keys, task, excused>> PROVE AccessInv'
BY DEF AccessInv, KeyRequests, KeyRequest, HasMade, KeyReplaces, Succeeded, Promised, Relied

LEMMA AccessStep == Inv /\ AccessInv /\ [Next]_vars => AccessInv'
<1> SUFFICES ASSUME Inv, AccessInv, [Next]_vars PROVE AccessInv'
  OBVIOUS
<1>1. Inv'
  BY NextInv
<1>2. ASSUME NEW h \in Handlers, NEW r \in Requests, Send(h, r) PROVE AccessInv'
  BY <1>2, SendAccess
<1>3. ASSUME NEW h \in Handlers, Step(h) PROVE AccessInv'
  BY <1>1, <1>3, StepAccess
<1>4. ASSUME NEW i \in DOMAIN invites, Expire(i) PROVE AccessInv'
  BY <1>4, SameAccess DEF Expire
<1>5. CASE UNCHANGED vars
  BY <1>5, SameAccess DEF vars
<1>6. QED
  BY <1>2, <1>3, <1>4, <1>5 DEF Next

LEMMA AccessInit == Init => AccessInv
BY DEF Init, AccessInv, KeyRequests, KeyRequest, HasMade, Idle

\* A promised key that is relied on and not revoked is usable.
LEMMA AccessIsKept == Inv /\ AccessInv => RotationKeepsAccess
<1> SUFFICES ASSUME Inv, AccessInv PROVE RotationKeepsAccess
  OBVIOUS
<1>1. ASSUME ~ excused, NEW k \in DOMAIN keys, keys[k].held PROVE \E x \in DOMAIN keys : Usable(x)
  <2>1. PICK x \in DOMAIN keys : ~ keys[x].revoked /\ Relied(x)
    <3>1. CASE ~ keys[k].revoked
      BY <1>1, <3>1 DEF Relied
    <3>2. CASE keys[k].revoked
      BY <1>1, <3>2 DEF AccessInv, Succeeded, Promised
    <3>3. QED
      BY <3>1, <3>2
  <2>2. ~ keys[x].suspended
    BY <1>1 DEF AccessInv
  <2>3. QED
    BY <2>1, <2>2 DEF Usable, Relied
<1>2. \A k \in DOMAIN keys : keys[k].held /\ keys[k].from # 0 => keys[keys[k].from].revoked
  BY DEF AccessInv, KeyReplaces
<1>3. QED
  BY <1>1, <1>2 DEF RotationKeepsAccess

(***************************************************************************)
(* However rotations of keys overlap and fail, a developer who was given a *)
(* key has a usable one, unless one was taken away on purpose or an answer *)
(* was lost; and a rotation that was answered has revoked what it replaces *)
(* (RotateKey).                                                            *)
(***************************************************************************)
THEOREM RotationsKeepAccess == Spec => []RotationKeepsAccess
<1>1. Init => Inv /\ AccessInv
  BY InitInv, AccessInit
<1>2. Inv /\ AccessInv /\ [Next]_vars => (Inv /\ AccessInv)'
  BY NextInv, AccessStep
<1>3. QED
  BY <1>1, <1>2, AccessIsKept, PTL DEF Spec
=============================================================================
