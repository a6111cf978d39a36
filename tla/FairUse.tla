-------------------------------- MODULE FairUse --------------------------------
(***************************************************************************)
(* Fair use: revisions of the policy and grants to an application          *)
(* (internal/app/fairuse, adapters/mongo/fairuse.go), the cache each       *)
(* replica keeps of them (internal/platform/fairuse), and the token bucket *)
(* that a request is charged to (internal/platform/auth, adapters/redis).  *)
(*                                                                         *)
(* One application calls with its key; every request resolves the policy   *)
(* and the grant, each from the cache or by a read of the database that is *)
(* stored in the cache later, and is then charged by a script that Redis   *)
(* runs at once, with a time its replica read before.  Of an allowance,    *)
(* the burst is kept; the refill is the same for all.  Of the cost         *)
(* ceilings, one for every class is kept.                                  *)
(***************************************************************************)
EXTENDS Integers, Sequences, FiniteSets

CONSTANTS
    Replicas,
    Handlers,        \* requests that are served at the same time
    Skew,            \* Skew[r]: how far the clock of r is ahead
    CacheTTL,        \* Resolver.ttl
    Bursts,          \* bursts an allowance may have
    DefaultBurst,
    Ceilings,        \* cost ceilings
    Costs,           \* units of the cost classes
    Refill,          \* units a bucket gains in a tick
    BucketTTL,       \* ticks after which an unused bucket expires
    MaxTime,         \* bound: ticks
    MaxPolicies,     \* bound: revisions appended
    MaxGrants,       \* bound: overrides appended
    MaxRequests,     \* bound: calls of the application
    Nothing

ASSUME TimesAssumption ==
    /\ Skew \in [Replicas -> Nat]
    /\ CacheTTL \in Nat \ {0} /\ BucketTTL \in Nat /\ Refill \in Nat \ {0}

ASSUME BoundsAssumption ==
    MaxTime \in Nat /\ MaxPolicies \in Nat /\ MaxGrants \in Nat /\ MaxRequests \in Nat

ASSUME UnitsAssumption ==
    /\ Bursts \subseteq Nat /\ IsFiniteSet(Bursts) /\ DefaultBurst \in Bursts
    /\ Ceilings \subseteq Nat /\ IsFiniteSet(Ceilings) /\ Ceilings # {}
    /\ Costs \subseteq Nat /\ Costs # {}

VARIABLES
    now,
    policies,    \* fair_use_policies, in the order they were appended
    grants,      \* fair_use_overrides of the application
    cache,       \* cache[r]: the resolver of replica r
    bucket,      \* the bucket of the key in Redis, Nothing if there is none
    task,        \* task[h]: what handler h is doing
    sent,        \* requests sent
    excess,      \* the most that was charged, in any stretch of time up to the
                 \* latest charge, beyond what came in during it, with what
                 \* expiries put in before its time (history)
    last,        \* the time of the latest charge, Nothing before (history)
    inOrder      \* no charge carried a time before an earlier one (history)

fairUseVars == <<now, policies, grants, cache, bucket, task, sent, excess, last, inOrder>>

\* appended: when it was committed (history).
Policy == [revision : Nat, from : Nat, burst : Bursts, ceiling : Ceilings, appended : Nat]

Grant == [id : Nat, burst : Bursts, ceiling : Ceilings, enabled : BOOLEAN,
          created : Nat, expires : Nat, appended : Nat]

\* Used until a policy was loaded.
DefaultPolicy == [revision |-> 1, from |-> 0, burst |-> DefaultBurst,
                  ceiling |-> CHOOSE c \in Ceilings : \A d \in Ceilings : c >= d,
                  appended |-> 0]

\* loaded: when the load of the policy began; grant: the override and when its
\* load began, a value of Nothing if the application had none.
Cache == [policy : Policy, loaded : Nat \cup {Nothing},
          grant : [value : Grant \cup {Nothing}, loaded : Nat] \cup {Nothing}]

Bucket == [tokens : Int, updated : Nat, expires : Nat]

ASSUME NothingAssumption == Nothing \notin Nat /\ Nothing \notin Policy /\ Nothing \notin Grant

AtRest == [pc |-> "idle"]

\* at: the time Resolve began with; policy, grant: what it goes by so far, or
\* the change that is appended; failed: a read of the database failed; stamp:
\* the time the charge carries; began: the true time of `at' (history).
Task == [pc : {"readPolicy", "storePolicy", "grant", "readGrant", "storeGrant", "decide",
               "charge", "persistPolicy", "persistGrant", "invalidate"},
         replica : Replicas, at : Nat, cost : Costs, policy : Policy \cup {Nothing},
         grant : Grant \cup {Nothing}, failed : BOOLEAN, stamp : Nat, began : Nat]

FairUseTypeOK ==
    /\ now \in Nat /\ sent \in Nat /\ excess \in Nat
    /\ policies \in Seq(Policy)
    /\ grants \in Seq(Grant)
    /\ cache \in [Replicas -> Cache]
    /\ bucket \in Bucket \cup {Nothing}
    /\ bucket # Nothing => bucket.tokens >= 0
    /\ task \in [Handlers -> {AtRest} \cup Task]
    /\ last \in Nat \cup {Nothing}
    /\ inOrder \in BOOLEAN

-----------------------------------------------------------------------------
Clock(r) == now + Skew[r]

Elements(s) == {s[i] : i \in DOMAIN s}

Proceed(h, pc) == task' = [task EXCEPT ![h].pc = pc]

Return(h) == task' = [task EXCEPT ![h] = AtRest]

history == <<excess, last, inOrder>>

\* The order in which CurrentPolicy sorts.
Supersedes(p, q) == p.from > q.from \/ (p.from = q.from /\ p.revision >= q.revision)

\* CurrentPolicy: the latest that has come into effect, Nothing if none has.
CurrentPolicy(at) ==
    LET effective == {p \in Elements(policies) : p.from <= at}
    IN IF effective = {} THEN Nothing
       ELSE CHOOSE p \in effective : \A q \in effective : Supersedes(p, q)

Later(g, d) == g.created > d.created \/ (g.created = d.created /\ g.id >= d.id)

\* CurrentOverride: the latest created, Nothing if there is none.
CurrentGrant(at) ==
    LET known == {g \in Elements(grants) : g.created <= at}
    IN IF known = {} THEN Nothing
       ELSE CHOOSE g \in known : \A d \in known : Later(g, d)

\* FairUseOverride.Raises: nothing is lower and something is higher.
Raises(g, p) ==
    /\ g.burst >= p.burst /\ g.ceiling >= p.ceiling
    /\ g.burst > p.burst \/ g.ceiling > p.ceiling

\* FairUseOverride.Active.
Active(g, at) == g.enabled /\ g.created <= at /\ at < g.expires

Fresh(loaded, at) == loaded # Nothing /\ at - loaded < CacheTTL

\* Whatever is cached is used.
GrantFresh_Cached(cached, at) == cached # Nothing

GrantFresh(cached, at) == cached # Nothing /\ Fresh(cached.loaded, at)

\* Resolve begins: loadPolicy looks at the cache.
Arrive(h, r, cost) ==
    /\ task[h] = AtRest
    /\ sent < MaxRequests
    /\ sent' = sent + 1
    /\ task' = [task EXCEPT ![h] =
          [pc |-> IF Fresh(cache[r].loaded, Clock(r)) THEN "grant" ELSE "readPolicy",
           replica |-> r, at |-> Clock(r), cost |-> cost, policy |-> cache[r].policy,
           grant |-> Nothing, failed |-> FALSE, stamp |-> 0, began |-> now]]
    /\ UNCHANGED <<now, policies, grants, cache, bucket, history>>

\* A read that fails leaves what was cached; so does one that finds nothing.
ReadPolicy(h) ==
    /\ task[h].pc = "readPolicy"
    /\ LET fresh == CurrentPolicy(task[h].at)
       IN \/ /\ fresh # Nothing
             /\ task' = [task EXCEPT ![h].pc = "storePolicy", ![h].policy = fresh]
          \/ fresh = Nothing /\ Proceed(h, "grant")
          \/ task' = [task EXCEPT ![h].pc = "grant", ![h].failed = TRUE]
    /\ UNCHANGED <<now, policies, grants, cache, bucket, sent, history>>

\* The age of what is cached counts from when its load began.
Loaded(h) == task[h].at

StorePolicy(h) ==
    /\ task[h].pc = "storePolicy"
    /\ cache' = [cache EXCEPT ![task[h].replica].policy = task[h].policy,
                              ![task[h].replica].loaded = Loaded(h)]
    /\ Proceed(h, "grant")
    /\ UNCHANGED <<now, policies, grants, bucket, sent, history>>

\* loadOverride looks at the cache.
CheckGrant(h) ==
    /\ task[h].pc = "grant"
    /\ LET cached == cache[task[h].replica].grant
       IN task' = [task EXCEPT
             ![h].pc = IF GrantFresh(cached, task[h].at) THEN "decide" ELSE "readGrant",
             ![h].grant = IF cached = Nothing THEN Nothing ELSE cached.value]
    /\ UNCHANGED <<now, policies, grants, cache, bucket, sent, history>>

ReadGrant(h) ==
    /\ task[h].pc = "readGrant"
    /\ \/ task' = [task EXCEPT ![h].pc = "storeGrant", ![h].grant = CurrentGrant(task[h].at)]
       \/ task' = [task EXCEPT ![h].pc = "decide", ![h].failed = TRUE]
    /\ UNCHANGED <<now, policies, grants, cache, bucket, sent, history>>

StoreGrant(h) ==
    /\ task[h].pc = "storeGrant"
    /\ cache' = [cache EXCEPT ![task[h].replica].grant =
                    [value |-> task[h].grant, loaded |-> task[h].at]]
    /\ Proceed(h, "decide")
    /\ UNCHANGED <<now, policies, grants, bucket, sent, history>>

\* The grant applies while it is active and raises the policy.
Applies(g, p, at) == g # Nothing /\ Active(g, at) /\ Raises(g, p)

\* The allowance that holds: of the grant if it applies, else of the policy.
Allowance(h) ==
    IF Applies(task[h].grant, task[h].policy, task[h].at) THEN task[h].grant ELSE task[h].policy

\* A cost above the ceiling is refused before anything is charged; else the
\* replica reads its clock for the charge.
Decide(h) ==
    /\ task[h].pc = "decide"
    /\ IF task[h].cost <= Allowance(h).ceiling
       THEN task' = [task EXCEPT ![h].pc = "charge", ![h].stamp = Clock(task[h].replica)]
       ELSE Return(h)
    /\ UNCHANGED <<now, policies, grants, cache, bucket, sent, history>>

Least(m, n) == IF m <= n THEN m ELSE n

Elapsed(since, stamp) == IF stamp > since THEN stamp - since ELSE 0

\* What comes in is not limited to the capacity of the bucket.
Filled_NoLimit(b, capacity, stamp) ==
    IF b = Nothing THEN capacity ELSE b.tokens + Refill * Elapsed(b.updated, stamp)

\* tokenBucket: what has come in since the last charge, at most the capacity.
Filled(b, capacity, stamp) ==
    IF b = Nothing THEN capacity
    ELSE Least(capacity, b.tokens + Refill * Elapsed(b.updated, stamp))

\* The charge comes after the previous one, and after an expiry by as much as
\* the bucket took to expire.
Follows(stamp) ==
    last = Nothing \/ stamp >= last + (IF bucket = Nothing THEN BucketTTL ELSE 0)

Positive(n) == IF n > 0 THEN n ELSE 0

\* The largest burst.
MaxBurst == CHOOSE b \in Bursts : \A c \in Bursts : b >= c

\* What the refill misses of the largest burst when a bucket expires: a bucket
\* that is made anew is full.  For an allowance that refills within BucketTTL it
\* is nothing; validateAllowance does not ask for that.
Early == Positive(MaxBurst - Refill * BucketTTL)

\* What came in between two charges, by the refill and by an expiry.
Income(stamp) == Refill * Elapsed(last, stamp) + (IF bucket = Nothing THEN Early ELSE 0)

\* The script takes the cost if it is there.
Charge(h) ==
    /\ task[h].pc = "charge"
    /\ LET stamp  == task[h].stamp
           tokens == Filled(bucket, Allowance(h).burst, stamp)
           cost   == IF tokens >= task[h].cost THEN task[h].cost ELSE 0
       IN /\ bucket' = [tokens |-> tokens - cost, updated |-> stamp,
                       expires |-> now + BucketTTL]
          /\ excess' = cost + (IF last = Nothing THEN 0
                               ELSE Positive(excess - Income(stamp)))
          /\ last' = stamp
          /\ inOrder' = (inOrder /\ Follows(stamp))
    /\ Return(h)
    /\ UNCHANGED <<now, policies, grants, cache, sent>>

\* Redis does not answer: the request is let through without a charge.
Degrade(h) ==
    /\ task[h].pc = "charge"
    /\ Return(h)
    /\ UNCHANGED <<now, policies, grants, cache, bucket, sent, history>>

-----------------------------------------------------------------------------
Change(r, pc, policy, grant) ==
    [pc |-> pc, replica |-> r, at |-> Clock(r), cost |-> CHOOSE c \in Costs : TRUE,
     policy |-> policy, grant |-> grant, failed |-> FALSE, stamp |-> 0, began |-> now]

\* Service.CurrentPolicy.
PolicyInForce(r) ==
    IF CurrentPolicy(Clock(r)) = Nothing THEN DefaultPolicy ELSE CurrentPolicy(Clock(r))

\* AppendPolicy: the revision is compared with the policy in force.
ProposePolicy(h, r, p) ==
    /\ task[h] = AtRest
    /\ p.revision > PolicyInForce(r).revision
    /\ task' = [task EXCEPT ![h] = Change(r, "persistPolicy", p, Nothing)]
    /\ UNCHANGED <<now, policies, grants, cache, bucket, sent, history>>

\* AppendPolicyAudited: the id of the document is made of the revision.
PersistPolicy(h) ==
    /\ task[h].pc = "persistPolicy"
    /\ IF task[h].policy.revision \in {p.revision : p \in Elements(policies)}
       THEN Return(h) /\ UNCHANGED policies
       ELSE /\ Len(policies) < MaxPolicies
            /\ policies' = Append(policies, [task[h].policy EXCEPT !.appended = now])
            /\ Proceed(h, "invalidate")
    /\ UNCHANGED <<now, grants, cache, bucket, sent, history>>

\* AppendOverride: a grant has to raise the policy in force.
ProposeGrant(h, r, g) ==
    /\ task[h] = AtRest
    /\ g.created = Clock(r) /\ g.expires > g.created
    /\ g.enabled => Raises(g, PolicyInForce(r))
    /\ task' = [task EXCEPT ![h] = Change(r, "persistGrant", Nothing, g)]
    /\ UNCHANGED <<now, policies, grants, cache, bucket, sent, history>>

PersistGrant(h) ==
    /\ task[h].pc = "persistGrant"
    /\ IF task[h].grant.id \in {g.id : g \in Elements(grants)}
       THEN Return(h) /\ UNCHANGED grants
       ELSE /\ Len(grants) < MaxGrants
            /\ grants' = Append(grants, [task[h].grant EXCEPT !.appended = now])
            /\ Proceed(h, "invalidate")
    /\ UNCHANGED <<now, policies, cache, bucket, sent, history>>

\* Invalidate, on the replica that made the change.
Invalidate(h) ==
    /\ task[h].pc = "invalidate"
    /\ cache' = [cache EXCEPT ![task[h].replica].loaded = Nothing,
                              ![task[h].replica].grant = Nothing]
    /\ Return(h)
    /\ UNCHANGED <<now, policies, grants, bucket, sent, history>>

EmptyCache == [policy |-> DefaultPolicy, loaded |-> Nothing, grant |-> Nothing]

\* A request is given up; a transaction fails, or the answer to it is lost.
Abandon(h) ==
    /\ task[h] # AtRest
    /\ Return(h)
    /\ UNCHANGED <<now, policies, grants, cache, bucket, sent, history>>

\* The process dies and starts again with an empty cache.
Restart(r) ==
    /\ cache' = [cache EXCEPT ![r] = EmptyCache]
    /\ task' = [h \in Handlers |->
          IF task[h] # AtRest /\ task[h].replica = r THEN AtRest ELSE task[h]]
    /\ UNCHANGED <<now, policies, grants, bucket, sent, history>>

\* EXPIRE.
Expire ==
    /\ bucket # Nothing
    /\ now >= bucket.expires
    /\ bucket' = Nothing
    /\ UNCHANGED <<now, policies, grants, cache, task, sent, history>>

Tick ==
    /\ now < MaxTime
    /\ now' = now + 1
    /\ UNCHANGED <<policies, grants, cache, bucket, task, sent, history>>

FairUseInit ==
    /\ now = 1
    /\ policies = <<>> /\ grants = <<>>
    /\ cache = [r \in Replicas |-> EmptyCache]
    /\ bucket = Nothing
    /\ task = [h \in Handlers |-> AtRest]
    /\ sent = 0
    /\ excess = 0
    /\ last = Nothing
    /\ inOrder = TRUE

Serve(h) ==
    \/ ReadPolicy(h) \/ StorePolicy(h) \/ CheckGrant(h) \/ ReadGrant(h) \/ StoreGrant(h)
    \/ Decide(h) \/ Charge(h) \/ Degrade(h) \/ PersistPolicy(h) \/ PersistGrant(h)
    \/ Invalidate(h) \/ Abandon(h)

FairUseNext ==
    \/ \E h \in Handlers, r \in Replicas :
          \/ \E cost \in Costs : Arrive(h, r, cost)
          \/ \E p \in [revision : 2..(MaxPolicies + 1), from : 1..MaxTime, burst : Bursts,
                       ceiling : Ceilings, appended : {0}] : ProposePolicy(h, r, p)
          \/ \E g \in [id : 1..MaxGrants, burst : Bursts, ceiling : Ceilings,
                       enabled : BOOLEAN, created : {Clock(r)},
                       expires : 1..(MaxTime + 1), appended : {0}] : ProposeGrant(h, r, g)
    \/ \E h \in Handlers : Serve(h)
    \/ \E r \in Replicas : Restart(r)
    \/ Expire
    \/ Tick

FairUseSpec == FairUseInit /\ [][FairUseNext]_fairUseVars

-----------------------------------------------------------------------------
\* A request that has its policy, or its grant too; none of its reads failed.
HasPolicy(h) ==
    task[h].pc \in {"grant", "readGrant", "storeGrant", "decide", "charge"} /\ ~ task[h].failed

HasGrant(h) == task[h].pc \in {"decide", "charge"} /\ ~ task[h].failed

PolicyIsRecent ==
    \A h \in Handlers : HasPolicy(h) =>
       \A p \in Elements(policies) :
          (p.appended + CacheTTL <= task[h].began /\ p.from + CacheTTL <= task[h].at)
             => Supersedes(task[h].policy, p)

GrantIsRecent ==
    \A h \in Handlers : HasGrant(h) =>
       \A g \in Elements(grants) :
          (g.appended + CacheTTL <= task[h].began /\ g.created + CacheTTL <= task[h].at)
             => task[h].grant # Nothing /\ Later(task[h].grant, g)

(***************************************************************************)
(* However loads, changes and invalidations overlap, and on whichever      *)
(* replica, a request goes by a policy at least as recent as the one that  *)
(* was in force CacheTTL before it began (loadPolicy); and by then a grant *)
(* that was replaced or withdrawn is not applied, and a new one is not     *)
(* ignored (loadOverride).                                                 *)
(***************************************************************************)
AllowanceIsRecent == PolicyIsRecent /\ GrantIsRecent

BucketHoldsRate == inOrder => excess <= MaxBurst

(***************************************************************************)
(* In no stretch of time is more charged to a key than the largest burst,  *)
(* what came in during it, and for each time the bucket expired in it as   *)
(* much as the refill misses of a burst in the life of a bucket (nothing,  *)
(* for the built-in allowances), through changes of the allowance, as long *)
(* as charges reach Redis in the order of the times they carry             *)
(* (tokenBucket).                                                          *)
(***************************************************************************)
BucketInv == FairUseTypeOK /\ BucketHoldsRate

-----------------------------------------------------------------------------
(***************************************************************************)
(* What makes both an invariant.  A handler knows when its request began,  *)
(* and a request that is served has a policy.                              *)
(***************************************************************************)
RequestInv(h) ==
    task[h] # AtRest =>
       /\ task[h].at = task[h].began + Skew[task[h].replica] /\ task[h].began <= now
       /\ task[h].pc \in {"readPolicy", "storePolicy", "grant", "readGrant", "storeGrant", "decide",
                          "charge", "persistPolicy"} => task[h].policy \in Policy
       /\ task[h].pc = "persistGrant" => task[h].grant \in Grant

\* What was in force at a time, and appended before the true time of it.
PolicyCovers(p, began, at) ==
    \A q \in Elements(policies) : (q.appended < began /\ q.from <= at) => Supersedes(p, q)

GrantCovers(g, began, at) ==
    \A d \in Elements(grants) :
       (d.appended < began /\ d.created <= at) => g # Nothing /\ Later(g, d)

\* A load covers what came before it began, in the handler and in the cache.
LoadInv(h) ==
    /\ task[h].pc = "storePolicy" => PolicyCovers(task[h].policy, task[h].began, task[h].at)
    /\ task[h].pc = "storeGrant" => GrantCovers(task[h].grant, task[h].began, task[h].at)

CacheInv(r) ==
    /\ cache[r].loaded # Nothing =>
          /\ cache[r].loaded <= now + Skew[r]
          /\ PolicyCovers(cache[r].policy, cache[r].loaded - Skew[r], cache[r].loaded)
    /\ cache[r].grant # Nothing =>
          /\ cache[r].grant.loaded <= now + Skew[r]
          /\ GrantCovers(cache[r].grant.value, cache[r].grant.loaded - Skew[r], cache[r].grant.loaded)

\* What is in the bucket and what was charged share the burst.
LevelInv ==
    /\ bucket # Nothing => bucket.updated = last
    /\ last = Nothing => bucket = Nothing /\ excess = 0
    /\ (inOrder /\ bucket # Nothing) => bucket.tokens + excess <= MaxBurst

FairUseInv ==
    /\ BucketInv
    /\ LevelInv
    /\ \A r \in Replicas : CacheInv(r)
    /\ \A h \in Handlers : RequestInv(h) /\ LoadInv(h)
    /\ AllowanceIsRecent
=============================================================================
