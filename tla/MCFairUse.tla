------------------------------- MODULE MCFairUse -------------------------------
(* Instances of FairUse for TLC: one small scenario after the other. *)
EXTENDS FairUse, TLC

CONSTANTS r1, r2

\* What happens in this behaviour.
VARIABLE scenario

MCSkew == (r1 :> 0 @@ r2 :> 1)

\* Revisions that overlap with loads; grants that do; charges with stale times;
\* every kind of step.
Scenario ==
    [policies |-> [policies |-> 2, grants |-> 0, requests |-> 2, time |-> 3],
     grants   |-> [policies |-> 0, grants |-> 2, requests |-> 2, time |-> 3],
     charges  |-> [policies |-> 0, grants |-> 0, requests |-> 4, time |-> 4],
     changes  |-> [policies |-> 1, grants |-> 1, requests |-> 2, time |-> 1]]

MCInit == scenario \in DOMAIN Scenario /\ FairUseInit

\* A revision that lowers the burst and one that raises it, in force at once
\* or a tick later; a grant, and its withdrawal.  They are made on r1.
Menu(t) ==
    /\ t.pc = "persistPolicy" =>
          /\ Scenario[scenario].policies > 0
          /\ t.policy.burst = IF t.policy.revision = 2 THEN 3 ELSE 4
          /\ t.policy.ceiling = IF scenario = "changes" THEN 1 ELSE 3
          /\ t.policy.from \in {t.at, t.at + 1} /\ t.replica = r1
    /\ t.pc = "persistGrant" =>
          /\ Scenario[scenario].grants > 0
          /\ t.grant.burst = 4 /\ t.grant.ceiling = 3
          /\ t.grant.expires = MaxTime + 1 /\ t.replica = r1
          /\ t.grant.enabled <=> t.grant.id = 1
    /\ (t.pc \in {"readPolicy", "grant"} /\ scenario # "changes") => t.cost = 3

\* Where a request, or a change, is left in a scenario about the caches.
Left == [policies |-> {"grant", "invalidate"}, grants |-> {"decide", "invalidate"}]

\* Handlers that are at work before their charge.
AtWork == {h \in Handlers : task[h] # AtRest /\ task[h].pc # "charge"}

\* A scenario about the caches charges nothing, and nothing fails in it; in the
\* one about charges, a request decides before anything else happens; in the
\* one with every step, there is one at a time.
InScope ==
    /\ scenario \in DOMAIN Left =>
          /\ bucket' = Nothing
          /\ \A h \in Handlers : (task[h] # AtRest /\ task'[h] # task[h]) =>
                IF task[h].pc \in Left[scenario] THEN task'[h] = AtRest
                ELSE task'[h] # AtRest /\ ~ task'[h].failed
          /\ \A r \in Replicas : cache'[r] = EmptyCache => cache[r] = EmptyCache
    /\ scenario = "changes" => \E h \in Handlers : task'[h] = AtRest
    /\ scenario = "charges" =>
          /\ \A h \in AtWork : task'[h] # task[h] /\ task'[h] # AtRest /\ ~ task'[h].failed
          /\ \A r \in Replicas : cache'[r] = EmptyCache => cache[r] = EmptyCache

MCNext ==
    /\ FairUseNext
    /\ now' <= Scenario[scenario].time
    /\ sent' <= Scenario[scenario].requests
    /\ Len(policies') <= Scenario[scenario].policies
    /\ Len(grants') <= Scenario[scenario].grants
    /\ \A h \in Handlers : task'[h] = task[h] \/ task'[h] = AtRest \/ Menu(task'[h])
    /\ InScope
    /\ UNCHANGED scenario

MCSpec == MCInit /\ [][MCNext]_<<fairUseVars, scenario>>

Symmetry == Permutations(Handlers)
=============================================================================
