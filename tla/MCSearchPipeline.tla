-------------------------- MODULE MCSearchPipeline --------------------------
(* Instances of SearchPipeline for TLC. *)
EXTENDS SearchPipeline

\* What happens in this behaviour: one event, changes and an operator, or the
\* events of two releases.
VARIABLE scenario

MCInit == scenario \in {"index", "queue"} /\ SearchInit

MCNext ==
    /\ SearchNext
    /\ scenario = "index" => /\ row'[2].status = "absent" /\ faults' <= 1
                             /\ db'[1] # 2 /\ db'[2] # 0
    /\ scenario = "queue" =>
          /\ changes' = 0 /\ \A p \in Operators : rebuild'[p] = NoRebuild
          /\ \A w \in Workers : Running(w) =>
                /\ rebuild'[w] # rebuild[w]
                /\ rebuild'[w] = NoRebuild => worker'[w].pc = "succeeded"
    /\ UNCHANGED scenario

MCSpec == MCInit /\ [][MCNext]_<<pipelineVars, scenario>> /\ SearchFairness
=============================================================================
