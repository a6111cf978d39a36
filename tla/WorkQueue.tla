------------------------------ MODULE WorkQueue ------------------------------
(***************************************************************************)
(* What the outbox promises its publishers: an event that is enqueued is   *)
(* open until it is settled, once and for good, as done or as dead.        *)
(***************************************************************************)
CONSTANT Events

VARIABLE state  \* state[e]: "absent", "open", "done" or "dead"

Init == state = [e \in Events |-> "absent"]

Enqueue(e) == state[e] = "absent" /\ state' = [state EXCEPT ![e] = "open"]

Settle(e, outcome) == state[e] = "open" /\ state' = [state EXCEPT ![e] = outcome]

Next ==
    \E e \in Events :
       Enqueue(e) \/ Settle(e, "done") \/ Settle(e, "dead")

Spec == Init /\ [][Next]_state
=============================================================================
