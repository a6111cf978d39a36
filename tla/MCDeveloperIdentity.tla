-------------------------- MODULE MCDeveloperIdentity --------------------------
(* Instances of DeveloperIdentity for TLC, in scenarios. *)
EXTENDS DeveloperIdentity, TLC

CONSTANTS a, b, c

\* What is asked for in this behaviour.
VARIABLE scenario

\* From nothing; the members of an organization; the keys of an application.
Scenario == [founding |-> {"organization", "application", "create", "invite", "accept"},
             members |-> {"invite", "withdraw", "accept", "transfer"},
             keys |-> {"create", "revoke", "rotate", "suspend", "ban"}]

\* a has created the organization, its application and a first key.
Established ==
    /\ owner = a
    /\ members = <<[account |-> a, role |-> "OWNER", by |-> 0]>>
    /\ invites = << >>
    /\ hasApp = TRUE
    /\ keys = <<[revoked |-> FALSE, suspended |-> FALSE, held |-> TRUE, from |-> 0]>>
    /\ task = [h \in Handlers |-> Idle]
    /\ sent = 0
    /\ excused = FALSE

MCInit ==
    \/ scenario = "founding" /\ Init
    \/ scenario \in {"members", "keys"} /\ Established

MCNext ==
    /\ Next
    /\ \A h \in Handlers : task'[h] # Idle =>
          /\ task'[h].kind \in Scenario[scenario]
          /\ task'[h].role # "MEMBER"
          /\ scenario = "keys" => task'[h].actor = a
          /\ scenario # "members" => sent' < MaxRequests - 1
    /\ UNCHANGED scenario

MCSpec == MCInit /\ [][MCNext]_<<vars, scenario>>

Symmetry == Permutations(Handlers) \cup Permutations({b, c})
=============================================================================
