------------------------------ MODULE MCSessions ------------------------------
(* Instances of Sessions for TLC: one small scenario after the other. *)
EXTENDS Sessions, TLC

CONSTANTS alice, bob, c1, c2

\* What is asked for in this behaviour.
VARIABLE scenario

MCOwner == (c1 :> alice @@ c2 :> bob)

\* Parallel requests of one browser; a reset around a sign-in; links that are
\* lost and issued again; two operators; sign-ins in two steps around logouts.
Scenario ==
    [tabs   |-> [kinds |-> {"use", "everywhere"}, requests |-> 4, time |-> 3],
     resets |-> [kinds |-> {"use", "login", "forgot", "confirm"}, requests |-> 4, time |-> 1],
     links  |-> [kinds |-> {"forgot", "confirm"}, requests |-> 5, time |-> 3],
     staff  |-> [kinds |-> {"login", "complete", "demote", "disable", "enable", "promote"},
                 requests |-> 3, time |-> 0],
     factor |-> [kinds |-> {"login", "complete", "everywhere", "use", "logout"},
                 requests |-> 4, time |-> 0]]

MCInit ==
    /\ scenario \in DOMAIN Scenario
    /\ account = [x \in Accounts |->
          Fresh(IF scenario \in {"staff", "factor"} THEN "SUPER_ADMIN" ELSE "DEVELOPER")]
    /\ jar = (c1 :> 1 @@ c2 :> 2)
    /\ Init

MCNext ==
    /\ Next
    /\ sent' <= Scenario[scenario].requests /\ now' <= Scenario[scenario].time
    /\ \A h \in Handlers : task'[h].pc # "idle" =>
          /\ task'[h].kind \in Scenario[scenario].kinds
          /\ scenario # "staff" => task'[h].client = c1
    /\ UNCHANGED scenario

MCSpec == MCInit /\ [][MCNext]_<<vars, scenario>>

Symmetry == Permutations(Handlers)
=============================================================================
