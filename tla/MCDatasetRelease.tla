-------------------------- MODULE MCDatasetRelease --------------------------
(* Instances of DatasetRelease for TLC. *)
EXTENDS DatasetRelease, TLC

CONSTANTS v1, v2

\* What happens in this behaviour: v1 goes through the review gate while it is
\* edited, exported and published; v1 and v2 are published, replaced and
\* restored; or v1 is published and exported again.
VARIABLE scenario

MCInit == scenario \in {"gate", "public", "again"} /\ Init

MCNext ==
    /\ Next
    /\ scenario = "gate" =>
          /\ builds' <= 1
          /\ \A p \in Processes : op'[p].pc # "idle" => op'[p].version = v1
    /\ scenario = "public" =>
          /\ started' < MaxOps /\ builds' <= 2
          /\ \A p \in Processes : op'[p].pc # "idle" =>
                /\ op'[p].action \notin {"advance", "notes"}
                /\ op'[p].pc = "write" => op'[p].version = IF op'[p].build = 1 THEN v1 ELSE v2
    /\ scenario = "again" =>
          /\ started' < MaxOps
          /\ \A p \in Processes : op'[p].pc # "idle" =>
                op'[p].action # "advance" /\ op'[p].version = v1
    /\ UNCHANGED scenario

MCSpec == MCInit /\ [][MCNext]_<<vars, scenario>>

ProcessSymmetry == Permutations(Processes)
=============================================================================
