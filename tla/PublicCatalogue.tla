--------------------------- MODULE PublicCatalogue ---------------------------
(***************************************************************************)
(* What the public sees of the release lifecycle (GET /datasets): from the *)
(* first publication on there is one current dataset, and a release        *)
(* replaces it in a single step.  It disappears without a successor only   *)
(* by the end of an export of that same version.                           *)
(***************************************************************************)
CONSTANT Versions

VARIABLES
    current,    \* the versions listed as published
    exporting   \* the versions that are being exported

catalogueVars == <<current, exporting>>

Init == current = {} /\ exporting = {}

Release(v) == current' = {v} /\ UNCHANGED exporting

StartExport(v) == exporting' = exporting \cup {v} /\ UNCHANGED current

\* Another export of v may be under way; one that is given up withdraws nothing.
EndExport(v) ==
    /\ v \in exporting
    /\ exporting' \in {exporting, exporting \ {v}}
    /\ current' \in {current, current \ {v}}

Next == \E v \in Versions : Release(v) \/ StartExport(v) \/ EndExport(v)

Spec == Init /\ [][Next]_catalogueVars
=============================================================================
