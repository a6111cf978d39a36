------------------------------ MODULE MCImportRun ------------------------------
(* Instances of ImportRun for TLC: a file whose second record is rejected. *)
EXTENDS ImportRun

MCRejects == {2}
=============================================================================
