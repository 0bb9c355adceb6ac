------------------------- MODULE MCExperimentCache -------------------------
(***************************************************************************)
(* Processes are interchangeable, and so are validators.                   *)
(***************************************************************************)
EXTENDS ExperimentCache, TLC

Interchangeable == Permutations(Proc) \cup Permutations(Validator)
=============================================================================
