---------------------------- MODULE MCUpdateLoop ----------------------------
(***************************************************************************)
(* The instance of UpdateLoop for TLC: two application threads, two loop   *)
(* threads.  No symmetry, because the run checks a liveness property.      *)
(***************************************************************************)
EXTENDS UpdateLoop
=============================================================================
