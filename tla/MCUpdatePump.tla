---------------------------- MODULE MCUpdatePump ----------------------------
(***************************************************************************)
(* Instances of UpdatePump for TLC.  Readers are interchangeable and so    *)
(* are syncers: no definition of the module names one of them.             *)
(***************************************************************************)
EXTENDS UpdatePump, TLC

Symmetry == Permutations(Readers) \cup Permutations(Syncers)
=============================================================================
