---------------------------- MODULE MCOwnership ----------------------------
(* Small instances of MessageOwnership.  Messages and workers are only     *)
(* compared with one another, so that states which differ in their names   *)
(* are checked once; the runs have no liveness property.                   *)
EXTENDS MessageOwnership, TLC

Symmetry == Permutations(Messages) \cup Permutations(Workers)
=============================================================================
