--------------------------- MODULE MCConnectionRuntime ---------------------------
(* Small instances of ConnectionRuntime for TLC. *)
EXTENDS ConnectionRuntime, TLC

MCSymmetry == Permutations(Tasks) \cup Permutations(Pools) \cup Permutations(Slots)
================================================================================
