---------------------------- MODULE MCWorkspaceScope ----------------------------
(* A small instance of WorkspaceScope. *)
EXTENDS WorkspaceScope, TLC

Symmetry == Permutations(Calls) \cup Permutations(Teams) \cup Permutations(Users)
================================================================================
