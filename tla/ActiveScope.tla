------------------------------ MODULE ActiveScope -------------------------------
(***************************************************************************)
(* What the rest of the desktop may rely on of the active scope kept in    *)
(* app_settings: a workspace and an account that never contradict each     *)
(* other, and a generation that tells two selections apart.  Pins taken of *)
(* connections (PinnedConnections) rest on this contract alone;            *)
(* WorkspaceScope implements it.                                           *)
(***************************************************************************)
EXTENDS Naturals

CONSTANTS Teams, Users, Personal, NoUser

VARIABLES workspace, account, generation

scope == <<workspace, account, generation>>

(* ActiveResourceScope: Personal is account-free, a team has an account.   *)
ValidScope(w, a) == w = Personal \/ (w \in Teams /\ a \in Users)

ScopeInit ==
    /\ workspace \in Teams \cup {Personal}
    /\ account \in Users \cup {NoUser}
    /\ ValidScope(workspace, account)
    /\ generation \in Nat

(* Every selection, also of the scope that is already active, gets a       *)
(* generation no earlier selection had.                                    *)
Select ==
    /\ workspace' \in Teams \cup {Personal}
    /\ account' \in Users \cup {NoUser}
    /\ ValidScope(workspace', account')
    /\ generation' = generation + 1

ScopeSpec == ScopeInit /\ [][Select]_scope
================================================================================
