--------------------------- MODULE MCOperationRuntime ---------------------------
(* A small instance of OperationRuntime for TLC. *)
EXTENDS OperationRuntime, TLC

CONSTANTS o1, o2

(* A toy digest in place of SHA-256: it mixes every input and may collide. *)
MCKindCode ==
    [proposed |-> 1, planned |-> 2, approval_requested |-> 3, approved |-> 4, rejected |-> 5,
     execution_started |-> 6, progress |-> 7, succeeded |-> 8, failed |-> 9, cancelled |-> 10,
     outcome_unknown |-> 11, expired |-> 12, ready |-> 13, pending_approval |-> 14,
     executing |-> 15]

MCEventHash(o, n, k, s, p) ==
    (53 * (IF p = NoHash THEN 1 ELSE p) + 7 * n + 31 * MCKindCode[k] + 17 * MCKindCode[s]
        + IF o = o1 THEN 3 ELSE 5) % 101

MCHashes == 0..100

(* Ids are handed out in order: o2 is for whoever plans after o1.          *)
MCIdsInOrder == Exists(o2) => Exists(o1)

MCSymmetry == Permutations(Runtimes)
================================================================================
