----------------------------- MODULE MCSqlExecution -----------------------------
(* Small instances of SqlExecution for TLC.  The ledger's hash chain is     *)
(* covered by the instances of OperationRuntime: here every digest is 0.    *)
EXTENDS SqlExecution, TLC

MCPolicies == (0..MaxScope) \X (SafetySettings \cup {"any"})

MCEventHash(o, n, k, s, p) == 0

(* Writes are met under every setting, reads and statements the target     *)
(* commits by itself under one.                                            *)
MCBound ==
    \A o \in Ops : Store!Exists(o) /\ plan[o].kind # "write_sql" => policy.safety = "writable"

MCSymmetry == Permutations(Workers) \cup Permutations(Runtimes)
================================================================================
