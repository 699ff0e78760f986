--------------------------- MODULE OperationLifecycle ---------------------------
(***************************************************************************)
(* The vocabulary of the Operation lifecycle and the pure decisions taken  *)
(* on it: dopedb-protocol/src/operation.rs (states, kinds, event kinds)    *)
(* and src-tauri/src/operations/state_machine.rs.  Names are those of the  *)
(* source; state and kind values are their stored snake_case spellings.    *)
(***************************************************************************)

OperationState == {"planned", "pending_approval", "ready", "approved", "rejected",
                   "expired", "cancelled", "executing", "succeeded", "failed",
                   "outcome_unknown"}

TerminalState == {"rejected", "expired", "cancelled", "succeeded", "failed",
                  "outcome_unknown"}

is_terminal(s) == s \in TerminalState

OperationKind == {"read_query", "document_read", "write_sql", "ddl", "privilege",
                  "sql_script", "table_data_change", "schema_change", "import",
                  "export", "migration", "dashboard_create", "plugin_action",
                  "provider_action"}

is_resumable_job(k) == k \in {"import", "export"}

may_mutate_target(k) ==
    k \in {"write_sql", "ddl", "privilege", "sql_script", "table_data_change",
           "schema_change", "import", "migration", "plugin_action", "provider_action"}

OperationActorKind == {"local_user", "workspace_user", "agent", "plugin", "system"}

OperationEventKind == {"proposed", "planned", "approval_requested", "approved",
                       "rejected", "execution_started", "progress", "succeeded",
                       "failed", "cancelled", "outcome_unknown", "expired"}

(* Mutant: a claimed operation may be put back to ready. *)
ensure_transition_reclaim(from, to) ==
    \/ from = "planned" /\ to \in {"pending_approval", "ready", "cancelled", "expired"}
    \/ from = "pending_approval" /\ to \in {"approved", "rejected", "cancelled", "expired"}
    \/ from \in {"ready", "approved"} /\ to \in {"executing", "cancelled", "expired"}
    \/ from = "executing" /\ to \in {"ready", "succeeded", "failed", "cancelled", "outcome_unknown"}

(* The lifecycle: which state may follow which. *)
ensure_transition(from, to) ==
    \/ from = "planned" /\ to \in {"pending_approval", "ready", "cancelled", "expired"}
    \/ from = "pending_approval" /\ to \in {"approved", "rejected", "cancelled", "expired"}
    \/ from \in {"ready", "approved"} /\ to \in {"executing", "cancelled", "expired"}
    \/ from = "executing" /\ to \in {"succeeded", "failed", "cancelled", "outcome_unknown"}

(* Mutant: the event is named after the state, also where no such event exists. *)
transition_event_kind_mutant(target) ==
    IF target = "executing" THEN "execution_started" ELSE target

(* The event recorded for the move to a state. *)
transition_event_kind(target) ==
    IF target \in {"planned", "ready"} THEN "planned"
    ELSE IF target = "pending_approval" THEN "approval_requested"
    ELSE IF target = "executing" THEN "execution_started"
    ELSE target

(* Mutant: an interrupted mutation is reported as failed. *)
restart_recovery_mutant(kind, s) ==
    IF is_terminal(s) THEN s
    ELSE IF s # "executing" THEN "expired"
    ELSE IF is_resumable_job(kind) THEN s
    ELSE "failed"

(* The state startup recovery gives an operation of an older runtime.  An  *)
(* unchanged state stands for KeepTerminal and for ValidateJobCheckpoint,  *)
(* which the caller only reports.                                          *)
restart_recovery(kind, s) ==
    IF is_terminal(s) THEN s
    ELSE IF s # "executing" THEN "expired"
    ELSE IF is_resumable_job(kind) THEN s
    ELSE IF may_mutate_target(kind) THEN "outcome_unknown"
    ELSE "failed"


=================================================================================
