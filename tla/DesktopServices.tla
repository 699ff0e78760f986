---------------------------- MODULE DesktopServices -----------------------------
(***************************************************************************)
(* The services that run more than one SQL statement through an Operation: *)
(* scripts (services/script_service.rs), typed document reads              *)
(* (services/document_service.rs, mongo/query.rs) and the pg_monitor role  *)
(* (services/monitoring_service.rs, monitoring/mod.rs).                    *)
(*                                                                         *)
(* The Operation store is reduced to the lifecycle of OperationLifecycle;  *)
(* the module OperationRuntime has its details.  plan() is one step, since *)
(* the id of a new operation is known to its caller only.  One connection  *)
(* is served; its engine decides which services accept it.                 *)
(***************************************************************************)
EXTENDS OperationLifecycle, Integers, Sequences, FiniteSets

CONSTANTS
    Ops, Workers,
    Engines,         \* of "postgres", "mysql", "mongodb"
    Scripts,         \* scripts, as the kinds of their statements
    Queries,         \* typed document requests
    RowRequests,     \* the rows an agent may ask for
    MaxRowsSettings, \* the row cap a user may configure
    MaxAgentRows, MaxDesktopRows,  \* the caps of the code
    MaxMatching,     \* bound on the documents that match a request
    MaxRevision,     \* bound on policy changes
    MaxRestarts,     \* bound on restarts
    StoreMayFail     \* may a write to the local store fail?

(* "write", "ddl" and "privilege" are what L1 says and what the target     *)
(* does.  "commit" is transaction control.  "implicit" changes the target  *)
(* and commits implicitly on MySQL (RENAME TABLE, CREATE TRIGGER or        *)
(* PROCEDURE, LOCK TABLES, DDL the parser does not know).  L1 has no rule  *)
(* for these two and calls them writes.                                    *)
StatementKind == {"read", "write", "ddl", "privilege", "commit", "implicit"}

L1Kind(kind) == IF kind \in {"commit", "implicit"} THEN "write" ELSE kind

NoLimit == -1

ASSUME ServicesAssumption ==
    /\ Engines \subseteq {"postgres", "mysql", "mongodb"}
    /\ Scripts \subseteq Seq(StatementKind)
    /\ Queries \subseteq [shape: {"find", "aggregate", "count"}, limit: Nat \cup {NoLimit},
                          class: {"read", "write"}]
    /\ RowRequests \subseteq Nat
    /\ MaxRowsSettings \subseteq Nat
    /\ MaxAgentRows \in Nat /\ MaxDesktopRows \in Nat /\ MaxMatching \in Nat
    /\ MaxRevision \in Nat /\ MaxRestarts \in Nat
    /\ StoreMayFail \in BOOLEAN

VARIABLES
    engine,    \* the engine of the connection
    policy,    \* what capture_policy hashes: revision, access and settings
    op,        \* op[o]: the operation row, or NoOp
    run,       \* run[w]: where run w stands
    slot,      \* slot[o]: the cancellation slot
    db,        \* db[o]: the effect of o in the target
    page,      \* page[o]: the documents o returned
    rows,      \* rows[o]: the audit and history rows written for o
    lost,      \* operations a write to the local store failed for
    restarts   \* restarts so far

vars == <<engine, policy, op, run, slot, db, page, rows, lost, restarts>>

NoOp == [service |-> "none"]
Idle == [pc |-> "idle"]
NoPage == [count |-> 0, truncated |-> FALSE, matching |-> 0]
NoEffect == [tx |-> "none", open |-> {}, kept |-> {}]

script_has_write(s) == \E i \in DOMAIN s : L1Kind(s[i]) # "read"

Changes(kind) == kind \in {"write", "ddl", "implicit"}

(* The statements of o that change the target. *)
Effects(o) ==
    IF op[o].service = "script" THEN {i \in DOMAIN op[o].work : Changes(op[o].work[i])}
    ELSE IF op[o].service = "monitoring" THEN {1}
    ELSE {}

IsRunning(o) == \E w \in Workers : run[w] # Idle /\ run[w].op = o

Init ==
    /\ engine \in Engines
    /\ policy \in [revision: {0}, can_write: BOOLEAN, allow_writes: BOOLEAN, max_rows: MaxRowsSettings]
    /\ op = [o \in Ops |-> NoOp]
    /\ run = [w \in Workers |-> Idle]
    /\ slot = [o \in Ops |-> "absent"]
    /\ db = [o \in Ops |-> NoEffect]
    /\ page = [o \in Ops |-> NoPage]
    /\ rows = [o \in Ops |-> {}]
    /\ lost = {}
    /\ restarts = 0

--------------------------------------------------------------------------------
(* Proposals and decisions, each under the scope gate. *)

(* `requested` is the row count an agent asked for; the settings its cap   *)
(* comes from are those of the plan's policy.                              *)
PlanRequest(o, service, kind, work, requested, s) ==
    /\ op[o] = NoOp
    /\ op' = [op EXCEPT ![o] = [service |-> service, kind |-> kind, work |-> work,
                                requested |-> requested, policy |-> policy, state |-> s]]

PlanOperation(o, service, kind, work, s) == PlanRequest(o, service, kind, work, NoLimit, s)

(* Scripts: no document engine, no privilege statement, and a script that  *)
(* writes needs write access, allowed writes and an exact approval.        *)
propose_desktop(o) ==
    /\ engine # "mongodb"
    /\ \E s \in Scripts :
          /\ s # <<>>
          /\ \A i \in DOMAIN s : L1Kind(s[i]) # "privilege"
          /\ script_has_write(s) => policy.can_write /\ policy.allow_writes
          /\ IF script_has_write(s)
             THEN PlanOperation(o, "script", "sql_script", s, "pending_approval")
             ELSE PlanOperation(o, "script", "read_query", s, "ready")
    /\ UNCHANGED <<engine, policy, run, slot, db, page, rows, lost, restarts>>

propose_desktop_read(o) ==
    /\ engine = "mongodb"
    /\ \E q \in Queries : q.class = "read" /\ PlanOperation(o, "document", "document_read", q, "ready")
    /\ UNCHANGED <<engine, policy, run, slot, db, page, rows, lost, restarts>>

propose_postgres_role(o) ==
    /\ engine = "postgres" /\ policy.can_write /\ policy.allow_writes
    /\ \E sql \in {<<"grant">>, <<"revoke">>} :
          PlanOperation(o, "monitoring", "privilege", sql, "pending_approval")
    /\ UNCHANGED <<engine, policy, run, slot, db, page, rows, lost, restarts>>

(* approve_local and reject_local, a cancellation before execution, and an *)
(* expiry found by a decision or a claim.                                  *)
Decide(o) ==
    /\ op[o] # NoOp /\ op[o].state \in {"pending_approval", "ready", "approved"}
    /\ \E s \in {"approved", "rejected", "cancelled", "expired"} :
          /\ ensure_transition(op[o].state, s)
          /\ s \in {"approved", "rejected"} => op[o].policy = policy
          /\ op' = [op EXCEPT ![o].state = s]
    /\ UNCHANGED <<engine, policy, run, slot, db, page, rows, lost, restarts>>

(* A connection edit or a safety update: exclusive holder of the gate. *)
ChangePolicy ==
    /\ \A w \in Workers : run[w] = Idle
    /\ policy.revision < MaxRevision
    /\ \E revision \in {policy.revision, policy.revision + 1}, can_write, allow_writes \in BOOLEAN :
          policy' = [policy EXCEPT !.revision = revision,
                                   !.can_write = can_write, !.allow_writes = allow_writes]
    /\ UNCHANGED <<engine, op, run, slot, db, page, rows, lost, restarts>>

--------------------------------------------------------------------------------
(* Steps every run shares. *)

NewRun(o, pc) == [pc |-> pc, op |-> o, i |-> 1, outcome |-> "none", after |-> "none"]

(* The durable claim. *)
Claim(w, o, pc) ==
    /\ run[w] = Idle /\ op[o] # NoOp
    /\ op[o].state \in {"ready", "approved"}
    /\ may_mutate_target(op[o].kind) => op[o].state = "approved"
    /\ op' = [op EXCEPT ![o].state = "executing"]
    /\ run' = [run EXCEPT ![w] = NewRun(o, pc)]

Goto(w, pc) == run' = [run EXCEPT ![w].pc = pc]

(* The run goes on to write outcome to its operation, and then the history *)
(* row `after`, if any.                                                    *)
Conclude(w, outcome, after) ==
    run' = [run EXCEPT ![w].pc = "receipt", ![w].outcome = outcome, ![w].after = after]

EndRun(w) == run' = [run EXCEPT ![w] = Idle]

(* An audit row and a history row, both best effort, under the names the   *)
(* services have for it.                                                   *)
Record(o, row) ==
    \/ rows' = [rows EXCEPT ![o] = @ \cup {row}]
    \/ StoreMayFail /\ UNCHANGED rows

record_script_run(o, row) == Record(o, row)
record_desktop_outcome(o, row) == Record(o, row)
record_agent_execution(o, row) == Record(o, row)
record_monitoring_change(o, row) == Record(o, row)

guard(o) == slot' = [slot EXCEPT ![o] = "armed"]
Unguard(o) == slot' = [slot EXCEPT ![o] = "absent"]

(* cancel_query: signals a registered slot, and is lost on an absent one.  *)
cancel_query(o) ==
    /\ slot[o] = "armed"
    /\ slot' = [slot EXCEPT ![o] = "signalled"]
    /\ UNCHANGED <<engine, policy, op, run, db, page, rows, lost, restarts>>

(* Mutant: a receipt the store refuses is waited for. *)
WriteReceipt_mutant(w) ==
    LET o == run[w].op
    IN  /\ run[w].pc = "receipt"
        /\ \/ op' = [op EXCEPT ![o].state = run[w].outcome] /\ EndRun(w)
           \/ StoreMayFail /\ Goto(w, "unwritten") /\ UNCHANGED op
        /\ UNCHANGED <<engine, policy, slot, db, page, rows, lost, restarts>>

(* succeed, fail, confirm_cancelled or mark_outcome_unknown at the end of  *)
(* a run.  A success that cannot be written becomes an unknown outcome     *)
(* where the target was changed, a failure for an agent's document read;   *)
(* elsewhere the error is returned and the row stays executing.            *)
WriteReceipt(w) ==
    LET o == run[w].op
        second == IF run[w].outcome # "succeeded" THEN "none"
                  ELSE IF op[o].service = "agent_document" THEN "failed"
                  ELSE IF may_mutate_target(op[o].kind) THEN "outcome_unknown"
                  ELSE "none"
    IN  /\ run[w].pc = "receipt"
        /\ \/ /\ ensure_transition(op[o].state, run[w].outcome)
              /\ op' = [op EXCEPT ![o].state = run[w].outcome]
              /\ IF run[w].after = "none" THEN EndRun(w) ELSE Goto(w, "record")
              /\ UNCHANGED lost
           \/ /\ StoreMayFail
              /\ lost' = lost \cup {o}
              /\ IF second # "none" THEN Conclude(w, second, "none")
                 ELSE IF run[w].after = "error" THEN Goto(w, "record")
                 ELSE EndRun(w)
              /\ UNCHANGED op
        /\ UNCHANGED <<engine, policy, slot, db, page, rows, restarts>>

(* The history row a document read writes after its receipt. *)
RecordAfterReceipt(w) ==
    /\ run[w].pc = "record"
    /\ record_desktop_outcome(run[w].op, run[w].after)
    /\ EndRun(w)
    /\ UNCHANGED <<engine, policy, op, slot, db, page, lost, restarts>>

(* operation_scope.connect and lease.live(): a failure is recorded and     *)
(* fails the operation.                                                    *)
Connect(w) ==
    LET o == run[w].op
        next == CASE op[o].service = "script" /\ op[o].kind = "sql_script" -> "begin"
                  [] op[o].service = "script" /\ op[o].kind # "sql_script" -> "next_statement"
                  [] op[o].service = "monitoring" -> "set_role"
                  [] OTHER -> "query"
    IN  /\ run[w].pc = "connect"
        /\ \/ Goto(w, next) /\ UNCHANGED rows
           \/ /\ Conclude(w, "failed", "none")
              /\ IF op[o].service = "agent_document" THEN UNCHANGED rows ELSE Record(o, "error")
           \/ /\ op[o].kind # "sql_script"
              /\ Conclude(w, "failed", "none") /\ UNCHANGED rows
        /\ IF run'[w].pc = "begin" \/ (run'[w].pc = "query" /\ op[o].service = "document")
           THEN guard(o) ELSE UNCHANGED slot
        /\ UNCHANGED <<engine, policy, op, db, page, lost, restarts>>

--------------------------------------------------------------------------------
(* Scripts. *)

(* Mutant: the policy of the run is not compared with the planned one. *)
run_desktop_mutant(w, o) ==
    /\ op[o] # NoOp /\ op[o].service = "script"
    /\ Claim(w, o, IF script_has_write(op[o].work) THEN "audit" ELSE "connect")
    /\ UNCHANGED <<engine, policy, slot, db, page, rows, lost, restarts>>

(* run_desktop: gate, pin, policy, split and classification are those of   *)
(* the proposal; then the claim.  No cancellation slot exists yet.         *)
run_desktop(w, o) ==
    /\ op[o] # NoOp /\ op[o].service = "script"
    /\ op[o].policy = policy
    /\ Claim(w, o, IF script_has_write(op[o].work) THEN "audit" ELSE "connect")
    /\ UNCHANGED <<engine, policy, slot, db, page, rows, lost, restarts>>

(* One statement of run_reads, under a cancellation slot of its own. *)
NextRead(w) ==
    LET o == run[w].op
    IN  /\ run[w].pc = "next_statement"
        /\ IF run[w].i \in DOMAIN op[o].work
           THEN Goto(w, "reading") /\ guard(o) /\ UNCHANGED rows
           ELSE Conclude(w, "succeeded", "none") /\ record_script_run(o, "ok") /\ UNCHANGED slot
        /\ UNCHANGED <<engine, policy, op, db, page, lost, restarts>>

(* The statement returns, or fails, times out or is cancelled: then every  *)
(* later statement is skipped.                                             *)
run_reads(w) ==
    LET o == run[w].op
    IN  /\ run[w].pc = "reading"
        /\ \/ /\ slot[o] # "signalled"
              /\ run' = [run EXCEPT ![w].pc = "next_statement", ![w].i = @ + 1]
              /\ UNCHANGED rows
           \/ Conclude(w, "failed", "none") /\ record_script_run(o, "error")
        /\ Unguard(o)
        /\ UNCHANGED <<engine, policy, op, db, page, lost, restarts>>

(* Mutant: a script runs although its audit row could not be written. *)
AuditAttempt_mutant(w) ==
    /\ run[w].pc = "audit"
    /\ Goto(w, "connect")
    /\ record_script_run(run[w].op, "attempt")
    /\ UNCHANGED <<engine, policy, op, slot, db, page, lost, restarts>>

(* run_write and run_postgres_role between the claim and the connection:   *)
(* the early returns of run_write leave the claimed row without a receipt; *)
(* then the audit row must be written.                                     *)
AuditAttempt(w) ==
    LET o == run[w].op
    IN  /\ run[w].pc = "audit"
        /\ IF ~policy.can_write THEN EndRun(w) /\ UNCHANGED rows
           ELSE IF ~policy.allow_writes THEN EndRun(w) /\ record_script_run(o, "blocked")
           ELSE \/ Goto(w, "connect") /\ rows' = [rows EXCEPT ![o] = @ \cup {"attempt"}]
                \/ StoreMayFail /\ Conclude(w, "failed", "none") /\ UNCHANGED rows
        /\ UNCHANGED <<engine, policy, op, slot, db, page, lost, restarts>>

(* BEGIN of execute_script_transaction. *)
BeginScript(w) ==
    LET o == run[w].op
    IN  /\ run[w].pc = "begin"
        /\ \/ Goto(w, "statement") /\ db' = [db EXCEPT ![o].tx = "open"]
           \/ Goto(w, "rolled_back") /\ UNCHANGED db
        /\ UNCHANGED <<engine, policy, op, slot, page, rows, lost, restarts>>

(* The target: a statement that ends the transaction makes what it holds   *)
(* durable, and the statements after it commit one by one.                 *)
EndsTransaction(kind) == kind = "commit" \/ (kind \in {"ddl", "implicit"} /\ engine = "mysql")

Executed(d, i, kind) ==
    LET effect == IF Changes(kind) THEN {i} ELSE {}
    IN  IF EndsTransaction(kind) \/ d.tx = "ended"
        THEN [tx |-> "ended", open |-> {}, kept |-> d.kept \cup d.open \cup effect]
        ELSE [tx |-> d.tx, open |-> d.open \cup effect, kept |-> d.kept]

(* Each statement in turn; the first failure leads to a ROLLBACK. *)
execute_script_transaction(w) ==
    LET o == run[w].op
        i == run[w].i
    IN  /\ run[w].pc = "statement" /\ slot[o] # "signalled"
        /\ \/ /\ i \in DOMAIN op[o].work
              /\ db' = [db EXCEPT ![o] = Executed(@, i, op[o].work[i])]
              /\ run' = [run EXCEPT ![w].i = i + 1]
           \/ /\ i \in DOMAIN op[o].work
              /\ db' = [db EXCEPT ![o].open = {}]
              /\ Goto(w, "rolled_back") \/ Goto(w, "unknown")
           \/ /\ i \notin DOMAIN op[o].work
              /\ db' = [db EXCEPT ![o].tx = IF @ = "ended" THEN @ ELSE "committing"]
              /\ Goto(w, "committing")
        /\ UNCHANGED <<engine, policy, op, slot, page, rows, lost, restarts>>

(* The target decides a COMMIT that was sent, whoever waits for it. *)
TargetDecides(o) ==
    /\ db[o].tx = "committing"
    /\ \/ db' = [db EXCEPT ![o] = [tx |-> "ended", open |-> {}, kept |-> @.kept \cup @.open]]
       \/ db' = [db EXCEPT ![o] = [tx |-> "aborted", open |-> {}, kept |-> @.kept]]
    /\ UNCHANGED <<engine, policy, op, run, slot, page, rows, lost, restarts>>

(* Mutant: a lost commit acknowledgement counts as a commit. *)
CommitReturns_mutant(w) ==
    /\ run[w].pc = "committing"
    /\ Goto(w, "committed")
    /\ UNCHANGED <<engine, policy, op, slot, db, page, rows, lost, restarts>>

(* The commit is acknowledged, or its answer never comes. *)
CommitReturns(w) ==
    LET o == run[w].op
    IN  /\ run[w].pc = "committing"
        /\ \/ db[o].tx = "ended" /\ slot[o] # "signalled" /\ Goto(w, "committed")
           \/ Goto(w, "unknown")
        /\ UNCHANGED <<engine, policy, op, slot, db, page, rows, lost, restarts>>

(* Cancellation or timeout drops the transaction future: what is open      *)
(* rolls back, a COMMIT already sent is decided by the target.             *)
InterruptScript(w) ==
    LET o == run[w].op
    IN  /\ run[w].pc \in {"begin", "statement", "committing"}
        /\ Goto(w, "unknown")
        /\ db' = [db EXCEPT ![o].open = IF db[o].tx = "committing" THEN @ ELSE {}]
        /\ UNCHANGED <<engine, policy, op, slot, page, rows, lost, restarts>>

(* run_write asks L1, not the target. *)
HasDdl(o) == \E i \in DOMAIN op[o].work : L1Kind(op[o].work[i]) \in {"ddl", "privilege"}

(* Mutant: a script that failed on MySQL is taken for rolled back. *)
run_write_mutant(w) ==
    LET o == run[w].op
    IN  /\ run[w].pc \in {"rolled_back", "committed", "unknown"}
        /\ Unguard(o)
        /\ IF run[w].pc = "unknown" THEN Conclude(w, "outcome_unknown", "none") /\ record_script_run(o, "error")
           ELSE IF run[w].pc = "committed" THEN Conclude(w, "succeeded", "none") /\ record_script_run(o, "ok")
           ELSE Conclude(w, "failed", "none") /\ record_script_run(o, "error")
        /\ UNCHANGED <<engine, policy, op, db, page, lost, restarts>>

(* run_write after its transaction: an unconfirmed outcome, a MySQL script *)
(* with an implicit commit, or the confirmed result.  (The cached catalog  *)
(* a confirmed DDL clears is state of PinnedConnections.)                  *)
run_write(w) ==
    LET o == run[w].op
        unconfirmed == \/ run[w].pc = "unknown"
                       \/ run[w].pc = "rolled_back" /\ engine = "mysql" /\ HasDdl(o)
    IN  /\ run[w].pc \in {"rolled_back", "committed", "unknown"}
        /\ Unguard(o)
        /\ IF unconfirmed
           THEN /\ Conclude(w, "outcome_unknown", "none")
                /\ record_script_run(o, IF run[w].pc = "unknown" THEN "error" ELSE "outcome_unknown")
           ELSE IF run[w].pc = "rolled_back"
           THEN Conclude(w, "failed", "none") /\ record_script_run(o, "error")
           ELSE Conclude(w, "succeeded", "none") /\ record_script_run(o, "ok")
        /\ UNCHANGED <<engine, policy, op, db, page, lost, restarts>>

--------------------------------------------------------------------------------
(* Typed document reads. *)

Smaller(a, b) == IF a <= b THEN a ELSE b
Larger(a, b) == IF a <= b THEN b ELSE a

bounded_agent_rows(requested, configured) ==
    Smaller(IF requested = NoLimit THEN configured ELSE requested, MaxAgentRows)
bounded_desktop_rows(configured) == Smaller(Larger(configured, 1), MaxDesktopRows)

(* Mutant: a limit of zero is handed to the driver, where it means none. *)
fetch_limit_mutant(limit, max) == IF limit # NoLimit /\ limit <= max THEN limit ELSE max + 1

(* The limit handed to the driver, one past the cap when the cap decides;  *)
(* NoLimit stands for "return nothing without asking".                     *)
fetch_limit(limit, max) ==
    IF limit = 0 THEN NoLimit
    ELSE IF limit # NoLimit /\ limit <= max THEN limit
    ELSE max + 1

(* The driver (external): a limit of zero means no limit. *)
Found(n, limit) == IF limit = 0 THEN n ELSE Smaller(n, limit)

drain(n, max) == [count |-> Smaller(n, max), truncated |-> n > max]

(* mongo/query.rs run over n matching documents. *)
DocumentRun(q, max_rows, n) ==
    LET max == Larger(max_rows, 1)
        fetch == fetch_limit(q.limit, max)
    IN  CASE q.shape = "find" /\ fetch = NoLimit -> [count |-> 0, truncated |-> FALSE]
          [] q.shape = "find" /\ fetch # NoLimit -> drain(Found(n, fetch), max)
          [] q.shape = "aggregate" -> drain(n, max)
          [] q.shape = "count" -> [count |-> 1, truncated |-> FALSE]

run_desktop_read(w, o) ==
    /\ op[o] # NoOp /\ op[o].service = "document"
    /\ op[o].policy = policy
    /\ Claim(w, o, "connect")
    /\ UNCHANGED <<engine, policy, slot, db, page, rows, lost, restarts>>

(* run_agent_read plans its operation and then claims it, in one request   *)
(* under the pin's guard of the gate.  A request that is not a read is     *)
(* only audited.                                                           *)
run_agent_read(o) ==
    /\ engine = "mongodb"
    /\ \E q \in Queries, requested \in RowRequests \cup {NoLimit} :
          /\ q.class = "read"
          /\ PlanRequest(o, "agent_document", "document_read", q, requested, "ready")
    /\ UNCHANGED <<engine, policy, run, slot, db, page, rows, lost, restarts>>

(* A claim that fails, or that comes after a decision of the user, ends    *)
(* the request and leaves the row as it is: no step of the model.          *)
claim_agent_read(w, o) ==
    /\ op[o] # NoOp /\ op[o].service = "agent_document"
    /\ op[o].policy = policy
    /\ Claim(w, o, "connect")
    /\ UNCHANGED <<engine, policy, slot, db, page, rows, lost, restarts>>

Return(o, cap, n) ==
    LET result == DocumentRun(op[o].work, cap, n)
    IN  page' = [page EXCEPT ![o] = [count |-> result.count, matching |-> n,
                                     truncated |-> result.truncated]]

(* An agent's query has no cancellation slot and no guard in the client,   *)
(* only maxTimeMS at the server: nothing bounds it when the target is      *)
(* silent.  Its outcome is recorded before the receipt.                    *)
AgentQueryReturns(w) ==
    LET o == run[w].op
    IN  /\ run[w].pc = "query" /\ op[o].service = "agent_document"
        /\ \/ /\ \E n \in 0..MaxMatching : Return(o, bounded_agent_rows(op[o].requested, op[o].policy.max_rows), n)
              /\ Conclude(w, "succeeded", "none")
              /\ record_agent_execution(o, "ok")
           \/ /\ Conclude(w, "failed", "none")
              /\ record_agent_execution(o, "error")
              /\ UNCHANGED page
        /\ UNCHANGED <<engine, policy, op, slot, db, lost, restarts>>

(* A desktop query returns its page, fails, times out or is cancelled; it  *)
(* is recorded after its receipt.                                          *)
DesktopQueryReturns(w) ==
    LET o == run[w].op
    IN  /\ run[w].pc = "query" /\ op[o].service = "document"
        /\ \/ /\ slot[o] # "signalled"
              /\ \E n \in 0..MaxMatching : Return(o, bounded_desktop_rows(policy.max_rows), n)
              /\ Conclude(w, "succeeded", "ok")
           \/ slot[o] # "signalled" /\ Conclude(w, "failed", "error") /\ UNCHANGED page
           \/ slot[o] = "signalled" /\ Conclude(w, "cancelled", "error") /\ UNCHANGED page
        /\ Unguard(o)
        /\ UNCHANGED <<engine, policy, op, db, rows, lost, restarts>>

--------------------------------------------------------------------------------
(* The pg_monitor role. *)

run_postgres_role(w, o) ==
    /\ op[o] # NoOp /\ op[o].service = "monitoring"
    /\ policy.can_write /\ policy.allow_writes /\ op[o].policy = policy
    /\ Claim(w, o, "audit")
    /\ UNCHANGED <<engine, policy, slot, db, page, rows, lost, restarts>>

(* The GRANT or REVOKE reaches the target, which commits it by itself. *)
set_postgres_role(o) ==
    /\ \E w \in Workers : run[w].pc = "set_role" /\ run[w].op = o
    /\ db[o].tx = "none"
    /\ db' = [db EXCEPT ![o] = [tx |-> "ended", open |-> {}, kept |-> {1}]]
    /\ UNCHANGED <<engine, policy, op, run, slot, page, rows, lost, restarts>>

(* Its call returns: any error, and the two-second timeout, leave the      *)
(* outcome unknown.                                                        *)
RoleReturns(w) ==
    LET o == run[w].op
    IN  /\ run[w].pc = "set_role"
        /\ \/ /\ db[o].tx = "ended"
              /\ Conclude(w, "succeeded", "none")
              /\ record_monitoring_change(o, "ok")
           \/ Conclude(w, "outcome_unknown", "none") /\ record_monitoring_change(o, "error")
        /\ UNCHANGED <<engine, policy, op, slot, db, page, lost, restarts>>

--------------------------------------------------------------------------------

(* The app exits and starts again: runs and slots are gone, open work in   *)
(* the target rolls back, and recovery closes every open operation.        *)
Restart ==
    /\ restarts < MaxRestarts
    /\ restarts' = restarts + 1
    /\ run' = [w \in Workers |-> Idle]
    /\ slot' = [o \in Ops |-> "absent"]
    /\ op' = [o \in Ops |-> IF op[o] = NoOp THEN NoOp
                            ELSE [op[o] EXCEPT !.state = restart_recovery(op[o].kind, @)]]
    /\ db' = [o \in Ops |-> IF db[o].tx = "committing" THEN db[o] ELSE [db[o] EXCEPT !.open = {}]]
    /\ UNCHANGED <<engine, policy, page, rows, lost>>

(* The steps that end whatever the target does. *)
BoundedStep(w) ==
    \/ Connect(w) \/ WriteReceipt(w) \/ RecordAfterReceipt(w)
    \/ NextRead(w) \/ run_reads(w)
    \/ AuditAttempt(w) \/ BeginScript(w) \/ execute_script_transaction(w)
    \/ CommitReturns(w) \/ InterruptScript(w) \/ run_write(w)
    \/ DesktopQueryReturns(w) \/ RoleReturns(w)

RunStep(w) == BoundedStep(w) \/ AgentQueryReturns(w)

Next ==
    \/ \E o \in Ops : \/ propose_desktop(o) \/ propose_desktop_read(o) \/ propose_postgres_role(o)
                      \/ run_agent_read(o) \/ Decide(o) \/ cancel_query(o) \/ TargetDecides(o) \/ set_postgres_role(o)
    \/ \E w \in Workers, o \in Ops : \/ run_desktop(w, o) \/ run_desktop_read(w, o)
                                     \/ claim_agent_read(w, o) \/ run_postgres_role(w, o)
    \/ \E w \in Workers : RunStep(w)
    \/ ChangePolicy \/ Restart

(* The statement timeout bounds what a script or a desktop query waits     *)
(* for, two seconds bound a role change, the connection pools bound a      *)
(* connection, and the store answers.  An agent's query has no such bound  *)
(* and no fairness.                                                        *)
Spec == Init /\ [][Next]_vars /\ \A w \in Workers : WF_vars(BoundedStep(w))

--------------------------------------------------------------------------------
(* Properties. *)

(* Does L1 see every statement of o that ends its transaction?  It misses  *)
(* transaction control, and on MySQL the implicit commits it calls writes. *)
CommitsAreSeen(o) ==
    op[o].service = "script" =>
        \A i \in DOMAIN op[o].work : EndsTransaction(op[o].work[i]) => L1Kind(op[o].work[i]) = "ddl"

(* The receipt of a script or of a role change tells what became of the    *)
(* target: all of it is durable after a success; after a failure, a        *)
(* cancellation or a refusal nothing more will be, and nothing is unless   *)
(* the script has a statement whose commit L1 does not see.                *)
HonestServiceReceipts ==
    \A o \in Ops : op[o] # NoOp /\ may_mutate_target(op[o].kind) =>
        /\ op[o].state = "succeeded" => db[o].kept = Effects(o)
        /\ op[o].state \in TerminalState \ {"succeeded", "outcome_unknown"} =>
              /\ db[o].tx # "committing" /\ db[o].open = {}
              /\ CommitsAreSeen(o) => db[o].kept = {}

(* No statement of a script, and no role change, reaches the target before *)
(* the audit log has its attempt.                                          *)
AttemptIsAudited ==
    \A o \in Ops : db[o].kept \cup db[o].open # {} => "attempt" \in rows[o]

(* An executing operation has a run that will write its receipt, unless    *)
(* the store refused that receipt: no early return of a service forgets    *)
(* the claimed row.                                                        *)
ExecutingIsOwned ==
    \A o \in Ops : op[o] # NoOp /\ op[o].state = "executing" => IsRunning(o) \/ o \in lost

(* A history row that says ok is about a durable effect, whatever receipt  *)
(* the operation ends with, and a succeeded operation has no error row.    *)
HistoryAgreesWithTarget ==
    \A o \in Ops : op[o] # NoOp =>
        /\ "ok" \in rows[o] /\ may_mutate_target(op[o].kind) => db[o].kept = Effects(o)
        /\ op[o].state = "succeeded" => rows[o] \cap {"error", "outcome_unknown", "blocked"} = {}

(* A page holds what the request and the cap allow, and it says truncated  *)
(* exactly when the cap cut off documents the request asked for.  The cap  *)
(* is the user's setting, or the row count the agent asked for instead of  *)
(* it, under the code's own maximum.                                       *)
PageIsExact ==
    \A o \in Ops : op[o] # NoOp /\ page[o] # NoPage /\ op[o].work.shape # "count" =>
        LET q == op[o].work
            wanted == IF q.shape = "find" /\ q.limit # NoLimit THEN Smaller(page[o].matching, q.limit)
                                                              ELSE page[o].matching
            cap == Larger(1, IF op[o].service = "document"
                             THEN Smaller(Larger(op[o].policy.max_rows, 1), MaxDesktopRows)
                             ELSE Smaller(IF op[o].requested # NoLimit THEN op[o].requested
                                          ELSE op[o].policy.max_rows, MaxAgentRows))
        IN  page[o].count = Smaller(wanted, cap) /\ page[o].truncated = (wanted > cap)

(* What these services say of a run agrees with its target: the audit row  *)
(* comes before the effect, the receipt and the history row do not         *)
(* contradict it, and a page shows what matched.                           *)
ServiceRecordsAreHonest ==
    /\ HonestServiceReceipts
    /\ AttemptIsAudited
    /\ HistoryAgreesWithTarget
    /\ PageIsExact

(* An agent's document read waits for its target. *)
AwaitsTarget(w) == run[w].pc = "query" /\ op[run[w].op].service = "agent_document"

(* Every run ends, whatever the local store does and although the target   *)
(* is silent, except that an agent's document read may wait for its query. *)
RunsEnd == \A w \in Workers : run[w] # Idle ~> (run[w] = Idle \/ AwaitsTarget(w))

=================================================================================
