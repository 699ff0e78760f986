---------------------------- MODULE OperationRuntime ----------------------------
(***************************************************************************)
(* The durable Operation Runtime: src-tauri/src/operations/repository.rs    *)
(* (the SQLite projection, the approvals and the hash-chained event ledger) *)
(* and runtime.rs (the crate-private API every service goes through).       *)
(*                                                                          *)
(* One repository method is one step: it runs in a single SQLite            *)
(* transaction.  plan() is the exception, it is two transactions, so a plan *)
(* call is kept in planCalls between them.  A method that returns an error  *)
(* without committing anything is a stuttering step and has no action.      *)
(*                                                                          *)
(* The callers are arbitrary: any live runtime may call any method on any   *)
(* operation at any moment with any argument.  The callers the code really  *)
(* has are modelled in SqlExecution, which refines this module.             *)
(***************************************************************************)
EXTENDS OperationLifecycle, Integers, Sequences

CONSTANTS
    Runtimes,       \* runtime ids, one per start of the application
    Ops,            \* operation ids
    Kinds,          \* the operation kinds callers plan
    Payloads,       \* canonical payload hashes
    Policies,       \* policy revisions
    Keys,           \* idempotency keys, each scoped to one workspace and actor
    Lifetimes,      \* the time-to-live values callers give to a plan
    NoExpiry,       \* expires_at IS NULL
    NoRow,          \* the operation id has no row in operations
    Hashes,         \* event hashes
    NoHash,         \* prev_hash IS NULL
    EventHash(_, _, _, _, _),  \* SHA-256 of the canonical event JSON
    MaxTime,        \* bound on the wall clock
    MaxProgress     \* bound on the length of a ledger that takes progress events

ASSUME KindsAssumption == Kinds \subseteq OperationKind
ASSUME TimeAssumption ==
    /\ MaxTime \in Nat
    /\ MaxProgress \in Nat
    /\ Lifetimes \subseteq Nat
    /\ NoExpiry \notin Int
ASSUME HashAssumption ==
    /\ NoHash \notin Hashes
    /\ \A o \in Ops, n \in 1..(MaxProgress + 5), k \in OperationEventKind,
          s \in OperationState, p \in Hashes \cup {NoHash} :
             EventHash(o, n, k, s, p) \in Hashes

VARIABLES
    runtime,    \* runtime[r]: "unused", "live" or "dead"
    plan,       \* plan[o]: the immutable columns of operation o, or NoRow
    state,      \* state[o]: the state column of operation o, or NoRow
    approvals,  \* the rows of operation_approvals
    events,     \* events[o]: the rows of operation_events of o, by sequence
    planCalls,  \* plan() calls between their insert and their transition
    now         \* the wall clock

vars == <<runtime, plan, state, approvals, events, planCalls, now>>

Time == 0..MaxTime

Expiry == Nat \cup {NoExpiry}

PlanRow == [runtime: Runtimes, kind: Kinds, payload: Payloads, policy: Policies,
            key: Keys, expires_at: Expiry, created_at: Time]

ASSUME NoRowAssumption == NoRow \notin OperationState /\ NoRow \notin PlanRow

Decision == {"approved", "rejected"}

ApprovalRow == [op: Ops, payload: Payloads, policy: Policies, decision: Decision,
                approver: OperationActorKind, expires_at: Expiry]

EventRow == [sequence: Nat, kind: OperationEventKind, state: OperationState,
             prev_hash: Hashes \cup {NoHash}, hash: Hashes]

PlanCall == [rt: Runtimes, op: Ops, target: {"ready", "pending_approval"}]

--------------------------------------------------------------------------------

Exists(o) == state[o] # NoRow

Expired(e, t) == e # NoExpiry /\ e <= t

(* ensure_runtime: the caller is a live process and owns the operation. *)
ensure_runtime(r, o) == runtime[r] = "live" /\ Exists(o) /\ plan[o].runtime = r

(* The row append_event_tx adds after the ledger es of operation o. *)
NextEvent(o, es, kind, s) ==
    LET sequence == Len(es) + 1
        prev     == IF es = <<>> THEN NoHash ELSE es[Len(es)].hash
    IN  [sequence |-> sequence, kind |-> kind, state |-> s, prev_hash |-> prev,
         hash |-> EventHash(o, sequence, kind, s, prev)]

append_event_tx(o, kind, s) == Append(events[o], NextEvent(o, events[o], kind, s))

(* The checked projection update and its ledger row, in one transaction. *)
transition_tx(o, target) ==
    /\ ensure_transition(state[o], target)
    /\ state' = [state EXCEPT ![o] = target]
    /\ events' = [events EXCEPT ![o] = append_event_tx(o, transition_event_kind(target), target)]

(* Utc::now() is read before the caller waits for the write lock, so the   *)
(* time a method compares with expires_at may be any moment since the row  *)
(* was created.                                                            *)
CapturedTimes(o) == plan[o].created_at..now

Init ==
    /\ runtime = [r \in Runtimes |-> "unused"]
    /\ plan = [o \in Ops |-> NoRow]
    /\ state = [o \in Ops |-> NoRow]
    /\ approvals = {}
    /\ events = [o \in Ops |-> <<>>]
    /\ planCalls = {}
    /\ now = 0

--------------------------------------------------------------------------------
(* Planning. *)

Disposition(kind) ==
    IF may_mutate_target(kind) THEN {"pending_approval"} ELSE {"ready", "pending_approval"}

(* Mutant: no idempotency lookup. *)
insert_planned_mutant(r, o, request, target) ==
    /\ runtime[r] = "live"
    /\ request.runtime = r
    /\ target \in Disposition(request.kind)
    /\ ~Exists(o)
    /\ request.created_at = now
    /\ plan' = [plan EXCEPT ![o] = request]
    /\ state' = [state EXCEPT ![o] = "planned"]
    /\ events' = [events EXCEPT ![o] = append_event_tx(o, "planned", "planned")]
    /\ planCalls' = planCalls \cup {[rt |-> r, op |-> o, target |-> target]}
    /\ UNCHANGED <<runtime, approvals, now>>

(* First transaction of plan(): the idempotency lookup, then the insert.   *)
(* A key already bound to the same immutable request returns that row; the *)
(* call goes on to the transition only while that row is still planned. A  *)
(* key bound to a different request is an error.                           *)
insert_planned(r, o, request, target) ==
    /\ runtime[r] = "live"
    /\ request.runtime = r
    /\ target \in Disposition(request.kind)
    /\ \/ /\ ~Exists(o)
          /\ \A p \in Ops : Exists(p) => plan[p].key # request.key
          /\ request.created_at = now
          /\ plan' = [plan EXCEPT ![o] = request]
          /\ state' = [state EXCEPT ![o] = "planned"]
          /\ events' = [events EXCEPT ![o] = append_event_tx(o, "planned", "planned")]
       \/ /\ state[o] = "planned"
          /\ plan[o] = [request EXCEPT !.created_at = plan[o].created_at]
          /\ UNCHANGED <<plan, state, events>>
    /\ planCalls' = planCalls \cup {[rt |-> r, op |-> o, target |-> target]}
    /\ UNCHANGED <<runtime, approvals, now>>

(* Second transaction of plan(): transition() to the disposition's state.  *)
(* Another plan call, a cancellation or a recovery may have moved the row  *)
(* first, and then the call fails.                                         *)
finish_plan(c) ==
    /\ c \in planCalls
    /\ planCalls' = planCalls \ {c}
    /\ \/ ensure_runtime(c.rt, c.op) /\ transition_tx(c.op, c.target)
       \/ /\ ~ensure_transition(state[c.op], c.target)
          /\ UNCHANGED <<state, events>>
    /\ UNCHANGED <<runtime, plan, approvals, now>>

--------------------------------------------------------------------------------
(* Deciding, claiming and finishing. *)

(* Mutant: the kind of the approver is not checked. *)
decide_approval_mutant(r, o, approver, payload, policy, decision, t) ==
    /\ ensure_runtime(r, o)
    /\ state[o] = "pending_approval"
    /\ plan[o].payload = payload
    /\ plan[o].policy = policy
    /\ ~Expired(plan[o].expires_at, t)
    /\ approvals' = approvals \cup
          {[op |-> o, payload |-> payload, policy |-> policy, decision |-> decision,
            approver |-> approver, expires_at |-> plan[o].expires_at]}
    /\ transition_tx(o, decision)
    /\ UNCHANGED <<runtime, plan, planCalls, now>>

(* approve_exact and reject_exact: payload is the hash the user reviewed,  *)
(* policy the revision the caller captured, t the captured time.  An       *)
(* expired operation is moved to expired and that is committed.            *)
decide_approval(r, o, approver, payload, policy, decision, t) ==
    /\ approver \in {"local_user", "workspace_user"}
    /\ ensure_runtime(r, o)
    /\ state[o] = "pending_approval"
    /\ plan[o].payload = payload
    /\ plan[o].policy = policy
    /\ \/ /\ Expired(plan[o].expires_at, t)
          /\ transition_tx(o, "expired")
          /\ UNCHANGED approvals
       \/ /\ ~Expired(plan[o].expires_at, t)
          /\ approvals' = approvals \cup
                {[op |-> o, payload |-> payload, policy |-> policy, decision |-> decision,
                  approver |-> approver, expires_at |-> plan[o].expires_at]}
          /\ transition_tx(o, decision)
    /\ UNCHANGED <<runtime, plan, planCalls, now>>

(* The EXISTS query of claim_execution. *)
HasExactApproval(o, t) ==
    \E a \in approvals :
        /\ a.op = o
        /\ a.payload = plan[o].payload
        /\ a.decision = "approved"
        /\ a.policy = plan[o].policy
        /\ ~Expired(a.expires_at, t)

claim_execution(r, o, t) ==
    /\ ensure_runtime(r, o)
    /\ state[o] \in {"ready", "approved"}
    /\ ~(state[o] = "ready" /\ may_mutate_target(plan[o].kind))
    /\ \/ Expired(plan[o].expires_at, t) /\ transition_tx(o, "expired")
       \/ /\ ~Expired(plan[o].expires_at, t)
          /\ state[o] = "approved" => HasExactApproval(o, t)
          /\ transition_tx(o, "executing")
    /\ UNCHANGED <<runtime, plan, approvals, planCalls, now>>

(* Mutant: progress is accepted in any state. *)
append_progress_mutant(r, o) ==
    /\ ensure_runtime(r, o)
    /\ Len(events[o]) < MaxProgress
    /\ events' = [events EXCEPT ![o] = append_event_tx(o, "progress", state[o])]
    /\ UNCHANGED <<runtime, plan, state, approvals, planCalls, now>>

append_progress(r, o) ==
    /\ ensure_runtime(r, o)
    /\ state[o] = "executing"
    /\ Len(events[o]) < MaxProgress
    /\ events' = [events EXCEPT ![o] = append_event_tx(o, "progress", state[o])]
    /\ UNCHANGED <<runtime, plan, state, approvals, planCalls, now>>

(* succeed, fail, confirm_cancelled, cancel_before_execution and           *)
(* mark_outcome_unknown: transition() with a fixed target.                 *)
finish(r, o, target) ==
    /\ ensure_runtime(r, o)
    /\ transition_tx(o, target)
    /\ UNCHANGED <<runtime, plan, approvals, planCalls, now>>

--------------------------------------------------------------------------------
(* Starting, crashing and time. *)

Recovers(r, o) == Exists(o) /\ plan[o].runtime # r /\ ~is_terminal(state[o])

(* Mutant: recovery updates the projection and writes no event. *)
recover_previous_runtimes_mutant(r) ==
    /\ runtime[r] = "unused"
    /\ runtime' = [runtime EXCEPT ![r] = "live"]
    /\ state' = [o \in Ops |-> IF Recovers(r, o)
                               THEN restart_recovery(plan[o].kind, state[o])
                               ELSE state[o]]
    /\ UNCHANGED <<plan, approvals, events, planCalls, now>>

(* AppState::new: a fresh runtime id, then one transaction over every open *)
(* operation of every other runtime, before any other call of r.  Nothing  *)
(* stops a second process from starting while the first still runs.        *)
recover_previous_runtimes(r) ==
    LET target == [o \in Ops |-> IF Recovers(r, o)
                                 THEN restart_recovery(plan[o].kind, state[o])
                                 ELSE state[o]]
    IN  /\ runtime[r] = "unused"
        /\ runtime' = [runtime EXCEPT ![r] = "live"]
        /\ \A o \in Ops : target[o] # state[o] => ensure_transition(state[o], target[o])
        /\ state' = target
        /\ events' = [o \in Ops |->
                         IF target[o] # state[o]
                         THEN append_event_tx(o, transition_event_kind(target[o]), target[o])
                         ELSE events[o]]
        /\ UNCHANGED <<plan, approvals, planCalls, now>>

(* The process exits or is killed; what it had in flight is gone. *)
Crash(r) ==
    /\ runtime[r] = "live"
    /\ runtime' = [runtime EXCEPT ![r] = "dead"]
    /\ planCalls' = {c \in planCalls : c.rt # r}
    /\ UNCHANGED <<plan, state, approvals, events, now>>

Tick ==
    /\ now < MaxTime
    /\ now' = now + 1
    /\ UNCHANGED <<runtime, plan, state, approvals, events, planCalls>>

Requests(r) ==
    [runtime: {r}, kind: Kinds, payload: Payloads, policy: Policies, key: Keys,
     expires_at: {now + d : d \in Lifetimes} \cup {NoExpiry}, created_at: {now}]

Plan(r, o) == \E request \in Requests(r), target \in {"ready", "pending_approval"} :
                  insert_planned(r, o, request, target)

Decide(r, o) == \E approver \in OperationActorKind, payload \in Payloads,
                   policy \in Policies, decision \in Decision, t \in CapturedTimes(o) :
                       decide_approval(r, o, approver, payload, policy, decision, t)

Claim(r, o) == \E t \in CapturedTimes(o) : claim_execution(r, o, t)

Finish(r, o) == \E target \in {"succeeded", "failed", "cancelled", "outcome_unknown"} :
                    finish(r, o, target)

Next ==
    \/ \E r \in Runtimes, o \in Ops :
          \/ Plan(r, o)
          \/ Exists(o) /\ Decide(r, o)
          \/ Exists(o) /\ Claim(r, o)
          \/ append_progress(r, o)
          \/ Finish(r, o)
    \/ \E c \in planCalls : finish_plan(c)
    \/ \E r \in Runtimes : recover_previous_runtimes(r) \/ Crash(r)
    \/ Tick

Spec == Init /\ [][Next]_vars

--------------------------------------------------------------------------------
(* Properties. *)

(* Every variable has the type of its table or in-memory structure: rows   *)
(* of operations, operation_approvals and operation_events, open calls.    *)
TypeOK ==
    /\ runtime \in [Runtimes -> {"unused", "live", "dead"}]
    /\ plan \in [Ops -> PlanRow \cup {NoRow}]
    /\ state \in [Ops -> OperationState \cup {NoRow}]
    /\ \A o \in Ops : plan[o] = NoRow <=> state[o] = NoRow
    /\ approvals \in SUBSET ApprovalRow
    /\ events \in [Ops -> Seq(EventRow)]
    /\ planCalls \in SUBSET PlanCall
    /\ now \in Time

HasStarted(o) == \E i \in DOMAIN events[o] : events[o][i].kind = "execution_started"

ExactlyApproved(o) ==
    \E a \in approvals :
        /\ a.op = o
        /\ a.decision = "approved"
        /\ a.approver \in {"local_user", "workspace_user"}
        /\ a.payload = plan[o].payload
        /\ a.policy = plan[o].policy

(* Whatever the order of plans, retries, decisions, cancellations,         *)
(* recoveries and claims: if the ledger of a target-mutating operation     *)
(* records that it began to execute, a human approved exactly its payload  *)
(* under exactly its policy revision (claim_execution, decide_approval).   *)
ApprovedBeforeMutation ==
    \A o \in Ops : HasStarted(o) /\ may_mutate_target(plan[o].kind) => ExactlyApproved(o)

(* An operation is executed at most once, whatever claims race and however *)
(* often the application restarts: its ledger has at most one              *)
(* execution_started row (the compare-and-swap of claim_execution).        *)
ExecutedAtMostOnce ==
    \A o \in Ops : \A i, j \in DOMAIN events[o] :
        /\ events[o][i].kind = "execution_started"
        /\ events[o][j].kind = "execution_started"
        => i = j

(* The verifier of the code: sequence numbers, the first row, the hash     *)
(* links, every row's own hash, and the tail against the projection.       *)
verify_event_chain(o) ==
    LET es == events[o]
    IN  /\ es # <<>>
        /\ \A i \in DOMAIN es :
              /\ es[i].sequence = i
              /\ es[i].prev_hash = IF i = 1 THEN NoHash ELSE es[i - 1].hash
              /\ i = 1 => es[i].kind = "planned" /\ es[i].state = "planned"
              /\ es[i].hash = EventHash(o, es[i].sequence, es[i].kind, es[i].state,
                                        es[i].prev_hash)
        /\ es[Len(es)].state = state[o]

(* No reachable state of the store fails its own tamper check: every       *)
(* existing operation's event ledger verifies (verify_event_chain), also   *)
(* right after the batch of startup recovery.                              *)
LedgerVerifies == \A o \in Ops : Exists(o) => verify_event_chain(o)

(* The ledger is a legal history: two consecutive rows are related by      *)
(* ensure_transition, or the later one is progress in an unchanged state.  *)
LedgerIsLegal ==
    \A o \in Ops : \A i \in DOMAIN events[o] :
        i > 1 =>
          LET before == events[o][i - 1]
              after  == events[o][i]
          IN  \/ ensure_transition(before.state, after.state)
              \/ after.kind = "progress" /\ before.state = "executing" /\ after.state = "executing"

(* The ledger can be believed: it passes the code's own verifier and what  *)
(* it tells is a path of the lifecycle, whatever was retried, interrupted  *)
(* or recovered (verify_event_chain, ensure_transition).                   *)
LedgerIsSound == LedgerVerifies /\ LedgerIsLegal

(* At most one operation exists per scoped idempotency key, however plan   *)
(* calls are retried and interleaved (insert_planned).                     *)
KeyBindsOneOperation ==
    \A o, p \in Ops : Exists(o) /\ Exists(p) /\ plan[o].key = plan[p].key => o = p

(* Once its owning process is gone an operation can only be closed by      *)
(* recovery: it never starts, succeeds, is decided or cancelled afterwards *)
(* (ensure_runtime), and only an open one is closed.                       *)
OrphansAreOnlyRecovered ==
    [][\A o \in Ops : Exists(o) /\ runtime[plan[o].runtime] = "dead" =>
          \/ state'[o] = state[o] /\ events'[o] = events[o]
          \/ ~is_terminal(state[o]) /\ state'[o] \in {"expired", "failed", "outcome_unknown"}]_vars

(* Recovery tells the truth about effects: an operation that began to      *)
(* mutate its target and was interrupted is never closed as failed or      *)
(* expired by a starting process, and one that never began is never closed *)
(* as outcome_unknown (restart_recovery).                                  *)
RecoveryIsHonest ==
    [][\A r \in Runtimes, o \in Ops :
          runtime[r] = "unused" /\ runtime'[r] = "live" /\ state'[o] # state[o] =>
             (state'[o] = "outcome_unknown" <=>
                 HasStarted(o) /\ may_mutate_target(plan[o].kind))]_vars

(* A terminal outcome is final: neither the projection nor the ledger of a *)
(* finished operation changes again, whoever calls what (ensure_transition *)
(* and the append-only triggers).                                          *)
TerminalIsFinal ==
    [][\A o \in Ops : is_terminal(state[o]) =>
          state'[o] = state[o] /\ events'[o] = events[o] /\ plan'[o] = plan[o]]_vars

================================================================================
