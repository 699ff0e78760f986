------------------------------ MODULE SqlExecution ------------------------------
(***************************************************************************)
(* The callers of the Operation Runtime that touch a SQL target, composed  *)
(* with it: proposals, desktop runs and agent runs                         *)
(* (services/query_service.rs), local decisions and CLI cancellation       *)
(* (services/operation_service.rs), the process-wide cancellation registry *)
(* (executor/cancel.rs), the guarded write (executor/write.rs), the scope  *)
(* gate (connection/runtime.rs) and the target database itself.            *)
(*                                                                         *)
(* The operation store is an instance of OperationRuntime and is changed   *)
(* only through its operations.  One action is one stretch of a handler    *)
(* between two awaits whose order other tasks can see.                     *)
(***************************************************************************)
EXTENDS OperationLifecycle, Integers, Sequences, FiniteSets

CONSTANTS
    Runtimes, Ops, Kinds, Payloads, Policies, Keys, Lifetimes,
    NoExpiry, NoRow, Hashes, NoHash, EventHash(_, _, _, _, _), MaxTime, MaxProgress,
    Workers,         \* run requests that can be in flight at once
    Cancellers,      \* CLI cancel requests that can be in flight at once
    AgentOps,        \* the operation ids agents plan; the others are desktop's
    AutocommitKinds, \* kinds whose statement the target commits by itself
    MayOverlap,      \* may a second process start while one is running?
    StoreMayFail,    \* may writing a receipt to the local store fail?
    SafetySettings,  \* the safety settings of the connection
    MaxScope,        \* bound on scope revisions
    MaxDecisions     \* bound on local decisions in flight

ASSUME SwitchAssumption ==
    /\ AgentOps \subseteq Ops
    /\ AutocommitKinds \subseteq OperationKind
    /\ MayOverlap \in BOOLEAN
    /\ StoreMayFail \in BOOLEAN
    /\ MaxScope \in Nat
    /\ MaxDecisions \in Nat
    /\ IsFiniteSet(Workers)

(* What the services plan is in the store's vocabulary: the operation id   *)
(* is the idempotency key, the captured policy a policy revision.          *)
ASSUME RequestAssumption ==
    /\ Ops \subseteq Keys
    /\ (0..MaxScope) \X (SafetySettings \cup {"any"}) \subseteq Policies
    /\ AgentOps # {} => "read_query" \in Kinds

VARIABLES
    runtime, plan, state, approvals, events, planCalls, now,  \* OperationRuntime
    policy,     \* the policy in force: the scope and the safety settings
    run,        \* run[w]: where run request w stands, and for which operation
    slot,       \* slot[o]: the cancellation slot of o: its handles, its signal
    cancels,    \* cancels[c]: a CLI cancel between its read and its act
    decisions,  \* local decisions between exact_request and decide_exact
    target,     \* target[o]: the effect of o in the target database
    audited     \* operations with an "execute:attempt" audit row

store == <<runtime, plan, state, approvals, events, planCalls, now>>
client == <<run, slot, cancels, decisions>>
vars == <<store, policy, client, target, audited>>

Store == INSTANCE OperationRuntime

(* The assumptions of OperationRuntime. *)
ASSUME StoreAssumption ==
    /\ Kinds \subseteq OperationKind
    /\ MaxTime \in Nat /\ MaxProgress \in Nat /\ Lifetimes \subseteq Nat /\ NoExpiry \notin Int
    /\ NoRow \notin OperationState /\ NoRow \notin Store!PlanRow
    /\ NoHash \notin Hashes
    /\ \A o \in Ops, n \in 1..(MaxProgress + 5), k \in OperationEventKind,
          s \in OperationState, p \in Hashes \cup {NoHash} :
             EventHash(o, n, k, s, p) \in Hashes

--------------------------------------------------------------------------------
(* Policy, scope gate and cancellation slots. *)

(* capture_policy hashes the scope, the connection and the safety settings *)
(* of the moment; capture_agent_read_policy leaves the settings out.       *)
Revision(o) == IF o \in AgentOps THEN <<policy.scope, "any">>
                                 ELSE <<policy.scope, policy.safety>>

Idle == [pc |-> "idle"]
At(w, o, pcs) == run[w] # Idle /\ run[w].op = o /\ run[w].pc \in pcs

(* Desktop runs own a read guard of the scope gate from their checks to    *)
(* their end, agent runs from pin() on, a proposal for its whole duration. *)
HoldsScope(w) == \/ run[w].pc \in {"connecting", "executing", "sent", "committing", "ok"}
                 \/ run[w] # Idle /\ run[w].op \notin AgentOps

GateIsFree(r) == /\ \A w \in Workers : HoldsScope(w) => run[w].rt # r
                 /\ \A c \in planCalls : c.rt # r

NoSlot == [handles |-> 0, signal |-> FALSE]

register(o) == slot' = [slot EXCEPT ![o].handles = @ + 1]

(* Mutant: the first handle to drop removes the slot of every other one.   *)
drop_handle_mutant(o) == [slot EXCEPT ![o] = NoSlot]

(* Drop for CancelHandle. *)
drop_handle(o) ==
    [slot EXCEPT ![o] = IF @.handles > 1 THEN [handles |-> @.handles - 1, signal |-> @.signal]
                                         ELSE NoSlot]

(* cancel(): signals a registered slot, and is lost on an absent one. *)
SignalSlot(o) == slot' = [slot EXCEPT ![o].signal = @ \/ slot[o].handles > 0]

Signalled(o) == slot[o].signal

IsWrite(o) == may_mutate_target(plan[o].kind)

Init ==
    /\ Store!Init
    /\ \E s \in SafetySettings : policy = [scope |-> 0, safety |-> s]
    /\ run = [w \in Workers |-> Idle]
    /\ slot = [o \in Ops |-> NoSlot]
    /\ cancels = [c \in Cancellers |-> Idle]
    /\ decisions = {}
    /\ target = [o \in Ops |-> "idle"]
    /\ audited = {}

--------------------------------------------------------------------------------
(* Proposals and decisions. *)

(* The request both proposals make: a fresh id that is also the            *)
(* idempotency key, the policy of the moment, a time-to-live.              *)
PlanRequest(r, o, kind, payload, d) ==
    [runtime |-> r, kind |-> kind, payload |-> payload, policy |-> Revision(o), key |-> o,
     expires_at |-> now + d, created_at |-> now]

(* propose_sql up to the insert: a read is ready, a write needs approval.  *)
propose_sql(r, o) ==
    /\ o \notin AgentOps /\ ~Store!Exists(o)
    /\ \E kind \in Kinds, payload \in Payloads, d \in Lifetimes :
          Store!insert_planned(r, o, PlanRequest(r, o, kind, payload, d),
                               IF may_mutate_target(kind) THEN "pending_approval" ELSE "ready")
    /\ UNCHANGED <<policy, client, target, audited>>

(* plan_agent_read_scoped up to the insert: only a single read is planned. *)
plan_agent_read_scoped(r, o) ==
    /\ o \in AgentOps /\ ~Store!Exists(o)
    /\ \E payload \in Payloads, d \in Lifetimes :
          Store!insert_planned(r, o, PlanRequest(r, o, "read_query", payload, d), "ready")
    /\ UNCHANGED <<policy, client, target, audited>>

(* The second half of plan(), still under the proposal's scope guard. *)
FinishProposal(c) == Store!finish_plan(c) /\ UNCHANGED <<policy, client, target, audited>>

(* ensure_operation_scope: the workspace, account, connection and its      *)
(* revision are the planned ones.                                          *)
ensure_operation_scope(o) == plan[o].policy[1] = policy.scope

(* exact_request: the policy revision is captured under the scope gate,    *)
(* and the gate is released before the decision is written.                *)
exact_request(r, o) ==
    /\ runtime[r] = "live"
    /\ Store!Exists(o) /\ ensure_operation_scope(o)
    /\ Cardinality(decisions) < MaxDecisions
    /\ decisions' = decisions \cup {[rt |-> r, op |-> o, policy |-> Revision(o)]}
    /\ UNCHANGED <<store, policy, run, slot, cancels, target, audited>>

(* approve_local and reject_local after exact_request. *)
DecideLocal(d) ==
    /\ decisions' = decisions \ {d}
    /\ \/ \E decision \in Store!Decision, t \in Store!CapturedTimes(d.op) :
             Store!decide_approval(d.rt, d.op, "local_user", plan[d.op].payload, d.policy,
                                   decision, t)
       \/ /\ \/ state[d.op] # "pending_approval"
             \/ plan[d.op].runtime # d.rt
             \/ plan[d.op].policy # d.policy
          /\ UNCHANGED store
    /\ UNCHANGED <<policy, run, slot, cancels, target, audited>>

(* A workspace switch or connection edit (new scope revision), or a safety *)
(* update: each holds the gate exclusively in the process that makes it.   *)
ChangePolicy(r) ==
    /\ runtime[r] = "live"
    /\ GateIsFree(r)
    /\ \/ policy.scope < MaxScope /\ policy' = [policy EXCEPT !.scope = @ + 1]
       \/ \E s \in SafetySettings \ {policy.safety} : policy' = [policy EXCEPT !.safety = s]
    /\ UNCHANGED <<store, client, target, audited>>

--------------------------------------------------------------------------------
(* Runs. *)

Goto(w, pc) == run' = [run EXCEPT ![w].pc = pc]

(* Mutant: the policy captured at the run is not compared with the plan's. *)
StartDesktopRun_mutant(w, r, o) ==
    /\ run[w] = Idle /\ o \notin AgentOps
    /\ runtime[r] = "live" /\ Store!Exists(o) /\ plan[o].runtime = r
    /\ register(o)
    /\ run' = [run EXCEPT ![w] = [pc |-> "registered", rt |-> r, op |-> o]]
    /\ UNCHANGED <<store, policy, cancels, decisions, target, audited>>

(* run_desktop_sql up to register(): scope gate, pin, and the policy must  *)
(* be the planned one; every other refusal on the way changes nothing.  A  *)
(* run of another process's operation is refused by the claim.             *)
StartDesktopRun(w, r, o) ==
    /\ run[w] = Idle /\ o \notin AgentOps
    /\ runtime[r] = "live" /\ Store!Exists(o) /\ plan[o].runtime = r
    /\ Revision(o) = plan[o].policy
    /\ register(o)
    /\ run' = [run EXCEPT ![w] = [pc |-> "registered", rt |-> r, op |-> o]]
    /\ UNCHANGED <<store, policy, cancels, decisions, target, audited>>

(* prepare_agent_run_scoped up to register(): no gate and no policy check. *)
StartAgentRun(w, r, o) ==
    /\ run[w] = Idle /\ o \in AgentOps
    /\ runtime[r] = "live" /\ Store!Exists(o) /\ plan[o].runtime = r
    /\ state[o] # "expired"
    /\ register(o)
    /\ run' = [run EXCEPT ![w] = [pc |-> "registered", rt |-> r, op |-> o]]
    /\ UNCHANGED <<store, policy, cancels, decisions, target, audited>>

(* The run is over: its cancellation handle and its scope guard drop. *)
EndRun(w) == run' = [run EXCEPT ![w] = Idle] /\ slot' = drop_handle(run[w].op)

(* The durable claim; a refused or expired claim ends the run. *)
ClaimRun(w) ==
    LET o == run[w].op
    IN  /\ run[w].pc = "registered"
        /\ \/ /\ \E t \in Store!CapturedTimes(o) : Store!claim_execution(run[w].rt, o, t)
              /\ IF state'[o] = "executing"
                 THEN Goto(w, "claimed") /\ UNCHANGED slot
                 ELSE EndRun(w)
           \/ /\ \/ state[o] \notin {"ready", "approved"}
                 \/ state[o] = "ready" /\ IsWrite(o)
              /\ EndRun(w) /\ UNCHANGED store
        /\ UNCHANGED <<policy, cancels, decisions, target, audited>>

(* Mutant: a write runs although its audit row could not be written. *)
PrepareDesktopRun_mutant(w) ==
    /\ run[w].pc = "claimed" /\ run[w].op \notin AgentOps
    /\ \/ Goto(w, "connecting") /\ audited' = audited \cup {run[w].op}
       \/ Goto(w, "connecting") /\ UNCHANGED audited
    /\ UNCHANGED <<store, policy, slot, cancels, decisions, target>>

(* run_desktop_sql between the claim and the connection: it looks at its   *)
(* signal, and a write must pre-record its audit row.                      *)
PrepareDesktopRun(w) ==
    LET o == run[w].op
    IN  /\ run[w].pc = "claimed" /\ o \notin AgentOps
        /\ \/ Signalled(o) /\ Goto(w, "cancelling") /\ UNCHANGED audited
           \/ ~Signalled(o) /\ ~IsWrite(o) /\ Goto(w, "connecting") /\ UNCHANGED audited
           \/ ~Signalled(o) /\ IsWrite(o) /\ Goto(w, "connecting") /\ audited' = audited \cup {o}
           \/ ~Signalled(o) /\ IsWrite(o) /\ Goto(w, "failing") /\ UNCHANGED audited
        /\ UNCHANGED <<store, policy, slot, cancels, decisions, target>>

(* Mutant: an agent run that is refused after its claim leaves no receipt. *)
PrepareAgentRun_mutant(w) ==
    /\ run[w].pc = "claimed" /\ run[w].op \in AgentOps
    /\ \/ /\ Revision(run[w].op) = plan[run[w].op].policy
          /\ Goto(w, "connecting") /\ UNCHANGED slot
       \/ EndRun(w)
    /\ UNCHANGED <<store, policy, cancels, decisions, target, audited>>

(* prepare_agent_run_scoped after the claim: it takes the scope gate and   *)
(* checks authority, settings, policy and classification now; each refusal *)
(* is recorded on the claimed operation.                                   *)
PrepareAgentRun(w) ==
    LET o == run[w].op
    IN  /\ run[w].pc = "claimed" /\ o \in AgentOps
        /\ \/ Revision(o) = plan[o].policy /\ Goto(w, "connecting")
           \/ Goto(w, "failing")
        /\ UNCHANGED <<store, policy, slot, cancels, decisions, target, audited>>

(* The pool of the pinned connection is opened or refused. *)
ConnectRun(w) ==
    /\ run[w].pc = "connecting"
    /\ Goto(w, "executing") \/ Goto(w, "failing")
    /\ UNCHANGED <<store, policy, slot, cancels, decisions, target, audited>>

(* A read under guard_registered: rows, an error or a timeout, or the      *)
(* biased cancellation branch.  An agent read must also persist its        *)
(* history row.                                                            *)
ExecuteRead(w) ==
    LET o == run[w].op
    IN  /\ run[w].pc = "executing" /\ ~IsWrite(o)
        /\ IF Signalled(o) THEN Goto(w, "cancelling") ELSE Goto(w, "ok") \/ Goto(w, "failing")
        /\ UNCHANGED <<store, policy, slot, cancels, decisions, target, audited>>

--------------------------------------------------------------------------------
(* The guarded write and the target.  The target is external: it is        *)
(* modelled by what the client can observe of it.                          *)

(* BEGIN and the statement.  guard_registered polls the signal first.      *)
SendStatement(w) ==
    LET o == run[w].op
    IN  /\ run[w].pc = "executing" /\ IsWrite(o) /\ ~Signalled(o)
        /\ Goto(w, "sent")
        /\ target' = [target EXCEPT ![o] = "sent"]
        /\ UNCHANGED <<store, policy, slot, cancels, decisions, audited>>

(* The statement or its connection fails; the dropped transaction rolls    *)
(* back whatever the target has not committed by itself.                   *)
StatementFails(w) ==
    LET o == run[w].op
    IN  /\ run[w].pc = "sent"
        /\ Goto(w, "failing")
        /\ target' = [target EXCEPT ![o] = IF @ = "sent" THEN "aborted" ELSE @]
        /\ UNCHANGED <<store, policy, slot, cancels, decisions, audited>>

SendCommit(w) ==
    LET o == run[w].op
    IN  /\ run[w].pc = "sent" /\ ~Signalled(o)
        /\ Goto(w, "committing")
        /\ target' = [target EXCEPT ![o] = IF @ = "sent" THEN "committing" ELSE @]
        /\ UNCHANGED <<store, policy, slot, cancels, decisions, audited>>

CommitReturns(w) ==
    LET o == run[w].op
    IN  /\ run[w].pc = "committing"
        /\ \/ target[o] = "applied" /\ ~Signalled(o) /\ Goto(w, "ok")
           \/ Goto(w, "unknown")
        /\ UNCHANGED <<store, policy, slot, cancels, decisions, target, audited>>

(* Cancellation or timeout drops the write future: an open transaction is  *)
(* rolled back, a COMMIT already sent is decided by the target alone.      *)
InterruptWrite(w) ==
    LET o == run[w].op
    IN  /\ run[w].pc \in {"executing", "sent", "committing"} /\ IsWrite(o)
        /\ Goto(w, "unknown")
        /\ target' = [target EXCEPT ![o] = IF @ = "sent" THEN "aborted" ELSE @]
        /\ UNCHANGED <<store, policy, slot, cancels, decisions, audited>>

TargetAutocommits(o) ==
    /\ target[o] = "sent" /\ plan[o].kind \in AutocommitKinds
    /\ target' = [target EXCEPT ![o] = "applied"]
    /\ UNCHANGED <<store, policy, client, audited>>

TargetDecides(o) ==
    /\ target[o] = "committing"
    /\ \E result \in {"applied", "aborted"} : target' = [target EXCEPT ![o] = result]
    /\ UNCHANGED <<store, policy, client, audited>>

--------------------------------------------------------------------------------
(* Receipts. *)

(* The state a run records at the end of each branch. *)
Receipt(pc) == CASE pc = "cancelling" -> "cancelled"
                 [] pc = "failing"    -> "failed"
                 [] pc = "unknown"    -> "outcome_unknown"
                 [] pc = "ok"         -> "succeeded"

(* A receipt is refused when the state is no longer executing, or lost     *)
(* when the local store fails.                                             *)
ReceiptFails(w) ==
    /\ StoreMayFail \/ ~ensure_transition(state[run[w].op], Receipt(run[w].pc))
    /\ UNCHANGED store

(* confirm_cancelled, fail and mark_outcome_unknown: their own failure is  *)
(* ignored.                                                                *)
RecordFailure(w) ==
    /\ run[w].pc \in {"cancelling", "failing", "unknown"}
    /\ \/ Store!finish(run[w].rt, run[w].op, Receipt(run[w].pc))
       \/ ReceiptFails(w)
    /\ EndRun(w)
    /\ UNCHANGED <<policy, cancels, decisions, target, audited>>

(* Mutant: a write whose receipt is lost is recorded as failed. *)
RecordSuccess_mutant(w) ==
    /\ run[w].pc = "ok"
    /\ \/ Store!finish(run[w].rt, run[w].op, "succeeded") /\ EndRun(w)
       \/ ReceiptFails(w) /\ Goto(w, "failing") /\ UNCHANGED slot
    /\ UNCHANGED <<policy, cancels, decisions, target, audited>>

(* succeed; when it fails, a write is marked outcome_unknown, a read       *)
(* failed.                                                                 *)
RecordSuccess(w) ==
    /\ run[w].pc = "ok"
    /\ \/ Store!finish(run[w].rt, run[w].op, "succeeded") /\ EndRun(w)
       \/ /\ ReceiptFails(w)
          /\ Goto(w, IF IsWrite(run[w].op) THEN "unknown" ELSE "failing")
          /\ UNCHANGED slot
    /\ UNCHANGED <<policy, cancels, decisions, target, audited>>

--------------------------------------------------------------------------------
(* Cancellation. *)

(* cancel_query: the desktop signals by operation id. *)
CancelQuery(r, o) ==
    /\ runtime[r] = "live" /\ Store!Exists(o) /\ plan[o].runtime = r
    /\ SignalSlot(o)
    /\ UNCHANGED <<store, policy, run, cancels, decisions, target, audited>>

(* cancel_terminal reads the record ... *)
cancel_terminal(c, r, o) ==
    /\ cancels[c] = Idle
    /\ runtime[r] = "live" /\ Store!Exists(o) /\ plan[o].runtime = r
    /\ ~is_terminal(state[o])
    /\ cancels' = [cancels EXCEPT ![c] = [pc |-> "read", rt |-> r, op |-> o, seen |-> state[o]]]
    /\ UNCHANGED <<store, policy, run, slot, decisions, target, audited>>

(* Mutant: the projection is set to cancelled without a transition. *)
ActOnCancel_mutant(c) ==
    /\ cancels[c] # Idle
    /\ cancels' = [cancels EXCEPT ![c] = Idle]
    /\ state' = [state EXCEPT ![cancels[c].op] = "cancelled"]
    /\ UNCHANGED <<runtime, plan, approvals, events, planCalls, now>>
    /\ UNCHANGED <<policy, run, slot, decisions, target, audited>>

(* ... and acts on the state it read: a signal if that was executing, else *)
(* cancel_before_execution.                                                *)
ActOnCancel(c) ==
    LET o == cancels[c].op
    IN  /\ cancels[c] # Idle
        /\ cancels' = [cancels EXCEPT ![c] = Idle]
        /\ IF cancels[c].seen = "executing"
           THEN SignalSlot(o) /\ UNCHANGED store
           ELSE /\ \/ Store!finish(cancels[c].rt, o, "cancelled")
                   \/ ~ensure_transition(state[o], "cancelled") /\ UNCHANGED store
                /\ UNCHANGED slot
        /\ UNCHANGED <<policy, run, decisions, target, audited>>

--------------------------------------------------------------------------------
(* Processes and time. *)

Start(r) ==
    /\ MayOverlap \/ \A q \in Runtimes : runtime[q] # "live"
    /\ Store!recover_previous_runtimes(r)
    /\ UNCHANGED <<policy, client, target, audited>>

(* Every task of the process is gone; the target rolls back what had no    *)
(* COMMIT sent.                                                            *)
Crash(r) ==
    /\ Store!Crash(r)
    /\ run' = [w \in Workers |-> IF run[w] # Idle /\ run[w].rt = r THEN Idle ELSE run[w]]
    /\ slot' = [o \in Ops |-> IF Store!Exists(o) /\ plan[o].runtime = r THEN NoSlot ELSE slot[o]]
    /\ cancels' = [c \in Cancellers |-> IF cancels[c] # Idle /\ cancels[c].rt = r
                                        THEN Idle ELSE cancels[c]]
    /\ decisions' = {d \in decisions : d.rt # r}
    /\ target' = [o \in Ops |-> IF target[o] = "sent" /\ plan[o].runtime = r
                                THEN "aborted" ELSE target[o]]
    /\ UNCHANGED <<policy, audited>>

Tick == Store!Tick /\ UNCHANGED <<policy, client, target, audited>>

RunStep(w) ==
    /\ run[w] # Idle
    /\ \/ ClaimRun(w) \/ PrepareDesktopRun(w) \/ PrepareAgentRun(w) \/ ConnectRun(w) \/ ExecuteRead(w)
       \/ SendStatement(w) \/ StatementFails(w) \/ SendCommit(w) \/ CommitReturns(w)
       \/ InterruptWrite(w) \/ RecordFailure(w) \/ RecordSuccess(w)

Next ==
    \/ \E r \in Runtimes :
          \/ Start(r) \/ Crash(r) \/ ChangePolicy(r)
          \/ \E o \in Ops :
                \/ propose_sql(r, o) \/ plan_agent_read_scoped(r, o) \/ exact_request(r, o) \/ CancelQuery(r, o)
                \/ \E w \in Workers : StartDesktopRun(w, r, o) \/ StartAgentRun(w, r, o)
                \/ \E c \in Cancellers : cancel_terminal(c, r, o)
    \/ \E c \in planCalls : FinishProposal(c)
    \/ \E d \in decisions : DecideLocal(d)
    \/ \E w \in Workers : RunStep(w)
    \/ \E c \in Cancellers : ActOnCancel(c)
    \/ \E o \in Ops : TargetAutocommits(o) \/ TargetDecides(o)
    \/ Tick

Spec == Init /\ [][Next]_vars

(* The async runtime polls every task that can make progress. *)
FairSpec == Spec /\ \A w \in Workers : WF_vars(RunStep(w))

--------------------------------------------------------------------------------
(* Properties. *)

RunPc == {"registered", "claimed", "connecting", "executing", "sent", "committing", "ok",
          "cancelling", "failing", "unknown"}

(* The composition's own state: run requests, cancellation slots, calls    *)
(* in flight, the target's effects and the audit rows.                     *)
TypeOK ==
    /\ Store!TypeOK
    /\ policy \in [scope: 0..MaxScope, safety: SafetySettings]
    /\ run \in [Workers -> {Idle} \cup [pc: RunPc, rt: Runtimes, op: Ops]]
    /\ slot \in [Ops -> [handles: 0..Cardinality(Workers), signal: BOOLEAN]]
    /\ cancels \in [Cancellers ->
                      {Idle} \cup [pc: {"read"}, rt: Runtimes, op: Ops, seen: OperationState]]
    /\ decisions \subseteq [rt: Runtimes, op: Ops, policy: Policies]
    /\ target \in [Ops -> {"idle", "sent", "committing", "applied", "aborted"}]
    /\ audited \subseteq Ops

(* A terminal receipt of a mutation never contradicts the target, whatever *)
(* is cancelled, lost, timed out or crashed on the way: succeeded means    *)
(* the target committed; failed, rejected and expired mean that it did not *)
(* and no longer can (run_desktop_sql, run_write, restart_recovery).       *)
(* Cancelled is the subject of CancelledMeansUnchanged; and a statement    *)
(* the target commits by itself (MySQL DDL) may have been applied when its *)
(* answer is lost, though the run records failed.                          *)
HonestReceipts ==
    \A o \in Ops : Store!Exists(o) /\ IsWrite(o) =>
        /\ state[o] = "succeeded" => target[o] = "applied"
        /\ state[o] \in {"rejected", "expired"} => target[o] \in {"idle", "aborted"}
        /\ state[o] = "failed" => \/ target[o] \in {"idle", "aborted"}
                                  \/ plan[o].kind \in AutocommitKinds

(* No statement of a mutation reaches the target before its                *)
(* "execute:attempt" audit row is in the local store (run_desktop_sql).    *)
AuditedBeforeEffect == \A o \in Ops : target[o] # "idle" => o \in audited

(* What the desktop records of a write agrees with its target: the audit   *)
(* row comes before the effect, and the receipt does not contradict it,    *)
(* whatever was cancelled, lost or killed in between.                      *)
RecordsAreHonest ==
    /\ TypeOK
    /\ HonestReceipts
    /\ AuditedBeforeEffect

Accessing == {"claimed", "connecting", "executing", "sent", "committing"}

(* As long as a run of an operation can still touch the target, cancelling *)
(* that operation reaches it: the slot is registered, although concurrent  *)
(* runs that lost the claim have come and gone (register, CancelHandle).   *)
CancellableWhileExecuting ==
    \A w \in Workers : run[w].pc \in Accessing => slot[run[w].op].handles > 0

(* A run touches the target only while the policy in force is the one its  *)
(* plan was made, reviewed and approved under: a workspace switch, a       *)
(* connection edit or a safety change waits for it or refuses it (the      *)
(* scope gate).  The gate belongs to one process, so this needs one.       *)
NoAccessUnderChangedPolicy ==
    \A w \in Workers : run[w].pc \in {"executing", "sent", "committing"} =>
        Revision(run[w].op) = plan[run[w].op].policy

(* What the services do to the operation store is what OperationRuntime    *)
(* allows, so every theorem about OperationRuntime holds of them.          *)
StoreSpec == Store!Spec

(* An operation that began to execute reaches a terminal state, unless its *)
(* process dies first: every branch of a run ends in a receipt.  It holds  *)
(* while the local store accepts receipts; a failed write of the receipt   *)
(* is ignored by the code and leaves the operation executing.              *)
ExecutionEnds ==
    \A o \in Ops, r \in Runtimes :
        (state[o] = "executing" /\ plan[o].runtime = r)
            ~> (is_terminal(state[o]) \/ runtime[r] = "dead")

(* The runtime's comment on cancel_before_execution and the lifecycle      *)
(* table of ADR 0001 say that cancelled means the target did not change.   *)
(* cancel_terminal decides on a state it read earlier, so it can record    *)
(* cancelled on an operation that has been claimed meanwhile.              *)
CancelledMeansUnchanged ==
    \A o \in Ops : state[o] = "cancelled" /\ IsWrite(o) => target[o] \in {"idle", "aborted"}
================================================================================
