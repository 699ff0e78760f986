--------------------------- MODULE SqlExecutionProofs ---------------------------
(***************************************************************************)
(* Theorems about SqlExecution for every set of processes, operations,     *)
(* run and cancel requests, kinds, policies and settings, and every bound. *)
(*                                                                         *)
(* First, every step of the services is a step of the operation store or   *)
(* leaves it alone, so what OperationRuntimeProofs proves of the store     *)
(* holds under these callers.  Then an inductive invariant ties each run   *)
(* to the record of its operation, to the target and to the cancellation   *)
(* slot; the properties of SqlExecution follow from it.                    *)
(***************************************************************************)
EXTENDS SqlExecution, FiniteSetTheorems, TLAPS

(* The theorems about the operation store. *)
StoreProofs == INSTANCE OperationRuntimeProofs

(* The run requests for operation o. *)
RunsOf(o) == {w \in Workers : run[w] # Idle /\ run[w].op = o}

(* A run past its claim. *)
Claimed(w) == run[w] # Idle /\ run[w].pc # "registered"

(* The states an operation can be in once a run has claimed it. *)
Started(o) == state[o] \in {"executing", "succeeded", "failed", "cancelled", "outcome_unknown"}

ClientOK ==
    /\ policy \in [scope: 0..MaxScope, safety: SafetySettings]
    /\ run \in [Workers -> {Idle} \cup [pc: RunPc, rt: Runtimes, op: Ops]]
    /\ slot \in [Ops -> [handles: Nat, signal: BOOLEAN]]
    /\ cancels \in [Cancellers ->
                      {Idle} \cup [pc: {"read"}, rt: Runtimes, op: Ops, seen: OperationState]]
    /\ decisions \subseteq [rt: Runtimes, op: Ops, policy: Policies]
    /\ target \in [Ops -> {"idle", "sent", "committing", "applied", "aborted"}]
    /\ audited \subseteq Ops

(* Agents only plan reads. *)
AgentsRead == \A o \in AgentOps : Store!Exists(o) => ~IsWrite(o)

(* A run belongs to a live process that owns its operation. *)
RunIsOwned(w) ==
    run[w] # Idle => /\ runtime[run[w].rt] = "live"
                     /\ Store!Exists(run[w].op)
                     /\ plan[run[w].op].runtime = run[w].rt

(* What the place of run w tells about the effect of its operation o. *)
EffectAt(pc, o) ==
    /\ pc \in {"connecting", "executing", "sent", "committing"} => o \in audited
    /\ pc \in {"claimed", "connecting", "executing"} => target[o] = "idle"
    /\ pc = "sent" => \/ target[o] = "sent"
                      \/ target[o] = "applied" /\ plan[o].kind \in AutocommitKinds
    /\ pc = "ok" => target[o] = "applied"
    /\ pc = "failing" => target[o] \in {"idle", "aborted"} \/ plan[o].kind \in AutocommitKinds

(* A claimed run: its operation has started and is not closed by a receipt *)
(* of its own, and its place agrees with the target.                       *)
ClaimInv(w) ==
    Claimed(w) => /\ Started(run[w].op)
                  /\ run[w].pc \in {"sent", "committing"} => IsWrite(run[w].op)
                  /\ IsWrite(run[w].op) => /\ state[run[w].op] \notin {"succeeded", "failed"}
                                           /\ EffectAt(run[w].pc, run[w].op)

(* The claim is exclusive: of the runs of an operation one has it. *)
ExclusiveClaim ==
    \A v, w \in Workers : Claimed(v) /\ Claimed(w) /\ run[v].op = run[w].op => v = w

(* An effect belongs to an audited mutation that was started. *)
EffectInv(o) ==
    target[o] # "idle" => Store!Exists(o) /\ IsWrite(o) /\ Started(o) /\ o \in audited

(* One handle per run. *)
SlotInv == \A o \in Ops : slot[o].handles = Cardinality(RunsOf(o))

(* The scope gate of the only live process keeps the policy of every run   *)
(* that holds it.                                                          *)
GateInv ==
    MayOverlap = FALSE =>
        /\ \A q, r \in Runtimes : runtime[q] = "live" /\ runtime[r] = "live" => q = r
        /\ \A w \in Workers : run[w] # Idle /\ HoldsScope(w) => Revision(run[w].op) = plan[run[w].op].policy

(* The invariant of the services, on top of that of the store. *)
ServiceInv ==
    /\ ClientOK
    /\ AgentsRead
    /\ \A w \in Workers : RunIsOwned(w) /\ ClaimInv(w)
    /\ ExclusiveClaim
    /\ \A o \in Ops : EffectInv(o)
    /\ HonestReceipts
    /\ SlotInv
    /\ GateInv

SqlInv == StoreProofs!Inv /\ ServiceInv

--------------------------------------------------------------------------------
(* The two instances of OperationRuntime are the same. *)

(* The store's assumptions, in the words of StoreProofs. *)
LEMMA StoreAssumptions ==
    /\ Kinds \subseteq StoreProofs!OperationKind
    /\ /\ MaxTime \in Nat
       /\ MaxProgress \in Nat
       /\ Lifetimes \subseteq Nat
       /\ NoExpiry \notin Int
    /\ /\ NoHash \notin Hashes
       /\ \A o \in Ops, n \in 1..(MaxProgress + 5), k \in StoreProofs!OperationEventKind,
             s \in StoreProofs!OperationState, p \in Hashes \cup {NoHash} :
                EventHash(o, n, k, s, p) \in Hashes
    /\ NoRow \notin StoreProofs!OperationState /\ NoRow \notin StoreProofs!PlanRow
BY StoreAssumption DEF OperationKind, StoreProofs!OperationKind,
   OperationEventKind, StoreProofs!OperationEventKind, OperationState,
   StoreProofs!OperationState, Store!PlanRow, StoreProofs!PlanRow,
   Store!Expiry, StoreProofs!Expiry, Store!Time, StoreProofs!Time

(* The lifecycle is the same in both. *)
LEMMA SameWords ==
    /\ OperationState = StoreProofs!OperationState /\ OperationState = Store!OperationState
    /\ OperationActorKind = Store!OperationActorKind
    /\ \A k : may_mutate_target(k) <=> Store!may_mutate_target(k)
    /\ \A s, t : /\ ensure_transition(s, t) <=> StoreProofs!ensure_transition(s, t)
                /\ ensure_transition(s, t) <=> Store!ensure_transition(s, t)
    /\ \A o : Store!Exists(o) <=> StoreProofs!Exists(o)
    /\ \A k, s : restart_recovery(k, s) = Store!restart_recovery(k, s)
BY DEF OperationState, StoreProofs!OperationState, Store!OperationState, OperationActorKind,
   Store!OperationActorKind, may_mutate_target, Store!may_mutate_target,
   ensure_transition, StoreProofs!ensure_transition, Store!ensure_transition,
   Store!Exists, StoreProofs!Exists, restart_recovery, Store!restart_recovery,
   is_terminal, Store!is_terminal, TerminalState, Store!TerminalState,
   is_resumable_job, Store!is_resumable_job

(* The store's tables have the same types in both. *)
LEMMA SameTypes == Store!TypeOK <=> StoreProofs!TypeOK
BY DEF Store!TypeOK, StoreProofs!TypeOK, Store!PlanRow, StoreProofs!PlanRow,
   Store!ApprovalRow, StoreProofs!ApprovalRow, Store!EventRow, StoreProofs!EventRow,
   Store!PlanCall, StoreProofs!PlanCall, Store!Expiry, StoreProofs!Expiry,
   Store!Time, StoreProofs!Time, Store!Decision, StoreProofs!Decision,
   Store!OperationState, StoreProofs!OperationState,
   Store!OperationEventKind, StoreProofs!OperationEventKind,
   Store!OperationActorKind, StoreProofs!OperationActorKind

LEMMA SameInit == Store!Init => StoreProofs!Init
BY DEF Store!Init, StoreProofs!Init

(* A step of the store in one is a step in the other. *)
LEMMA SameSteps == [Store!Next]_(Store!vars) => [StoreProofs!Next]_(StoreProofs!vars)
BY DEF Store!Next, StoreProofs!Next, Store!vars, StoreProofs!vars,
   Store!Plan, StoreProofs!Plan, Store!Requests, StoreProofs!Requests,
   Store!insert_planned, StoreProofs!insert_planned,
   Store!Disposition, StoreProofs!Disposition,
   Store!Decide, StoreProofs!Decide, Store!decide_approval, StoreProofs!decide_approval,
   Store!Decision, StoreProofs!Decision,
   Store!OperationActorKind, StoreProofs!OperationActorKind,
   Store!CapturedTimes, StoreProofs!CapturedTimes, Store!Claim, StoreProofs!Claim,
   Store!claim_execution, StoreProofs!claim_execution,
   Store!HasExactApproval, StoreProofs!HasExactApproval, Store!Expired, StoreProofs!Expired,
   Store!append_progress, StoreProofs!append_progress,
   Store!Finish, StoreProofs!Finish, Store!finish, StoreProofs!finish,
   Store!finish_plan, StoreProofs!finish_plan,
   Store!recover_previous_runtimes, StoreProofs!recover_previous_runtimes,
   Store!Recovers, StoreProofs!Recovers,
   Store!restart_recovery, StoreProofs!restart_recovery,
   Store!is_terminal, StoreProofs!is_terminal, Store!TerminalState, StoreProofs!TerminalState,
   Store!is_resumable_job, StoreProofs!is_resumable_job,
   Store!may_mutate_target, StoreProofs!may_mutate_target,
   Store!Crash, StoreProofs!Crash, Store!Tick, StoreProofs!Tick,
   Store!ensure_runtime, StoreProofs!ensure_runtime, Store!Exists, StoreProofs!Exists,
   Store!transition_tx, StoreProofs!transition_tx,
   Store!append_event_tx, StoreProofs!append_event_tx,
   Store!NextEvent, StoreProofs!NextEvent,
   Store!ensure_transition, StoreProofs!ensure_transition,
   Store!transition_event_kind, StoreProofs!transition_event_kind

(* What a step of the store does to the rows: an existing row keeps its    *)
(* plan and moves along the lifecycle if at all, a new one is planned.     *)
RowsMove ==
    \A o \in Ops :
        /\ Store!Exists(o) => /\ plan'[o] = plan[o]
                              /\ state'[o] \in OperationState
                              /\ state'[o] = state[o] \/ ensure_transition(state[o], state'[o])
        /\ ~Store!Exists(o) => state'[o] \in {NoRow, "planned"}

(* A step of the store keeps its invariant and moves its rows. *)
LEMMA StoreStep ==
    ASSUME StoreProofs!Inv, [Store!Next]_(Store!vars)
    PROVE  StoreProofs!Inv' /\ Store!TypeOK /\ RowsMove
<1>1. [StoreProofs!Next]_(StoreProofs!vars)
  BY SameSteps
<1>2. StoreProofs!Inv'
  BY <1>1, StoreAssumptions, StoreProofs!NextInv
<1>3. StoreProofs!TypeOK
  BY DEF StoreProofs!Inv
<1>4. StoreProofs!TypeOK'
  BY <1>2 DEF StoreProofs!Inv
<1>5. \A o \in Ops : StoreProofs!StepOK(o)
  BY <1>1, <1>3, StoreAssumptions, StoreProofs!StepCases
<1>6. RowsMove
  <2> SUFFICES ASSUME NEW o \in Ops
               PROVE  /\ Store!Exists(o) => /\ plan'[o] = plan[o]
                                            /\ state'[o] \in OperationState
                                            /\ \/ state'[o] = state[o]
                                               \/ ensure_transition(state[o], state'[o])
                      /\ ~Store!Exists(o) => state'[o] \in {NoRow, "planned"}
    BY DEF RowsMove
  <2>1. state'[o] \in OperationState \cup {NoRow} /\ state[o] \in OperationState \cup {NoRow}
    BY <1>3, <1>4, SameWords DEF StoreProofs!TypeOK
  <2>2. CASE StoreProofs!Kept(o)
    BY <2>1, <2>2 DEF StoreProofs!Kept, Store!Exists
  <2>3. CASE StoreProofs!Inserted(o)
    BY <2>1, <2>3, SameWords DEF StoreProofs!Inserted, StoreProofs!Exists
  <2>4. CASE StoreProofs!Moved(o)
    <3>1. /\ Store!Exists(o) /\ plan'[o] = plan[o]
          /\ ensure_transition(state[o], state'[o])
      BY <2>4 DEF StoreProofs!Moved, Store!Exists, StoreProofs!Exists, ensure_transition,
                  StoreProofs!ensure_transition
    <3>2. state'[o] \in OperationState
      BY <3>1 DEF ensure_transition, OperationState
    <3> QED  BY <3>1, <3>2
  <2>5. CASE StoreProofs!Progressed(o)
    BY <2>1, <2>5 DEF StoreProofs!Progressed, Store!Exists, OperationState
  <2> QED  BY <1>5, <2>2, <2>3, <2>4, <2>5 DEF StoreProofs!StepOK
<1> QED  BY <1>2, <1>3, <1>6, SameTypes

--------------------------------------------------------------------------------
(* Every step of the services is a step of the store or leaves it alone. *)

(* The policy a service captures is a policy revision. *)
LEMMA RevisionType ==
    ASSUME ClientOK, NEW o \in Ops
    PROVE  Revision(o) \in Policies
<1>1. policy.scope \in 0..MaxScope /\ policy.safety \in SafetySettings
  BY DEF ClientOK
<1>2. Revision(o) \in (0..MaxScope) \X (SafetySettings \cup {"any"})
  BY <1>1 DEF Revision
<1> QED  BY <1>2, RequestAssumption

(* Both proposals are plan calls of the store. *)
LEMMA ProposalIsPlan ==
    ASSUME Store!TypeOK, ClientOK, NEW r \in Runtimes, NEW o \in Ops, NEW kind \in Kinds,
           NEW payload \in Payloads, NEW d \in Lifetimes,
           NEW t \in {"ready", "pending_approval"},
           Store!insert_planned(r, o, PlanRequest(r, o, kind, payload, d), t)
    PROVE  Store!Plan(r, o)
<1>1. Revision(o) \in Policies /\ o \in Keys
  BY RevisionType, RequestAssumption
<1>2. PlanRequest(r, o, kind, payload, d) \in Store!Requests(r)
  BY <1>1 DEF PlanRequest, Store!Requests
<1> QED  BY <1>2 DEF Store!Plan

LEMMA ProposeRefines ==
    ASSUME Store!TypeOK, ClientOK, NEW r \in Runtimes, NEW o \in Ops,
           propose_sql(r, o) \/ plan_agent_read_scoped(r, o)
    PROVE  Store!Plan(r, o)
<1>1. CASE propose_sql(r, o)
  <2>1. PICK kind \in Kinds, payload \in Payloads, d \in Lifetimes :
            Store!insert_planned(r, o, PlanRequest(r, o, kind, payload, d),
                                 IF may_mutate_target(kind) THEN "pending_approval" ELSE "ready")
    BY <1>1 DEF propose_sql
  <2> QED  BY <2>1, ProposalIsPlan
<1>2. CASE plan_agent_read_scoped(r, o)
  <2>1. "read_query" \in Kinds
    BY <1>2, RequestAssumption DEF plan_agent_read_scoped
  <2>2. PICK payload \in Payloads, d \in Lifetimes :
            Store!insert_planned(r, o, PlanRequest(r, o, "read_query", payload, d), "ready")
    BY <1>2 DEF plan_agent_read_scoped
  <2> QED  BY <2>1, <2>2, ProposalIsPlan
<1> QED  BY <1>1, <1>2

LEMMA DecideRefines ==
    ASSUME Store!TypeOK, ClientOK, NEW d \in decisions, DecideLocal(d)
    PROVE  \/ UNCHANGED store
           \/ Store!Exists(d.op) /\ Store!Decide(d.rt, d.op)
<1>1. d.rt \in Runtimes /\ d.op \in Ops /\ d.policy \in Policies
  BY DEF ClientOK
<1>2. ASSUME NEW decision \in Store!Decision, NEW t \in Store!CapturedTimes(d.op),
             Store!decide_approval(d.rt, d.op, "local_user", plan[d.op].payload, d.policy,
                                   decision, t)
      PROVE  Store!Exists(d.op) /\ Store!Decide(d.rt, d.op)
  <2>1. Store!Exists(d.op)
    BY <1>2 DEF Store!decide_approval, Store!ensure_runtime
  <2>2. plan[d.op].payload \in Payloads
    BY <1>1, <2>1 DEF Store!TypeOK, Store!Exists, Store!PlanRow
  <2>3. "local_user" \in Store!OperationActorKind
    BY DEF Store!OperationActorKind
  <2> QED  BY <1>1, <1>2, <2>1, <2>2, <2>3 DEF Store!Decide
<1> QED  BY <1>2 DEF DecideLocal

LEMMA ClaimRefines ==
    ASSUME NEW w \in Workers, ClaimRun(w)
    PROVE  \/ UNCHANGED store
           \/ Store!Exists(run[w].op) /\ Store!Claim(run[w].rt, run[w].op)
<1>1. ASSUME NEW t \in Store!CapturedTimes(run[w].op),
             Store!claim_execution(run[w].rt, run[w].op, t)
      PROVE  Store!Exists(run[w].op) /\ Store!Claim(run[w].rt, run[w].op)
  BY <1>1 DEF Store!Claim, Store!claim_execution, Store!ensure_runtime
<1> QED  BY <1>1 DEF ClaimRun

(* The states a run records are outcomes. *)
LEMMA ReceiptType ==
    ASSUME NEW pc \in {"cancelling", "failing", "unknown", "ok"}
    PROVE  Receipt(pc) \in {"succeeded", "failed", "cancelled", "outcome_unknown"}
BY DEF Receipt

LEMMA RecordRefines ==
    ASSUME NEW w \in Workers, RecordFailure(w) \/ RecordSuccess(w)
    PROVE  UNCHANGED store \/ Store!Finish(run[w].rt, run[w].op)
<1>1. CASE RecordFailure(w)
  <2>1. Receipt(run[w].pc) \in {"succeeded", "failed", "cancelled", "outcome_unknown"}
    BY <1>1, ReceiptType DEF RecordFailure
  <2> QED  BY <1>1, <2>1 DEF RecordFailure, ReceiptFails, Store!Finish
<1>2. CASE RecordSuccess(w)
  BY <1>2 DEF RecordSuccess, ReceiptFails, Store!Finish
<1> QED  BY <1>1, <1>2

LEMMA CancelRefines ==
    ASSUME NEW c \in Cancellers, ActOnCancel(c)
    PROVE  UNCHANGED store \/ Store!Finish(cancels[c].rt, cancels[c].op)
BY DEF ActOnCancel, Store!Finish

(* A step that leaves the store alone. *)
LEMMA StoreStays ==
    ASSUME UNCHANGED store
    PROVE  [Store!Next]_(Store!vars)
BY DEF store, Store!vars

(* Every step of the services maps to a step of the store or a stutter. *)
LEMMA StepRefines ==
    ASSUME Store!TypeOK, ClientOK, [Next]_vars
    PROVE  [Store!Next]_(Store!vars)
<1>1. ASSUME NEW r \in Runtimes, Start(r) \/ Crash(r) \/ ChangePolicy(r)
      PROVE  [Store!Next]_(Store!vars)
  BY <1>1, StoreStays DEF Start, Crash, ChangePolicy, Store!Next
<1>2. ASSUME NEW r \in Runtimes, NEW o \in Ops,
             propose_sql(r, o) \/ plan_agent_read_scoped(r, o)
      PROVE  [Store!Next]_(Store!vars)
  BY <1>2, ProposeRefines DEF Store!Next
<1>3. ASSUME NEW r \in Runtimes, NEW o \in Ops, exact_request(r, o) \/ CancelQuery(r, o)
      PROVE  [Store!Next]_(Store!vars)
  BY <1>3, StoreStays DEF exact_request, CancelQuery
<1>4. ASSUME NEW r \in Runtimes, NEW o \in Ops, NEW w \in Workers,
             StartDesktopRun(w, r, o) \/ StartAgentRun(w, r, o)
      PROVE  [Store!Next]_(Store!vars)
  BY <1>4, StoreStays DEF StartDesktopRun, StartAgentRun
<1>5. ASSUME NEW r \in Runtimes, NEW o \in Ops, NEW c \in Cancellers, cancel_terminal(c, r, o)
      PROVE  [Store!Next]_(Store!vars)
  BY <1>5, StoreStays DEF cancel_terminal
<1>6. ASSUME NEW c \in planCalls, FinishProposal(c)
      PROVE  [Store!Next]_(Store!vars)
  BY <1>6 DEF FinishProposal, Store!Next
<1>7. ASSUME NEW d \in decisions, DecideLocal(d)
      PROVE  [Store!Next]_(Store!vars)
  <2>1. d.rt \in Runtimes /\ d.op \in Ops
    BY DEF ClientOK
  <2> QED  BY <1>7, <2>1, DecideRefines, StoreStays DEF Store!Next
<1>8. ASSUME NEW w \in Workers, RunStep(w)
      PROVE  [Store!Next]_(Store!vars)
  <2>1. run[w].rt \in Runtimes /\ run[w].op \in Ops
    BY <1>8 DEF RunStep, ClientOK
  <2>2. CASE ClaimRun(w)
    BY <2>1, <2>2, ClaimRefines, StoreStays DEF Store!Next
  <2>3. CASE RecordFailure(w) \/ RecordSuccess(w)
    BY <2>1, <2>3, RecordRefines, StoreStays DEF Store!Next
  <2>4. CASE \/ PrepareDesktopRun(w) \/ PrepareAgentRun(w) \/ ConnectRun(w) \/ ExecuteRead(w)
             \/ SendStatement(w) \/ StatementFails(w) \/ SendCommit(w) \/ CommitReturns(w)
             \/ InterruptWrite(w)
    BY <2>4, StoreStays DEF PrepareDesktopRun, PrepareAgentRun, ConnectRun, ExecuteRead,
       SendStatement, StatementFails, SendCommit, CommitReturns, InterruptWrite
  <2> QED  BY <1>8, <2>2, <2>3, <2>4 DEF RunStep
<1>9. ASSUME NEW c \in Cancellers, ActOnCancel(c)
      PROVE  [Store!Next]_(Store!vars)
  <2>1. cancels[c].rt \in Runtimes /\ cancels[c].op \in Ops
    BY <1>9 DEF ActOnCancel, ClientOK
  <2> QED  BY <1>9, <2>1, CancelRefines, StoreStays DEF Store!Next
<1>10. ASSUME NEW o \in Ops, TargetAutocommits(o) \/ TargetDecides(o)
       PROVE  [Store!Next]_(Store!vars)
  BY <1>10, StoreStays DEF TargetAutocommits, TargetDecides
<1>11. CASE Tick
  BY <1>11 DEF Tick, Store!Next
<1>12. CASE UNCHANGED vars
  BY <1>12, StoreStays DEF vars
<1> QED  BY <1>1, <1>2, <1>3, <1>4, <1>5, <1>6, <1>7, <1>8, <1>9, <1>10, <1>11, <1>12 DEF Next

--------------------------------------------------------------------------------
(* How a step moves the run requests and their cancellation slots. *)

RunType == [pc: RunPc, rt: Runtimes, op: Ops]

(* Run w goes on to pc; the others stay. *)
MovesTo(w, pc) ==
    /\ run' \in [Workers -> {Idle} \cup RunType]
    /\ run'[w] # Idle /\ run'[w].pc = pc /\ run'[w].rt = run[w].rt /\ run'[w].op = run[w].op
    /\ \A v \in Workers \ {w} : run'[v] = run[v]

(* Run w ends or begins; the others stay. *)
Leaves(w) ==
    /\ run' \in [Workers -> {Idle} \cup RunType]
    /\ run'[w] = Idle
    /\ \A v \in Workers \ {w} : run'[v] = run[v]

Begins(w, r, o) ==
    /\ run' \in [Workers -> {Idle} \cup RunType]
    /\ run[w] = Idle
    /\ run'[w] # Idle /\ run'[w].pc = "registered" /\ run'[w].rt = r /\ run'[w].op = o
    /\ \A v \in Workers \ {w} : run'[v] = run[v]

(* The slots stay registered as they are. *)
HandlesStay ==
    /\ slot' \in [Ops -> [handles: Nat, signal: BOOLEAN]]
    /\ \A o \in Ops : slot'[o].handles = slot[o].handles

LEMMA RunFacts ==
    ASSUME ClientOK, NEW w \in Workers, run[w] # Idle
    PROVE  /\ run[w] \in RunType /\ run[w].pc \in RunPc
           /\ run[w].rt \in Runtimes /\ run[w].op \in Ops
BY DEF ClientOK, RunType

(* The place of a run request that is not there is none of RunPc. *)
LEMMA PlaceMeansRun ==
    ASSUME NEW w, run[w].pc \in RunPc
    PROVE  run[w] # Idle
BY DEF Idle, RunPc

LEMMA GotoMoves ==
    ASSUME ClientOK, NEW w \in Workers, run[w] # Idle, NEW pc \in RunPc, Goto(w, pc)
    PROVE  MovesTo(w, pc)
<1>1. run \in [Workers -> {Idle} \cup RunType] /\ run[w] \in RunType
  BY RunFacts DEF ClientOK, RunType
<1>2. run' = [run EXCEPT ![w] = [run[w] EXCEPT !.pc = pc]]
  BY DEF Goto
<1>3. [run[w] EXCEPT !.pc = pc] \in RunType
  BY <1>1 DEF RunType
<1>4. run'[w] = [run[w] EXCEPT !.pc = pc] /\ \A v \in Workers \ {w} : run'[v] = run[v]
  BY <1>1, <1>2
<1>5. run'[w].pc = pc /\ run'[w].rt = run[w].rt /\ run'[w].op = run[w].op
  BY <1>1, <1>4 DEF RunType
<1>6. run'[w] # Idle
  BY <1>5 DEF Idle, RunPc
<1>7. run' \in [Workers -> {Idle} \cup RunType]
  BY <1>1, <1>2, <1>3
<1> QED  BY <1>4, <1>5, <1>6, <1>7 DEF MovesTo

LEMMA EndLeaves ==
    ASSUME ClientOK, NEW w \in Workers, EndRun(w)
    PROVE  Leaves(w)
BY DEF ClientOK, EndRun, Leaves, RunType

(* A run that goes on keeps every operation's set of runs. *)
LEMMA RunsKept ==
    ASSUME NEW w \in Workers, run[w] # Idle, NEW pc, MovesTo(w, pc), NEW o
    PROVE  RunsOf(o)' = RunsOf(o)
BY DEF MovesTo, RunsOf

LEMMA RunsFinite ==
    ASSUME NEW o
    PROVE  IsFiniteSet(RunsOf(o)) /\ Cardinality(RunsOf(o)) \in Nat
           /\ Cardinality(RunsOf(o)) <= Cardinality(Workers) /\ Cardinality(Workers) \in Nat
BY SwitchAssumption, FS_Subset, FS_CardinalityType DEF RunsOf

(* drop_handle takes one handle off the slot of the run that ends. *)
LEMMA DropHandle ==
    ASSUME ClientOK, SlotInv, NEW w \in Workers, run[w] # Idle, EndRun(w)
    PROVE  slot' \in [Ops -> [handles: Nat, signal: BOOLEAN]] /\ SlotInv'
<1> PICK o \in Ops : o = run[w].op
  BY RunFacts
<1>1. Leaves(w)
  BY EndLeaves
<1>2. w \in RunsOf(o) /\ RunsOf(o)' = RunsOf(o) \ {w}
  BY <1>1 DEF RunsOf, Leaves
<1>3. \A q \in Ops \ {o} : RunsOf(q)' = RunsOf(q)
  BY <1>1 DEF RunsOf, Leaves
<1>4. IsFiniteSet(RunsOf(o)) /\ Cardinality(RunsOf(o)) \in Nat
  BY RunsFinite
<1>5. Cardinality(RunsOf(o)') = Cardinality(RunsOf(o)) - 1
  BY <1>2, <1>4, FS_RemoveElement
<1>6. Cardinality(RunsOf(o)) >= 1
  BY <1>2, <1>4, FS_EmptySet
<1>7. slot[o].handles = Cardinality(RunsOf(o)) /\ slot[o].handles \in Nat
  BY <1>1, <1>4 DEF SlotInv
<1>8. /\ slot' \in [Ops -> [handles: Nat, signal: BOOLEAN]]
      /\ \A q \in Ops \ {o} : slot'[q] = slot[q]
      /\ slot'[o].handles = slot[o].handles - 1
  <2> DEFINE fewer == [handles |-> slot[o].handles - 1, signal |-> slot[o].signal]
  <2>1. slot' = [slot EXCEPT ![o] = IF slot[o].handles > 1 THEN fewer ELSE NoSlot]
    BY DEF EndRun, drop_handle
  <2>2. CASE slot[o].handles > 1
    <3>1. fewer \in [handles: Nat, signal: BOOLEAN] /\ fewer.handles = slot[o].handles - 1
      BY <1>7, <2>2 DEF ClientOK
    <3> HIDE DEF fewer
    <3>2. slot' = [slot EXCEPT ![o] = fewer]
      BY <2>1, <2>2
    <3> QED  BY <3>1, <3>2 DEF ClientOK
  <2>3. CASE ~(slot[o].handles > 1)
    <3>1. NoSlot \in [handles: Nat, signal: BOOLEAN] /\ NoSlot.handles = 0
      BY DEF NoSlot
    <3>2. slot' = [slot EXCEPT ![o] = NoSlot] /\ slot[o].handles = 1
      BY <1>6, <1>7, <2>1, <2>3
    <3> QED  BY <1>1, <3>1, <3>2 DEF ClientOK
  <2> QED  BY <2>2, <2>3
<1>9. \A q \in Ops : slot'[q].handles = Cardinality(RunsOf(q)')
  BY <1>3, <1>5, <1>7, <1>8 DEF SlotInv
<1> QED  BY <1>8, <1>9 DEF SlotInv

(* register adds one. *)
LEMMA AddHandle ==
    ASSUME ClientOK, SlotInv, NEW w \in Workers, NEW r \in Runtimes, NEW o \in Ops,
           Begins(w, r, o), register(o)
    PROVE  slot' \in [Ops -> [handles: Nat, signal: BOOLEAN]] /\ SlotInv'
<1>1. w \notin RunsOf(o) /\ RunsOf(o)' = RunsOf(o) \cup {w}
  BY DEF RunsOf, Begins
<1>2. \A q \in Ops \ {o} : RunsOf(q)' = RunsOf(q)
  BY DEF RunsOf, Begins
<1>3. IsFiniteSet(RunsOf(o)) /\ Cardinality(RunsOf(o)) \in Nat
  BY RunsFinite
<1>4. Cardinality(RunsOf(o)') = Cardinality(RunsOf(o)) + 1
  BY <1>1, <1>3, FS_AddElement
<1>5. /\ slot' \in [Ops -> [handles: Nat, signal: BOOLEAN]]
      /\ \A q \in Ops \ {o} : slot'[q] = slot[q]
      /\ slot'[o].handles = slot[o].handles + 1
  <2>1. [slot[o] EXCEPT !.handles = @ + 1] \in [handles: Nat, signal: BOOLEAN]
        /\ [slot[o] EXCEPT !.handles = @ + 1].handles = slot[o].handles + 1
    BY DEF ClientOK
  <2>2. slot' = [slot EXCEPT ![o] = [slot[o] EXCEPT !.handles = @ + 1]]
    BY DEF register
  <2> QED  BY <2>1, <2>2 DEF ClientOK
<1>6. \A q \in Ops : slot'[q].handles = Cardinality(RunsOf(q)')
  BY <1>2, <1>4, <1>5 DEF SlotInv
<1> QED  BY <1>5, <1>6 DEF SlotInv

(* A signal registers and drops no handle. *)
LEMMA SignalKeepsHandles ==
    ASSUME ClientOK, NEW o \in Ops, SignalSlot(o)
    PROVE  HandlesStay
<1>1. [slot[o] EXCEPT !.signal = @ \/ slot[o].handles > 0] \in [handles: Nat, signal: BOOLEAN]
      /\ [slot[o] EXCEPT !.signal = @ \/ slot[o].handles > 0].handles = slot[o].handles
  BY DEF ClientOK
<1>2. slot' = [slot EXCEPT ![o] = [slot[o] EXCEPT !.signal = @ \/ slot[o].handles > 0]]
  BY DEF SignalSlot
<1> QED  BY <1>1, <1>2 DEF ClientOK, HandlesStay

--------------------------------------------------------------------------------
(* A claimed run goes on without touching the store. *)

(* HonestReceipts of one operation. *)
Honest(o) ==
    Store!Exists(o) /\ IsWrite(o) =>
        /\ state[o] = "succeeded" => target[o] = "applied"
        /\ state[o] \in {"rejected", "expired"} => target[o] \in {"idle", "aborted"}
        /\ state[o] = "failed" => \/ target[o] \in {"idle", "aborted"}
                                  \/ plan[o].kind \in AutocommitKinds

LEMMA HonestSplit == HonestReceipts <=> \A o \in Ops : Honest(o)
BY DEF HonestReceipts, Honest

(* The step changes the effect of o only. *)
EffectsOnly(o) ==
    /\ target' \in [Ops -> {"idle", "sent", "committing", "applied", "aborted"}]
    /\ \A q \in Ops \ {o} : target'[q] = target[q]
    /\ audited \subseteq audited' /\ audited' \subseteq Ops

(* Run w, which has the claim on o, goes on to pc: when the new place      *)
(* agrees with the effect of o, everything else stays as it was.           *)
LEMMA RunAdvances ==
    ASSUME ServiceInv, NEW w \in Workers, NEW o \in Ops, Claimed(w), run[w].op = o,
           NEW pc \in RunPc \ {"registered"}, MovesTo(w, pc), EffectsOnly(o),
           UNCHANGED <<store, policy, slot, cancels, decisions>>,
           pc \in {"sent", "committing"} => IsWrite(o),
           IsWrite(o) => EffectAt(pc, o)',
           target'[o] # "idle" => IsWrite(o) /\ o \in audited',
           HoldsScope(w)' => HoldsScope(w) \/ Revision(o) = plan[o].policy
    PROVE  ServiceInv'
<1>1. run[w] # Idle
  BY DEF Claimed
<1>2. UNCHANGED store /\ runtime' = runtime /\ plan' = plan /\ state' = state
  BY DEF store
<1>3. /\ run'[w] # Idle /\ run'[w].pc = pc /\ run'[w].rt = run[w].rt /\ run'[w].op = o
      /\ \A v \in Workers \ {w} : run'[v] = run[v]
  BY DEF MovesTo
<1>4. \A q \in Ops : /\ Store!Exists(q)' <=> Store!Exists(q)
                     /\ IsWrite(q)' <=> IsWrite(q)
                     /\ Started(q)' <=> Started(q)
  BY <1>2 DEF Store!Exists, IsWrite, Started
<1>5. \A v \in Workers \ {w} : Claimed(v) => run[v].op # o
  BY DEF ServiceInv, ExclusiveClaim
<1>6. Started(o) /\ Store!Exists(o) /\ (IsWrite(o) => state[o] \notin {"succeeded", "failed"})
  BY <1>1 DEF ServiceInv, RunIsOwned, ClaimInv
<1>7. ClientOK'
  BY DEF ServiceInv, ClientOK, MovesTo, RunType, EffectsOnly
<1>8. AgentsRead'
  BY <1>4, SwitchAssumption DEF ServiceInv, AgentsRead
<1>9. ASSUME NEW v \in Workers  PROVE RunIsOwned(v)' /\ ClaimInv(v)'
  <2>1. CASE v = w
    <3>1. RunIsOwned(w)'
      BY <1>1, <1>2, <1>3, <1>4 DEF ServiceInv, RunIsOwned
    <3>2. ClaimInv(w)'
      BY <1>2, <1>3, <1>4, <1>6 DEF ClaimInv
    <3> QED  BY <2>1, <3>1, <3>2
  <2>2. CASE v # w
    <3>1. run'[v] = run[v] /\ (Claimed(v)' <=> Claimed(v))
      BY <1>3, <2>2 DEF Claimed
    <3>2. RunIsOwned(v) /\ ClaimInv(v)
      BY DEF ServiceInv
    <3>3. RunIsOwned(v)'
      BY <1>2, <3>1, <3>2 DEF RunIsOwned, Store!Exists
    <3>4. ClaimInv(v)'
      <4> SUFFICES ASSUME Claimed(v) PROVE ClaimInv(v)'
        BY <3>1 DEF ClaimInv
      <4> PICK q \in Ops : q = run[v].op
        BY RunFacts DEF ServiceInv, Claimed
      <4>1. q # o /\ target'[q] = target[q] /\ audited \subseteq audited'
        BY <1>5, <2>2 DEF EffectsOnly
      <4> QED  BY <1>2, <1>4, <3>1, <3>2, <4>1 DEF ClaimInv, EffectAt
    <3> QED  BY <3>3, <3>4
  <2> QED  BY <2>1, <2>2
<1>10. ExclusiveClaim'
  BY <1>3, <1>5 DEF ServiceInv, ExclusiveClaim, Claimed
<1>11. ASSUME NEW q \in Ops  PROVE EffectInv(q)' /\ Honest(q)'
  <2>1. EffectInv(q) /\ Honest(q)
    BY HonestSplit DEF ServiceInv
  <2>2. CASE q = o
    BY <1>2, <1>4, <1>6, <2>2 DEF EffectInv, Honest, Started
  <2>3. CASE q # o
    <3>1. target'[q] = target[q] /\ audited \subseteq audited'
      BY <2>3 DEF EffectsOnly
    <3> QED  BY <1>2, <1>4, <2>1, <3>1 DEF EffectInv, Honest
  <2> QED  BY <2>2, <2>3
<1>12. SlotInv'
  <2>1. \A q \in Ops : RunsOf(q)' = RunsOf(q)
    BY <1>1, RunsKept
  <2> QED  BY <2>1 DEF ServiceInv, SlotInv
<1>13. GateInv'
  <2>1. \A q \in Ops : Revision(q)' = Revision(q)
    BY DEF Revision
  <2>2. ASSUME MayOverlap = FALSE, NEW v \in Workers, (run[v] # Idle)', HoldsScope(v)'
        PROVE  (Revision(run[v].op) = plan[run[v].op].policy)'
    <3>1. CASE v = w
      <4>1. HoldsScope(w) => Revision(o) = plan[o].policy
        BY <1>1, <2>2 DEF ServiceInv, GateInv
      <4> QED  BY <1>2, <1>3, <2>1, <2>2, <3>1, <4>1
    <3>2. CASE v # w
      <4>1. run'[v] = run[v]
        BY <1>3, <3>2
      <4>2. HoldsScope(v) /\ run[v] # Idle
        BY <2>2, <4>1 DEF HoldsScope
      <4>3. Revision(run[v].op) = plan[run[v].op].policy /\ run[v].op \in Ops
        BY <2>2, <4>2, RunFacts DEF ServiceInv, GateInv
      <4> QED  BY <1>2, <2>1, <4>1, <4>3
    <3> QED  BY <3>1, <3>2
  <2> QED  BY <1>2, <2>2 DEF ServiceInv, GateInv
<1>14. HonestReceipts'
  BY <1>11 DEF HonestReceipts, Honest
<1> QED  BY <1>7, <1>8, <1>9, <1>10, <1>11, <1>12, <1>13, <1>14 DEF ServiceInv

(* What is known of the operation of a claimed run. *)
LEMMA ClaimFacts ==
    ASSUME ServiceInv, NEW w \in Workers, NEW o, Claimed(w), run[w].op = o
    PROVE  /\ o \in Ops /\ run[w] # Idle
           /\ target[o] \in {"idle", "sent", "committing", "applied", "aborted"}
           /\ IsWrite(o) => EffectAt(run[w].pc, o)
           /\ run[w].pc \in {"sent", "committing"} => IsWrite(o)
           /\ target[o] # "idle" => IsWrite(o) /\ o \in audited
BY RunFacts DEF ServiceInv, ClaimInv, EffectInv, Claimed, ClientOK

LEMMA NoEffect ==
    ASSUME ClientOK, NEW o, UNCHANGED <<target, audited>>
    PROVE  EffectsOnly(o)
BY DEF ClientOK, EffectsOnly

(* A run that stops short of the target, or fails before it was sent       *)
(* anything, changes only its place.                                       *)
LEMMA RunStops ==
    ASSUME ServiceInv, NEW w \in Workers, NEW o \in Ops, Claimed(w), run[w].op = o,
           NEW pc \in {"cancelling", "failing", "unknown"}, Goto(w, pc),
           pc = "failing" /\ IsWrite(o) => \/ target[o] \in {"idle", "aborted"}
                                           \/ plan[o].kind \in AutocommitKinds,
           UNCHANGED <<store, policy, slot, cancels, decisions, target, audited>>
    PROVE  ServiceInv'
<1>1. pc \in RunPc \ {"registered"} /\ ClientOK /\ run[w] # Idle
  BY DEF RunPc, ServiceInv, Claimed
<1>2. MovesTo(w, pc) /\ EffectsOnly(o)
  BY <1>1, GotoMoves, NoEffect
<1>3. IsWrite(o) => EffectAt(pc, o)'
  BY DEF EffectAt, store
<1>4. target'[o] # "idle" => IsWrite(o) /\ o \in audited'
  BY ClaimFacts
<1>5. HoldsScope(w)' => HoldsScope(w)
  BY <1>1, <1>2 DEF HoldsScope, MovesTo
<1> QED  BY <1>1, <1>2, <1>3, <1>4, <1>5, RunAdvances

LEMMA PrepareDesktopStep ==
    ASSUME ServiceInv, NEW w \in Workers, run[w] # Idle, PrepareDesktopRun(w)
    PROVE  ServiceInv'
<1> PICK o : o = run[w].op
  OBVIOUS
<1>1. Claimed(w) /\ run[w].pc = "claimed" /\ o \notin AgentOps
      /\ UNCHANGED <<store, policy, slot, cancels, decisions, target>>
  BY DEF PrepareDesktopRun, Claimed
<1>2. o \in Ops /\ (target[o] # "idle" => IsWrite(o) /\ o \in audited)
      /\ (IsWrite(o) => target[o] = "idle") /\ ClientOK
  BY <1>1, ClaimFacts DEF EffectAt, ServiceInv
<1>3. CASE UNCHANGED audited /\ (Goto(w, "cancelling") \/ Goto(w, "failing"))
  BY <1>1, <1>2, <1>3, RunStops
<1>4. CASE Goto(w, "connecting") /\ (IsWrite(o) => o \in audited') /\ audited \subseteq audited'
           /\ audited' \subseteq audited \cup {o}
  <2>1. MovesTo(w, "connecting") /\ "connecting" \in RunPc \ {"registered"}
    BY <1>2, <1>4, GotoMoves DEF RunPc
  <2>2. EffectsOnly(o)
    BY <1>1, <1>2, <1>4 DEF EffectsOnly, ClientOK
  <2>3. IsWrite(o) => EffectAt("connecting", o)'
    BY <1>1, <1>2, <1>4 DEF EffectAt
  <2>4. HoldsScope(w)' => HoldsScope(w)
    BY <1>1 DEF HoldsScope
  <2>5. target'[o] # "idle" => IsWrite(o) /\ o \in audited'
    BY <1>1, <1>2, <1>4
  <2> QED  BY <1>1, <1>2, <2>1, <2>2, <2>3, <2>4, <2>5, RunAdvances
<1> QED  BY <1>3, <1>4 DEF PrepareDesktopRun

LEMMA PrepareAgentStep ==
    ASSUME ServiceInv, NEW w \in Workers, run[w] # Idle, PrepareAgentRun(w)
    PROVE  ServiceInv'
<1> PICK o : o = run[w].op
  OBVIOUS
<1>1. Claimed(w) /\ run[w].pc = "claimed" /\ o \in AgentOps
      /\ UNCHANGED <<store, policy, slot, cancels, decisions, target, audited>>
  BY DEF PrepareAgentRun, Claimed
<1>2. o \in Ops /\ target[o] = "idle" /\ ~IsWrite(o) /\ ClientOK
  BY <1>1, ClaimFacts DEF ServiceInv, AgentsRead, RunIsOwned, Claimed
<1>3. CASE Goto(w, "failing")
  BY <1>1, <1>2, <1>3, RunStops
<1>4. CASE Goto(w, "connecting") /\ Revision(o) = plan[o].policy
  <2>1. MovesTo(w, "connecting") /\ "connecting" \in RunPc \ {"registered"} /\ EffectsOnly(o)
    BY <1>1, <1>2, <1>4, GotoMoves, NoEffect DEF RunPc
  <2> QED  BY <1>1, <1>2, <1>4, <2>1, RunAdvances
<1> QED  BY <1>3, <1>4 DEF PrepareAgentRun

LEMMA ConnectStep ==
    ASSUME ServiceInv, NEW w \in Workers, run[w] # Idle, ConnectRun(w)
    PROVE  ServiceInv'
<1> PICK o : o = run[w].op
  OBVIOUS
<1>1. Claimed(w) /\ run[w].pc = "connecting"
      /\ UNCHANGED <<store, policy, slot, cancels, decisions, target, audited>>
  BY DEF ConnectRun, Claimed
<1>2. o \in Ops /\ (target[o] # "idle" => IsWrite(o) /\ o \in audited)
      /\ (IsWrite(o) => target[o] = "idle" /\ o \in audited) /\ ClientOK
  BY <1>1, ClaimFacts DEF EffectAt, ServiceInv
<1>3. CASE Goto(w, "failing")
  BY <1>1, <1>2, <1>3, RunStops
<1>4. CASE Goto(w, "executing")
  <2>1. MovesTo(w, "executing") /\ "executing" \in RunPc \ {"registered"} /\ EffectsOnly(o)
    BY <1>1, <1>2, <1>4, GotoMoves, NoEffect DEF RunPc
  <2>2. IsWrite(o) => EffectAt("executing", o)'
    BY <1>1, <1>2 DEF EffectAt
  <2>3. HoldsScope(w)
    BY <1>1 DEF HoldsScope
  <2> QED  BY <1>1, <1>2, <2>1, <2>2, <2>3, RunAdvances
<1> QED  BY <1>3, <1>4 DEF ConnectRun

LEMMA ExecuteReadStep ==
    ASSUME ServiceInv, NEW w \in Workers, run[w] # Idle, ExecuteRead(w)
    PROVE  ServiceInv'
<1> PICK o : o = run[w].op
  OBVIOUS
<1>1. Claimed(w) /\ run[w].pc = "executing" /\ ~IsWrite(o)
      /\ UNCHANGED <<store, policy, slot, cancels, decisions, target, audited>>
  BY DEF ExecuteRead, Claimed
<1>2. o \in Ops /\ target[o] = "idle" /\ ClientOK
  BY <1>1, ClaimFacts DEF ServiceInv
<1>3. CASE Goto(w, "failing") \/ Goto(w, "cancelling")
  BY <1>1, <1>2, <1>3, RunStops
<1>4. CASE Goto(w, "ok")
  <2>1. MovesTo(w, "ok") /\ "ok" \in RunPc \ {"registered"} /\ EffectsOnly(o)
    BY <1>1, <1>2, <1>4, GotoMoves, NoEffect DEF RunPc
  <2>2. HoldsScope(w)
    BY <1>1 DEF HoldsScope
  <2> QED  BY <1>1, <1>2, <2>1, <2>2, RunAdvances
<1> QED  BY <1>3, <1>4 DEF ExecuteRead

LEMMA SendStatementStep ==
    ASSUME ServiceInv, NEW w \in Workers, run[w] # Idle, SendStatement(w)
    PROVE  ServiceInv'
<1> PICK o : o = run[w].op
  OBVIOUS
<1>1. /\ Claimed(w) /\ run[w].pc = "executing" /\ IsWrite(o) /\ Goto(w, "sent")
      /\ target' = [target EXCEPT ![o] = "sent"]
      /\ UNCHANGED <<store, policy, slot, cancels, decisions, audited>>
  BY DEF SendStatement, Claimed
<1>2. o \in Ops /\ o \in audited /\ ClientOK
  BY <1>1, ClaimFacts DEF EffectAt, ServiceInv
<1>3. MovesTo(w, "sent") /\ "sent" \in RunPc \ {"registered"}
  BY <1>1, <1>2, GotoMoves DEF RunPc
<1>4. EffectsOnly(o) /\ target'[o] = "sent"
  BY <1>1, <1>2 DEF ClientOK, EffectsOnly
<1>5. EffectAt("sent", o)'
  BY <1>1, <1>2, <1>4 DEF EffectAt
<1>6. HoldsScope(w)
  BY <1>1 DEF HoldsScope
<1> QED  BY <1>1, <1>2, <1>3, <1>4, <1>5, <1>6, RunAdvances

LEMMA StatementFailsStep ==
    ASSUME ServiceInv, NEW w \in Workers, run[w] # Idle, StatementFails(w)
    PROVE  ServiceInv'
<1> PICK o : o = run[w].op
  OBVIOUS
<1>1. /\ Claimed(w) /\ run[w].pc = "sent" /\ Goto(w, "failing")
      /\ target' = [target EXCEPT ![o] = IF target[o] = "sent" THEN "aborted" ELSE target[o]]
      /\ UNCHANGED <<store, policy, slot, cancels, decisions, audited>>
  BY DEF StatementFails, Claimed
<1>2. /\ o \in Ops /\ o \in audited /\ ClientOK /\ IsWrite(o)
      /\ target[o] = "sent" \/ (target[o] = "applied" /\ plan[o].kind \in AutocommitKinds)
  BY <1>1, ClaimFacts DEF EffectAt, ServiceInv
<1>3. MovesTo(w, "failing") /\ "failing" \in RunPc \ {"registered"}
  BY <1>1, <1>2, GotoMoves DEF RunPc
<1>4. EffectsOnly(o) /\ (target'[o] = "aborted" \/ plan[o].kind \in AutocommitKinds)
  BY <1>1, <1>2 DEF ClientOK, EffectsOnly
<1>5. EffectAt("failing", o)'
  BY <1>1, <1>2, <1>4 DEF EffectAt, store
<1>6. HoldsScope(w)
  BY <1>1 DEF HoldsScope
<1> QED  BY <1>1, <1>2, <1>3, <1>4, <1>5, <1>6, RunAdvances

LEMMA SendCommitStep ==
    ASSUME ServiceInv, NEW w \in Workers, run[w] # Idle, SendCommit(w)
    PROVE  ServiceInv'
<1> PICK o : o = run[w].op
  OBVIOUS
<1>1. /\ Claimed(w) /\ run[w].pc = "sent" /\ Goto(w, "committing")
      /\ target' = [target EXCEPT ![o] = IF target[o] = "sent" THEN "committing" ELSE target[o]]
      /\ UNCHANGED <<store, policy, slot, cancels, decisions, audited>>
  BY DEF SendCommit, Claimed
<1>2. o \in Ops /\ o \in audited /\ ClientOK /\ IsWrite(o)
  BY <1>1, ClaimFacts DEF EffectAt, ServiceInv
<1>3. MovesTo(w, "committing") /\ "committing" \in RunPc \ {"registered"}
  BY <1>1, <1>2, GotoMoves DEF RunPc
<1>4. EffectsOnly(o)
  BY <1>1, <1>2 DEF ClientOK, EffectsOnly
<1>5. EffectAt("committing", o)'
  BY <1>1, <1>2 DEF EffectAt
<1>6. HoldsScope(w)
  BY <1>1 DEF HoldsScope
<1> QED  BY <1>1, <1>2, <1>3, <1>4, <1>5, <1>6, RunAdvances

LEMMA CommitReturnsStep ==
    ASSUME ServiceInv, NEW w \in Workers, run[w] # Idle, CommitReturns(w)
    PROVE  ServiceInv'
<1> PICK o : o = run[w].op
  OBVIOUS
<1>1. Claimed(w) /\ run[w].pc = "committing"
      /\ UNCHANGED <<store, policy, slot, cancels, decisions, target, audited>>
  BY DEF CommitReturns, Claimed
<1>2. o \in Ops /\ o \in audited /\ ClientOK /\ IsWrite(o)
  BY <1>1, ClaimFacts DEF EffectAt, ServiceInv
<1>3. CASE Goto(w, "unknown")
  BY <1>1, <1>2, <1>3, RunStops
<1>4. CASE Goto(w, "ok") /\ target[o] = "applied"
  <2>1. MovesTo(w, "ok") /\ "ok" \in RunPc \ {"registered"} /\ EffectsOnly(o)
    BY <1>1, <1>2, <1>4, GotoMoves, NoEffect DEF RunPc
  <2>2. EffectAt("ok", o)'
    BY <1>1, <1>4 DEF EffectAt
  <2>3. HoldsScope(w)
    BY <1>1 DEF HoldsScope
  <2> QED  BY <1>1, <1>2, <2>1, <2>2, <2>3, RunAdvances
<1> QED  BY <1>3, <1>4 DEF CommitReturns

LEMMA InterruptWriteStep ==
    ASSUME ServiceInv, NEW w \in Workers, run[w] # Idle, InterruptWrite(w)
    PROVE  ServiceInv'
<1> PICK o : o = run[w].op
  OBVIOUS
<1>1. /\ Claimed(w) /\ IsWrite(o) /\ Goto(w, "unknown")
      /\ run[w].pc \in {"executing", "sent", "committing"}
      /\ target' = [target EXCEPT ![o] = IF target[o] = "sent" THEN "aborted" ELSE target[o]]
      /\ UNCHANGED <<store, policy, slot, cancels, decisions, audited>>
  BY DEF InterruptWrite, Claimed
<1>2. o \in Ops /\ o \in audited /\ ClientOK
  BY <1>1, ClaimFacts DEF EffectAt, ServiceInv
<1>3. MovesTo(w, "unknown") /\ "unknown" \in RunPc \ {"registered"}
  BY <1>1, <1>2, GotoMoves DEF RunPc
<1>4. EffectsOnly(o)
  BY <1>1, <1>2 DEF ClientOK, EffectsOnly
<1>5. EffectAt("unknown", o)'
  BY DEF EffectAt
<1>6. HoldsScope(w)
  BY <1>1 DEF HoldsScope
<1> QED  BY <1>1, <1>2, <1>3, <1>4, <1>5, <1>6, RunAdvances

--------------------------------------------------------------------------------
(* The store moves under runs that stay where they are, end or claim. *)

LiveStays == \A r \in Runtimes : runtime[r] = "live" => runtime'[r] = "live"

OneLive == \A q, r \in Runtimes : runtime[q] = "live" /\ runtime[r] = "live" => q = r

(* The step gives no verdict on the mutation o. *)
NoVerdict(o) == IsWrite(o) /\ state'[o] \in {"succeeded", "failed"} => state'[o] = state[o]

(* An existing row stays, and once started it stays started. *)
LEMMA RowFacts ==
    ASSUME RowsMove, NEW o \in Ops, Store!Exists(o)
    PROVE  /\ Store!Exists(o)' /\ plan'[o] = plan[o]
           /\ IsWrite(o)' <=> IsWrite(o)
           /\ Started(o) => Started(o)'
<1>1. /\ plan'[o] = plan[o] /\ state'[o] \in OperationState
      /\ state'[o] = state[o] \/ ensure_transition(state[o], state'[o])
  BY DEF RowsMove
<1>2. Store!Exists(o)'
  BY <1>1, StoreAssumption DEF Store!Exists
<1>3. Started(o) => Started(o)'
  BY <1>1 DEF Started, ensure_transition
<1> QED  BY <1>1, <1>2, <1>3 DEF IsWrite

(* Effects and receipts still agree when no verdict was given. *)
LEMMA RowStaysHonest ==
    ASSUME RowsMove, NEW o \in Ops, EffectInv(o), Honest(o), NoVerdict(o),
           target' = target, audited' = audited
    PROVE  EffectInv(o)' /\ Honest(o)'
<1>1. CASE Store!Exists(o)
  <2>1. Store!Exists(o)' /\ plan'[o] = plan[o] /\ (IsWrite(o)' <=> IsWrite(o))
        /\ (Started(o) => Started(o)')
    BY <1>1, RowFacts
  <2>2. EffectInv(o)'
    BY <2>1 DEF EffectInv
  <2>3. Honest(o)'
    BY <1>1, <2>1 DEF Honest, EffectInv, NoVerdict, Started
  <2> QED  BY <2>2, <2>3
<1>2. CASE ~Store!Exists(o)
  <2>1. state'[o] \in {NoRow, "planned"} /\ target[o] = "idle"
    BY <1>2 DEF RowsMove, EffectInv
  <2>2. EffectInv(o)'
    BY <2>1 DEF EffectInv
  <2>3. Honest(o)'
    BY <2>1 DEF Honest, Store!Exists
  <2> QED  BY <2>2, <2>3
<1> QED  BY <1>1, <1>2

(* A run that stays keeps its claim on a row that got no verdict. *)
LEMMA RunStays ==
    ASSUME ServiceInv, RowsMove, LiveStays, NEW v \in Workers, run'[v] = run[v],
           target' = target, audited' = audited,
           Claimed(v) => NoVerdict(run[v].op)
    PROVE  RunIsOwned(v)' /\ ClaimInv(v)'
<1> SUFFICES ASSUME run[v] # Idle  PROVE RunIsOwned(v)' /\ ClaimInv(v)'
  BY DEF RunIsOwned, ClaimInv, Claimed
<1> PICK o \in Ops : o = run[v].op
  BY RunFacts DEF ServiceInv
<1>1. /\ runtime[run[v].rt] = "live" /\ run[v].rt \in Runtimes
      /\ Store!Exists(o) /\ plan[o].runtime = run[v].rt
  BY RunFacts DEF ServiceInv, RunIsOwned
<1>2. Store!Exists(o)' /\ plan'[o] = plan[o] /\ (IsWrite(o)' <=> IsWrite(o))
      /\ (Started(o) => Started(o)')
  BY <1>1, RowFacts
<1>3. RunIsOwned(v)'
  BY <1>1, <1>2 DEF RunIsOwned, LiveStays, Store!Exists
<1>4. ClaimInv(v)'
  <2> SUFFICES ASSUME Claimed(v)  PROVE ClaimInv(v)'
    BY DEF ClaimInv, Claimed
  <2>1. ClaimInv(v) /\ NoVerdict(o)
    BY DEF ServiceInv
  <2> QED  BY <1>2, <2>1 DEF ClaimInv, EffectAt, NoVerdict, Claimed, Started, IsWrite
<1> QED  BY <1>3, <1>4

(* GateInv of one run. *)
ScopeOK(w) == run[w] # Idle /\ HoldsScope(w) => Revision(run[w].op) = plan[run[w].op].policy

LEMMA GateSplit ==
    ASSUME ServiceInv
    PROVE  MayOverlap = FALSE => OneLive /\ \A w \in Workers : ScopeOK(w)
BY DEF ServiceInv, GateInv, OneLive, ScopeOK

(* The plan of a run that stays, and with it the policy it needs, stay. *)
LEMMA ScopeStays ==
    ASSUME ServiceInv, RowsMove, policy' = policy, NEW v \in Workers, run'[v] = run[v],
           ScopeOK(v)
    PROVE  ScopeOK(v)'
<1> SUFFICES ASSUME run[v] # Idle  PROVE ScopeOK(v)'
  BY DEF ScopeOK
<1> PICK o \in Ops : o = run[v].op
  BY RunFacts DEF ServiceInv
<1>1. plan'[o] = plan[o]
  BY RowFacts DEF ServiceInv, RunIsOwned
<1>2. Revision(o)' = Revision(o) /\ (HoldsScope(v)' <=> HoldsScope(v))
  BY DEF Revision, HoldsScope
<1> QED  BY <1>1, <1>2 DEF ScopeOK, Revision

(* The store moves and every run stays where it is. *)
LEMMA RunsWatch ==
    ASSUME ServiceInv, RowsMove, LiveStays, \A o \in Ops : NoVerdict(o),
           UNCHANGED <<policy, run, target, audited>>, HandlesStay, ClientOK', AgentsRead',
           MayOverlap = FALSE => OneLive'
    PROVE  ServiceInv'
<1>1. \A v \in Workers : run'[v] = run[v] /\ (Claimed(v)' <=> Claimed(v))
  BY DEF Claimed
<1>2. \A v \in Workers : RunIsOwned(v)' /\ ClaimInv(v)'
  <2> SUFFICES ASSUME NEW v \in Workers  PROVE RunIsOwned(v)' /\ ClaimInv(v)'
    OBVIOUS
  <2>1. Claimed(v) => NoVerdict(run[v].op)
    BY RunFacts DEF Claimed, ServiceInv
  <2> QED  BY <1>1, <2>1, RunStays
<1>3. ExclusiveClaim'
  BY <1>1 DEF ServiceInv, ExclusiveClaim
<1>4. \A o \in Ops : EffectInv(o)' /\ Honest(o)'
  BY HonestSplit, RowStaysHonest DEF ServiceInv
<1>5. HonestReceipts'
  BY <1>4 DEF HonestReceipts, Honest
<1>6. SlotInv'
  <2>1. \A o \in Ops : RunsOf(o)' = RunsOf(o)
    BY DEF RunsOf
  <2> QED  BY <2>1 DEF ServiceInv, SlotInv, HandlesStay
<1>7. GateInv'
  <2>1. MayOverlap = FALSE => \A w \in Workers : ScopeOK(w)'
    BY <1>1, GateSplit, ScopeStays
  <2> QED  BY <2>1 DEF GateInv, OneLive, ScopeOK
<1> QED  BY <1>2, <1>3, <1>4, <1>5, <1>6, <1>7 DEF ServiceInv

(* Run w ends.  It may take a verdict on its own operation with it, if it  *)
(* had the claim and the verdict is honest.                                *)
LEMMA RunEnds ==
    ASSUME ServiceInv, RowsMove, NEW w \in Workers, NEW o \in Ops, run[w] # Idle,
           run[w].op = o, EndRun(w), runtime' = runtime, plan' = plan,
           \A q \in Ops \ {o} : state'[q] = state[q],
           NoVerdict(o) \/ (Claimed(w) /\ Honest(o)'),
           UNCHANGED <<policy, cancels, decisions, target, audited>>
    PROVE  ServiceInv'
<1>1. Leaves(w) /\ ClientOK
  BY EndLeaves DEF ServiceInv
<1>2. \A v \in Workers \ {w} : run'[v] = run[v] /\ (Claimed(v)' <=> Claimed(v))
  BY <1>1 DEF Leaves, Claimed
<1>3. run'[w] = Idle /\ ~Claimed(w)' /\ LiveStays
  BY <1>1 DEF Leaves, Claimed, LiveStays
<1>4. \A q \in Ops \ {o} : NoVerdict(q)
  BY DEF NoVerdict
<1>5. slot' \in [Ops -> [handles: Nat, signal: BOOLEAN]] /\ SlotInv'
  BY <1>1, DropHandle DEF ServiceInv
<1>6. ClientOK'
  BY <1>1, <1>5 DEF ClientOK, Leaves, RunType
<1>7. AgentsRead'
  <2>1. \A q \in AgentOps : Store!Exists(q)' => Store!Exists(q)
    BY SwitchAssumption DEF ServiceInv, RunIsOwned, Store!Exists
  <2> QED  BY <2>1 DEF ServiceInv, AgentsRead, IsWrite
<1>8. ASSUME NEW v \in Workers  PROVE RunIsOwned(v)' /\ ClaimInv(v)'
  <2>1. CASE v = w
    BY <1>3, <2>1 DEF RunIsOwned, ClaimInv
  <2>2. CASE v # w
    <3>1. ASSUME Claimed(v)  PROVE NoVerdict(run[v].op)
      <4>1. run[v].op \in Ops
        BY <1>1, <3>1, RunFacts DEF Claimed
      <4>2. run[v].op = o => ~Claimed(w)
        BY <2>2, <3>1 DEF ServiceInv, ExclusiveClaim
      <4> QED  BY <1>4, <4>1, <4>2
    <3> QED  BY <1>2, <1>3, <2>2, <3>1, RunStays
  <2> QED  BY <2>1, <2>2
<1>9. ExclusiveClaim'
  BY <1>2, <1>3 DEF ServiceInv, ExclusiveClaim
<1>10. ASSUME NEW q \in Ops  PROVE EffectInv(q)' /\ Honest(q)'
  <2>1. EffectInv(q) /\ Honest(q)
    BY HonestSplit DEF ServiceInv
  <2>2. CASE NoVerdict(q)
    BY <2>1, <2>2, RowStaysHonest
  <2>3. CASE ~NoVerdict(q)
    <3>1. q = o /\ Claimed(w) /\ Honest(q)'
      BY <1>4, <2>3
    <3>2. Store!Exists(q)
      BY <3>1 DEF ServiceInv, RunIsOwned
    <3> QED  BY <2>1, <3>1, <3>2, RowFacts DEF EffectInv
  <2> QED  BY <2>2, <2>3
<1>11. HonestReceipts'
  BY <1>10 DEF HonestReceipts, Honest
<1>12. GateInv'
  <2>1. MayOverlap = FALSE => OneLive' /\ \A v \in Workers : ScopeOK(v)'
    <3> SUFFICES ASSUME MayOverlap = FALSE  PROVE OneLive' /\ \A v \in Workers : ScopeOK(v)'
      OBVIOUS
    <3>1. OneLive'
      BY GateSplit DEF OneLive
    <3>2. ScopeOK(w)'
      BY <1>3 DEF ScopeOK
    <3>3. \A v \in Workers \ {w} : ScopeOK(v)'
      BY <1>2, GateSplit, ScopeStays
    <3> QED  BY <3>1, <3>2, <3>3
  <2> QED  BY <2>1 DEF GateInv, OneLive, ScopeOK
<1> QED  BY <1>5, <1>6, <1>7, <1>8, <1>9, <1>10, <1>11, <1>12 DEF ServiceInv

(* Run w wins the claim on o. *)
LEMMA RunClaims ==
    ASSUME ServiceInv, RowsMove, NEW w \in Workers, NEW o \in Ops, run[w] # Idle,
           run[w].op = o, run[w].pc = "registered", MovesTo(w, "claimed"),
           state[o] \in {"ready", "approved"}, state'[o] = "executing",
           \A q \in Ops \ {o} : state'[q] = state[q], runtime' = runtime, plan' = plan,
           UNCHANGED <<policy, slot, cancels, decisions, target, audited>>
    PROVE  ServiceInv'
<1>1. /\ run'[w] # Idle /\ run'[w].pc = "claimed" /\ run'[w].rt = run[w].rt /\ run'[w].op = o
      /\ \A v \in Workers \ {w} : run'[v] = run[v]
  BY DEF MovesTo
<1>2. \A v \in Workers \ {w} : Claimed(v)' <=> Claimed(v)
  BY <1>1 DEF Claimed
<1>3. LiveStays /\ \A q \in Ops : NoVerdict(q)
  BY DEF LiveStays, NoVerdict
<1>4. Store!Exists(o) /\ ~Started(o) /\ target[o] = "idle"
  BY DEF ServiceInv, RunIsOwned, EffectInv, Started
<1>5. \A v \in Workers : Claimed(v) => run[v].op # o
  BY <1>4 DEF ServiceInv, ClaimInv
<1>6. ClientOK'
  BY DEF ServiceInv, ClientOK, MovesTo, RunType
<1>7. AgentsRead'
  <2>1. \A q \in AgentOps : Store!Exists(q)' => Store!Exists(q)
    BY <1>4, SwitchAssumption DEF Store!Exists
  <2> QED  BY <2>1 DEF ServiceInv, AgentsRead, IsWrite
<1>8. ASSUME NEW v \in Workers  PROVE RunIsOwned(v)' /\ ClaimInv(v)'
  <2>1. CASE v = w
    <3>1. RunIsOwned(w)'
      <4>1. Store!Exists(o)'
        BY <1>4, RowFacts
      <4> QED  BY <1>1, <4>1 DEF ServiceInv, RunIsOwned, Store!Exists
    <3>2. ClaimInv(w)'
      BY <1>1, <1>4 DEF ClaimInv, Started, EffectAt
    <3> QED  BY <2>1, <3>1, <3>2
  <2>2. CASE v # w
    <3>1. Claimed(v) => NoVerdict(run[v].op)
      BY <1>3, RunFacts DEF Claimed, ServiceInv
    <3> QED  BY <1>1, <1>3, <2>2, <3>1, RunStays
  <2> QED  BY <2>1, <2>2
<1>9. ExclusiveClaim'
  BY <1>1, <1>2, <1>5 DEF ServiceInv, ExclusiveClaim
<1>10. \A q \in Ops : EffectInv(q)' /\ Honest(q)'
  BY <1>3, HonestSplit, RowStaysHonest DEF ServiceInv
<1>11. HonestReceipts'
  BY <1>10 DEF HonestReceipts, Honest
<1>12. SlotInv'
  <2>1. \A q \in Ops : RunsOf(q)' = RunsOf(q)
    BY RunsKept
  <2> QED  BY <2>1 DEF ServiceInv, SlotInv
<1>13. GateInv'
  <2>1. ASSUME MayOverlap = FALSE  PROVE OneLive' /\ \A v \in Workers : ScopeOK(v)'
    <3>1. OneLive'
      BY <2>1, GateSplit DEF OneLive
    <3>2. ScopeOK(w)'
      <4>1. HoldsScope(w)' => HoldsScope(w)
        BY <1>1 DEF HoldsScope
      <4>2. HoldsScope(w) => Revision(o) = plan[o].policy
        BY <2>1, GateSplit DEF ScopeOK
      <4> QED  BY <1>1, <4>1, <4>2 DEF ScopeOK, Revision
    <3>3. \A v \in Workers \ {w} : ScopeOK(v)'
      BY <1>1, <2>1, GateSplit, ScopeStays
    <3> QED  BY <3>1, <3>2, <3>3
  <2> QED  BY <2>1 DEF GateInv, OneLive, ScopeOK
<1> QED  BY <1>6, <1>7, <1>8, <1>9, <1>10, <1>11, <1>12, <1>13 DEF ServiceInv

(* The store is left alone: what the services know of it stays. *)
LEMMA RowsStay ==
    ASSUME Store!TypeOK, UNCHANGED store
    PROVE  RowsMove /\ LiveStays /\ \A o \in Ops : NoVerdict(o)
<1>1. \A o \in Ops : state[o] \in OperationState \cup {NoRow}
  BY SameWords DEF Store!TypeOK
<1> QED  BY <1>1 DEF store, RowsMove, LiveStays, NoVerdict, Store!Exists

(* Run w registers for o. *)
LEMMA RunBegins ==
    ASSUME ServiceInv, Store!TypeOK, NEW w \in Workers, NEW r \in Runtimes, NEW o \in Ops,
           Begins(w, r, o), register(o), runtime[r] = "live", Store!Exists(o),
           plan[o].runtime = r, o \notin AgentOps => Revision(o) = plan[o].policy,
           UNCHANGED <<store, policy, cancels, decisions, target, audited>>
    PROVE  ServiceInv'
<1>1. /\ run[w] = Idle /\ run'[w] # Idle /\ run'[w].pc = "registered"
      /\ run'[w].rt = r /\ run'[w].op = o
      /\ \A v \in Workers \ {w} : run'[v] = run[v]
  BY DEF Begins
<1>2. \A v \in Workers : Claimed(v)' => v # w /\ Claimed(v)
  BY <1>1 DEF Claimed
<1>3. RowsMove /\ LiveStays /\ (\A q \in Ops : NoVerdict(q)) /\ plan' = plan /\ state' = state
      /\ runtime' = runtime
  BY RowsStay DEF store
<1>4. slot' \in [Ops -> [handles: Nat, signal: BOOLEAN]] /\ SlotInv'
  BY AddHandle DEF ServiceInv
<1>5. ClientOK'
  BY <1>4 DEF ServiceInv, ClientOK, Begins, RunType
<1>6. AgentsRead'
  BY <1>3 DEF ServiceInv, AgentsRead, IsWrite, Store!Exists
<1>7. ASSUME NEW v \in Workers  PROVE RunIsOwned(v)' /\ ClaimInv(v)'
  <2>1. CASE v = w
    <3>1. Store!Exists(o)'
      BY <1>3 DEF Store!Exists
    <3> QED  BY <1>1, <1>2, <1>3, <2>1, <3>1 DEF RunIsOwned, ClaimInv, Store!Exists
  <2>2. CASE v # w
    <3>1. Claimed(v) => NoVerdict(run[v].op)
      BY <1>3, RunFacts DEF Claimed, ServiceInv
    <3> QED  BY <1>1, <1>3, <2>2, <3>1, RunStays
  <2> QED  BY <2>1, <2>2
<1>8. ExclusiveClaim'
  BY <1>1, <1>2 DEF ServiceInv, ExclusiveClaim
<1>9. \A q \in Ops : EffectInv(q)' /\ Honest(q)'
  BY <1>3, HonestSplit, RowStaysHonest DEF ServiceInv
<1>10. HonestReceipts'
  BY <1>9 DEF HonestReceipts, Honest
<1>11. GateInv'
  <2>1. ASSUME MayOverlap = FALSE  PROVE OneLive' /\ \A v \in Workers : ScopeOK(v)'
    <3>1. OneLive'
      BY <1>3, <2>1, GateSplit DEF OneLive
    <3>2. ScopeOK(w)'
      BY <1>1, <1>3 DEF ScopeOK, HoldsScope, Revision
    <3>3. \A v \in Workers \ {w} : ScopeOK(v)'
      BY <1>1, <1>3, <2>1, GateSplit, ScopeStays
    <3> QED  BY <3>1, <3>2, <3>3
  <2> QED  BY <2>1 DEF GateInv, OneLive, ScopeOK
<1> QED  BY <1>4, <1>5, <1>6, <1>7, <1>8, <1>9, <1>10, <1>11 DEF ServiceInv

--------------------------------------------------------------------------------
(* The invariant is kept by the steps that leave every run in its place. *)

(* transition_tx moves one row. *)
LEMMA TransitionMoves ==
    ASSUME Store!TypeOK, NEW o \in Ops, NEW t, Store!transition_tx(o, t)
    PROVE  /\ state'[o] = t /\ ensure_transition(state[o], t)
           /\ \A q \in Ops \ {o} : state'[q] = state[q]
BY DEF Store!TypeOK, Store!transition_tx, ensure_transition, Store!ensure_transition

LEMMA AgentsStay ==
    ASSUME ServiceInv, RowsMove, \A q \in AgentOps : Store!Exists(q)' => Store!Exists(q)
    PROVE  AgentsRead'
BY SwitchAssumption, RowFacts DEF ServiceInv, AgentsRead

(* Nothing but the store, the cancel requests and the decisions changes.   *)
LEMMA StoreOnly ==
    ASSUME ServiceInv, RowsMove, runtime' = runtime, \A o \in Ops : NoVerdict(o),
           UNCHANGED <<policy, run, target, audited>>, HandlesStay,
           cancels' \in [Cancellers ->
                 {Idle} \cup [pc: {"read"}, rt: Runtimes, op: Ops, seen: OperationState]],
           decisions' \subseteq [rt: Runtimes, op: Ops, policy: Policies],
           AgentsRead'
    PROVE  ServiceInv'
<1>1. LiveStays /\ (MayOverlap = FALSE => OneLive')
  BY GateSplit DEF LiveStays, OneLive
<1>2. ClientOK'
  BY DEF ServiceInv, ClientOK, HandlesStay
<1> QED  BY <1>1, <1>2, RunsWatch

LEMMA ClientStays ==
    ASSUME ServiceInv, UNCHANGED client
    PROVE  /\ run' = run /\ HandlesStay
           /\ cancels' \in [Cancellers ->
                 {Idle} \cup [pc: {"read"}, rt: Runtimes, op: Ops, seen: OperationState]]
           /\ decisions' \subseteq [rt: Runtimes, op: Ops, policy: Policies]
BY DEF ServiceInv, ClientOK, client, HandlesStay

LEMMA ProposeStep ==
    ASSUME ServiceInv, Store!TypeOK, RowsMove, NEW r \in Runtimes, NEW o \in Ops,
           propose_sql(r, o) \/ plan_agent_read_scoped(r, o)
    PROVE  ServiceInv'
<1>1. PICK kind, payload, d, t :
          /\ Store!insert_planned(r, o, PlanRequest(r, o, kind, payload, d), t)
          /\ o \in AgentOps => kind = "read_query"
  BY DEF propose_sql, plan_agent_read_scoped
<1>2. ~Store!Exists(o) /\ UNCHANGED <<policy, client, target, audited>>
  BY DEF propose_sql, plan_agent_read_scoped
<1>3. state[o] = NoRow /\ NoRow # "planned"
  BY <1>2, StoreAssumption DEF Store!Exists, OperationState
<1>4. /\ runtime' = runtime
      /\ plan' = [plan EXCEPT ![o] = PlanRequest(r, o, kind, payload, d)]
      /\ state' = [state EXCEPT ![o] = "planned"]
  BY <1>1, <1>3 DEF Store!insert_planned
<1>5. /\ plan'[o].kind = kind /\ state'[o] = "planned"
      /\ \A q \in Ops \ {o} : state'[q] = state[q] /\ plan'[q] = plan[q]
  BY <1>4 DEF Store!TypeOK, PlanRequest
<1>6. \A q \in Ops : NoVerdict(q)
  BY <1>5 DEF NoVerdict
<1>7. AgentsRead'
  <2> SUFFICES ASSUME NEW q \in AgentOps, Store!Exists(q)'  PROVE ~IsWrite(q)'
    BY DEF AgentsRead
  <2>1. q \in Ops
    BY SwitchAssumption
  <2>2. CASE q = o
    BY <1>1, <1>5, <2>2 DEF IsWrite, may_mutate_target
  <2>3. CASE q # o
    BY <1>5, <2>1, <2>3 DEF ServiceInv, AgentsRead, IsWrite, Store!Exists
  <2> QED  BY <2>2, <2>3
<1> QED  BY <1>2, <1>4, <1>6, <1>7, ClientStays, StoreOnly

LEMMA FinishProposalStep ==
    ASSUME ServiceInv, Store!TypeOK, RowsMove, NEW c \in planCalls, FinishProposal(c)
    PROVE  ServiceInv'
<1>1. c.op \in Ops /\ c.target \in {"ready", "pending_approval"}
  BY DEF Store!TypeOK, Store!PlanCall
<1>2. runtime' = runtime /\ UNCHANGED <<policy, client, target, audited>>
  BY DEF FinishProposal, Store!finish_plan
<1>3. \/ state' = state
      \/ Store!Exists(c.op) /\ Store!transition_tx(c.op, c.target)
  BY DEF FinishProposal, Store!finish_plan, Store!ensure_runtime
<1>4. (\A q \in Ops : NoVerdict(q)) /\ \A q \in Ops : Store!Exists(q)' => Store!Exists(q)
  BY <1>1, <1>3, TransitionMoves DEF NoVerdict, Store!Exists
<1> QED  BY <1>2, <1>4, AgentsStay, SwitchAssumption, ClientStays, StoreOnly

LEMMA DecideStep ==
    ASSUME ServiceInv, Store!TypeOK, RowsMove, NEW d \in decisions, DecideLocal(d)
    PROVE  ServiceInv'
<1>1. d.op \in Ops
  BY DEF ServiceInv, ClientOK
<1>2. UNCHANGED <<policy, run, slot, cancels, target, audited>> /\ decisions' \subseteq decisions
  BY DEF DecideLocal
<1>3. \/ runtime' = runtime /\ state' = state
      \/ /\ runtime' = runtime /\ Store!Exists(d.op)
         /\ \E t \in {"approved", "rejected", "expired"} : Store!transition_tx(d.op, t)
  <2>1. CASE UNCHANGED store
    BY <2>1 DEF store
  <2>2. ASSUME NEW decision \in Store!Decision, NEW t \in Store!CapturedTimes(d.op),
               Store!decide_approval(d.rt, d.op, "local_user", plan[d.op].payload, d.policy,
                                     decision, t)
        PROVE  /\ runtime' = runtime /\ Store!Exists(d.op)
               /\ \E s \in {"approved", "rejected", "expired"} : Store!transition_tx(d.op, s)
    BY <2>2 DEF Store!decide_approval, Store!ensure_runtime, Store!Decision
  <2> QED  BY <2>1, <2>2 DEF DecideLocal
<1>4. (\A q \in Ops : NoVerdict(q)) /\ \A q \in Ops : Store!Exists(q)' => Store!Exists(q)
  BY <1>1, <1>3, TransitionMoves DEF NoVerdict, Store!Exists
<1>5. AgentsRead'
  BY <1>4, AgentsStay, SwitchAssumption
<1>6. HandlesStay
  BY <1>2 DEF HandlesStay, ServiceInv, ClientOK
<1>7. /\ decisions' \subseteq [rt: Runtimes, op: Ops, policy: Policies]
      /\ cancels' \in [Cancellers ->
             {Idle} \cup [pc: {"read"}, rt: Runtimes, op: Ops, seen: OperationState]]
  BY <1>2 DEF ServiceInv, ClientOK
<1> QED  BY <1>2, <1>3, <1>4, <1>5, <1>6, <1>7, StoreOnly

LEMMA ActOnCancelStep ==
    ASSUME ServiceInv, Store!TypeOK, RowsMove, NEW c \in Cancellers, ActOnCancel(c)
    PROVE  ServiceInv'
<1> PICK o : o = cancels[c].op
  OBVIOUS
<1>1. o \in Ops /\ ClientOK
  BY DEF ServiceInv, ClientOK, ActOnCancel
<1>2. UNCHANGED <<policy, run, decisions, target, audited>>
  BY DEF ActOnCancel
<1>3. \/ runtime' = runtime /\ state' = state
      \/ runtime' = runtime /\ Store!Exists(o) /\ Store!transition_tx(o, "cancelled")
  BY DEF ActOnCancel, Store!finish, Store!ensure_runtime, store
<1>4. (\A q \in Ops : NoVerdict(q)) /\ \A q \in Ops : Store!Exists(q)' => Store!Exists(q)
  BY <1>1, <1>3, TransitionMoves DEF NoVerdict, Store!Exists
<1>5. AgentsRead'
  BY <1>4, AgentsStay, SwitchAssumption
<1>6. HandlesStay
  <2>1. CASE SignalSlot(o)
    BY <1>1, <2>1, SignalKeepsHandles
  <2>2. CASE UNCHANGED slot
    BY <1>1, <2>2 DEF HandlesStay, ClientOK
  <2> QED  BY <2>1, <2>2 DEF ActOnCancel
<1>7. /\ decisions' \subseteq [rt: Runtimes, op: Ops, policy: Policies]
      /\ cancels' \in [Cancellers ->
             {Idle} \cup [pc: {"read"}, rt: Runtimes, op: Ops, seen: OperationState]]
  BY <1>1, <1>2 DEF ClientOK, ActOnCancel
<1> QED  BY <1>2, <1>3, <1>4, <1>5, <1>6, <1>7, StoreOnly

(* exact_request, cancel_query and the read of cancel_terminal leave the   *)
(* store alone.                                                            *)
LEMMA RequestStep ==
    ASSUME ServiceInv, Store!TypeOK, NEW r \in Runtimes, NEW o \in Ops,
           \/ exact_request(r, o) \/ CancelQuery(r, o)
           \/ \E c \in Cancellers : cancel_terminal(c, r, o)
    PROVE  ServiceInv'
<1>1. UNCHANGED <<store, policy, run, target, audited>> /\ ClientOK
  BY DEF exact_request, CancelQuery, cancel_terminal, ServiceInv
<1>2. RowsMove /\ (\A q \in Ops : NoVerdict(q)) /\ runtime' = runtime /\ state' = state
  BY <1>1, RowsStay DEF store
<1>3. AgentsRead'
  BY <1>2, AgentsStay DEF Store!Exists
<1>4. HandlesStay
  <2>1. CASE CancelQuery(r, o)
    BY <1>1, <2>1, SignalKeepsHandles DEF CancelQuery
  <2>2. CASE UNCHANGED slot
    BY <1>1, <2>2 DEF HandlesStay, ClientOK
  <2> QED  BY <2>1, <2>2 DEF exact_request, cancel_terminal
<1>5. decisions' \subseteq [rt: Runtimes, op: Ops, policy: Policies]
  <2>1. CASE exact_request(r, o)
    BY <1>1, <2>1, RevisionType DEF exact_request, ClientOK
  <2>2. CASE UNCHANGED decisions
    BY <1>1, <2>2 DEF ClientOK
  <2> QED  BY <2>1, <2>2 DEF CancelQuery, cancel_terminal
<1>6. cancels' \in [Cancellers ->
          {Idle} \cup [pc: {"read"}, rt: Runtimes, op: Ops, seen: OperationState]]
  <2>1. ASSUME NEW c \in Cancellers, cancel_terminal(c, r, o)
        PROVE  cancels' \in [Cancellers ->
                  {Idle} \cup [pc: {"read"}, rt: Runtimes, op: Ops, seen: OperationState]]
    <3>1. state[o] \in OperationState
      BY <2>1, SameWords DEF cancel_terminal, Store!Exists, Store!TypeOK
    <3> QED  BY <1>1, <2>1, <3>1 DEF cancel_terminal, ClientOK
  <2>2. CASE UNCHANGED cancels
    BY <1>1, <2>2 DEF ClientOK
  <2> QED  BY <2>1, <2>2 DEF CancelQuery, exact_request
<1> QED  BY <1>1, <1>2, <1>3, <1>4, <1>5, <1>6, StoreOnly

(* Startup recovery gives no verdict on a mutation: one that was executing *)
(* becomes outcome_unknown or, resumable, stays.                           *)
LEMMA StartStep ==
    ASSUME ServiceInv, Store!TypeOK, RowsMove, NEW r \in Runtimes, Start(r)
    PROVE  ServiceInv'
<1>1. UNCHANGED <<policy, client, target, audited>>
      /\ (MayOverlap = FALSE => \A q \in Runtimes : runtime[q] # "live")
  BY DEF Start
<1>2. runtime[r] = "unused" /\ runtime' = [runtime EXCEPT ![r] = "live"]
  BY DEF Start, Store!recover_previous_runtimes
<1>3. LiveStays /\ (MayOverlap = FALSE => OneLive')
  BY <1>1, <1>2 DEF LiveStays, OneLive, Store!TypeOK
<1>4. \A o \in Ops : state'[o] = IF Store!Recovers(r, o)
                                 THEN Store!restart_recovery(plan[o].kind, state[o])
                                 ELSE state[o]
  BY DEF Start, Store!recover_previous_runtimes
<1>5. \A o \in Ops : NoVerdict(o)
  <2> SUFFICES ASSUME NEW o \in Ops, IsWrite(o), Store!Recovers(r, o)
               PROVE  \/ state'[o] = state[o]
                      \/ state'[o] \notin {"succeeded", "failed"}
    BY <1>4 DEF NoVerdict
  <2>1. state'[o] = restart_recovery(plan[o].kind, state[o])
    BY <1>4, SameWords
  <2> QED  BY <2>1 DEF IsWrite, restart_recovery
<1>6. AgentsRead'
  <2>1. \A q \in Ops : Store!Exists(q)' => Store!Exists(q)
    BY <1>4 DEF Store!Exists, Store!Recovers
  <2> QED  BY <2>1, SwitchAssumption, AgentsStay
<1>7. ClientOK' /\ HandlesStay /\ run' = run
  BY <1>1 DEF ServiceInv, ClientOK, client, HandlesStay
<1> QED  BY <1>1, <1>3, <1>5, <1>6, <1>7, RunsWatch

LEMMA TickStep ==
    ASSUME ServiceInv, RowsMove, Tick
    PROVE  ServiceInv'
<1>1. runtime' = runtime /\ state' = state /\ UNCHANGED <<policy, client, target, audited>>
  BY DEF Tick, Store!Tick
<1>2. (\A q \in Ops : NoVerdict(q)) /\ AgentsRead'
  BY <1>1, AgentsStay DEF NoVerdict, Store!Exists
<1> QED  BY <1>1, <1>2, ClientStays, StoreOnly

(* The gate is free in the process that changes the policy; when it is the *)
(* only one, no run holds a scope.                                         *)
LEMMA ChangePolicyStep ==
    ASSUME ServiceInv, NEW r \in Runtimes, ChangePolicy(r)
    PROVE  ServiceInv'
<1>1. UNCHANGED <<store, client, target, audited>> /\ runtime[r] = "live" /\ GateIsFree(r)
  BY DEF ChangePolicy
<1>2. runtime' = runtime /\ plan' = plan /\ state' = state /\ run' = run /\ slot' = slot
      /\ cancels' = cancels /\ decisions' = decisions
  BY <1>1 DEF store, client
<1>3. policy' \in [scope: 0..MaxScope, safety: SafetySettings]
  BY SwitchAssumption DEF ChangePolicy, ServiceInv, ClientOK
<1>4. ClientOK'
  BY <1>1, <1>2, <1>3 DEF ServiceInv, ClientOK
<1>5. AgentsRead' /\ ExclusiveClaim' /\ HonestReceipts' /\ SlotInv'
  BY <1>1, <1>2 DEF ServiceInv, AgentsRead, ExclusiveClaim, HonestReceipts, SlotInv, RunsOf,
     Claimed, Store!Exists, IsWrite
<1>6. \A w \in Workers : RunIsOwned(w)' /\ ClaimInv(w)'
  BY <1>1, <1>2 DEF ServiceInv, RunIsOwned, ClaimInv, Claimed, Store!Exists, IsWrite, Started,
     EffectAt
<1>7. \A o \in Ops : EffectInv(o)'
  BY <1>1, <1>2 DEF ServiceInv, EffectInv, Store!Exists, IsWrite, Started
<1>8. GateInv'
  <2>1. ASSUME MayOverlap = FALSE  PROVE OneLive' /\ \A w \in Workers : ScopeOK(w)'
    <3>1. OneLive /\ OneLive'
      BY <1>2, <2>1, GateSplit DEF OneLive
    <3>2. ASSUME NEW w \in Workers, run[w] # Idle  PROVE ~HoldsScope(w)
      <4>1. run[w].rt \in Runtimes /\ runtime[run[w].rt] = "live"
        BY <3>2, RunFacts DEF ServiceInv, RunIsOwned
      <4>2. run[w].rt = r
        BY <1>1, <3>1, <4>1 DEF OneLive
      <4> QED  BY <1>1, <4>2 DEF GateIsFree
    <3>3. \A w \in Workers : ScopeOK(w)'
      BY <1>2, <3>2 DEF ScopeOK, HoldsScope
    <3> QED  BY <3>1, <3>3
  <2> QED  BY <2>1 DEF GateInv, OneLive, ScopeOK
<1> QED  BY <1>4, <1>5, <1>6, <1>7, <1>8 DEF ServiceInv

--------------------------------------------------------------------------------
(* The invariant is kept by the steps that begin, claim and end a run. *)

LEMMA StartRunStep ==
    ASSUME ServiceInv, Store!TypeOK, NEW w \in Workers, NEW r \in Runtimes, NEW o \in Ops,
           StartDesktopRun(w, r, o) \/ StartAgentRun(w, r, o)
    PROVE  ServiceInv'
<1>1. /\ run[w] = Idle /\ runtime[r] = "live" /\ Store!Exists(o) /\ plan[o].runtime = r
      /\ o \notin AgentOps => Revision(o) = plan[o].policy
      /\ register(o)
      /\ run' = [run EXCEPT ![w] = [pc |-> "registered", rt |-> r, op |-> o]]
      /\ UNCHANGED <<store, policy, cancels, decisions, target, audited>>
  BY DEF StartDesktopRun, StartAgentRun
<1>2. [pc |-> "registered", rt |-> r, op |-> o] \in RunType
      /\ [pc |-> "registered", rt |-> r, op |-> o] # Idle
  BY DEF RunType, RunPc, Idle
<1>3. Begins(w, r, o)
  BY <1>1, <1>2 DEF Begins, ServiceInv, ClientOK, RunType
<1> QED  BY <1>1, <1>3, RunBegins

LEMMA ClaimStep ==
    ASSUME ServiceInv, Store!TypeOK, RowsMove, NEW w \in Workers, run[w] # Idle, ClaimRun(w)
    PROVE  ServiceInv'
<1> PICK o \in Ops : o = run[w].op
  BY RunFacts DEF ServiceInv
<1>1. run[w].pc = "registered" /\ UNCHANGED <<policy, cancels, decisions, target, audited>>
  BY DEF ClaimRun
<1>2. CASE UNCHANGED store /\ EndRun(w)
  <2>1. runtime' = runtime /\ plan' = plan /\ state' = state /\ NoVerdict(o)
    BY <1>2 DEF store, NoVerdict
  <2> QED  BY <1>1, <1>2, <2>1, RunEnds
<1>3. ASSUME NEW t \in Store!CapturedTimes(o), Store!claim_execution(run[w].rt, o, t),
             IF state'[o] = "executing" THEN Goto(w, "claimed") /\ UNCHANGED slot ELSE EndRun(w)
      PROVE  ServiceInv'
  <2>1. /\ runtime' = runtime /\ plan' = plan
        /\ state[o] \in {"ready", "approved"}
        /\ Store!transition_tx(o, "expired") \/ Store!transition_tx(o, "executing")
    BY <1>3 DEF Store!claim_execution
  <2>2. /\ state'[o] \in {"expired", "executing"}
        /\ \A q \in Ops \ {o} : state'[q] = state[q]
    BY <2>1, TransitionMoves
  <2>3. CASE state'[o] = "executing"
    <3>1. MovesTo(w, "claimed") /\ UNCHANGED slot
      BY <1>3, <2>3, GotoMoves DEF RunPc, ServiceInv
    <3> QED  BY <1>1, <2>1, <2>2, <2>3, <3>1, RunClaims
  <2>4. CASE state'[o] # "executing"
    <3>1. EndRun(w) /\ NoVerdict(o)
      BY <1>3, <2>2, <2>4 DEF NoVerdict
    <3> QED  BY <1>1, <2>1, <2>2, <3>1, RunEnds
  <2> QED  BY <2>3, <2>4
<1> QED  BY <1>2, <1>3 DEF ClaimRun

(* A run that records failed or succeeded knows the effect. *)
LEMMA RecordFailureStep ==
    ASSUME ServiceInv, Store!TypeOK, RowsMove, NEW w \in Workers, run[w] # Idle,
           RecordFailure(w)
    PROVE  ServiceInv'
<1> PICK o \in Ops : o = run[w].op
  BY RunFacts DEF ServiceInv
<1>1. /\ Claimed(w) /\ run[w].pc \in {"cancelling", "failing", "unknown"} /\ EndRun(w)
      /\ UNCHANGED <<policy, cancels, decisions, target, audited>>
  BY DEF RecordFailure, Claimed
<1>2. CASE UNCHANGED store
  <2>1. runtime' = runtime /\ plan' = plan /\ state' = state /\ NoVerdict(o)
    BY <1>2 DEF store, NoVerdict
  <2> QED  BY <1>1, <2>1, RunEnds
<1>3. CASE Store!finish(run[w].rt, o, Receipt(run[w].pc))
  <2>1. runtime' = runtime /\ plan' = plan /\ Store!transition_tx(o, Receipt(run[w].pc))
    BY <1>3 DEF Store!finish
  <2>2. state'[o] = Receipt(run[w].pc) /\ \A q \in Ops \ {o} : state'[q] = state[q]
    BY <2>1, TransitionMoves
  <2>3. Honest(o)'
    <3>1. CASE run[w].pc = "failing"
      <4>1. state'[o] = "failed"
        BY <2>2, <3>1 DEF Receipt
      <4>2. IsWrite(o) => \/ target[o] \in {"idle", "aborted"}
                          \/ plan[o].kind \in AutocommitKinds
        BY <1>1, <3>1, ClaimFacts DEF EffectAt
      <4> QED  BY <1>1, <2>1, <4>1, <4>2 DEF Honest, IsWrite
    <3>2. CASE run[w].pc \in {"cancelling", "unknown"}
      <4>1. state'[o] \in {"cancelled", "outcome_unknown"}
        BY <2>2, <3>2 DEF Receipt
      <4> QED  BY <4>1 DEF Honest
    <3> QED  BY <1>1, <3>1, <3>2
  <2> QED  BY <1>1, <2>1, <2>2, <2>3, RunEnds
<1> QED  BY <1>2, <1>3 DEF RecordFailure, ReceiptFails

LEMMA RecordSuccessStep ==
    ASSUME ServiceInv, Store!TypeOK, RowsMove, NEW w \in Workers, run[w] # Idle,
           RecordSuccess(w)
    PROVE  ServiceInv'
<1> PICK o \in Ops : o = run[w].op
  BY RunFacts DEF ServiceInv
<1>1. /\ Claimed(w) /\ run[w].pc = "ok"
      /\ UNCHANGED <<policy, cancels, decisions, target, audited>>
  BY DEF RecordSuccess, Claimed
<1>2. CASE Store!finish(run[w].rt, o, "succeeded") /\ EndRun(w)
  <2>1. runtime' = runtime /\ plan' = plan /\ Store!transition_tx(o, "succeeded")
    BY <1>2 DEF Store!finish
  <2>2. state'[o] = "succeeded" /\ \A q \in Ops \ {o} : state'[q] = state[q]
    BY <2>1, TransitionMoves
  <2>3. Honest(o)'
    <3>1. IsWrite(o) => target[o] = "applied"
      BY <1>1, ClaimFacts DEF EffectAt
    <3> QED  BY <1>1, <2>1, <2>2, <3>1 DEF Honest, IsWrite
  <2> QED  BY <1>1, <1>2, <2>1, <2>2, <2>3, RunEnds
<1>3. CASE UNCHANGED <<store, slot>> /\ Goto(w, IF IsWrite(o) THEN "unknown" ELSE "failing")
  BY <1>1, <1>3, RunStops
<1> QED  BY <1>2, <1>3 DEF RecordSuccess, ReceiptFails

--------------------------------------------------------------------------------
(* The target moves by itself, and processes die. *)

LEMMA TargetStep ==
    ASSUME ServiceInv, NEW o \in Ops, TargetAutocommits(o) \/ TargetDecides(o)
    PROVE  ServiceInv'
<1>1. UNCHANGED <<store, policy, client, audited>>
  BY DEF TargetAutocommits, TargetDecides
<1>2. runtime' = runtime /\ plan' = plan /\ state' = state /\ run' = run /\ slot' = slot
      /\ cancels' = cancels /\ decisions' = decisions /\ policy' = policy /\ audited' = audited
  BY <1>1 DEF store, client
<1>3. PICK t \in {"applied", "aborted"} : target' = [target EXCEPT ![o] = t]
  BY DEF TargetAutocommits, TargetDecides
<1>4. \/ target[o] = "sent" /\ plan[o].kind \in AutocommitKinds /\ target'[o] = "applied"
      \/ target[o] = "committing"
  BY DEF TargetAutocommits, TargetDecides, ServiceInv, ClientOK
<1>5. target'[o] = t /\ \A q \in Ops \ {o} : target'[q] = target[q]
  BY <1>3 DEF ServiceInv, ClientOK
<1>6. ClientOK'
  BY <1>2, <1>3 DEF ServiceInv, ClientOK
<1>7. AgentsRead' /\ ExclusiveClaim' /\ SlotInv' /\ \A w \in Workers : RunIsOwned(w)'
  BY <1>2 DEF ServiceInv, AgentsRead, ExclusiveClaim, SlotInv, RunsOf, Claimed, Store!Exists,
     IsWrite, RunIsOwned
<1>8. ASSUME NEW w \in Workers  PROVE ClaimInv(w)'
  <2> SUFFICES ASSUME Claimed(w)  PROVE ClaimInv(w)'
    BY <1>2 DEF ClaimInv, Claimed
  <2> PICK q \in Ops : q = run[w].op
    BY RunFacts DEF Claimed, ServiceInv
  <2>1. ClaimInv(w)
    BY DEF ServiceInv
  <2>2. IsWrite(q) => EffectAt(run[w].pc, q)
    BY <2>1 DEF ClaimInv
  <2>3. IsWrite(q) => EffectAt(run[w].pc, q)'
    <3>1. CASE q = o
      BY <1>2, <1>4, <2>2, <3>1 DEF EffectAt
    <3>2. CASE q # o
      BY <1>2, <1>5, <2>2, <3>2 DEF EffectAt
    <3> QED  BY <3>1, <3>2
  <2> QED  BY <1>2, <2>1, <2>3 DEF ClaimInv, Claimed, Started, IsWrite, EffectAt
<1>9. ASSUME NEW q \in Ops  PROVE EffectInv(q)' /\ Honest(q)'
  <2>1. EffectInv(q) /\ Honest(q)
    BY HonestSplit DEF ServiceInv
  <2>2. CASE q = o
    BY <1>2, <1>4, <2>1, <2>2 DEF EffectInv, Honest, Store!Exists, IsWrite, Started
  <2>3. CASE q # o
    BY <1>2, <1>5, <2>1, <2>3 DEF EffectInv, Honest, Store!Exists, IsWrite, Started
  <2> QED  BY <2>2, <2>3
<1>10. HonestReceipts'
  BY <1>9 DEF HonestReceipts, Honest
<1>11. GateInv'
  BY <1>2 DEF ServiceInv, GateInv, HoldsScope, Revision
<1> QED  BY <1>6, <1>7, <1>8, <1>9, <1>10, <1>11 DEF ServiceInv

(* What is left of a run after process r died. *)
LEMMA CrashedRuns ==
    ASSUME ServiceInv, NEW r \in Runtimes, Crash(r), NEW w \in Workers
    PROVE  /\ run'[w] = Idle \/ run'[w] = run[w]
           /\ run'[w] # Idle => run[w] # Idle /\ run[w].rt # r
BY DEF Crash

LEMMA CrashStep ==
    ASSUME ServiceInv, Store!TypeOK, NEW r \in Runtimes, Crash(r)
    PROVE  ServiceInv'
<1>1. runtime' = [runtime EXCEPT ![r] = "dead"] /\ plan' = plan /\ state' = state
      /\ policy' = policy /\ audited' = audited
  BY DEF Crash, Store!Crash
<1>2. \A q \in Runtimes : runtime'[q] = "live" <=> runtime[q] = "live" /\ q # r
  BY <1>1 DEF Store!TypeOK
<1>3. \A w \in Workers : /\ run'[w] = Idle \/ run'[w] = run[w]
                         /\ run'[w] # Idle => run[w] # Idle /\ run[w].rt # r
  BY CrashedRuns
<1>4. \A o \in Ops : /\ Store!Exists(o)' <=> Store!Exists(o)
                     /\ IsWrite(o)' <=> IsWrite(o)
                     /\ Started(o)' <=> Started(o)
  BY <1>1 DEF Store!Exists, IsWrite, Started
<1>5. \A o \in Ops : target'[o] = IF target[o] = "sent" /\ plan[o].runtime = r
                                  THEN "aborted" ELSE target[o]
  BY DEF Crash
<1>6. ClientOK'
  <2>1. run' \in [Workers -> {Idle} \cup [pc: RunPc, rt: Runtimes, op: Ops]]
    BY DEF Crash, ServiceInv, ClientOK
  <2>2. slot' \in [Ops -> [handles: Nat, signal: BOOLEAN]]
    BY DEF Crash, ServiceInv, ClientOK, NoSlot
  <2>3. cancels' \in [Cancellers ->
            {Idle} \cup [pc: {"read"}, rt: Runtimes, op: Ops, seen: OperationState]]
    BY DEF Crash, ServiceInv, ClientOK
  <2>4. decisions' \subseteq [rt: Runtimes, op: Ops, policy: Policies]
    BY DEF Crash, ServiceInv, ClientOK
  <2>5. target' \in [Ops -> {"idle", "sent", "committing", "applied", "aborted"}]
    BY DEF Crash, ServiceInv, ClientOK
  <2> QED  BY <1>1, <2>1, <2>2, <2>3, <2>4, <2>5 DEF ServiceInv, ClientOK
<1>7. AgentsRead'
  BY <1>4, SwitchAssumption DEF ServiceInv, AgentsRead
<1>8. ASSUME NEW w \in Workers  PROVE RunIsOwned(w)' /\ ClaimInv(w)'
  <2> SUFFICES ASSUME run'[w] # Idle  PROVE RunIsOwned(w)' /\ ClaimInv(w)'
    BY DEF RunIsOwned, ClaimInv, Claimed
  <2> PICK o \in Ops : o = run[w].op
    BY <1>3, RunFacts DEF ServiceInv
  <2>1. /\ run'[w] = run[w] /\ run[w] # Idle /\ run[w].rt # r /\ run[w].rt \in Runtimes
        /\ RunIsOwned(w) /\ ClaimInv(w)
    BY <1>3, RunFacts DEF ServiceInv
  <2>2. RunIsOwned(w)'
    BY <1>1, <1>2, <1>4, <2>1 DEF RunIsOwned
  <2>3. target'[o] = target[o]
    BY <1>5, <2>1 DEF RunIsOwned
  <2>4. ClaimInv(w)'
    BY <1>1, <1>4, <2>1, <2>3 DEF ClaimInv, Claimed, EffectAt
  <2> QED  BY <2>2, <2>4
<1>9. ExclusiveClaim'
  BY <1>3 DEF ServiceInv, ExclusiveClaim, Claimed
<1>10. ASSUME NEW o \in Ops  PROVE EffectInv(o)' /\ Honest(o)'
  <2>1. EffectInv(o) /\ Honest(o)
    BY HonestSplit DEF ServiceInv
  <2>2. CASE target'[o] = target[o]
    BY <1>1, <1>4, <2>1, <2>2 DEF EffectInv, Honest
  <2>3. CASE target[o] = "sent" /\ target'[o] = "aborted"
    BY <1>1, <1>4, <2>1, <2>3 DEF EffectInv, Honest
  <2> QED  BY <1>5, <2>2, <2>3
<1>11. HonestReceipts'
  BY <1>10 DEF HonestReceipts, Honest
<1>12. SlotInv'
  <2> SUFFICES ASSUME NEW o \in Ops  PROVE slot'[o].handles = Cardinality(RunsOf(o)')
    BY DEF SlotInv
  <2>1. CASE Store!Exists(o) /\ plan[o].runtime = r
    <3>1. slot'[o].handles = 0
      BY <2>1 DEF Crash, NoSlot
    <3>2. RunsOf(o)' = {}
      BY <1>3, <2>1 DEF RunsOf, ServiceInv, RunIsOwned
    <3> QED  BY <3>1, <3>2, FS_EmptySet
  <2>2. CASE ~(Store!Exists(o) /\ plan[o].runtime = r)
    <3>1. slot'[o] = slot[o]
      BY <2>2 DEF Crash
    <3>2. \A w \in Workers : run[w] # Idle /\ run[w].op = o => run'[w] = run[w]
      BY <2>2 DEF Crash, ServiceInv, RunIsOwned
    <3>3. RunsOf(o)' = RunsOf(o)
      BY <1>3, <3>2 DEF RunsOf
    <3> QED  BY <3>1, <3>3 DEF ServiceInv, SlotInv
  <2> QED  BY <2>1, <2>2
<1>13. GateInv'
  <2>1. ASSUME MayOverlap = FALSE  PROVE OneLive' /\ \A w \in Workers : ScopeOK(w)'
    <3>1. OneLive'
      BY <1>2, <2>1, GateSplit DEF OneLive
    <3>2. \A w \in Workers : ScopeOK(w)'
      BY <1>1, <1>3, <2>1, GateSplit DEF ScopeOK, HoldsScope, Revision
    <3> QED  BY <3>1, <3>2
  <2> QED  BY <2>1 DEF GateInv, OneLive, ScopeOK
<1> QED  BY <1>6, <1>7, <1>8, <1>9, <1>10, <1>11, <1>12, <1>13 DEF ServiceInv

--------------------------------------------------------------------------------
(* The invariant holds, and what follows from it. *)

LEMMA SqlInit == Init => SqlInv
<1> SUFFICES ASSUME Init PROVE SqlInv
  OBVIOUS
<1>1. StoreProofs!Inv
  BY SameInit, StoreAssumptions, StoreProofs!InitInv DEF Init
<1>2. \A w \in Workers : run[w] = Idle
  BY DEF Init
<1>3. \A o \in Ops : ~Store!Exists(o) /\ target[o] = "idle" /\ slot[o].handles = 0
  BY DEF Init, Store!Init, Store!Exists, NoSlot
<1>4. ClientOK
  BY SwitchAssumption DEF Init, ClientOK, NoSlot
<1>5. \A w \in Workers : RunIsOwned(w) /\ ClaimInv(w)
  BY <1>2 DEF RunIsOwned, ClaimInv, Claimed
<1>6. AgentsRead /\ ExclusiveClaim /\ HonestReceipts /\ \A o \in Ops : EffectInv(o)
  BY <1>2, <1>3, SwitchAssumption DEF AgentsRead, ExclusiveClaim, Claimed, HonestReceipts,
     EffectInv
<1>7. SlotInv
  <2>1. \A o \in Ops : RunsOf(o) = {}
    BY <1>2 DEF RunsOf
  <2> QED  BY <1>3, <2>1, FS_EmptySet DEF SlotInv
<1>8. GateInv
  BY <1>2 DEF Init, Store!Init, GateInv
<1> QED  BY <1>1, <1>4, <1>5, <1>6, <1>7, <1>8 DEF SqlInv, ServiceInv

LEMMA SqlNext == SqlInv /\ [Next]_vars => SqlInv'
<1> SUFFICES ASSUME SqlInv, [Next]_vars PROVE SqlInv'
  OBVIOUS
<1>1. StoreProofs!Inv /\ ServiceInv /\ ClientOK
  BY DEF SqlInv, ServiceInv
<1>2. Store!TypeOK
  BY <1>1, SameTypes DEF StoreProofs!Inv
<1>3. StoreProofs!Inv' /\ RowsMove
  BY <1>1, <1>2, StepRefines, StoreStep
<1>4. ServiceInv'
  <2>1. ASSUME NEW r \in Runtimes, Start(r) \/ Crash(r) \/ ChangePolicy(r)
        PROVE  ServiceInv'
    BY <1>1, <1>2, <1>3, <2>1, StartStep, CrashStep, ChangePolicyStep
  <2>2. ASSUME NEW r \in Runtimes, NEW o \in Ops,
               propose_sql(r, o) \/ plan_agent_read_scoped(r, o)
        PROVE  ServiceInv'
    BY <1>1, <1>2, <1>3, <2>2, ProposeStep
  <2>3. ASSUME NEW r \in Runtimes, NEW o \in Ops,
               \/ exact_request(r, o) \/ CancelQuery(r, o)
               \/ \E c \in Cancellers : cancel_terminal(c, r, o)
        PROVE  ServiceInv'
    BY <1>1, <1>2, <2>3, RequestStep
  <2>4. ASSUME NEW r \in Runtimes, NEW o \in Ops, NEW w \in Workers,
               StartDesktopRun(w, r, o) \/ StartAgentRun(w, r, o)
        PROVE  ServiceInv'
    BY <1>1, <1>2, <2>4, StartRunStep
  <2>5. ASSUME NEW c \in planCalls, FinishProposal(c)
        PROVE  ServiceInv'
    BY <1>1, <1>2, <1>3, <2>5, FinishProposalStep
  <2>6. ASSUME NEW d \in decisions, DecideLocal(d)
        PROVE  ServiceInv'
    BY <1>1, <1>2, <1>3, <2>6, DecideStep
  <2>7. ASSUME NEW w \in Workers, RunStep(w)
        PROVE  ServiceInv'
    <3>1. run[w] # Idle
      BY <2>7 DEF RunStep
    <3>2. CASE ClaimRun(w) \/ RecordFailure(w) \/ RecordSuccess(w)
      BY <1>1, <1>2, <1>3, <3>1, <3>2, ClaimStep, RecordFailureStep, RecordSuccessStep
    <3>3. CASE PrepareDesktopRun(w) \/ PrepareAgentRun(w) \/ ConnectRun(w) \/ ExecuteRead(w)
      BY <1>1, <3>1, <3>3, PrepareDesktopStep, PrepareAgentStep, ConnectStep, ExecuteReadStep
    <3>4. CASE \/ SendStatement(w) \/ StatementFails(w) \/ SendCommit(w) \/ CommitReturns(w)
               \/ InterruptWrite(w)
      BY <1>1, <3>1, <3>4, SendStatementStep, StatementFailsStep, SendCommitStep,
         CommitReturnsStep, InterruptWriteStep
    <3> QED  BY <2>7, <3>2, <3>3, <3>4 DEF RunStep
  <2>8. ASSUME NEW c \in Cancellers, ActOnCancel(c)
        PROVE  ServiceInv'
    BY <1>1, <1>2, <1>3, <2>8, ActOnCancelStep
  <2>9. ASSUME NEW o \in Ops, TargetAutocommits(o) \/ TargetDecides(o)
        PROVE  ServiceInv'
    BY <1>1, <2>9, TargetStep
  <2>10. CASE Tick
    BY <1>1, <1>3, <2>10, TickStep
  <2>11. CASE UNCHANGED vars
    <3>1. /\ runtime' = runtime /\ state' = state /\ UNCHANGED <<policy, client, target, audited>>
      BY <2>11 DEF vars, store
    <3>2. (\A q \in Ops : NoVerdict(q)) /\ AgentsRead'
      BY <1>1, <1>3, <3>1, AgentsStay DEF NoVerdict, Store!Exists
    <3> QED  BY <1>1, <1>3, <3>1, <3>2, ClientStays, StoreOnly
  <2> QED  BY <2>1, <2>2, <2>3, <2>4, <2>5, <2>6, <2>7, <2>8, <2>9, <2>10, <2>11 DEF Next
<1> QED  BY <1>3, <1>4 DEF SqlInv

(* SqlInv is an invariant of the services. *)
THEOREM SqlInvariance == Spec => []SqlInv
BY SqlInit, SqlNext, PTL DEF Spec

(* A write's records agree with its target: its audit row comes before its *)
(* effect, and its receipt does not contradict it, whatever is cancelled,  *)
(* lost, timed out or killed in between, also while two processes run.     *)
THEOREM RecordsStayHonest == Spec => []RecordsAreHonest
<1>1. SqlInv => RecordsAreHonest
  <2> SUFFICES ASSUME SqlInv PROVE RecordsAreHonest
    OBVIOUS
  <2>1. Store!TypeOK /\ ClientOK /\ SlotInv
    BY SameTypes DEF SqlInv, StoreProofs!Inv, ServiceInv
  <2>2. \A o \in Ops : slot[o].handles \in 0..Cardinality(Workers)
    BY <2>1, RunsFinite DEF SlotInv
  <2>3. slot \in [Ops -> [handles: 0..Cardinality(Workers), signal: BOOLEAN]]
    BY <2>1, <2>2 DEF ClientOK
  <2>4. TypeOK
    BY <2>1, <2>3 DEF TypeOK, ClientOK
  <2>5. AuditedBeforeEffect
    BY DEF SqlInv, ServiceInv, EffectInv, AuditedBeforeEffect
  <2> QED  BY <2>4, <2>5 DEF RecordsAreHonest, SqlInv, ServiceInv
<1> QED  BY <1>1, SqlInvariance, PTL

(* A run that can still touch the target can be cancelled: its slot is     *)
(* registered, whichever other runs have come and gone.                    *)
THEOREM RunsStayCancellable == Spec => []CancellableWhileExecuting
<1>1. SqlInv => CancellableWhileExecuting
  <2> SUFFICES ASSUME SqlInv, NEW w \in Workers, run[w].pc \in Accessing
               PROVE  slot[run[w].op].handles > 0
    BY DEF CancellableWhileExecuting
  <2>1. run[w] # Idle
    BY PlaceMeansRun DEF Accessing, RunPc
  <2> PICK o \in Ops : o = run[w].op
    BY <2>1, RunFacts DEF SqlInv, ServiceInv
  <2>2. w \in RunsOf(o)
    BY <2>1 DEF RunsOf
  <2>3. Cardinality(RunsOf(o)) > 0
    BY <2>2, RunsFinite, FS_EmptySet
  <2> QED  BY <2>3 DEF SqlInv, ServiceInv, SlotInv
<1> QED  BY <1>1, SqlInvariance, PTL

(* In a single process no run touches the target under a policy other than *)
(* its plan's: the scope gate keeps switches and edits away from it.       *)
THEOREM AccessKeepsItsPolicy ==
    ASSUME MayOverlap = FALSE
    PROVE  Spec => []NoAccessUnderChangedPolicy
<1>1. SqlInv => NoAccessUnderChangedPolicy
  <2> SUFFICES ASSUME SqlInv, NEW w \in Workers,
                      run[w].pc \in {"executing", "sent", "committing"}
               PROVE  Revision(run[w].op) = plan[run[w].op].policy
    BY DEF NoAccessUnderChangedPolicy
  <2>1. run[w] # Idle /\ HoldsScope(w)
    BY PlaceMeansRun DEF RunPc, HoldsScope
  <2> QED  BY <2>1 DEF SqlInv, ServiceInv, GateInv
<1> QED  BY <1>1, SqlInvariance, PTL

(* The services are a legitimate caller of the operation store: what they  *)
(* do to it is a behaviour of OperationRuntime.                            *)
THEOREM ServicesImplementStore == Spec => StoreSpec
<1>1. Init => Store!Init
  BY DEF Init
<1>2. SqlInv /\ [Next]_vars => [Store!Next]_(Store!vars)
  BY SameTypes, StepRefines DEF SqlInv, StoreProofs!Inv, ServiceInv
<1> QED  BY <1>1, <1>2, SqlInvariance, PTL DEF Spec, StoreSpec, Store!Spec

(* No mutation the services start is without a human's approval of exactly *)
(* its payload and policy, and none is started twice.                      *)
THEOREM ServicesStartApprovedOnce ==
    Spec => [](Store!ApprovedBeforeMutation /\ Store!ExecutedAtMostOnce)
<1>1. SqlInv => StoreProofs!ApprovedBeforeMutation /\ StoreProofs!ExecutedAtMostOnce
  BY DEF SqlInv, StoreProofs!Inv, StoreProofs!OperationInv, StoreProofs!ApprovalInv,
     StoreProofs!StartInv, StoreProofs!ApprovedBeforeMutation, StoreProofs!ExecutedAtMostOnce
<1>2. SqlInv => Store!ApprovedBeforeMutation /\ Store!ExecutedAtMostOnce
  BY <1>1 DEF Store!ApprovedBeforeMutation, StoreProofs!ApprovedBeforeMutation,
     Store!ExecutedAtMostOnce, StoreProofs!ExecutedAtMostOnce, Store!HasStarted,
     StoreProofs!HasStarted, Store!ExactlyApproved, StoreProofs!ExactlyApproved,
     Store!may_mutate_target, StoreProofs!may_mutate_target
<1> QED  BY <1>2, SqlInvariance, PTL
================================================================================
