------------------------- MODULE OperationRuntimeProofs -------------------------
(***************************************************************************)
(* Theorems about OperationRuntime for every set of runtimes, operations,  *)
(* kinds, payloads, policies and keys, every digest and every bound.       *)
(*                                                                         *)
(* The argument has two halves.  StepCases shows, action by action, that a *)
(* step leaves each operation alone or changes it in one of three ways:    *)
(* its row is inserted, its projection moves along the lifecycle and one   *)
(* ledger row is appended, or one progress row is appended.  The other     *)
(* lemmas show that each of these preserves the invariant of one operation.*)
(***************************************************************************)
EXTENDS OperationRuntime, TLAPS

(* The length of the longest ledger an operation in state s can have, over *)
(* and above its progress rows.                                            *)
Rank(s) ==
    IF s = NoRow THEN 0
    ELSE IF s = "planned" THEN 1
    ELSE IF s \in {"pending_approval", "ready"} THEN 2
    ELSE IF s = "approved" THEN 3
    ELSE IF s = "executing" THEN 4
    ELSE 5

(* The states an operation can be in once it has begun to execute. *)
AfterStart == {"executing", "succeeded", "failed", "cancelled", "outcome_unknown"}

ChainOK(o) == IF Exists(o) THEN verify_event_chain(o) ELSE events[o] = <<>>

LegalPath(o) ==
    \A i \in DOMAIN events[o] :
        i > 1 =>
          LET before == events[o][i - 1]
              after  == events[o][i]
          IN  \/ ensure_transition(before.state, after.state)
              \/ after.kind = "progress" /\ before.state = "executing" /\ after.state = "executing"

StartInv(o) ==
    /\ HasStarted(o) => state[o] \in AfterStart
    /\ state[o] = "executing" => HasStarted(o)
    /\ \A i, j \in DOMAIN events[o] :
          /\ events[o][i].kind = "execution_started"
          /\ events[o][j].kind = "execution_started"
          => i = j

ApprovalInv(o) ==
    /\ state[o] = "approved" => ExactlyApproved(o)
    /\ HasStarted(o) /\ may_mutate_target(plan[o].kind) => ExactlyApproved(o)

LengthInv(o) == Len(events[o]) <= MaxProgress + Rank(state[o])

OperationInv(o) == ChainOK(o) /\ LegalPath(o) /\ StartInv(o) /\ ApprovalInv(o) /\ LengthInv(o)

(* The inductive invariant. *)
Inv == TypeOK /\ KeyBindsOneOperation /\ \A o \in Ops : OperationInv(o)

--------------------------------------------------------------------------------
(* What one step may do to operation o. *)

Kept(o) == state'[o] = state[o] /\ plan'[o] = plan[o] /\ events'[o] = events[o]

Inserted(o) ==
    /\ ~Exists(o)
    /\ state'[o] = "planned"
    /\ plan'[o] \in PlanRow
    /\ \A p \in Ops : Exists(p) => plan[p].key # plan'[o].key
    /\ \A p \in Ops \ {o} : Kept(p)
    /\ events'[o] = append_event_tx(o, "planned", "planned")

Moved(o) ==
    /\ Exists(o)
    /\ plan'[o] = plan[o]
    /\ ensure_transition(state[o], state'[o])
    /\ events'[o] = append_event_tx(o, transition_event_kind(state'[o]), state'[o])
    /\ state'[o] = "executing" =>
          /\ runtime[plan[o].runtime] = "live"
          /\ state[o] = "ready" => ~may_mutate_target(plan[o].kind)
    /\ state'[o] = "approved" => ExactlyApproved(o)'
    /\ \/ runtime[plan[o].runtime] = "live"
       \/ state'[o] \in {"expired", "failed", "outcome_unknown"}

Progressed(o) ==
    /\ state[o] = "executing"
    /\ runtime[plan[o].runtime] = "live"
    /\ state'[o] = state[o]
    /\ plan'[o] = plan[o]
    /\ Len(events[o]) < MaxProgress
    /\ events'[o] = append_event_tx(o, "progress", state[o])

(* Every value a transition leads to is a state, and a terminal state      *)
(* leads nowhere.                                                          *)
LEMMA TransitionType ==
    ASSUME NEW s \in OperationState, NEW t, ensure_transition(s, t)
    PROVE  t \in OperationState /\ s \notin TerminalState /\ t # s /\ t # "planned"
BY DEF ensure_transition, OperationState, TerminalState

(* The event written for a state is an event kind, and it is               *)
(* execution_started exactly for executing.                                *)
LEMMA EventKindType ==
    ASSUME NEW s \in OperationState
    PROVE  /\ transition_event_kind(s) \in OperationEventKind
           /\ transition_event_kind(s) = "execution_started" <=> s = "executing"
BY DEF transition_event_kind, OperationState, OperationEventKind

(* A transition goes up in rank: a ledger is never longer than the rank of *)
(* the state plus the bound on progress rows.                              *)
LEMMA RankGrows ==
    ASSUME NEW s \in OperationState, NEW t, ensure_transition(s, t)
    PROVE  Rank(s) \in 1..4 /\ Rank(t) \in 2..5 /\ Rank(s) < Rank(t)
BY NoRowAssumption DEF ensure_transition, OperationState, Rank

LEMMA RankType ==
    ASSUME NEW s \in OperationState \cup {NoRow}
    PROVE  Rank(s) \in 0..5
BY NoRowAssumption DEF OperationState, Rank

(* Startup recovery keeps a state or makes a legal transition of it.       *)
LEMMA RecoveryIsTransition ==
    ASSUME NEW s \in OperationState, NEW k, restart_recovery(k, s) # s
    PROVE  /\ ensure_transition(s, restart_recovery(k, s))
           /\ restart_recovery(k, s) \in {"expired", "failed", "outcome_unknown"}
BY DEF restart_recovery, ensure_transition, OperationState, is_terminal,
       TerminalState

(* Appending to a sequence keeps its elements and adds one.                *)
LEMMA AppendIs ==
    ASSUME NEW S, NEW es \in Seq(S), NEW e \in S
    PROVE  /\ Append(es, e) \in Seq(S)
           /\ Append(es, e) # <<>>
           /\ Len(es) \in Nat
           /\ Len(Append(es, e)) = Len(es) + 1
           /\ DOMAIN Append(es, e) = 1..(Len(es) + 1)
           /\ DOMAIN es = 1..Len(es)
           /\ Append(es, e)[Len(es) + 1] = e
           /\ \A i \in 1..Len(es) : Append(es, e)[i] = es[i]
OBVIOUS

--------------------------------------------------------------------------------
(* What the steps do, action by action. *)

StepOK(o) == Kept(o) \/ Inserted(o) \/ Moved(o) \/ Progressed(o)

(* A transition() of the caller's own operation is a move. *)
LEMMA OwnTransition ==
    ASSUME TypeOK, NEW o \in Ops, NEW target, Exists(o), transition_tx(o, target),
           plan' = plan, runtime[plan[o].runtime] = "live",
           target = "executing" => (state[o] = "ready" => ~may_mutate_target(plan[o].kind)),
           target = "approved" => ExactlyApproved(o)'
    PROVE  \A p \in Ops : StepOK(p)
<1>1. state'[o] = target /\ Moved(o)
  BY DEF transition_tx, Moved, TypeOK
<1>2. ASSUME NEW p \in Ops, p # o  PROVE Kept(p)
  BY <1>2 DEF transition_tx, Kept, TypeOK
<1> QED  BY <1>1, <1>2 DEF StepOK

LEMMA PlanStep ==
    ASSUME TypeOK, NEW r \in Runtimes, NEW o \in Ops, Plan(r, o)
    PROVE  /\ \A p \in Ops : StepOK(p)
           /\ approvals' = approvals /\ runtime' = runtime /\ now' = now
           /\ planCalls' \in SUBSET PlanCall
<1>1. PICK request \in Requests(r), target \in {"ready", "pending_approval"} :
          insert_planned(r, o, request, target)
  BY DEF Plan
<1>2. request \in PlanRow /\ request.runtime = r
  BY TimeAssumption DEF Requests, PlanRow, Expiry, Time, TypeOK
<1>3. planCalls' \in SUBSET PlanCall
  BY <1>1 DEF insert_planned, PlanCall, TypeOK
<1>4. CASE ~Exists(o)
  <2>1. /\ plan' = [plan EXCEPT ![o] = request]
        /\ state' = [state EXCEPT ![o] = "planned"]
        /\ events' = [events EXCEPT ![o] = append_event_tx(o, "planned", "planned")]
        /\ \A p \in Ops : Exists(p) => plan[p].key # request.key
    BY <1>1, <1>4, NoRowAssumption DEF insert_planned, Exists, OperationState
  <2>2. ASSUME NEW p \in Ops \ {o}  PROVE Kept(p)
    BY <2>1 DEF Kept, TypeOK
  <2>3. plan'[o] = request /\ state'[o] = "planned"
        /\ events'[o] = append_event_tx(o, "planned", "planned")
    BY <2>1 DEF TypeOK
  <2>4. Inserted(o)
    BY <1>2, <1>4, <2>1, <2>2, <2>3 DEF Inserted
  <2> QED  BY <1>1, <1>3, <2>2, <2>4 DEF StepOK, insert_planned
<1>5. CASE Exists(o)
  BY <1>1, <1>3, <1>5 DEF insert_planned, StepOK, Kept
<1> QED  BY <1>4, <1>5

LEMMA FinishPlanStep ==
    ASSUME TypeOK, NEW c \in planCalls, finish_plan(c)
    PROVE  /\ \A p \in Ops : StepOK(p)
           /\ approvals' = approvals /\ runtime' = runtime /\ now' = now
           /\ planCalls' \in SUBSET PlanCall
<1>1. c.op \in Ops /\ c.target \in {"ready", "pending_approval"}
  BY DEF TypeOK, PlanCall
<1>2. approvals' = approvals /\ runtime' = runtime /\ now' = now /\ plan' = plan
      /\ planCalls' \in SUBSET PlanCall
  BY DEF finish_plan, TypeOK
<1>3. CASE ensure_runtime(c.rt, c.op) /\ transition_tx(c.op, c.target)
  BY <1>1, <1>2, <1>3, OwnTransition DEF ensure_runtime
<1>4. CASE UNCHANGED <<state, events>>
  BY <1>2, <1>4 DEF StepOK, Kept
<1> QED  BY <1>2, <1>3, <1>4 DEF finish_plan

LEMMA DecideStep ==
    ASSUME TypeOK, NEW r \in Runtimes, NEW o \in Ops, Decide(r, o)
    PROVE  /\ \A p \in Ops : StepOK(p)
           /\ approvals \subseteq approvals' /\ approvals' \in SUBSET ApprovalRow
           /\ runtime' = runtime /\ now' = now /\ planCalls' = planCalls
<1>1. PICK approver \in OperationActorKind, payload \in Payloads, policy \in Policies,
           decision \in Decision, t \in CapturedTimes(o) :
          decide_approval(r, o, approver, payload, policy, decision, t)
  BY DEF Decide
<1>2. /\ runtime' = runtime /\ now' = now /\ planCalls' = planCalls /\ plan' = plan
      /\ Exists(o) /\ plan[o].runtime = r /\ runtime[r] = "live"
      /\ approver \in {"local_user", "workspace_user"}
      /\ plan[o].payload = payload /\ plan[o].policy = policy
  BY <1>1 DEF decide_approval, ensure_runtime
<1>3. CASE transition_tx(o, "expired") /\ UNCHANGED approvals
  BY <1>2, <1>3, OwnTransition DEF TypeOK
<1>4. CASE /\ approvals' = approvals \cup
                {[op |-> o, payload |-> payload, policy |-> policy, decision |-> decision,
                  approver |-> approver, expires_at |-> plan[o].expires_at]}
           /\ transition_tx(o, decision)
  <2> DEFINE row == [op |-> o, payload |-> payload, policy |-> policy, decision |-> decision,
                     approver |-> approver, expires_at |-> plan[o].expires_at]
  <2>1. plan[o] \in PlanRow
    BY <1>2 DEF TypeOK, Exists
  <2>2. row \in ApprovalRow
    BY <2>1 DEF ApprovalRow, PlanRow
  <2>3. approvals \subseteq approvals' /\ approvals' \in SUBSET ApprovalRow
    BY <1>4, <2>2 DEF TypeOK
  <2>4. decision = "approved" => ExactlyApproved(o)'
    <3>1. row \in approvals' /\ row.op = o /\ row.decision = decision
          /\ row.approver \in {"local_user", "workspace_user"}
          /\ row.payload = plan'[o].payload /\ row.policy = plan'[o].policy
      BY <1>2, <1>4
    <3> QED  BY <3>1 DEF ExactlyApproved
  <2>5. decision # "executing"
    BY DEF Decision
  <2> QED  BY <1>2, <1>4, <2>3, <2>4, <2>5, OwnTransition
<1> QED  BY <1>1, <1>3, <1>4 DEF decide_approval

LEMMA ClaimStep ==
    ASSUME TypeOK, NEW r \in Runtimes, NEW o \in Ops, Claim(r, o)
    PROVE  /\ \A p \in Ops : StepOK(p)
           /\ approvals' = approvals /\ runtime' = runtime /\ now' = now
           /\ planCalls' = planCalls
<1>1. PICK t \in CapturedTimes(o) : claim_execution(r, o, t)
  BY DEF Claim
<1>2. /\ runtime' = runtime /\ now' = now /\ planCalls' = planCalls /\ plan' = plan
      /\ approvals' = approvals
      /\ Exists(o) /\ plan[o].runtime = r /\ runtime[r] = "live"
      /\ state[o] = "ready" => ~may_mutate_target(plan[o].kind)
  BY <1>1 DEF claim_execution, ensure_runtime
<1>3. transition_tx(o, "expired") \/ transition_tx(o, "executing")
  BY <1>1 DEF claim_execution
<1> QED  BY <1>2, <1>3, OwnTransition

LEMMA ProgressStep ==
    ASSUME TypeOK, NEW r \in Runtimes, NEW o \in Ops, append_progress(r, o)
    PROVE  /\ \A p \in Ops : StepOK(p)
           /\ approvals' = approvals /\ runtime' = runtime /\ now' = now
           /\ planCalls' = planCalls
<1>1. Progressed(o)
  BY DEF append_progress, ensure_runtime, Progressed, TypeOK
<1>2. ASSUME NEW p \in Ops, p # o  PROVE Kept(p)
  BY <1>2 DEF append_progress, Kept, TypeOK
<1> QED  BY <1>1, <1>2 DEF StepOK, append_progress

LEMMA FinishStep ==
    ASSUME TypeOK, NEW r \in Runtimes, NEW o \in Ops, Finish(r, o)
    PROVE  /\ \A p \in Ops : StepOK(p)
           /\ approvals' = approvals /\ runtime' = runtime /\ now' = now
           /\ planCalls' = planCalls
<1>1. PICK target \in {"succeeded", "failed", "cancelled", "outcome_unknown"} :
          finish(r, o, target)
  BY DEF Finish
<1>2. target # "executing" /\ target # "approved"
  OBVIOUS
<1> QED  BY <1>1, <1>2, OwnTransition DEF finish, ensure_runtime

LEMMA RecoverStep ==
    ASSUME TypeOK, NEW r \in Runtimes, recover_previous_runtimes(r)
    PROVE  /\ \A p \in Ops : StepOK(p)
           /\ approvals' = approvals /\ now' = now /\ planCalls' = planCalls
           /\ runtime' \in [Runtimes -> {"unused", "live", "dead"}]
<1> DEFINE target == [o \in Ops |-> IF Recovers(r, o)
                                    THEN restart_recovery(plan[o].kind, state[o])
                                    ELSE state[o]]
<1>1. /\ runtime' = [runtime EXCEPT ![r] = "live"]
      /\ state' = target /\ plan' = plan
      /\ approvals' = approvals /\ now' = now /\ planCalls' = planCalls
      /\ events' = [o \in Ops |->
                       IF target[o] # state[o]
                       THEN append_event_tx(o, transition_event_kind(target[o]), target[o])
                       ELSE events[o]]
  BY DEF recover_previous_runtimes
<1>2. ASSUME NEW o \in Ops  PROVE StepOK(o)
  <2>1. CASE target[o] = state[o]
    BY <1>1, <2>1 DEF StepOK, Kept
  <2>2. CASE target[o] # state[o]
    <3>1. /\ Exists(o) /\ state[o] \in OperationState
          /\ target[o] = restart_recovery(plan[o].kind, state[o])
      BY <2>2 DEF Recovers, TypeOK, Exists
    <3>2. /\ ensure_transition(state[o], target[o])
          /\ target[o] \in {"expired", "failed", "outcome_unknown"}
      BY <2>2, <3>1, RecoveryIsTransition
    <3>3. state'[o] = target[o]
          /\ events'[o] = append_event_tx(o, transition_event_kind(target[o]), target[o])
      BY <1>1, <2>2
    <3> QED  BY <1>1, <3>1, <3>2, <3>3 DEF StepOK, Moved
  <2> QED  BY <2>1, <2>2
<1> QED  BY <1>1, <1>2 DEF TypeOK

(* Every step changes each operation in one of the four ways, keeps the    *)
(* approvals it finds, and keeps the types of the rest of the state.       *)
LEMMA StepCases ==
    ASSUME TypeOK, [Next]_vars
    PROVE  /\ \A p \in Ops : StepOK(p)
           /\ approvals \subseteq approvals' /\ approvals' \in SUBSET ApprovalRow
           /\ runtime' \in [Runtimes -> {"unused", "live", "dead"}]
           /\ planCalls' \in SUBSET PlanCall
           /\ now' \in Time
<1> DEFINE Goal ==
           /\ \A p \in Ops : StepOK(p)
           /\ approvals \subseteq approvals' /\ approvals' \in SUBSET ApprovalRow
           /\ runtime' \in [Runtimes -> {"unused", "live", "dead"}]
           /\ planCalls' \in SUBSET PlanCall
           /\ now' \in Time
<1>1. ASSUME NEW r \in Runtimes, NEW o \in Ops, Plan(r, o)  PROVE Goal
  BY <1>1, PlanStep DEF TypeOK
<1>2. ASSUME NEW r \in Runtimes, NEW o \in Ops, Decide(r, o)  PROVE Goal
  BY <1>2, DecideStep DEF TypeOK
<1>3. ASSUME NEW r \in Runtimes, NEW o \in Ops, Claim(r, o)  PROVE Goal
  BY <1>3, ClaimStep DEF TypeOK
<1>4. ASSUME NEW r \in Runtimes, NEW o \in Ops, append_progress(r, o)  PROVE Goal
  BY <1>4, ProgressStep DEF TypeOK
<1>5. ASSUME NEW r \in Runtimes, NEW o \in Ops, Finish(r, o)  PROVE Goal
  BY <1>5, FinishStep DEF TypeOK
<1>6. ASSUME NEW c \in planCalls, finish_plan(c)  PROVE Goal
  BY <1>6, FinishPlanStep DEF TypeOK
<1>7. ASSUME NEW r \in Runtimes, recover_previous_runtimes(r)  PROVE Goal
  BY <1>7, RecoverStep DEF TypeOK
<1>8. ASSUME NEW r \in Runtimes, Crash(r)  PROVE Goal
  BY <1>8 DEF Crash, TypeOK, StepOK, Kept
<1>9. CASE Tick
  BY <1>9, TimeAssumption DEF Tick, Time, TypeOK, StepOK, Kept
<1>10. CASE UNCHANGED vars
  BY <1>10 DEF vars, TypeOK, StepOK, Kept
<1> QED
  BY <1>1, <1>2, <1>3, <1>4, <1>5, <1>6, <1>7, <1>8, <1>9, <1>10 DEF Next

--------------------------------------------------------------------------------
(* What one appended row does to the ledger of one operation. *)

Appends(o, kind, s) ==
    /\ kind \in OperationEventKind
    /\ s \in OperationState
    /\ state'[o] = s
    /\ events'[o] = append_event_tx(o, kind, s)

(* Room for one more row under the bound on ledgers that HashAssumption    *)
(* speaks about.                                                           *)
LEMMA NextEventType ==
    ASSUME TypeOK, NEW o \in Ops, NEW kind \in OperationEventKind, NEW s \in OperationState,
           Len(events[o]) <= MaxProgress + 4
    PROVE  NextEvent(o, events[o], kind, s) \in EventRow
<1> DEFINE es   == events[o]
           n    == Len(es) + 1
           prev == IF es = <<>> THEN NoHash ELSE es[Len(es)].hash
<1>1. es \in Seq(EventRow) /\ Len(es) \in Nat /\ n \in 1..(MaxProgress + 5)
  BY TimeAssumption DEF TypeOK
<1>2. prev \in Hashes \cup {NoHash}
  <2>1. CASE es = <<>>
    BY <2>1
  <2>2. CASE es # <<>>
    <3>1. Len(es) \in 1..Len(es) /\ es[Len(es)] \in EventRow
      BY <1>1, <2>2
    <3> QED  BY <2>2, <3>1 DEF EventRow
  <2> QED  BY <2>1, <2>2
<1>3. EventHash(o, n, kind, s, prev) \in Hashes
  BY <1>1, <1>2, HashAssumption
<1> QED  BY <1>1, <1>2, <1>3 DEF NextEvent, EventRow

(* The appended ledger verifies if the old one did. *)
LEMMA ChainExtends ==
    ASSUME TypeOK, NEW o \in Ops, NEW kind, NEW s, Appends(o, kind, s),
           Len(events[o]) <= MaxProgress + 4,
           ChainOK(o), ~Exists(o) => kind = "planned" /\ s = "planned"
    PROVE  ChainOK(o)' /\ events'[o] \in Seq(EventRow)
<1> DEFINE es == events[o]
           e  == NextEvent(o, es, kind, s)
<1>1. e \in EventRow /\ es \in Seq(EventRow) /\ events'[o] = Append(es, e) /\ state'[o] = s
  BY NextEventType DEF Appends, TypeOK, append_event_tx
<1>2. /\ Append(es, e) \in Seq(EventRow)
      /\ Append(es, e) # <<>>
      /\ Len(es) \in Nat
      /\ Len(Append(es, e)) = Len(es) + 1
      /\ DOMAIN Append(es, e) = 1..(Len(es) + 1)
      /\ DOMAIN es = 1..Len(es)
      /\ Append(es, e)[Len(es) + 1] = e
      /\ \A i \in 1..Len(es) : Append(es, e)[i] = es[i]
  BY <1>1, AppendIs
<1>3. /\ e.sequence = Len(es) + 1 /\ e.kind = kind /\ e.state = s
      /\ e.prev_hash = IF es = <<>> THEN NoHash ELSE es[Len(es)].hash
      /\ e.hash = EventHash(o, e.sequence, e.kind, e.state, e.prev_hash)
  BY DEF NextEvent
<1>4. es = <<>> <=> Len(es) = 0
  BY <1>1
<1>5. es = <<>> => ~Exists(o)
  BY DEF ChainOK, verify_event_chain
<1>6. ASSUME NEW i \in 1..(Len(es) + 1)
      PROVE  LET fs == Append(es, e)
             IN  /\ fs[i].sequence = i
                 /\ fs[i].prev_hash = IF i = 1 THEN NoHash ELSE fs[i - 1].hash
                 /\ i = 1 => fs[i].kind = "planned" /\ fs[i].state = "planned"
                 /\ fs[i].hash = EventHash(o, fs[i].sequence, fs[i].kind, fs[i].state,
                                           fs[i].prev_hash)
  <2>1. CASE i = Len(es) + 1
    BY <1>2, <1>3, <1>4, <1>5, <2>1
  <2>2. CASE i \in 1..Len(es)
    <3>1. es # <<>>
      BY <1>2, <1>4, <2>2
    <3>2. verify_event_chain(o)
      BY <3>1 DEF ChainOK
    <3>3. /\ es[i].sequence = i
          /\ es[i].prev_hash = IF i = 1 THEN NoHash ELSE es[i - 1].hash
          /\ i = 1 => es[i].kind = "planned" /\ es[i].state = "planned"
          /\ es[i].hash = EventHash(o, es[i].sequence, es[i].kind, es[i].state,
                                    es[i].prev_hash)
      BY <1>2, <2>2, <3>2 DEF verify_event_chain
    <3>4. i # 1 => i - 1 \in 1..Len(es)
      BY <1>2, <2>2
    <3> QED  BY <1>2, <2>2, <3>3, <3>4
  <2> QED  BY <1>2, <2>1, <2>2
<1>7. events'[o][Len(events'[o])].state = state'[o]
  BY <1>1, <1>2, <1>3
<1>8. Exists(o)'
  BY NoRowAssumption DEF Appends, Exists
<1>9. ASSUME NEW i \in DOMAIN events'[o]
      PROVE  /\ events'[o][i].sequence = i
             /\ events'[o][i].prev_hash = IF i = 1 THEN NoHash ELSE events'[o][i - 1].hash
             /\ i = 1 => events'[o][i].kind = "planned" /\ events'[o][i].state = "planned"
             /\ events'[o][i].hash = EventHash(o, events'[o][i].sequence, events'[o][i].kind,
                                               events'[o][i].state, events'[o][i].prev_hash)
  <2>1. i \in 1..(Len(es) + 1) /\ events'[o] = Append(es, e)
    BY <1>1, <1>2
  <2> QED  BY <2>1, <1>6
<1>10. events'[o] # <<>>
  BY <1>1, <1>2
<1>11. verify_event_chain(o)'
  BY <1>7, <1>9, <1>10 DEF verify_event_chain
<1> QED
  BY <1>1, <1>2, <1>8, <1>11 DEF ChainOK

(* The appended ledger is a legal path if the old one was and the step is. *)
LEMMA PathExtends ==
    ASSUME TypeOK, NEW o \in Ops, NEW kind, NEW s, Appends(o, kind, s),
           Len(events[o]) <= MaxProgress + 4,
           ChainOK(o), LegalPath(o),
           Exists(o) => \/ ensure_transition(state[o], s)
                        \/ kind = "progress" /\ state[o] = "executing" /\ s = "executing"
    PROVE  LegalPath(o)'
<1> DEFINE es == events[o]
           e  == NextEvent(o, es, kind, s)
           fs == Append(es, e)
<1>1. e \in EventRow /\ es \in Seq(EventRow) /\ events'[o] = fs
  BY NextEventType DEF Appends, TypeOK, append_event_tx
<1>2. /\ Len(es) \in Nat
      /\ DOMAIN fs = 1..(Len(es) + 1)
      /\ DOMAIN es = 1..Len(es)
      /\ fs[Len(es) + 1] = e
      /\ \A i \in 1..Len(es) : fs[i] = es[i]
  BY <1>1, AppendIs
<1>3. e.kind = kind /\ e.state = s
  BY DEF NextEvent
<1>4. Len(es) > 0 => Exists(o) /\ es[Len(es)].state = state[o]
  BY <1>1 DEF ChainOK, verify_event_chain
<1>5. ASSUME NEW i \in 1..(Len(es) + 1), i > 1
      PROVE  \/ ensure_transition(fs[i - 1].state, fs[i].state)
             \/ fs[i].kind = "progress" /\ fs[i - 1].state = "executing"
                /\ fs[i].state = "executing"
  <2>1. CASE i = Len(es) + 1
    <3>1. Len(es) > 0 /\ fs[i] = e /\ fs[i - 1] = es[Len(es)]
      BY <1>2, <1>5, <2>1
    <3> QED  BY <1>3, <1>4, <3>1
  <2>2. CASE i \in 1..Len(es)
    <3>1. i - 1 \in 1..Len(es) /\ fs[i] = es[i] /\ fs[i - 1] = es[i - 1]
      BY <1>2, <1>5, <2>2
    <3> QED  BY <1>2, <1>5, <2>2, <3>1 DEF LegalPath
  <2>3. i = Len(es) + 1 \/ i \in 1..Len(es)
    BY <1>2
  <2> QED  BY <2>1, <2>2, <2>3
<1> QED  BY <1>1, <1>2, <1>5 DEF LegalPath

(* Execution has started in the appended ledger iff it had before or the   *)
(* new row starts it.                                                      *)
LEMMA StartedExtends ==
    ASSUME TypeOK, NEW o \in Ops, NEW kind, NEW s, Appends(o, kind, s),
           Len(events[o]) <= MaxProgress + 4, StartInv(o),
           kind = "execution_started" => ~HasStarted(o)
    PROVE  /\ HasStarted(o)' <=> HasStarted(o) \/ kind = "execution_started"
           /\ \A i, j \in DOMAIN events'[o] :
                 /\ events'[o][i].kind = "execution_started"
                 /\ events'[o][j].kind = "execution_started"
                 => i = j
           /\ Len(events'[o]) = Len(events[o]) + 1
<1> DEFINE es == events[o]
           e  == NextEvent(o, es, kind, s)
           fs == Append(es, e)
<1>1. e \in EventRow /\ es \in Seq(EventRow) /\ events'[o] = fs /\ e.kind = kind
  BY NextEventType DEF Appends, TypeOK, append_event_tx, NextEvent
<1>2. /\ Len(es) \in Nat
      /\ Len(fs) = Len(es) + 1
      /\ DOMAIN fs = 1..(Len(es) + 1)
      /\ DOMAIN es = 1..Len(es)
      /\ fs[Len(es) + 1] = e
      /\ \A i \in 1..Len(es) : fs[i] = es[i]
  BY <1>1, AppendIs
<1>3. HasStarted(o)' <=> HasStarted(o) \/ kind = "execution_started"
  BY <1>1, <1>2 DEF HasStarted
<1>4. ASSUME NEW i \in DOMAIN fs, NEW j \in DOMAIN fs,
             fs[i].kind = "execution_started", fs[j].kind = "execution_started"
      PROVE  i = j
  BY <1>1, <1>2, <1>4 DEF StartInv, HasStarted
<1> QED  BY <1>1, <1>2, <1>3, <1>4

--------------------------------------------------------------------------------
(* Each change keeps the invariant of the operation it happens to. *)

(* An approval that fits an operation's row still fits it. *)
LEMMA ApprovalStays ==
    ASSUME NEW o, ExactlyApproved(o), approvals \subseteq approvals', plan'[o] = plan[o]
    PROVE  ExactlyApproved(o)'
<1>1. PICK a \in approvals :
          /\ a.op = o
          /\ a.decision = "approved"
          /\ a.approver \in {"local_user", "workspace_user"}
          /\ a.payload = plan[o].payload
          /\ a.policy = plan[o].policy
  BY DEF ExactlyApproved
<1>2. a \in approvals'
  BY <1>1
<1> QED  BY <1>1, <1>2 DEF ExactlyApproved

LEMMA KeptPreserves ==
    ASSUME NEW o \in Ops, OperationInv(o), Kept(o), approvals \subseteq approvals'
    PROVE  OperationInv(o)'
<1>1. ExactlyApproved(o) => ExactlyApproved(o)'
  BY ApprovalStays DEF Kept
<1>2. HasStarted(o)' <=> HasStarted(o)
  BY DEF Kept, HasStarted
<1>3. ChainOK(o)'
  <2>1. Exists(o)' <=> Exists(o)
    BY DEF Kept, Exists
  <2>2. verify_event_chain(o)' <=> verify_event_chain(o)
    BY DEF Kept, verify_event_chain
  <2> QED  BY <2>1, <2>2 DEF OperationInv, Kept, ChainOK
<1>4. LegalPath(o)'
  BY DEF OperationInv, Kept, LegalPath
<1>5. StartInv(o)'
  <2>1. StartInv(o) /\ state'[o] = state[o] /\ events'[o] = events[o]
    BY DEF OperationInv, Kept
  <2> QED  BY <1>2, <2>1 DEF StartInv
<1>6. ApprovalInv(o)'
  BY <1>1, <1>2 DEF OperationInv, Kept, ApprovalInv
<1>7. LengthInv(o)'
  BY DEF OperationInv, Kept, LengthInv
<1> QED  BY <1>3, <1>4, <1>5, <1>6, <1>7 DEF OperationInv

LEMMA InsertedPreserves ==
    ASSUME TypeOK, NEW o \in Ops, OperationInv(o), Inserted(o), approvals \subseteq approvals'
    PROVE  OperationInv(o)' /\ events'[o] \in Seq(EventRow)
<1>1. ~Exists(o) /\ events[o] = <<>> /\ Len(events[o]) = 0
  BY DEF OperationInv, ChainOK, Inserted
<1>2. Appends(o, "planned", "planned") /\ Len(events[o]) <= MaxProgress + 4
  BY <1>1, TimeAssumption DEF Inserted, Appends, OperationState, OperationEventKind
<1>3. ~HasStarted(o)
  BY <1>1 DEF HasStarted
<1>4. ChainOK(o)' /\ events'[o] \in Seq(EventRow)
  BY <1>1, <1>2, ChainExtends DEF OperationInv
<1>5. LegalPath(o)'
  BY <1>1, <1>2, PathExtends DEF OperationInv
<1>6. /\ ~HasStarted(o)'
      /\ \A i, j \in DOMAIN events'[o] :
            /\ events'[o][i].kind = "execution_started"
            /\ events'[o][j].kind = "execution_started"
            => i = j
      /\ Len(events'[o]) = 1
  <2>1. StartInv(o) /\ "planned" # "execution_started"
    BY DEF OperationInv
  <2>2. /\ HasStarted(o)' <=> HasStarted(o) \/ "planned" = "execution_started"
        /\ \A i, j \in DOMAIN events'[o] :
              /\ events'[o][i].kind = "execution_started"
              /\ events'[o][j].kind = "execution_started"
              => i = j
        /\ Len(events'[o]) = Len(events[o]) + 1
    BY <1>2, <2>1, StartedExtends
  <2> QED  BY <1>1, <1>3, <2>1, <2>2
<1>7. StartInv(o)' /\ ApprovalInv(o)'
  BY <1>6 DEF StartInv, ApprovalInv, Inserted
<1>8. LengthInv(o)'
  <2>1. state'[o] = "planned" /\ Rank(state'[o]) = 1
    BY NoRowAssumption DEF Rank, Inserted, OperationState
  <2> QED  BY <1>6, <2>1, TimeAssumption DEF LengthInv
<1> QED  BY <1>4, <1>5, <1>7, <1>8 DEF OperationInv

LEMMA MovedPreserves ==
    ASSUME TypeOK, NEW o \in Ops, OperationInv(o), Moved(o), approvals \subseteq approvals'
    PROVE  OperationInv(o)' /\ events'[o] \in Seq(EventRow)
<1> DEFINE t == state'[o]
           k == transition_event_kind(t)
<1>1. state[o] \in OperationState /\ ensure_transition(state[o], t) /\ plan'[o] = plan[o]
  BY DEF Moved, TypeOK, Exists
<1>2. t \in OperationState /\ k \in OperationEventKind
      /\ (k = "execution_started" <=> t = "executing")
  BY <1>1, TransitionType, EventKindType
<1>3. Len(events[o]) \in Nat /\ Rank(state[o]) \in 1..4 /\ Rank(t) \in 2..5
      /\ Rank(state[o]) < Rank(t) /\ Len(events[o]) <= MaxProgress + Rank(state[o])
  BY <1>1, RankGrows DEF OperationInv, LengthInv, TypeOK
<1>4. Appends(o, k, t) /\ Len(events[o]) <= MaxProgress + 4
  BY <1>2, <1>3, TimeAssumption DEF Appends, Moved
<1>5. HasStarted(o) => state[o] = "executing"
  BY <1>1 DEF OperationInv, StartInv, AfterStart, ensure_transition
<1>6. k = "execution_started" => ~HasStarted(o)
  BY <1>1, <1>2, <1>5 DEF ensure_transition
<1>7. ChainOK(o)' /\ events'[o] \in Seq(EventRow)
  BY <1>4, ChainExtends DEF OperationInv, Moved
<1>8. LegalPath(o)'
  BY <1>1, <1>4, PathExtends DEF OperationInv
<1>9. /\ HasStarted(o)' <=> HasStarted(o) \/ k = "execution_started"
      /\ \A i, j \in DOMAIN events'[o] :
            /\ events'[o][i].kind = "execution_started"
            /\ events'[o][j].kind = "execution_started"
            => i = j
      /\ Len(events'[o]) = Len(events[o]) + 1
  BY <1>4, <1>6, StartedExtends DEF OperationInv
<1>10. StartInv(o)'
  <2>1. HasStarted(o)' => t \in AfterStart
    BY <1>1, <1>2, <1>5, <1>9 DEF AfterStart, ensure_transition
  <2>2. t = "executing" => HasStarted(o)'
    BY <1>2, <1>9
  <2> QED  BY <1>9, <2>1, <2>2 DEF StartInv
<1>11. ApprovalInv(o)'
  <2>1. t = "approved" => ExactlyApproved(o)'
    BY DEF Moved
  <2>2. ASSUME HasStarted(o)', may_mutate_target(plan[o].kind)  PROVE ExactlyApproved(o)
    <3>1. CASE HasStarted(o)
      BY <2>2, <3>1 DEF OperationInv, ApprovalInv
    <3>2. CASE t = "executing"
      <4>1. state[o] \in {"ready", "approved"} /\ state[o] # "ready"
        BY <1>1, <2>2, <3>2 DEF Moved, ensure_transition
      <4> QED  BY <4>1 DEF OperationInv, ApprovalInv
    <3> QED  BY <1>2, <1>9, <2>2, <3>1, <3>2
  <2> QED  BY <1>1, <2>1, <2>2, ApprovalStays DEF ApprovalInv
<1>12. LengthInv(o)'
  BY <1>3, <1>9, TimeAssumption DEF LengthInv
<1> QED  BY <1>7, <1>8, <1>10, <1>11, <1>12 DEF OperationInv

LEMMA ProgressedPreserves ==
    ASSUME TypeOK, NEW o \in Ops, OperationInv(o), Progressed(o), approvals \subseteq approvals'
    PROVE  OperationInv(o)' /\ events'[o] \in Seq(EventRow)
<1>1. Len(events[o]) \in Nat /\ Exists(o)
  BY NoRowAssumption DEF TypeOK, Progressed, Exists, OperationState
<1>2. /\ Appends(o, "progress", "executing")
      /\ Len(events[o]) <= MaxProgress + 4 /\ Len(events[o]) < MaxProgress
  BY <1>1, TimeAssumption DEF Progressed, Appends, OperationState, OperationEventKind
<1>3. ChainOK(o)' /\ events'[o] \in Seq(EventRow)
  BY <1>1, <1>2, ChainExtends DEF OperationInv
<1>4. LegalPath(o)'
  BY <1>1, <1>2, PathExtends DEF OperationInv, Progressed
<1>5. /\ HasStarted(o)' <=> HasStarted(o)
      /\ \A i, j \in DOMAIN events'[o] :
            /\ events'[o][i].kind = "execution_started"
            /\ events'[o][j].kind = "execution_started"
            => i = j
      /\ Len(events'[o]) = Len(events[o]) + 1
  BY <1>2, StartedExtends DEF OperationInv
<1>6. StartInv(o)'
  BY <1>5 DEF OperationInv, StartInv, Progressed
<1>7. ApprovalInv(o)'
  BY <1>5, ApprovalStays DEF OperationInv, ApprovalInv, Progressed
<1>8. LengthInv(o)'
  BY <1>1, <1>2, <1>5, TimeAssumption, NoRowAssumption
     DEF LengthInv, Rank, Progressed, OperationState
<1> QED  BY <1>3, <1>4, <1>6, <1>7, <1>8 DEF OperationInv

--------------------------------------------------------------------------------
(* The invariant. *)

TablesOf(pl, st, ev) ==
    /\ pl = [o \in Ops |-> pl[o]]
    /\ st = [o \in Ops |-> st[o]]
    /\ ev = [o \in Ops |-> ev[o]]

(* The three tables stay indexed by the operation ids. *)
LEMMA TablesStay ==
    ASSUME TypeOK, [Next]_vars
    PROVE  TablesOf(plan', state', events')
<1>1. TablesOf(plan, state, events)
  BY DEF TypeOK, TablesOf
<1>2. ASSUME NEW o \in Ops, NEW target, transition_tx(o, target), plan' = plan
      PROVE  TablesOf(plan', state', events')
  BY <1>1, <1>2 DEF transition_tx, TablesOf
<1>3. ASSUME NEW r \in Runtimes, NEW o \in Ops, Plan(r, o)
      PROVE  TablesOf(plan', state', events')
  BY <1>1, <1>3 DEF Plan, insert_planned, TablesOf
<1>4. ASSUME NEW r \in Runtimes, NEW o \in Ops, Decide(r, o)
      PROVE  TablesOf(plan', state', events')
  BY <1>2, <1>4 DEF Decide, decide_approval
<1>5. ASSUME NEW r \in Runtimes, NEW o \in Ops, Claim(r, o)
      PROVE  TablesOf(plan', state', events')
  BY <1>2, <1>5 DEF Claim, claim_execution
<1>6. ASSUME NEW r \in Runtimes, NEW o \in Ops, append_progress(r, o)
      PROVE  TablesOf(plan', state', events')
  BY <1>1, <1>6 DEF append_progress, TablesOf
<1>7. ASSUME NEW r \in Runtimes, NEW o \in Ops, Finish(r, o)
      PROVE  TablesOf(plan', state', events')
  BY <1>2, <1>7 DEF Finish, finish
<1>8. ASSUME NEW c \in planCalls, finish_plan(c)
      PROVE  TablesOf(plan', state', events')
  <2>1. c.op \in Ops
    BY DEF TypeOK, PlanCall
  <2> QED  BY <1>1, <1>2, <1>8, <2>1 DEF finish_plan
<1>9. ASSUME NEW r \in Runtimes, recover_previous_runtimes(r)
      PROVE  TablesOf(plan', state', events')
  BY <1>1, <1>9 DEF recover_previous_runtimes, TablesOf
<1>10. ASSUME NEW r \in Runtimes, Crash(r)
       PROVE  TablesOf(plan', state', events')
  BY <1>1, <1>10 DEF Crash
<1>11. CASE Tick \/ UNCHANGED vars
  BY <1>1, <1>11 DEF Tick, vars
<1> QED
  BY <1>3, <1>4, <1>5, <1>6, <1>7, <1>8, <1>9, <1>10, <1>11 DEF Next

(* Every state of an operation after a step is a row of its tables. *)
LEMMA RowsTyped ==
    ASSUME TypeOK, NEW o \in Ops, StepOK(o)
    PROVE  /\ plan'[o] \in PlanRow \cup {NoRow}
           /\ state'[o] \in OperationState \cup {NoRow}
           /\ plan'[o] = NoRow <=> state'[o] = NoRow
<1>1. CASE Kept(o)
  BY <1>1 DEF Kept, TypeOK
<1>2. CASE Inserted(o)
  BY <1>2, NoRowAssumption DEF Inserted, OperationState
<1>3. CASE Moved(o)
  <2>1. state[o] \in OperationState /\ plan[o] \in PlanRow
    BY <1>3 DEF Moved, TypeOK, Exists
  <2>2. state'[o] \in OperationState
    BY <1>3, <2>1, TransitionType DEF Moved
  <2> QED  BY <1>3, <2>1, <2>2, NoRowAssumption DEF Moved
<1>4. CASE Progressed(o)
  BY <1>4 DEF Progressed, TypeOK
<1> QED  BY <1>1, <1>2, <1>3, <1>4 DEF StepOK

LEMMA InitInv == Init => Inv
<1> SUFFICES ASSUME Init PROVE Inv
  OBVIOUS
<1>1. TypeOK
  BY TimeAssumption DEF Init, TypeOK, Time
<1>2. KeyBindsOneOperation
  BY DEF Init, KeyBindsOneOperation, Exists
<1>3. ASSUME NEW o \in Ops  PROVE OperationInv(o)
  <2>1. state[o] = NoRow /\ events[o] = <<>> /\ Len(events[o]) = 0 /\ DOMAIN events[o] = {}
    BY DEF Init
  <2>2. ~HasStarted(o) /\ ~Exists(o) /\ state[o] # "executing" /\ state[o] # "approved"
    BY <2>1, NoRowAssumption DEF HasStarted, Exists, OperationState
  <2>3. ChainOK(o) /\ LegalPath(o) /\ StartInv(o) /\ ApprovalInv(o)
    BY <2>1, <2>2 DEF ChainOK, LegalPath, StartInv, ApprovalInv
  <2>4. LengthInv(o)
    BY <2>1, TimeAssumption DEF LengthInv, Rank
  <2> QED  BY <2>3, <2>4 DEF OperationInv
<1> QED  BY <1>1, <1>2, <1>3 DEF Inv

LEMMA NextInv == Inv /\ [Next]_vars => Inv'
<1> SUFFICES ASSUME Inv, [Next]_vars PROVE Inv'
  OBVIOUS
<1>1. TypeOK /\ \A o \in Ops : OperationInv(o)
  BY DEF Inv
<1>2. /\ \A p \in Ops : StepOK(p)
      /\ approvals \subseteq approvals' /\ approvals' \in SUBSET ApprovalRow
      /\ runtime' \in [Runtimes -> {"unused", "live", "dead"}]
      /\ planCalls' \in SUBSET PlanCall
      /\ now' \in Time
  BY <1>1, StepCases
<1>3. ASSUME NEW o \in Ops  PROVE OperationInv(o)' /\ events'[o] \in Seq(EventRow)
  <2>1. CASE Kept(o)
    BY <1>1, <1>2, <2>1, KeptPreserves DEF Kept, TypeOK
  <2>2. CASE Inserted(o)
    BY <1>1, <1>2, <2>2, InsertedPreserves
  <2>3. CASE Moved(o)
    BY <1>1, <1>2, <2>3, MovedPreserves
  <2>4. CASE Progressed(o)
    BY <1>1, <1>2, <2>4, ProgressedPreserves
  <2> QED  BY <1>2, <2>1, <2>2, <2>3, <2>4 DEF StepOK
<1>4. TypeOK'
  <2>1. TablesOf(plan', state', events')
    BY <1>1, TablesStay
  <2>2. \A o \in Ops : /\ plan'[o] \in PlanRow \cup {NoRow}
                       /\ state'[o] \in OperationState \cup {NoRow}
                       /\ plan'[o] = NoRow <=> state'[o] = NoRow
    BY <1>1, <1>2, RowsTyped
  <2>3. plan' \in [Ops -> PlanRow \cup {NoRow}]
        /\ state' \in [Ops -> OperationState \cup {NoRow}]
        /\ events' \in [Ops -> Seq(EventRow)]
    BY <1>3, <2>1, <2>2 DEF TablesOf
  <2> QED  BY <1>2, <2>2, <2>3 DEF TypeOK
<1>5. KeyBindsOneOperation'
  <2> SUFFICES ASSUME NEW o \in Ops, NEW p \in Ops, Exists(o)', Exists(p)',
                      plan'[o].key = plan'[p].key
               PROVE  o = p
    BY DEF KeyBindsOneOperation
  <2>1. \A q \in Ops : ~Inserted(q) => plan'[q] = plan[q] /\ (Exists(q)' => Exists(q))
    BY <1>2, NoRowAssumption DEF StepOK, Kept, Moved, Progressed, Exists, OperationState
  <2>2. CASE Inserted(o)
    BY <2>2 DEF Inserted, Kept, Exists
  <2>3. CASE Inserted(p)
    BY <2>3 DEF Inserted, Kept, Exists
  <2>4. CASE ~Inserted(o) /\ ~Inserted(p)
    BY <2>1, <2>4 DEF Inv, KeyBindsOneOperation
  <2> QED  BY <2>2, <2>3, <2>4
<1> QED  BY <1>3, <1>4, <1>5 DEF Inv

(* Inv is an invariant of the runtime. *)
THEOREM Invariance == Spec => []Inv
BY InitInv, NextInv, PTL DEF Spec

--------------------------------------------------------------------------------
(* The properties of OperationRuntime. *)

(* The tables of the operation store keep their types. *)
THEOREM TypeCorrect == Spec => []TypeOK
<1>1. Inv => TypeOK
  BY DEF Inv
<1> QED  BY <1>1, Invariance, PTL

(* No target-mutating operation ever begins to execute without a human's   *)
(* approval of exactly its payload under exactly its policy revision.      *)
THEOREM MutationsAreApproved == Spec => []ApprovedBeforeMutation
<1>1. Inv => ApprovedBeforeMutation
  BY DEF Inv, OperationInv, ApprovalInv, ApprovedBeforeMutation
<1> QED  BY <1>1, Invariance, PTL

(* No operation is executed twice. *)
THEOREM NoDoubleExecution == Spec => []ExecutedAtMostOnce
<1>1. Inv => ExecutedAtMostOnce
  BY DEF Inv, OperationInv, StartInv, ExecutedAtMostOnce
<1> QED  BY <1>1, Invariance, PTL

(* The event ledger of every operation passes the code's verifier and is a *)
(* path of the lifecycle.                                                  *)
THEOREM LedgersAreSound == Spec => []LedgerIsSound
<1>1. Inv => LedgerVerifies
  BY DEF Inv, OperationInv, ChainOK, LedgerVerifies
<1>2. Inv => LedgerIsLegal
  BY DEF Inv, OperationInv, LegalPath, LedgerIsLegal
<1> QED  BY <1>1, <1>2, Invariance, PTL DEF LedgerIsSound

(* An idempotency key never names two operations. *)
THEOREM KeysAreUnique == Spec => []KeyBindsOneOperation
<1>1. Inv => KeyBindsOneOperation
  BY DEF Inv
<1> QED  BY <1>1, Invariance, PTL

(* Nothing changes a finished operation. *)
THEOREM OutcomesAreFinal == Spec => TerminalIsFinal
<1>1. ASSUME TypeOK, [Next]_vars, NEW o \in Ops, is_terminal(state[o])
      PROVE  Kept(o)
  <2>1. StepOK(o) /\ state[o] \in TerminalState
    BY <1>1, StepCases DEF is_terminal
  <2>2. state[o] \in OperationState /\ Exists(o)
    BY <2>1, NoRowAssumption DEF TerminalState, OperationState, Exists
  <2>3. ~Moved(o)
    BY <2>1, <2>2, TransitionType DEF Moved
  <2>4. ~Progressed(o) /\ ~Inserted(o)
    BY <2>1, <2>2 DEF Progressed, Inserted, TerminalState
  <2> QED  BY <2>1, <2>3, <2>4 DEF StepOK
<1>2. TypeOK /\ [Next]_vars =>
         [\A o \in Ops : is_terminal(state[o]) =>
             state'[o] = state[o] /\ events'[o] = events[o] /\ plan'[o] = plan[o]]_vars
  BY <1>1 DEF Kept
<1> QED  BY <1>2, TypeCorrect, PTL DEF Spec, TerminalIsFinal

(* An operation whose process is gone is only ever closed by recovery. *)
THEOREM OrphansAreClosed == Spec => OrphansAreOnlyRecovered
<1>1. ASSUME TypeOK, [Next]_vars, NEW o \in Ops, Exists(o), runtime[plan[o].runtime] = "dead"
      PROVE  \/ state'[o] = state[o] /\ events'[o] = events[o]
             \/ ~is_terminal(state[o]) /\ state'[o] \in {"expired", "failed", "outcome_unknown"}
  <2>1. StepOK(o) /\ ~Inserted(o) /\ ~Progressed(o) /\ state[o] \in OperationState
    BY <1>1, StepCases DEF Inserted, Progressed, TypeOK, Exists
  <2>2. CASE Kept(o)
    BY <2>2 DEF Kept
  <2>3. CASE Moved(o)
    <3>1. state[o] \notin TerminalState
      BY <2>1, <2>3, TransitionType DEF Moved
    <3>2. state'[o] \in {"expired", "failed", "outcome_unknown"}
      BY <1>1, <2>3 DEF Moved
    <3> QED  BY <3>1, <3>2 DEF is_terminal
  <2> QED  BY <2>1, <2>2, <2>3 DEF StepOK
<1>2. TypeOK /\ [Next]_vars =>
         [\A o \in Ops : Exists(o) /\ runtime[plan[o].runtime] = "dead" =>
             \/ state'[o] = state[o] /\ events'[o] = events[o]
             \/ ~is_terminal(state[o])
                /\ state'[o] \in {"expired", "failed", "outcome_unknown"}]_vars
  BY <1>1
<1> QED  BY <1>2, TypeCorrect, PTL DEF Spec, OrphansAreOnlyRecovered

(* Only recovery brings a runtime id to life. *)
LEMMA OnlyRecoveryStarts ==
    ASSUME TypeOK, [Next]_vars, NEW r \in Runtimes,
           runtime[r] = "unused", runtime'[r] = "live"
    PROVE  \E q \in Runtimes : recover_previous_runtimes(q)
<1>1. ASSUME NEW q \in Runtimes, NEW o \in Ops,
             Plan(q, o) \/ Decide(q, o) \/ Claim(q, o) \/ append_progress(q, o) \/ Finish(q, o)
      PROVE  FALSE
  BY <1>1, PlanStep, DecideStep, ClaimStep, ProgressStep, FinishStep
<1>2. ASSUME NEW c \in planCalls, finish_plan(c)  PROVE FALSE
  BY <1>2, FinishPlanStep
<1>3. ASSUME NEW q \in Runtimes, Crash(q)  PROVE FALSE
  BY <1>3 DEF Crash, TypeOK
<1>4. CASE Tick \/ UNCHANGED vars
  BY <1>4 DEF Tick, vars
<1> QED  BY <1>1, <1>2, <1>3, <1>4 DEF Next

(* A starting process reports outcome_unknown exactly for the operations   *)
(* whose target may have been changed.                                     *)
THEOREM RecoveryTellsTheTruth == Spec => RecoveryIsHonest
<1>1. ASSUME Inv, [Next]_vars, NEW r \in Runtimes, NEW o \in Ops,
             runtime[r] = "unused", runtime'[r] = "live", state'[o] # state[o]
      PROVE  state'[o] = "outcome_unknown" <=>
                HasStarted(o) /\ may_mutate_target(plan[o].kind)
  <2>1. TypeOK /\ StartInv(o)
    BY <1>1 DEF Inv, OperationInv
  <2>2. PICK q \in Runtimes : recover_previous_runtimes(q)
    BY <1>1, <2>1, OnlyRecoveryStarts
  <2>3. /\ Exists(o) /\ ~is_terminal(state[o])
        /\ state'[o] = restart_recovery(plan[o].kind, state[o])
    BY <1>1, <2>2 DEF recover_previous_runtimes, Recovers
  <2>4. HasStarted(o) <=> state[o] = "executing"
    BY <2>1, <2>3 DEF StartInv, AfterStart, is_terminal, TerminalState
  <2>5. state'[o] = "outcome_unknown" <=>
           state[o] = "executing" /\ may_mutate_target(plan[o].kind)
    BY <1>1, <2>3 DEF restart_recovery
  <2> QED  BY <2>4, <2>5
<1>2. Inv /\ [Next]_vars =>
         [\A r \in Runtimes, o \in Ops :
             runtime[r] = "unused" /\ runtime'[r] = "live" /\ state'[o] # state[o] =>
                (state'[o] = "outcome_unknown" <=>
                    HasStarted(o) /\ may_mutate_target(plan[o].kind))]_vars
  BY <1>1
<1> QED  BY <1>2, Invariance, PTL DEF Spec, RecoveryIsHonest

================================================================================
