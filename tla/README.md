# A verification project for DopeDB

DopeDB is a local-first desktop database client: a Tauri application whose Rust
core lets a person, an AI agent (over MCP) and a command line (over a local
broker) look at and change databases. Its promise is about *mutations*: nothing
changes a target database unless a person approved exactly that payload under
exactly the policy in force, it runs at most once, it leaves an audit row, and
the recorded outcome never claims more than is known. Around that promise stand
the services that decide whose connection is used (workspaces, pins, credentials,
leases), the paths by which SQL reaches a target, and the processes that talk to
the desktop. This directory holds TLA+ models of these parts, TLC runs that check
them on small instances, and TLAPS proofs of the central results.

Paths below are relative to `src/src-tauri/src/` unless they begin with `src/`.

## The system

| Component | State it keeps | What is hard about it | What makes it correct | Module |
|---|---|---|---|---|
| Operation Runtime (`operations/`) | operations, approvals, hash-chained events; one runtime id per process | several processes on one store, plan in two transactions, stale clocks, crashes | exact approval, single execution, verifiable and legal ledger, honest recovery | `OperationLifecycle`, `OperationRuntime` |
| SQL query service, operation service, executor, cancellation registry (`services/query_service.rs`, `services/operation_service.rs`, `executor/`) | requests in flight, slots | claim, audit, connect, execute and receipt are separate awaits, each can fail; cancel races claim and commit | receipts do not contradict the target, every execution ends, a running statement can be cancelled | `SqlExecution` |
| Safety settings (`services/safety_service.rs`) | settings rows | changes the policy of approved operations | no access under a changed policy | `SqlExecution` |
| Script, document and monitoring services | requests in flight, operations, history | scripts fail in the middle, lost COMMIT answers, timeouts, early returns | receipts and history agree with the target, no claimed operation is forgotten | `DesktopServices` |
| Safety layers and read executor (`safety/`, `executor/read.rs`, `connection/pool.rs`) | sessions of the read pool, their transactions and limits | a session carries what the last reader left in it | no unapproved change, current reads, exact pages | `SqlReads` |
| SQL text (`sql_script/`, value decoding of `executor/read.rs`) | none | quotes, escapes, comments and dollar tags inside each other; integers at 2^53 | statements are cut where the engine cuts them, cells read back | `SqlText` |
| Connection runtime (`connection/runtime.rs`) | scope gate, slot map, pools, provider leases, timers | gate, slot mutexes, timers, revocation and retirement interleave | no pool closed in use, leaked, doubled or handed to a revoked request; no deadlock | `ConnectionRuntime` |
| Managed leases (`workspace_auth.rs`, `connection/runtime.rs`) | seconds: the provider's clock, the wall clock, expiry and retirement | slow answers and handshakes, clamped lifetimes, clocks that differ | a pool that is handed out has a live credential | `ManagedLease` |
| Workspace service and account client | accounts, memberships, sessions, the active scope | a list fetched before a switch is applied after it; revocation at the control plane; restart | the active scope is valid and never comes back under an old generation | `ActiveScope`, `WorkspaceScope` |
| Local store (`store/mod.rs`) | connection rows, bindings, pins, history, catalog cache, dashboards, outbox | delete and re-create under the same revision, lists applied out of order | a current pin is faithful, history stays in its scope, one event per change | `PinnedConnections` |
| Connection service, credentials, keychain | profiles, pointers to credentials, the operating system's vault | several steps over two stores, each may fail or die; a gate per process | no dangling pointer, no forgotten credential | `ConnectionSecrets` |
| Dashboard service | dashboards, query history | the scope or the connection changes while a dashboard is prepared | an agent saves only its own successful reads; dashboards only read | `DashboardService` |
| Agent chat (`agent/`, `services/agent_service.rs`) | threads, turns, a lock, a child process | cancellation, timeout, exit and a second turn | transcripts do not mix, tell what was shown, turns end | `AgentChat` |
| Local broker and CLI (`broker/`, `src/dopedb-cli/`, `src/dopedb-protocol/`) | discovery file, socket, sessions, connections, requests | desktops start, crash and replace each other; answers get lost; shutdown aborts requests | exit codes are honest, every command ends, a stopped broker is quiet | `LocalBroker` |
| CLI installer (`cli_install.rs`) | the installed binary, the shell profile | crashes in the middle of a copy, the user's own files, two desktops | never half a binary, never an unconfirmed replacement, one block in the profile | `CliInstall` |
| Audit log (`audit/`) | hash-chained rows | read tail, then insert, on a pooled store | only real tampering is reported | `AuditChain` |

How they interact: a proposal (desktop, CLI or agent) becomes a row of the
operation store; a local decision approves it; a run claims it by a
compare-and-swap, writes an audit row, asks the connection runtime for a pool
under the shared scope gate, executes under a cancellation slot keyed by the
operation id, and writes a receipt and a history row under the pin it started
with. Workspace switches, connection edits and safety changes take the same gate
exclusively. The CLI finds a desktop by its discovery file and sends one request
under a session of the broker. A second process of the application may run on the
same `app.db`: gate, slots and audit lock are process local, the stores are not.

## Modules

In every module one action is one stretch of code between two awaits, or one
transaction of the local store, whichever is shorter; a handler that awaits is a
sequence of actions with the request's `pc` in between.

* `OperationLifecycle` - the pure lifecycle rules: states, kinds,
  `ensure_transition`, `transition_event_kind`, `restart_recovery`.
* `OperationRuntime` - the store and its API. One repository method is one action,
  because it is one SQLite transaction; `plan()` is two transactions and so two
  actions with `planCalls` in between. `plan[o]` are the immutable columns,
  `state[o]` the projection, `approvals` and `events` the other tables. The
  callers are arbitrary: any live runtime calls anything with any argument. The
  time a method compares with an expiry may be any moment since the row was
  created (`CapturedTimes`), since `Utc::now()` is read before the wait for the
  write lock.
* `SqlExecution` - the real callers composed with the store (`Store == INSTANCE
  OperationRuntime`): proposals, decisions, desktop and agent runs, both ways to
  cancel, the cancellation registry, the guarded write, the target, process start
  and crash. The target is external and modelled by what a client can see of it: a
  statement is sent, an open transaction is rolled back when its connection goes
  away, and a COMMIT that was sent is decided by the target alone.
  `AutocommitKinds` are the kinds the target commits by itself, `StoreMayFail` lets
  receipts be lost, `MayOverlap` lets a second process start while one runs.
* `DesktopServices` - scripts statement by statement (stop on error, cancel in
  between, COMMIT with or without an answer), typed document reads with their
  limits, and the `pg_monitor` role with its two-second timeout, all through plan,
  decision, claim, audit, receipt and history. What a statement does at the target and
  what L1 makes of it (`L1Kind`) are two things: MySQL commits at statements that L1
  takes for writes. An agent asks for a number of rows or leaves it to the setting,
  plans and claims in two steps, and its query may stay without an answer for ever.
* `SqlReads` - a statement is described by what it does and by what the
  classification makes of it, so that what L1 misses meets the layers behind it.
  Sessions of the read pool keep their transaction and their read-only default
  between requests; a cancelled read returns its session as it is, and a statement that
  passes for a read may turn the default of its session off (`set_config`, or a stored
  function that calls it), which nothing turns on again.
* `SqlText` - the splitter over token classes, and the rendering of integers, exact
  types, intervals and undecodable values; checked against reference definitions
  over all short inputs.
* `ConnectionRuntime` - requests, slots, pools, leases, timers, mutations and the
  gate. Arc references are not counted but derived from who holds a pool; a pool is
  retired by its last owner. `lost` is a history variable: the requests that were
  revoked or overtaken before their last check.
* `ManagedLease` - what `ConnectionRuntime` abstracts to ticks: the seconds of a
  credential from the provider's answer through validation, the anchor in the
  desktop's clock, the handshake, the second authorization, hand-over, cache and
  retirement. `lag` is how far the desktop's wall clock is behind the provider's.
* `ActiveScope` - the contract that pins rest on: the active scope is the personal
  workspace or a team with an account, and a changed scope has a larger generation.
  `WorkspaceScope` - sign-in, refresh, sign-out, switches, membership changes and
  restart over the store's tables; it implements `ActiveScope`.
* `PinnedConnections` - connection rows, bindings and everything published under a
  pin: history, catalog cache, dashboards, outbox.
* `ConnectionSecrets` - upsert, delete, schema groups, bindings and copies, with
  the vault and the control plane as external stores that fail on their own. `AppOf`
  names the process that serves a request; the scope gate is one per process.
* `DashboardService` - save, run, delete and the agent's two-step creation from its
  own query history.
* `AgentChat` - `send_turn` with its lock, the streaming child, cancel, timeout,
  stored transcript, scope switches and the exit hook. An event may fail to reach the
  window, which the code only logs, and the store may fail at each row.
* `LocalBroker` - desktop, broker, session, handler, socket, discovery file and the
  CLI's call up to its exit code. What a command does inside a service is one
  effect; the catalog commands keep the two acquisitions of the scope gate. A call
  that starts the desktop as its child is `launching` until that child lets it go on,
  and `remove_if_owned` may fail without a word.
* `CliInstall` - in-app copy, global copy and profile block of the Unix installer. The
  user's own files come and go at the global target at any time; `unseen` are those
  that came after an installation had looked there.
* `AuditChain` - `record` and `verify_chain`.
* `*Proofs` - theorems about the module of that name (`DesktopProofs`: the modules of
  `MCDesktop` and `DashboardService`; `BrokerProofs`: `LocalBroker`;
  `StoredConnectionsProofs`: `ConnectionSecrets` and `PinnedConnections`;
  `LocalServicesProofs`: `AuditChain`, `ManagedLease`, `CliInstall` and `SqlReads`).
* `MC*` - the instances for TLC. `MCLocalServices` and `MCDesktop` are sums: the
  modules they extend have no variable in common, so a behaviour picks one of them
  at the start and the others stand still in one of their initial states. The
  reachable states are those of the parts side by side, and the invariants of each
  part are checked on it as in a run of its own.

Abstract and detailed: `OperationRuntime` is the specification of what the
operation store promises and `SqlExecution` is shown to implement it (`StoreSpec`),
so the theorems about the store hold of the services as well; `ActiveScope` is what
the pins of `PinnedConnections` rely on and `WorkspaceScope` implements it
(`ImplementsActiveScope`, with the selection table mapped to the active scope).

Definitions whose name ends in `_mutant` (or says what is broken: `FireTimer_lost`,
`ensure_transition_reclaim`) are deliberately wrong variants of the definition after
them. Each property is known to fail when the right one is replaced by its variant, so
none of them holds vacuously. Where a property is a conjunction of named parts
(`LedgerIsSound`, `RecordsAreHonest`, `PoolsAreSound`, `ScopeIsSound`, `NobodyHangs`,
`ReadsAreFaithful`, `TextIsFaithful`, `InstallationIsSound`, `ProfilesAreSound`,
`NothingIsLeftBehind`, `RevisionsAreTrue`, `DashboardsAreReads`,
`ServiceRecordsAreHonest`, `TranscriptIsFaithful`, `EverythingEnds`) there is a variant
for each part other than the types.

## Runs

| Run | Instance | Shows |
|---|---|---|
| `operation` | 2 operations, 3 runtimes, 2 payloads, 2 policies, 4 kinds, 1 key, clock 0..2 | types, exact approval, single execution, verifiable and legal ledger, one operation per key, honest recovery |
| `sql_receipts` | 1 operation of 3 kinds, 2 runs, 2 runtimes that may overlap, a CLI cancel, desktop cancels, lost receipts | receipts agree with the target; audit before effect; a running statement is cancellable; refinement of `OperationRuntime`, and with it of single execution |
| `sql_liveness` | a desktop and an agent operation, 2 runs, scope switch, safety changes | no target access under a changed policy; every execution ends in a receipt or with its process |
| `connection_pools` | 2 requests, 1 mutation, 3 pools, 2 slots, clock 0..2, revocation, a foreign writer | pools are open while used, not leaked, one per key, never handed out expired or to a revoked request |
| `connection_liveness` | 2 requests, 1 mutation at a time, 2 scope revisions, 2 pools, 1 slot, one process | no deadlock or starvation at gate and slots; leases come back; nothing of an earlier scope stays cached |
| `workspace_scope` | 1 team, 2 accounts, 2 calls in flight, 3 calls in all, 1 change at the control plane, restart | the active scope is valid, teams are listed exactly while a remembered account is a member, refinement of `ActiveScope` |
| `local_broker` | one command of each kind against one desktop from its start, `app.open --wait` against two | exit codes are honest, a stopped broker is quiet, targets are reached under the session's revision, commands and exits end |
| `local_services` | eight services: 2 readers on 1 session; scripts of up to 3 tokens and integers across the safe bound; 2 installing desktops and 2 versions; 2 connection requests of one process over 2 rows and a crash; 1 pin over 1 local and 1 shared connection with 3 edits; 3 audit writers; 1 lease over 7 seconds with lag -1..1; 1 dashboard with 2 edits | nothing unapproved changes a target (with the exception named below), reads and texts are faithful, installations and stored profiles are sound, failed requests leave nothing behind, revisions stand for one content, history stays in its scope, the audit log verifies, pools have live credentials, dashboards only read |
| `desktop_services` | 1 operation, 2 runs, 3 engines, scripts with plain and implicit commits, document requests and requested row counts at the caps, policy changes, a restart; 2 turns on 1 thread with a scope switch | receipts, history and transcripts tell what happened; nothing claimed is forgotten; runs and turns end |
| `cancel_race`, `gate_reentry`, `leaked_transaction` | small instances | expected violations, see below |

Bounds. Operations do not interact except through idempotency keys, the number of
run requests and the gate, so one operation with two competing runs shows the
races on it, and two show the key rule and the gate. Three runtimes are a process,
its successor and one that overlaps both. A clock of two or three ticks puts every
expiry before, at and after each step; the seven seconds of `ManagedLease` put the
answer, the handshake and the re-authorization of the shortest and the longest
accepted lifetime on either side of retirement and expiry. Three pools let a pool
be detached while a second is opened and a third replaces it. One session with two
readers is what makes the second meet what the first left behind. Two accounts of a
team are enough for one to see the rows of the other, and three edits of pinned rows
for a row to be made, removed and made again. A profile limit of
four elements lets a short profile get its block and refuses a longer one. The bounds with a name (`MaxProgress`, `MaxRows`,
`MaxScope`, `MaxDecisions`, `MaxCalls`, `MaxGeneration`, `MaxPinEdits`,
`MaxDashEdits`, `MaxRestarts`, `MaxPolls` and the like) bound only how often
something repeats. `MCIdsInOrder` drops states that differ by the name of the first
operation, `MCBound` meets kinds other than plain writes under one safety setting, and
`MCLocalBound` keeps apart what is independent in three of the local services: app
updates and long profiles (a file the user puts under a running installation meets
neither), crashes and a second local connection, and edits of the safety settings on
one side, production targets, engines other than PostgreSQL and sessions whose default
was turned off on the other. A chat starts in one of two interchangeable
scopes and meets one switch; `TranscriptsStayFaithful` is proved for any number.
The hash is a toy digest over a small range where chains are the question, and
constant where they are not. Deadlock checking is off where a model stops when its
bounded requests, processes and clock are used up; real deadlocks are the subject
of the liveness properties. `MCBrokerInit` starts the two-desktop case from
reachable states (a desktop that serves, or one that crashed and left its files).

Fairness. `sql_liveness` assumes weak fairness of each run, and `desktop_services` of
each turn and of every step of a run but one: the async runtime polls a task that can
go on, and remote calls end, with an answer, an error or the guard's timeout (300
seconds for statements, two for the role change, the turn's own limit for a chat). The
exception is the query of an agent's document read (`AgentQueryReturns`): the client has
no timeout for it, so nothing is assumed, and `RunsEnd` lets exactly that run wait.
Nothing is assumed of users, cancels, targets or the clock. `sql_liveness` also assumes
that the local store accepts receipts: the code ignores a failing receipt, so without
that an operation stays executing until the next start. `connection_liveness` assumes
strong fairness of requests and timers, because tokio's mutexes are fair queues, and
weak fairness of mutations and releases; a holder of a pool gives it back because its
statement is bounded by the same guard. `local_broker` assumes weak fairness of the
broker, of an exit that has begun, of the gate's edits, of the CLI's call (its waits are
bounded by `client.rs`) and of the handlers of a live process; it does not assume that a
desktop starts, stays up or answers. Where `launch_desktop` starts the desktop as its
own child (systems other than macOS and Windows), `Command::status` waits for it without
a bound, and `EveryCallEnds` lets exactly that call wait.

### Expected violations

* `cancel_race`: `cancel_terminal` reads the state, and later calls
  `cancel_before_execution`, which may move an operation that has been claimed in
  between from executing to cancelled. The write goes on and may commit; its receipts
  are refused. The comment on `cancel_before_execution` and the plan document say
  that cancelled means confirmed.
* `gate_reentry`: a terminal's catalog request keeps the read guard of its
  authority context while `load_catalog_snapshot` pins the connection, which takes
  the gate again. An edit queued in between on the writer-preferring gate waits for
  the request, and the request for the edit. The comment on
  `ConnectionOperationScope::connect` warns of just this.
* `leaked_transaction`: `run_read_only` sends ROLLBACK after the awaited block, but a
  cancelled or timed-out read is dropped as a whole: the session goes back to the
  pool inside its transaction. The comment says that ROLLBACK always fires,
  and the one in `executor/cancel.rs` that a connection dropped in the middle of a
  statement is closed: after the answer to BEGIN no statement is in flight.
  `ChangesWereApproved` and `AgentReadsAreCurrent` hold all the same on such a
  session, because the next agent read begins anew, in a transaction it declares
  read-only itself.

## Proofs

A theorem holds for every value of the constants that satisfies the named assumptions
of the component's module; TLC evaluates those assumptions on the instances it runs.
The pattern is the same everywhere: an inductive invariant, checked by TLC on the run's
instance before it was proved, whose conjuncts are predicates of one element (a
request, a pool, an operation, a call); a *facts* lemma that gives a proof step what
the invariant says of its element; one lemma for the frame of a step (the elements it
does not touch); one lemma per action; and the temporal theorem on top.

`OperationRuntimeProofs` proves, for every set of runtimes, operations, kinds,
payloads, policies, keys and lifetimes, every bound and every hash function:
`TypeCorrect`, `MutationsAreApproved`, `NoDoubleExecution`, `LedgersAreSound`,
`KeysAreUnique` and the action properties `OutcomesAreFinal`,
`OrphansAreClosed`, `RecoveryTellsTheTruth`. The first two action properties (a finished
operation never changes, an operation whose process is gone is only recovered) are
proved only. None of these is inductive alone. That a mutation was approved needs to
know that an approved row has its exact approval already and that approvals are never
removed; single execution needs to know that a state before executing has no
`execution_started` row and that no transition leads back; the ledger's verdict needs
its tail to equal the projection. `Inv` is the conjunction of these with the types
and the uniqueness of keys. One lemma classifies what a step can do to one operation
(stay, be inserted, take one transition with one event, take a progress event), and
each conjunct is then preserved case by case.

`SqlExecutionProofs` proves the services on top of that store, for any number of
operations, run requests and runtimes: `RecordsStayHonest`, `RunsStayCancellable`,
`AccessKeepsItsPolicy` and the refinement `ServicesImplementStore` (every step of the
services is a step of `OperationRuntime` or leaves its variables alone).
`ServicesStartApprovedOnce` cites the theorems about the store through that
refinement, so approval and single execution are theorems about the services too. The
invariant relates the position of a run, the row of its operation, the target, the
audit log and the cancellation slot: a run past its claim owns the operation (no other
run can stand at the same place), a receipt is written only from positions where the
outcome is known, and the slot of a running statement holds that statement's handle.
`AccessKeepsItsPolicy` is stated under `MayOverlap = FALSE`: the scope gate belongs to
one process, and with a second one on the same store it is no promise.

`ConnectionRuntimeProofs` proves `PoolsStaySound`, `LeasesAreNotLeaked`,
`RevokedStaysOut`, `CacheStaysCurrent` and the action property `HandOffsAreFresh`. The
invariant says of each position of a request which pool, lease and slot it holds and
who else may hold them; a lease is always with exactly one of a request, a pool or a
release in flight. `CacheStaysCurrent` is under `ForeignWriter = FALSE`: a second
process changes rows behind this one's cache. (`Accesses # {}` is assumed: a connection
is stored with a read or a write access.)

`WorkspaceScopeProofs` proves `ScopeStaysSound` and `ScopeImplementsContract`, the step
simulation of `ActiveScope`. The contract needs that a generation fetched before a
switch cannot be applied after it; soundness needs that the rows of the memberships and
of the remembered accounts are cleaned in the same transactions. The set of accounts is
finite (`IsFiniteSet(Users)`), which is what lets a next account be chosen by recency;
that an order by recency *exists* for every table is evaluated by TLC.

`DesktopProofs` covers `DesktopServices`, `AgentChat` and `DashboardService`.
`ServicesStayHonest` says of all scripts, document reads and role changes that receipts,
audit, history and result pages agree with the target: after a success everything is
durable, after any other receipt nothing more will be. That nothing *was* is said where
L1 sees every commit of the script (`CommitsAreSeen`, part of the property and a limit
named below). Its invariant `ServiceInv` also gives `ExecutingStaysOwned`: an operation
that is executing has the one run that will write its receipt, unless the store refused
that receipt. `TranscriptsStayFaithful` needs
that a turn's lock, its child and its rows belong to the same turn at each position;
`DashboardsStayReads` that what a request carries between its steps was checked for the
pin it is used with.

`BrokerProofs` proves `ExitCodesStayHonest`, `StoppedBrokersStayQuiet` and
`TargetStaysUnderItsRevision` for any number of desktops, calls, sessions and connection
slots. `BrokerInv` relates three parties: the handler (which positions and answers go
with an effect), the call (whose command its handler serves; an answer to the name
lookup is never taken for the answer to the command; a call that gave up exits with 3
whatever its orphaned handler still does), and the broker (a connection exists only
between bind and abort, the discovery file names it only between publication and
removal). The revision argument is that an edit of this process waits for the pins of
its own handlers.

`StoredConnectionsProofs` covers the connections a desktop stores.

* `ProfilesStaySound` and `NothingStaysBehind` (`ConnectionSecrets`), for any number of
  connections, requests, schema groups and crashes of the one process that serves the
  store (`OneApp`, a hypothesis of both and a limit named below). A request reads a row,
  stores a credential, commits, and only then deletes the credential it superseded, so
  both statements need to know what a request still holds at every position. `SecretsInv`
  says that at most one request is between its gate and its end (`GateInv`), that a row
  points to a credential whose request is through and no two rows to the same one
  (`PointerInv`), that a credential is in the vault only between the store and the
  cleanup of its request (`VaultInv`), that a credential about to be deleted is pointed
  to by no row and never will be again (`HolderInv`), and that every other one has an
  owner (`OwnerInv`). Copies run without the gate; what protects them is that the shared
  row of a copy exists only once the copy is past its creation (`SharedInv`). An
  upsert past its check agrees with the group it will join (`GroupInv`).
* `RevisionsStayTrue` and `HistoryIsOfTheScope` (`PinnedConnections`), for any number of
  teams, accounts, connections, dashboards and pins. That an equal pin is a faithful one
  is about two moments, so `PinInv` states it of every moment in between (`TrueFor`): a
  pin or a catalog row is right about the local revision it names for as long as the row
  is at that revision, and about the binding for as long as the binding was last written
  at that time. `RowsMove` is what makes that stable: a step leaves a local row alone or
  raises its revision, and leaves a binding alone, deletes it or writes it at a later
  time; a binding that was deleted and made anew has the old revision but not the old
  time. The outbox part counts the events of each row against its revision.

`LocalServicesProofs` covers four services that share no state.

* `AuditChainIsSound`: with one process at a time the log
  passes its verifier, for any number of writers, failures and restarts. The invariant
  adds that calls belong to live processes, that two calls of a process do not overlap,
  and that a tail that was read is still the tail.
* `CredentialsOutliveTheirPools`: for every retirement
  margin, every accepted range of lifetimes and every number of requests, a pool is
  handed out only while the provider still accepts its credential. It rests on
  `LagAssumption`: the desktop's clock lags by less than the margin, and by at least
  two seconds less than the shortest accepted life (that is what the clamp to one
  second leaves). `HandedOutAlive` says nothing before the hand-over, so `LeaseInv`
  adds that an answer about to be anchored has the least accepted life, that an
  anchored pool retires before its credential dies, and that one in use was handed out
  before it was due; the lemma `MarginIsEnough` is the arithmetic of `valid_for`.
* `TargetsStayWhole`, `ReplacementsAreConfirmed` and `InstallationStaysSound`, for any
  number of desktops, versions and crashes. An installation checks a file at one
  position and writes it at a later one: `InstallInv` carries what was checked (the
  user's file needs a confirmation, a link is never opened, the profile had no block and
  ends in a newline) to the position that relies on it. `InstallationStaysSound` has the
  hypothesis `OnePathDesktop`, one desktop at a time changing the PATH, the limit named
  below; the other two need none. What the user puts at a target between the look and
  the rename is `unseen`, and `ReplacementsAreConfirmed` excepts it by name.
* `ChangesStayApproved` and `ReadsStayFaithful` (`SqlReads`), for any number of readers,
  sessions and changes, every engine and every statement class. `ReadsInv` gives, for
  each position of a request, what its proposal was classified and approved as, which
  session it owns (sessions are handed from reader to reader, with whatever transaction
  a cancelled read left open), and what that session's transaction can see; an open
  session of the read pool is read-only by default unless a statement turned that off,
  which is why what slips past the classification cannot write; and the transaction an
  agent reads in was declared read-only when it began, so an agent's reads need no such
  default.

The remaining assumptions are of form only: finite sets of workers and accounts,
markers such as `"no runtime"`, `"none"`, `"nobody"`, `OldSecret` or `"no turn"` that are
no member of the set they extend, requests and options drawn from the protocol's kinds, bounds that are
naturals.

Left to TLC: liveness under fairness and the enabling of actions, which the prover does
not reach; and `TextIsFaithful`, whose statement is what recursive definitions compute
for every input of a length (induction over data is out of reach). Every other invariant
the passing runs check is a theorem.

## What is abstracted or left out

SQL text (except in `SqlText`), row data, previews, confirmation phrases, risk
levels, provenance and timestamps other than creation and expiry are data without
influence on the modelled control. A method that returns an error without committing
is a stuttering step. Time is a bounded counter. A local store failure is modelled
where the code continues after it (receipts, audit pre-record, history); elsewhere it
ends the request, as the crash does. A request future that its caller drops half-way
is modelled in `SqlReads` (the guard) and `LocalBroker` (the shutdown), and not in
`ConnectionRuntime` and `DesktopServices`; an agent's document read whose claim fails
leaves its row ready, as the code does.

Limits of what is claimed:

* `HonestReceipts` exempts statements that the target commits by itself
  (`AutocommitKinds`): if the answer to MySQL DDL is lost, the run records failed.
* `HonestServiceReceipts` says that a failed script left nothing behind only where L1
  sees its commits. `run_write` refuses MySQL DDL in a script by asking L1, and L1
  neither looks for transaction control nor calls every statement DDL at which MySQL
  commits (RENAME TABLE, CREATE TRIGGER, LOCK TABLES, DDL it cannot parse): with one of
  these a durable change is recorded as rolled back, and TLC finds it when
  `CommitsAreSeen` is dropped. MySQL's tables without transactions are not modelled.
* `ChangesWereApproved` excepts a desktop read on a session whose read-only default was
  turned off before. `pool.rs` sets the default when it connects; `SELECT
  set_config(...)`, or a stored function that does the same, passes for a read and runs
  outside a transaction, and the session goes back to the pool as it is. A later desktop
  statement that L1 takes for a read can then write. An agent's read cannot, because its
  transaction is declared read-only.
* `ExitCodeIsHonest` says nothing of a 0 of `operation cancel`: `cancel_terminal`
  answers ok for an operation that has ended, and for an executing one after a signal
  whose result it ignores. `StoppedBrokerIsQuiet` excepts the announcement of a broker
  whose file could not be read or removed (`remove_if_owned` drops the error).
* `EveryCallEnds` excepts `app.open` where its child is the desktop itself, and
  `RunsEnd` an agent's document read that waits for its query.
* `CellsReadBack` lets an integer or a value of an exact type that cannot be decoded
  (an infinite timestamp, a zero date, invalid UTF-8) show NULL, which `jv` makes of it;
  what the comment at `executor/read.rs:199` promises, that data never masquerades as
  NULL, holds for the other types.
* `OnlyConfirmedReplacement` is about what an installation found when it looked:
  `atomic_replace` renames over whatever has come since. The in-app copy and the global
  one each look for themselves.
* `ProfilesAreSound` and `NothingIsLeftBehind` take one process per store (`OneApp`): the
  scope gate is process local. With two, one may write back the pointer to a credential
  the other has just deleted, and of two that rotate one password the first one's new
  credential is forgotten; TLC finds both when `AppOf` takes two values. `delete` and
  `set_schema_group` are one step under the gate.
* `NoAccessUnderChangedPolicy` meets one safety setting in its run; changes of the
  settings are covered by the theorem `AccessKeepsItsPolicy`.
* `TurnsDoNotMix` and `TranscriptIsWhatWasShown` are about one application, because
  `turn_lock` is process local; a chunk whose event could not be sent is in the stored
  text all the same (the code logs the failure and goes on).
* `ChainVerifies` needs one process at a time: the lock of the audit log is process
  local, and two processes on one `app.db` fork the chain.
* `SplitsAtSeparators` is about scripts without nested block comments, `E''` strings,
  backticks and `#` comments, which the scanner does not know.
* `ProfileStaysSound` lets one desktop at a time change the profile (`PathDesktops`):
  two that find no block both append one.
* `SecretHasOwner` exempts the credential of a binding that lost against a concurrent
  copy, and everything whose deletion was tried and failed.
* The MCP and agent paths of the terminal's scope check appear as guards on the
  session, not as their own authorization protocol.

Not modelled:

* the MCP server and its stdio bridge: a transport to the agent query service, whose
  plan and run calls are the agent actions of `SqlExecution`;
* the activity service: reads of rows that other modules write;
* drivers and introspection: queries against the target, which is external;
* migrations: schema code that runs before any other state exists;
* the parser behind the classification, the decoding of documents and of the
  remaining column types: pure conversions whose inputs are out of TLC's reach;
* the Windows side of the installer (a registry call) and of peer credentials;
* workspace cloud, frontend and site: separate TypeScript applications; the control
  plane appears as an environment that answers, refuses, changes and is lost.

## Plan

1. Done: lifecycle, store, SQL callers, connection runtime, audit log; theorems about
   store and audit log.
2. Done: the remaining services of the desktop, broker and CLI, workspaces, pins,
   credentials, leases, reads and text; the contract of the active scope; the theorem
   about managed leases.
3. Done: theorems about the SQL services and their refinement of the store, the
   connection runtime, the workspace scope and its contract, the desktop services,
   chat, dashboards, broker and command line.
4. Done: theorems about `SqlReads`, `CliInstall`, `ConnectionSecrets` and
   `PinnedConnections`; the proofs of components that are checked together share a
   module.
5. Open: the recursive definitions of `SqlText` beyond the lengths TLC enumerates, and
   the liveness properties beyond its instances.
