------------------------------ MODULE LocalBroker -------------------------------
(***************************************************************************)
(* The local broker of the desktop (src-tauri/src/broker) and the command  *)
(* line client that talks to it (dopedb-cli): the discovery file, the      *)
(* socket, terminal sessions, one request per connection, shutdown, crash, *)
(* and the exit code the client reports.                                   *)
(*                                                                         *)
(* A member of Desktops is one life of a desktop process: its runtime id,  *)
(* its process id and the name of its socket are its own.  Any number of   *)
(* them may be alive; they share the local store, hence the revision of    *)
(* the one connection a terminal is pinned to.  Identifiers carry the      *)
(* module's name where another module of the project could share them.     *)
(***************************************************************************)
EXTENDS Naturals, FiniteSets

CONSTANTS
    Desktops, Calls,
    Requests,        \* what a call may ask for: records of RequestKind
    MaxConnections,  \* MAX_CONCURRENT_CONNECTIONS
    MaxBrokerRevision, MaxIssued, MaxPolls \* bounds: edits, sessions, polls of app.open

PublicCommands == {"status", "app.open"}

CatalogCommands == {"catalog.show", "table.describe"}

ResolvingCommands == {"connection.show", "connection.test", "query.plan", "sql.propose"}
                     \cup CatalogCommands

OperationCommands == {"operation.show", "operation.wait", "operation.cancel"}

CommandName == PublicCommands \cup ResolvingCommands \cup OperationCommands
               \cup {"connection.list", "query.run"}

(* selector: the pinned connection, another one, or a name.  valid: are    *)
(* the SQL, the limits and the time-out acceptable?  wait: app.open --wait *)
RequestKind == [cmd: CommandName, selector: {"current", "other", "name"},
                valid: BOOLEAN, wait: BOOLEAN]

ASSUME BrokerAssumption ==
    /\ Requests \subseteq RequestKind
    /\ "no runtime" \notin Desktops
    /\ MaxConnections \in Nat /\ MaxBrokerRevision \in Nat
    /\ MaxIssued \in Nat /\ MaxPolls \in Nat

VARIABLES
    desktop,     \* desktop[d]: life of the process, its broker and its exit, and
                 \* whether the system refused to read or to remove its file
    discovery,   \* the runtime named by the discovery file
    sockets,     \* runtimes whose socket file exists
    session,     \* session[d]: the terminal session d knows
    issued,      \* issued[d]: sessions d has issued
    connRevision, \* revision of the pinned connection, and who edited it last
    mutation,    \* mutation[d]: is a writer of d's scope gate queued?
    call,        \* call[r]: the client
    handler,     \* handler[r]: the broker task that serves r
    effect       \* has the command of r done what it is for?

brokerVars == <<desktop, discovery, sockets, session, issued, connRevision, mutation,
                call, handler, effect>>

NoRuntime == "no runtime"
NoSession == [token |-> 0]
NoToken == <<NoRuntime, 0>>
NoHandler == [pc |-> "none"]

Capabilities == {"ConnectionRead", "ConnectionTest", "CatalogRead", "QueryPlan", "QueryRun",
                 "SqlPropose", "OperationRead", "OperationCancel"}

(* The capability a command needs (the calls of authenticate). *)
RequiredCapability(cmd) ==
    CASE cmd \in {"connection.list", "connection.show"}   -> "ConnectionRead"
      [] cmd = "connection.test"                          -> "ConnectionTest"
      [] cmd \in CatalogCommands                          -> "CatalogRead"
      [] cmd = "query.plan"                               -> "QueryPlan"
      [] cmd = "query.run"                                -> "QueryRun"
      [] cmd = "sql.propose"                              -> "SqlPropose"
      [] cmd \in {"operation.show", "operation.wait"}     -> "OperationRead"
      [] cmd = "operation.cancel"                         -> "OperationCancel"

Alive(d) == desktop[d].life \in {"up", "exiting"}
Serves(d, r) == handler[r] # NoHandler /\ handler[r].d = d
Active(d) == {r \in Calls : Serves(d, r) /\ handler[r].pc # "queued"}

BrokerInit ==
    /\ desktop \in [Desktops -> [life: {"off"}, broker: {"off"}, exit: {"none"},
                                 compatible: BOOLEAN, left: {FALSE}]]
    /\ discovery = NoRuntime
    /\ sockets = {}
    /\ session = [d \in Desktops |-> NoSession]
    /\ issued = [d \in Desktops |-> 0]
    /\ connRevision = [number |-> 0, by |-> NoRuntime]
    /\ mutation = [d \in Desktops |-> "none"]
    /\ call \in [Calls -> [pc: {"idle"}, request: Requests]]
    /\ handler = [r \in Calls |-> NoHandler]
    /\ effect = [r \in Calls |-> FALSE]

UnchangedSessions == UNCHANGED <<session, issued, connRevision, mutation>>
UnchangedFiles == UNCHANGED <<discovery, sockets>>

--------------------------------------------------------------------------------
(* The life of a broker. *)

ToBroker(d, pc) == desktop' = [desktop EXCEPT ![d].broker = pc]

(* The connections of d are closed; a client that waits sees the end of    *)
(* its stream.                                                             *)
CloseAll(d) == handler' = [r \in Calls |-> IF Serves(d, r) THEN NoHandler ELSE handler[r]]

start(d) ==
    /\ desktop[d].life = "off"
    /\ desktop' = [desktop EXCEPT ![d].life = "up", ![d].broker = "binding"]
    /\ UnchangedFiles /\ UnchangedSessions /\ UNCHANGED <<call, handler, effect>>

(* The directory and the socket, or an error. *)
Bind(d) ==
    /\ Alive(d) /\ desktop[d].broker = "binding"
    /\ \/ sockets' = sockets \cup {d} /\ ToBroker(d, "bound")
       \/ UNCHANGED sockets /\ ToBroker(d, "reading_own")
    /\ UNCHANGED discovery /\ UnchangedSessions /\ UNCHANGED <<call, handler, effect>>

(* publish: the new file replaces the old one in one rename.  It may fail  *)
(* before and after the rename; the listener is then dropped with the      *)
(* connections it had queued, and its socket file stays.                   *)
publish_discovery(d) ==
    /\ Alive(d) /\ desktop[d].broker = "bound"
    /\ \/ discovery' = d /\ ToBroker(d, "serving") /\ UNCHANGED handler
       \/ discovery' \in {discovery, d} /\ ToBroker(d, "reading_own") /\ CloseAll(d)
    /\ UNCHANGED sockets /\ UnchangedSessions /\ UNCHANGED <<call, effect>>

(* One accepted connection: its peer is the same user, and it gets a task  *)
(* if one of the connection slots is free, else it is closed.              *)
AcceptConnection(d, r) ==
    /\ Alive(d) /\ desktop[d].broker = "serving"
    /\ Serves(d, r) /\ handler[r].pc = "queued"
    /\ handler' = [handler EXCEPT ![r] =
                      IF Cardinality(Active(d)) < MaxConnections
                      THEN [@ EXCEPT !.pc = "reading"] ELSE NoHandler]
    /\ UnchangedFiles /\ UnchangedSessions /\ UNCHANGED <<desktop, call, effect>>

(* The loop ends on the shutdown token or on an accept error. *)
LeaveLoop(d) ==
    /\ Alive(d) /\ desktop[d].broker = "serving"
    /\ ToBroker(d, "aborting")
    /\ UnchangedFiles /\ UnchangedSessions /\ UNCHANGED <<call, handler, effect>>

(* abort_all, then the listener and its socket file go. *)
platform_serve(d) ==
    /\ Alive(d) /\ desktop[d].broker = "aborting"
    /\ CloseAll(d)
    /\ sockets' = sockets \ {d}
    /\ ToBroker(d, "reading_own")
    /\ UNCHANGED discovery /\ UnchangedSessions /\ UNCHANGED <<call, effect>>

(* remove_if_owned: the file is read first and removed by name after.  An  *)
(* error of either is swallowed: the file stays, left says so.             *)
remove_if_owned(d) ==
    /\ Alive(d)
    /\ \/ /\ desktop[d].broker = "reading_own"
          /\ ToBroker(d, IF discovery = d THEN "removing" ELSE "finishing")
          /\ UNCHANGED discovery
       \/ /\ desktop[d].broker = "removing"
          /\ discovery' = NoRuntime
          /\ ToBroker(d, "finishing")
       \/ /\ desktop[d].broker \in {"reading_own", "removing"}
          /\ desktop' = [desktop EXCEPT ![d].broker = "finishing", ![d].left = discovery = d]
          /\ UNCHANGED discovery
    /\ UNCHANGED sockets /\ UnchangedSessions /\ UNCHANGED <<call, handler, effect>>

(* Mutant: the discovery file is left when the broker stops. *)
serve_at_mutant(d) ==
    /\ Alive(d) /\ desktop[d].broker = "reading_own"
    /\ ToBroker(d, "finishing")
    /\ UnchangedFiles /\ UnchangedSessions /\ UNCHANGED <<call, handler, effect>>

(* The end of serve_at, whatever the result: the file, then finish. *)
serve_at(d) == remove_if_owned(d)

(* finish: stopped is set and those who wait now are woken. *)
finish(d) ==
    /\ Alive(d) /\ desktop[d].broker = "finishing"
    /\ desktop' = [desktop EXCEPT ![d].broker = "stopped",
                                  ![d].exit = IF @ = "waiting" THEN "over" ELSE @]
    /\ UnchangedFiles /\ UnchangedSessions /\ UNCHANGED <<call, handler, effect>>

(* shutdown, called when the application exits: sessions are revoked and   *)
(* the shutdown token is cancelled.                                        *)
shutdown(d) ==
    /\ desktop[d].life = "up"
    /\ desktop' = [desktop EXCEPT ![d].life = "exiting", ![d].exit = "checking"]
    /\ session' = [session EXCEPT ![d] = NoSession]
    /\ UnchangedFiles /\ UNCHANGED <<issued, connRevision, mutation, call, handler, effect>>

(* Mutant: the exit waits for the notification without a time limit. *)
shutdown_and_wait_mutant(d) ==
    /\ desktop[d].life = "exiting"
    /\ \/ /\ desktop[d].exit = "checking"
          /\ desktop' = [desktop EXCEPT ![d].exit = IF desktop[d].broker = "stopped" THEN "over"
                                                    ELSE "unarmed"]
       \/ /\ desktop[d].exit = "unarmed"
          /\ desktop' = [desktop EXCEPT ![d].exit = "waiting"]
    /\ UnchangedFiles /\ UnchangedSessions /\ UNCHANGED <<call, handler, effect>>

(* shutdown_and_wait reads stopped, then asks to be notified, and waits at *)
(* most two seconds.  A finish in between wakes nobody.                    *)
shutdown_and_wait(d) ==
    /\ desktop[d].life = "exiting"
    /\ \/ /\ desktop[d].exit = "checking"
          /\ desktop' = [desktop EXCEPT ![d].exit = IF desktop[d].broker = "stopped" THEN "over"
                                                    ELSE "unarmed"]
       \/ /\ desktop[d].exit = "unarmed"
          /\ desktop' = [desktop EXCEPT ![d].exit = "waiting"]
       \/ /\ desktop[d].exit = "waiting"
          /\ desktop' = [desktop EXCEPT ![d].exit = "over"]
    /\ UnchangedFiles /\ UnchangedSessions /\ UNCHANGED <<call, handler, effect>>

(* The process ends: after its exit handler, or by a crash.  Its files     *)
(* stay as they are; its connections are reset.                            *)
EndProcess(d) ==
    /\ desktop' = [desktop EXCEPT ![d] = [@ EXCEPT !.life = "gone", !.broker = "off", !.exit = "none",
                                                   !.left = FALSE]]
    /\ session' = [session EXCEPT ![d] = NoSession]
    /\ mutation' = [mutation EXCEPT ![d] = "none"]
    /\ CloseAll(d)
    /\ UnchangedFiles /\ UNCHANGED <<issued, connRevision, call, effect>>

ExitProcess(d) == desktop[d].life = "exiting" /\ desktop[d].exit = "over" /\ EndProcess(d)
CrashProcess(d) == Alive(d) /\ EndProcess(d)

--------------------------------------------------------------------------------
(* Terminal sessions and edits of the pinned connection. *)

issue(d) ==
    /\ desktop[d].life = "up" /\ issued[d] < MaxIssued
    /\ issued' = [issued EXCEPT ![d] = @ + 1]
    /\ \E caps \in {Capabilities, {"ConnectionRead"}} :
          session' = [session EXCEPT ![d] = [token |-> issued[d] + 1, revision |-> connRevision.number,
                                             capabilities |-> caps, expired |-> FALSE]]
    /\ UnchangedFiles /\ UNCHANGED <<desktop, connRevision, mutation, call, handler, effect>>

(* Its time passes, or it is revoked, alone or with its connection. *)
ExpireSession(d) ==
    /\ session[d] # NoSession /\ ~session[d].expired
    /\ session' = [session EXCEPT ![d].expired = TRUE]
    /\ UnchangedFiles /\ UNCHANGED <<desktop, issued, connRevision, mutation, call, handler, effect>>

revoke(d) ==
    /\ session[d] # NoSession
    /\ session' = [session EXCEPT ![d] = NoSession]
    /\ UnchangedFiles /\ UNCHANGED <<desktop, issued, connRevision, mutation, call, handler, effect>>

(* The scope gate of a process prefers writers: once one is queued no      *)
(* reader enters.  Readers are the handlers that hold a ConnectionContext. *)
GateHolders(d) == {r \in Calls : Serves(d, r) /\ handler[r].pc \in {"held", "target"}}
GateOpen(d) == mutation[d] = "none"

begin_scope_mutation(d) ==
    /\ Alive(d) /\ GateOpen(d) /\ connRevision.number < MaxBrokerRevision
    /\ mutation' = [mutation EXCEPT ![d] = "queued"]
    /\ UnchangedFiles /\ UNCHANGED <<desktop, session, issued, connRevision, call, handler, effect>>

(* The edit, once the readers of this process are gone. *)
EditConnection(d) ==
    /\ Alive(d) /\ mutation[d] = "queued" /\ GateHolders(d) = {}
    /\ mutation' = [mutation EXCEPT ![d] = "none"]
    /\ connRevision' = [number |-> connRevision.number + 1, by |-> d]
    /\ UnchangedFiles /\ UNCHANGED <<desktop, session, issued, call, handler, effect>>

--------------------------------------------------------------------------------
(* One request at the broker. *)

AtHandler(r, pc) == handler[r].pc = pc
ToHandler(r, pc) == handler' = [handler EXCEPT ![r].pc = pc]
Answer(r, code) == handler' = [handler EXCEPT ![r].pc = "reply", ![r].code = code]

UnchangedOthers == UnchangedFiles /\ UnchangedSessions /\ UNCHANGED <<desktop, call>>

(* authenticate: the session by its id, which an expired one loses, its    *)
(* token, and the capability of the command.                               *)
authenticate(d, auth, cmd) ==
    IF session[d] = NoSession \/ auth # <<d, session[d].token>> \/ session[d].expired
    THEN "AuthenticationDenied"
    ELSE IF RequiredCapability(cmd) \notin session[d].capabilities THEN "ScopeDenied" ELSE "ok"

(* dispatch_current: the session of the request is copied, its arguments   *)
(* are decoded and validated.  The versions agree: the client negotiated.  *)
(* A request that does not arrive in ten seconds ends its connection.      *)
dispatch_current(r) ==
    LET h == handler[r]
        d == h.d
        verdict == IF h.cmd \in PublicCommands THEN "ok" ELSE authenticate(d, h.auth, h.cmd)
    IN  /\ AtHandler(r, "reading")
        /\ IF verdict # "ok" THEN Answer(r, verdict)
           ELSE IF ~h.valid THEN Answer(r, "InvalidRequest")
           ELSE handler' = [handler EXCEPT
                              ![r].pc = IF h.cmd \in ResolvingCommands THEN "resolve" ELSE "serve",
                              ![r].session = session[d]]
        /\ session' = [session EXCEPT ![d] =
                         IF h.cmd \notin PublicCommands /\ @ # NoSession /\ @.expired
                         THEN NoSession ELSE @]
        /\ UnchangedFiles /\ UNCHANGED <<desktop, issued, connRevision, mutation, call, effect>>

ReadTimesOut(r) ==
    /\ AtHandler(r, "reading")
    /\ handler' = [handler EXCEPT ![r] = NoHandler]
    /\ UnchangedOthers /\ UNCHANGED effect

(* pin, with read access, and TerminalAuthority::ensure_pin. *)
PinIsCurrent(r) == handler[r].session.revision = connRevision.number

(* terminal_summary: the pin is dropped again with the answer. *)
resolve_connection(r) ==
    /\ AtHandler(r, "resolve") /\ GateOpen(handler[r].d)
    /\ IF ~PinIsCurrent(r) \/ handler[r].selector = "other" THEN Answer(r, "ScopeDenied")
       ELSE IF handler[r].cmd = "connection.show" THEN Answer(r, "ok")
       ELSE ToHandler(r, "serve")
    /\ UnchangedOthers /\ UNCHANGED effect

ServesCommand(r, cmds) == AtHandler(r, "serve") /\ handler[r].cmd \in cmds

(* execute_public and focus_app; the window may be gone. *)
execute_public(r) ==
    /\ ServesCommand(r, {"status"})
    /\ Answer(r, "ok")
    /\ UnchangedOthers /\ UNCHANGED effect

focus_app(r) ==
    /\ ServesCommand(r, {"app.open"})
    /\ \/ Answer(r, "ok") /\ effect' = [effect EXCEPT ![r] = TRUE]
       \/ Answer(r, "Internal") /\ UNCHANGED effect
    /\ UnchangedOthers

connection_list(r) ==
    /\ ServesCommand(r, {"connection.list"}) /\ GateOpen(handler[r].d)
    /\ Answer(r, IF PinIsCurrent(r) THEN "ok" ELSE "ScopeDenied")
    /\ UnchangedOthers /\ UNCHANGED effect

(* A second pin, held while the target answers. *)
EnterTarget(r, denied) ==
    /\ GateOpen(handler[r].d)
    /\ IF PinIsCurrent(r) THEN ToHandler(r, "target") ELSE Answer(r, denied)

connection_test(r) ==
    /\ ServesCommand(r, {"connection.test"})
    /\ EnterTarget(r, "ScopeDenied")
    /\ UnchangedOthers /\ UNCHANGED effect

(* load_terminal_snapshot holds its own pin while load_snapshot takes the  *)
(* next one, for which it waits behind a queued mutation.                  *)
catalog(r) ==
    /\ \/ /\ ServesCommand(r, CatalogCommands) /\ GateOpen(handler[r].d)
          /\ IF PinIsCurrent(r) THEN ToHandler(r, "held") ELSE Answer(r, "PolicyBlocked")
       \/ AtHandler(r, "held") /\ GateOpen(handler[r].d) /\ ToHandler(r, "target")
    /\ UnchangedOthers /\ UNCHANGED effect

(* The SQL is refused, or planned under the pin. *)
query_plan(r) ==
    /\ ServesCommand(r, {"query.plan"})
    /\ \/ \E code \in {"InvalidRequest", "PolicyBlocked"} : GateOpen(handler[r].d) /\ Answer(r, code)
       \/ EnterTarget(r, "PolicyBlocked")
    /\ UnchangedOthers /\ UNCHANGED effect

(* Mutant: the plan runs whatever became of its connection. *)
query_run_mutant(r) ==
    /\ ServesCommand(r, {"query.run"}) /\ GateOpen(handler[r].d)
    /\ ToHandler(r, "target") /\ effect' = [effect EXCEPT ![r] = TRUE]
    /\ UnchangedOthers

(* prepare_terminal_run: the plan is missing, used, expired or of another  *)
(* session; or it is claimed, pinned and compared with the session.        *)
query_run(r) ==
    /\ ServesCommand(r, {"query.run"})
    /\ \/ \E code \in {"OperationConflict", "OperationExpired", "ScopeDenied", "InvalidRequest"} :
             Answer(r, code) /\ UNCHANGED effect
       \/ /\ EnterTarget(r, "ScopeDenied")
          /\ effect' = [effect EXCEPT ![r] = PinIsCurrent(r)]
    /\ UnchangedOthers

(* map_application_error. *)
ApplicationErrors ==
    {"PolicyBlocked", "InvalidRequest", "TargetExecutionFailed", "OperationConflict", "Internal"}

(* propose_terminal_sql: a preview under the pin, then the operation is    *)
(* stored, then read back.  A commit whose answer is lost may have stored  *)
(* it.                                                                     *)
sql_propose(r) ==
    /\ \/ ServesCommand(r, {"sql.propose"}) /\ EnterTarget(r, "PolicyBlocked") /\ UNCHANGED effect
       \/ /\ AtHandler(r, "plan")
          /\ \/ ToHandler(r, "show") /\ effect' = [effect EXCEPT ![r] = TRUE]
             \/ \E code \in ApplicationErrors : Answer(r, code) /\ UNCHANGED effect
             \/ Answer(r, "TargetExecutionFailed") /\ effect' = [effect EXCEPT ![r] = TRUE]
       \/ /\ AtHandler(r, "show")
          /\ \E code \in {"ok", "TargetExecutionFailed"} : Answer(r, code)
          /\ UNCHANGED effect
    /\ UnchangedOthers

(* map_operation_error: the operation is unknown, or another terminal's.   *)
OperationErrors == {"OperationConflict", "ScopeDenied", "TargetExecutionFailed"}

show_operation(r) ==
    /\ ServesCommand(r, {"operation.show"})
    /\ \E code \in {"ok"} \cup OperationErrors : Answer(r, code)
    /\ UnchangedOthers /\ UNCHANGED effect

(* wait_terminal polls until the state is terminal or the time is up. *)
wait_operation(r) ==
    /\ ServesCommand(r, {"operation.wait"})
    /\ \E code \in {"ok", "Timeout"} \cup OperationErrors : Answer(r, code)
    /\ UnchangedOthers /\ UNCHANGED effect

(* cancel_terminal: ok says that the operation is cancelled, or that it    *)
(* had ended before, or that its run was signalled, found or not.  A lost  *)
(* race is refused; a commit whose answer is lost may have cancelled it.   *)
cancel_operation(r) ==
    /\ ServesCommand(r, {"operation.cancel"})
    /\ \/ \E code \in {"ok", "TargetExecutionFailed"}, cancelled \in BOOLEAN :
             Answer(r, code) /\ effect' = [effect EXCEPT ![r] = cancelled]
       \/ \E code \in OperationErrors : Answer(r, code) /\ UNCHANGED effect
    /\ UnchangedOthers

(* Mutant: an answer that does not fit a frame is called a bad request. *)
success_mutant(cmd) == {"ok"} \cup (IF cmd \in {"query.run"} \cup CatalogCommands
                                   THEN {"InvalidRequest"} ELSE {})

(* The answer to a command that succeeded: rows and catalogs may exceed    *)
(* the largest frame.                                                      *)
success(cmd) == {"ok"} \cup (IF cmd \in {"query.run"} \cup CatalogCommands
                            THEN {"ResponseTooLarge"} ELSE {})

(* The errors of a command that reached the target: map_query_run_error,   *)
(* map_target_error, map_application_error.                                *)
TargetErrors(cmd) ==
    CASE cmd = "query.run"       -> {"Cancelled", "Timeout", "TargetExecutionFailed", "Internal"}
      [] cmd = "connection.test" -> {"ScopeDenied", "InvalidRequest", "TargetExecutionFailed", "Internal"}
      [] OTHER                   -> ApplicationErrors

(* The target answers, and the pin is released. *)
TargetReturns(r) ==
    LET cmd == handler[r].cmd
    IN  /\ AtHandler(r, "target")
        /\ \/ /\ cmd = "sql.propose" /\ ToHandler(r, "plan") /\ UNCHANGED effect
           \/ /\ cmd # "sql.propose" /\ \E code \in success(cmd) : Answer(r, code)
              /\ effect' = [effect EXCEPT ![r] = TRUE]
           \/ \E code \in TargetErrors(cmd) : Answer(r, code) /\ UNCHANGED effect
        /\ UnchangedOthers

--------------------------------------------------------------------------------
(* The client: one command of dopedb-cli. *)

AtCall(r, pc) == call[r].pc = pc
ToCall(r, pc) == call' = [call EXCEPT ![r].pc = pc]
ExitWith(r, code) == call' = [call EXCEPT ![r].pc = "done", ![r].exit = code]

(* for_client_error on the code of a remote error. *)
for_client_error(code) ==
    CASE code = "ok"                                             -> 0
      [] code = "InvalidRequest"                                 -> 2
      [] code \in {"AuthenticationDenied", "ScopeDenied"}        -> 4
      [] code = "PolicyBlocked"                                  -> 5
      [] code \in {"OperationExpired", "OperationConflict"}      -> 6
      [] code \in {"Cancelled", "Timeout"}                       -> 7
      [] code = "TargetExecutionFailed"                          -> 8
      [] code = "ProtocolMismatch"                               -> 9
      [] code \in {"ResponseTooLarge", "Internal"}               -> 10

USAGE == 2
RUNTIME_UNAVAILABLE == 3
AUTHENTICATION_DENIED == 4
PROTOCOL_MISMATCH == 9

(* What the environment may hold: no session, or one a desktop issued. *)
Tokens == {NoToken} \cup {<<d, n>> : d \in Desktops, n \in 1..MaxIssued}

(* The command line and the environment.  A time-out of operation wait is  *)
(* checked before anything is sent.                                        *)
StartCall(r) ==
    LET q == call[r].request IN
    /\ call[r].pc = "idle"
    /\ \E auth \in Tokens :
          /\ auth # NoToken => auth[2] <= issued[auth[1]]
          /\ q.cmd \in PublicCommands => auth = NoToken
          /\ call' = [call EXCEPT ![r] =
                        [pc |-> IF q.cmd = "operation.wait" /\ ~q.valid THEN "done" ELSE "discover",
                         request |-> q, auth |-> auth, d |-> NoRuntime, polls |-> 0,
                         named |-> q.selector = "name", exit |-> USAGE]]
    /\ UnchangedFiles /\ UnchangedSessions /\ UNCHANGED <<desktop, handler, effect>>

(* The desktop was launched: app.open returns at once without --wait.      *)
Launched(r) ==
    \/ call[r].request.wait /\ call' = [call EXCEPT ![r].pc = "discover", ![r].polls = 1]
    \/ /\ ~call[r].request.wait
       /\ call' = [call EXCEPT ![r].pc = "done", ![r].exit = 0, ![r].polls = 1]

(* What a command does when no runtime is found: app.open launches the     *)
(* desktop once and polls until its deadline with --wait.  The openers of  *)
(* macOS and Windows return; on other systems the child is the desktop     *)
(* itself and Command::status waits for it to end.                         *)
RuntimeUnavailable(r) ==
    IF call[r].request.cmd # "app.open" THEN ExitWith(r, RUNTIME_UNAVAILABLE)
    ELSE IF call[r].polls = 0
    THEN \/ ExitWith(r, RUNTIME_UNAVAILABLE)
         \/ Launched(r)
         \/ call' = [call EXCEPT ![r].pc = "launching", ![r].polls = 1]
    ELSE IF call[r].polls < MaxPolls
    THEN call' = [call EXCEPT ![r].pc = "discover", ![r].polls = @ + 1]
    ELSE ExitWith(r, RUNTIME_UNAVAILABLE)

(* The launched desktop ended. *)
launch_desktop(r) ==
    /\ AtCall(r, "launching")
    /\ ExitWith(r, RUNTIME_UNAVAILABLE) \/ Launched(r)
    /\ UnchangedFiles /\ UnchangedSessions /\ UNCHANGED <<desktop, handler, effect>>

(* The owner-only regular file, read whole and validated; the socket it    *)
(* names, in the same directory; the protocol versions of both sides.      *)
read_discovery == discovery
validate_endpoint(d) == d \in sockets
negotiate_protocol(d) == desktop[d].compatible

discover(r) ==
    LET d == read_discovery
    IN  /\ AtCall(r, "discover")
        /\ IF d = NoRuntime THEN RuntimeUnavailable(r)
           ELSE IF ~Alive(d) THEN call' = [call EXCEPT ![r].pc = "stale", ![r].d = d]
           ELSE IF ~validate_endpoint(d) THEN RuntimeUnavailable(r)
           ELSE IF ~negotiate_protocol(d) THEN ExitWith(r, PROTOCOL_MISMATCH)
           ELSE call' = [call EXCEPT ![r].pc = "request", ![r].d = d]
        /\ UnchangedFiles /\ UnchangedSessions /\ UNCHANGED <<desktop, handler, effect>>

(* remove_stale_discovery reads the file again, then removes it by name;   *)
(* its errors are swallowed.                                               *)
remove_stale_discovery(r) ==
    /\ \/ /\ AtCall(r, "stale")
          /\ \/ read_discovery = call[r].d /\ ToCall(r, "unlink")
             \/ RuntimeUnavailable(r)
          /\ UNCHANGED discovery
       \/ /\ AtCall(r, "unlink")
          /\ discovery' \in {NoRuntime, discovery}
          /\ RuntimeUnavailable(r)
    /\ UNCHANGED sockets /\ UnchangedSessions /\ UNCHANGED <<desktop, handler, effect>>

Listening(d) == Alive(d) /\ d \in sockets /\ desktop[d].broker \in {"bound", "serving", "aborting"}

(* request and exchange: a name is resolved by a connection.list of its    *)
(* own first; a session is required except for the public commands; the    *)
(* connection may be refused.                                              *)
request(r) ==
    LET q == call[r].request
        d == call[r].d
        cmd == IF call[r].named THEN "connection.list" ELSE q.cmd
    IN  /\ AtCall(r, "request") /\ handler[r] = NoHandler
        /\ IF cmd \notin PublicCommands /\ call[r].auth = NoToken
           THEN ExitWith(r, AUTHENTICATION_DENIED) /\ UNCHANGED handler
           ELSE IF ~Listening(d) THEN ExitWith(r, RUNTIME_UNAVAILABLE) /\ UNCHANGED handler
           ELSE /\ ToCall(r, "await")
                /\ handler' = [handler EXCEPT ![r] =
                      [pc |-> "queued", d |-> d, cmd |-> cmd, auth |-> call[r].auth, code |-> "none",
                       selector |-> IF q.selector = "other" THEN "other" ELSE "current",
                       valid |-> call[r].named \/ q.valid, session |-> NoSession]]
        /\ UnchangedFiles /\ UnchangedSessions /\ UNCHANGED <<desktop, effect>>

(* handle_stream writes the answer and closes.  resolve_selector goes on   *)
(* with the one match among the names listed.                              *)
handle_stream(r) ==
    /\ AtHandler(r, "reply")
    /\ handler' = [handler EXCEPT ![r] = NoHandler]
    /\ IF ~AtCall(r, "await") THEN UNCHANGED call
       ELSE IF handler[r].code = "ok" /\ call[r].named
       THEN \/ call' = [call EXCEPT ![r].pc = "request", ![r].named = FALSE]
            \/ ExitWith(r, USAGE)
       ELSE ExitWith(r, for_client_error(handler[r].code))
    /\ UnchangedFiles /\ UnchangedSessions /\ UNCHANGED <<desktop, effect>>

(* Mutant: the client waits for an answer as long as it takes. *)
exchange_stream_mutant(r) ==
    /\ AtCall(r, "await") /\ handler[r] = NoHandler
    /\ ExitWith(r, RUNTIME_UNAVAILABLE)
    /\ UnchangedFiles /\ UnchangedSessions /\ UNCHANGED <<desktop, handler, effect>>

(* The stream ended without an answer, or response_timeout passed.  The    *)
(* broker does not notice a client that left until it writes.              *)
exchange_stream(r) ==
    /\ AtCall(r, "await")
    /\ ExitWith(r, RUNTIME_UNAVAILABLE)
    /\ UnchangedFiles /\ UnchangedSessions /\ UNCHANGED <<desktop, handler, effect>>

--------------------------------------------------------------------------------

BrokerStep(d) ==
    Bind(d) \/ publish_discovery(d) \/ platform_serve(d) \/ serve_at(d) \/ finish(d)

ExitStep(d) == shutdown_and_wait(d) \/ ExitProcess(d)

HandlerStep(r) ==
    \/ dispatch_current(r) \/ resolve_connection(r) \/ execute_public(r) \/ focus_app(r)
    \/ connection_list(r) \/ connection_test(r) \/ catalog(r) \/ query_plan(r) \/ query_run(r)
    \/ sql_propose(r) \/ show_operation(r) \/ wait_operation(r) \/ cancel_operation(r)
    \/ TargetReturns(r) \/ handle_stream(r)

CallStep(r) == discover(r) \/ remove_stale_discovery(r) \/ request(r) \/ exchange_stream(r)

BrokerNext ==
    \/ \E d \in Desktops :
          \/ start(d) \/ BrokerStep(d) \/ LeaveLoop(d) \/ shutdown(d) \/ ExitStep(d)
          \/ CrashProcess(d) \/ issue(d) \/ ExpireSession(d) \/ revoke(d)
          \/ begin_scope_mutation(d) \/ EditConnection(d)
          \/ \E r \in Calls : AcceptConnection(d, r)
    \/ \E r \in Calls : StartCall(r) \/ CallStep(r) \/ launch_desktop(r) \/ HandlerStep(r) \/ ReadTimesOut(r)

BrokerSpec == BrokerInit /\ [][BrokerNext]_brokerVars

(* Fairness: the tasks of a live process run, time limits pass, and a loop *)
(* whose shutdown token is cancelled leaves.  Nothing else is promised,    *)
(* above all no end of a desktop that app.open launched.                   *)
BrokerFairness ==
    /\ \A d \in Desktops :
          /\ WF_brokerVars(BrokerStep(d))
          /\ WF_brokerVars(ExitStep(d))
          /\ WF_brokerVars(desktop[d].life = "exiting" /\ LeaveLoop(d))
          /\ WF_brokerVars(EditConnection(d))
    /\ \A r \in Calls :
          /\ WF_brokerVars(CallStep(r))
          /\ WF_brokerVars(HandlerStep(r))

FairBrokerSpec == BrokerSpec /\ BrokerFairness

--------------------------------------------------------------------------------
(* Properties. *)

EffectCommands == {"app.open", "query.plan", "query.run", "sql.propose"}

(* The exit code a script sees tells what the command did, whatever was    *)
(* lost on the way: 0 of a command in EffectCommands says it was done, and *)
(* an answer that blames the request, its authority, the policy or the     *)
(* state of the operation (2, 4, 5, 6, 9) says that nothing was.  Only 3,  *)
(* 7, 8 and 10 leave it open.  dispatch.rs maps the errors, client.rs and  *)
(* exit_code.rs the answers; a launch without --wait promises nothing, and *)
(* 0 of operation cancel says only that the request was accepted: the      *)
(* operation may have ended before, and a signalled run may still finish.  *)
ExitCodeIsHonest ==
    \A r \in Calls : call[r].pc = "done" =>
        LET launchOnly == call[r].request.cmd = "app.open" /\ ~call[r].request.wait
        IN  /\ call[r].exit = 0 /\ call[r].request.cmd \in EffectCommands /\ ~launchOnly => effect[r]
            /\ call[r].exit \in {2, 4, 5, 6, 9} => ~effect[r]

(* A broker that reports itself stopped serves nobody and is not announced *)
(* any more, although its requests, its listener and its file are taken    *)
(* down one after the other while clients connect and other desktops       *)
(* publish.  Only where the system refused to read or to remove its own    *)
(* file, an error remove_if_owned swallows, may the file still name it.    *)
StoppedBrokerIsQuiet ==
    \A d \in Desktops : Alive(d) /\ desktop[d].broker = "stopped" =>
        /\ Active(d) = {}
        /\ discovery = d => desktop[d].left

(* A command touches the target only while the connection is the one its   *)
(* session was issued for: the session was copied before, sessions expire  *)
(* and are revoked meanwhile, but ensure_pin and the gate keep an edit     *)
(* made by this desktop out.  (Another desktop has a gate of its own.)     *)
TargetUnderItsRevision ==
    \A r \in Calls : AtHandler(r, "target") \/ AtHandler(r, "held") =>
        PinIsCurrent(r) \/ connRevision.by # handler[r].d

(* Every command ends, with a desktop that hangs, crashes, shuts down, is  *)
(* replaced or never starts: client.rs bounds each wait.  The exception is *)
(* app.open where its child is the desktop itself: it ends when that does. *)
EveryCallEnds ==
    \A r \in Calls : call[r].pc # "idle" ~> call[r].pc \in {"done", "launching"}

(* An application that exits is gone in the end, also when its broker      *)
(* stops between the check of stopped and the wait for the notification.   *)
ExitCompletes == \A d \in Desktops : desktop[d].life = "exiting" ~> desktop[d].life = "gone"

(* Neither side of the broker waits for ever on the other: a command ends, *)
(* and so does an exit (client.rs, shutdown_and_wait).                     *)
NobodyHangs == EveryCallEnds /\ ExitCompletes

(* An edit of the connection that waits for the scope gate gets it: the    *)
(* comment on OperationScope::connect, connection/runtime.rs:235, requires *)
(* that no operation that owns a read guard asks for another.              *)
EditGetsTheGate ==
    \A d \in Desktops : mutation[d] = "queued" ~> mutation[d] = "none" \/ ~Alive(d)
================================================================================
