------------------------------ MODULE BrokerProofs ------------------------------
(***************************************************************************)
(* Proofs about LocalBroker: the exit code of the command line client, the *)
(* broker that has stopped, and the revision a command runs under, for     *)
(* every number of desktops, calls, sessions and connection slots.         *)
(***************************************************************************)
EXTENDS LocalBroker, TLAPS

--------------------------------------------------------------------------------
(* What a client and its handler rely on. *)

HandlerPcs == {"queued", "reading", "resolve", "serve", "held", "target", "plan", "show", "reply"}

CallPcs == {"discover", "launching", "stale", "unlink", "request", "await", "done"}

(* Answers that blame the request, its authority, the policy or the state  *)
(* of the operation, and all answers.                                      *)
Blaming == {"InvalidRequest", "AuthenticationDenied", "ScopeDenied", "PolicyBlocked", "OperationExpired",
            "OperationConflict", "ProtocolMismatch"}
Codes == {"ok", "Cancelled", "Timeout", "TargetExecutionFailed", "ResponseTooLarge", "Internal"} \cup Blaming

TargetCommands == {"connection.test", "query.plan", "query.run", "sql.propose"} \cup CatalogCommands

HandlerShape(h) ==
    h = [pc |-> h.pc, d |-> h.d, cmd |-> h.cmd, auth |-> h.auth, code |-> h.code,
         selector |-> h.selector, valid |-> h.valid, session |-> h.session]

CallShape(c) ==
    c = [pc |-> c.pc, request |-> c.request, auth |-> c.auth, d |-> c.d, polls |-> c.polls,
         named |-> c.named, exit |-> c.exit]

(* Whether the command of h has had its effect, e, by its position. *)
HandlerAt(h, e) ==
    h # NoHandler =>
        /\ HandlerShape(h) /\ h.pc \in HandlerPcs /\ h.cmd \in CommandName
        /\ h.pc \in {"queued", "reading", "resolve", "serve", "held", "plan"} => ~e
        /\ h.pc = "target" => h.cmd \in TargetCommands /\ (e <=> h.cmd = "query.run")
        /\ h.pc = "held" => h.cmd \in CatalogCommands
        /\ h.pc = "plan" => h.cmd = "sql.propose"
        /\ h.pc = "show" => h.cmd = "sql.propose" /\ e
        /\ h.pc = "reply" => /\ h.code \in Codes
                             /\ h.code = "ok" /\ h.cmd \in EffectCommands => e
                             /\ h.code \in Blaming => ~e
        /\ h.cmd = "connection.list" => ~e

(* The command of h reached the target under its revision. *)
RevisionAt(h) ==
    h.pc \in {"target", "held"} => h.session.revision = connRevision.number \/ connRevision.by # h.d

(* What a call that is over tells. *)
Honest(c, e) ==
    LET launchOnly == c.request.cmd = "app.open" /\ ~c.request.wait
    IN  /\ c.exit = 0 /\ c.request.cmd \in EffectCommands /\ ~launchOnly => e
        /\ c.exit \in {2, 4, 5, 6, 9} => ~e

(* The call c, its handler h, and the effect so far. *)
CallAt(c, h, e) ==
    /\ c.request \in RequestKind
    /\ c.pc # "idle" => CallShape(c) /\ c.pc \in CallPcs /\ c.named \in BOOLEAN
    /\ c.pc \notin {"await", "done"} => h = NoHandler /\ ~e
    /\ c.pc = "launching" => c.request.cmd = "app.open"
    /\ c.pc = "await" /\ c.named => ~e /\ (h # NoHandler => h.cmd = "connection.list")
    /\ c.pc = "await" /\ ~c.named /\ h # NoHandler => h.cmd = c.request.cmd
    /\ c.pc = "done" => c.exit = 3 \/ (h = NoHandler /\ Honest(c, e))

BrokerPcs == {"off", "binding", "bound", "serving", "aborting", "reading_own", "removing", "finishing",
              "stopped"}

BrokerTypes ==
    /\ desktop \in [Desktops -> [life: {"off", "up", "exiting", "gone"}, broker: BrokerPcs,
                                 exit: {"none", "checking", "unarmed", "waiting", "over"},
                                 compatible: BOOLEAN, left: BOOLEAN]]
    /\ call = [r \in Calls |-> call[r]]
    /\ handler = [r \in Calls |-> handler[r]]
    /\ effect \in [Calls -> BOOLEAN]

(* Connections exist while there is a listener, and the discovery file     *)
(* names a broker from its publication to its removal, if that succeeds.   *)
AnnouncedAt(d) ==
    /\ \A r \in Calls : Serves(d, r) => Alive(d) /\ desktop[d].broker \in {"bound", "serving", "aborting"}
    /\ discovery = d => /\ desktop[d].life # "off"
                        /\ Alive(d) => \/ desktop[d].broker \in {"serving", "aborting", "reading_own", "removing"}
                                       \/ desktop[d].left

BrokerInv ==
    /\ BrokerTypes
    /\ \A r \in Calls : /\ CallAt(call[r], handler[r], effect[r])
                        /\ HandlerAt(handler[r], effect[r]) /\ RevisionAt(handler[r])
    /\ \A d \in Desktops : AnnouncedAt(d)

LEMMA NoHandlerFacts ==
    /\ NoHandler.pc = "none" /\ NoRuntime \notin Desktops
    /\ \A e : HandlerAt(NoHandler, e)
    /\ RevisionAt(NoHandler) /\ RevisionAt(NoHandler)'
<1>1. NoHandler.pc = "none" BY DEF NoHandler
<1>2. NoRuntime \notin Desktops BY BrokerAssumption DEF NoRuntime
<1> QED BY <1>1, <1>2 DEF HandlerAt, RevisionAt

(* The frame of a step for the call r: it goes on to c, its handler to h   *)
(* and its effect to e.                                                    *)
LEMMA CallFrame ==
    ASSUME BrokerInv, NEW r \in Calls, NEW c, NEW h, NEW e \in BOOLEAN,
           call' = [call EXCEPT ![r] = c], handler' = [handler EXCEPT ![r] = h],
           effect' = [effect EXCEPT ![r] = e],
           desktop' = desktop, connRevision' = connRevision, discovery' \in {discovery, NoRuntime},
           CallAt(c, h, e), HandlerAt(h, e), RevisionAt(h),
           h # NoHandler => (handler[r] # NoHandler /\ h.d = handler[r].d) \/ Listening(h.d)
    PROVE  BrokerInv'
<1> USE NoHandlerFacts
<1>1. BrokerTypes BY DEF BrokerInv
<1>2. call'[r] = c /\ handler'[r] = h /\ effect'[r] = e BY <1>1 DEF BrokerTypes
<1>3. \A q \in Calls \ {r} : call'[q] = call[q] /\ handler'[q] = handler[q] /\ effect'[q] = effect[q]
  BY <1>1 DEF BrokerTypes
<1>4. BrokerTypes' BY <1>1 DEF BrokerTypes
<1>5. ASSUME NEW q \in Calls
      PROVE  (CallAt(call[q], handler[q], effect[q]) /\ HandlerAt(handler[q], effect[q])
              /\ RevisionAt(handler[q]))'
  <2>1. CASE q = r BY <1>2, <2>1 DEF CallAt, HandlerAt, RevisionAt
  <2>2. CASE q # r
    <3>1. CallAt(call[q], handler[q], effect[q]) /\ HandlerAt(handler[q], effect[q]) /\ RevisionAt(handler[q])
      BY DEF BrokerInv
    <3> QED BY <1>3, <2>2, <3>1 DEF CallAt, HandlerAt, RevisionAt
  <2> QED BY <2>1, <2>2
<1>6. ASSUME NEW d \in Desktops PROVE AnnouncedAt(d)'
  <2>1. AnnouncedAt(d) BY DEF BrokerInv
  <2>2. \A q \in Calls : Serves(d, q)' => Alive(d) /\ desktop[d].broker \in {"bound", "serving", "aborting"}
    BY <1>2, <1>3, <2>1 DEF AnnouncedAt, Serves, Listening
  <2> QED BY <2>1, <2>2 DEF AnnouncedAt, Alive
<1> QED BY <1>4, <1>5, <1>6 DEF BrokerInv

(* A step of a desktop: handlers stand or are closed. *)
LEMMA DesktopFrame ==
    ASSUME BrokerInv, BrokerTypes', call' = call, effect' = effect, connRevision' = connRevision,
           \A r \in Calls : handler'[r] = handler[r] \/ handler'[r] = NoHandler,
           \A d \in Desktops : AnnouncedAt(d)'
    PROVE  BrokerInv'
<1> USE NoHandlerFacts
<1>1. ASSUME NEW q \in Calls
      PROVE  (CallAt(call[q], handler[q], effect[q]) /\ HandlerAt(handler[q], effect[q])
              /\ RevisionAt(handler[q]))'
  <2>1. CallAt(call[q], handler[q], effect[q]) /\ HandlerAt(handler[q], effect[q]) /\ RevisionAt(handler[q])
    BY DEF BrokerInv
  <2> QED BY <2>1 DEF CallAt, HandlerAt, RevisionAt
<1> QED BY <1>1 DEF BrokerInv

--------------------------------------------------------------------------------
(* Steps of a handler. *)

LEMMA HandlerFacts ==
    ASSUME BrokerInv, NEW r \in Calls, handler[r].pc # "none"
    PROVE  /\ handler[r] # NoHandler /\ HandlerAt(handler[r], effect[r]) /\ HandlerShape(handler[r])
           /\ handler[r].cmd \in CommandName
           /\ RevisionAt(handler[r]) /\ CallAt(call[r], handler[r], effect[r])
           /\ call[r].pc \in {"await", "done"}
           /\ effect[r] \in BOOLEAN
BY NoHandlerFacts DEF BrokerInv, BrokerTypes, HandlerAt, CallAt

(* The handler of r goes on to h, with the effect e. *)
LEMMA HandlerGoesOn ==
    ASSUME BrokerInv, NEW r \in Calls, handler[r].pc # "none", NEW h, NEW e \in BOOLEAN,
           handler' = [handler EXCEPT ![r] = h], effect' = [effect EXCEPT ![r] = e],
           desktop' = desktop, connRevision' = connRevision, discovery' = discovery, call' = call,
           h # NoHandler, h.cmd = handler[r].cmd, h.d = handler[r].d, HandlerAt(h, e), RevisionAt(h)
    PROVE  BrokerInv'
<1>1. /\ handler[r] # NoHandler /\ CallAt(call[r], handler[r], effect[r])
      /\ call[r].pc \in {"await", "done"}
  BY HandlerFacts
<1>2. CallAt(call[r], h, e) BY <1>1 DEF CallAt, HandlerAt
<1>3. call' = [call EXCEPT ![r] = call[r]] BY DEF BrokerInv, BrokerTypes
<1> QED BY <1>1, <1>2, <1>3, CallFrame

(* Its connection is closed. *)
LEMMA HandlerCloses ==
    ASSUME BrokerInv, NEW r \in Calls, handler[r].pc # "none", handler' = [handler EXCEPT ![r] = NoHandler],
           effect' = effect, desktop' = desktop, connRevision' = connRevision, discovery' = discovery,
           call' = call
    PROVE  BrokerInv'
<1>1. BrokerTypes' BY DEF BrokerInv, BrokerTypes
<1>2. \A q \in Calls : handler'[q] = handler[q] \/ handler'[q] = NoHandler BY DEF BrokerInv, BrokerTypes
<1>3. ASSUME NEW d \in Desktops PROVE AnnouncedAt(d)'
  BY <1>2 DEF BrokerInv, AnnouncedAt, Serves, Alive
<1> QED BY <1>1, <1>2, <1>3, DesktopFrame

(* It answers with a code. *)
LEMMA HandlerAnswers ==
    ASSUME BrokerInv, NEW r \in Calls, handler[r].pc # "none", NEW code \in Codes, NEW e \in BOOLEAN,
           Answer(r, code), effect' = [effect EXCEPT ![r] = e],
           desktop' = desktop, connRevision' = connRevision, discovery' = discovery, call' = call,
           code = "ok" /\ handler[r].cmd \in EffectCommands => e,
           code \in Blaming => ~e,
           handler[r].cmd = "connection.list" => ~e
    PROVE  BrokerInv'
<1> DEFINE h == [handler[r] EXCEPT !.pc = "reply", !.code = code]
<1>1. handler[r].cmd \in CommandName /\ HandlerShape(handler[r]) BY HandlerFacts
<1>0. DOMAIN handler[r] = {"pc", "d", "cmd", "auth", "code", "selector", "valid", "session"}
  BY <1>1 DEF HandlerShape
<1>2. h.pc = "reply" /\ h.code = code /\ h.cmd = handler[r].cmd /\ h.d = handler[r].d BY <1>0
<1>6. HandlerShape(h)
  <2>1. /\ h.auth = handler[r].auth /\ h.selector = handler[r].selector
        /\ h.valid = handler[r].valid /\ h.session = handler[r].session
    BY <1>0
  <2>2. h = [x \in {"pc", "d", "cmd", "auth", "code", "selector", "valid", "session"} |-> h[x]] BY <1>0
  <2> HIDE DEF h
  <2> QED BY <2>1, <2>2 DEF HandlerShape
<1>3. handler' = [handler EXCEPT ![r] = h] BY DEF Answer, BrokerInv, BrokerTypes
<1> HIDE DEF h
<1>4. h # NoHandler BY <1>2, NoHandlerFacts
<1>5. HandlerAt(h, e) /\ RevisionAt(h) BY <1>1, <1>2, <1>6 DEF HandlerAt, RevisionAt, HandlerPcs
<1> QED BY <1>2, <1>3, <1>4, <1>5, HandlerGoesOn

(* It answers and the effect is as it was. *)
LEMMA HandlerRefuses ==
    ASSUME BrokerInv, NEW r \in Calls, handler[r].pc # "none", NEW code \in Codes,
           Answer(r, code), UnchangedOthers, effect' = effect,
           code = "ok" /\ handler[r].cmd \in EffectCommands => effect[r],
           code \in Blaming => ~effect[r]
    PROVE  BrokerInv'
<1>1. effect' = [effect EXCEPT ![r] = effect[r]] BY DEF BrokerInv, BrokerTypes
<1>2. effect[r] \in BOOLEAN /\ (handler[r].cmd = "connection.list" => ~effect[r])
  BY HandlerFacts DEF HandlerAt
<1> QED BY <1>1, <1>2, HandlerAnswers DEF UnchangedOthers, UnchangedFiles, UnchangedSessions

(* It goes on to pc. *)
LEMMA HandlerMoves ==
    ASSUME BrokerInv, NEW r \in Calls, handler[r].pc # "none",
           NEW pc \in HandlerPcs \ {"reply"}, NEW e \in BOOLEAN,
           ToHandler(r, pc), effect' = [effect EXCEPT ![r] = e], UnchangedOthers,
           pc \in {"queued", "reading", "resolve", "serve", "held", "plan"} => ~e,
           pc = "target" => handler[r].cmd \in TargetCommands /\ (e <=> handler[r].cmd = "query.run"),
           pc = "held" => handler[r].cmd \in CatalogCommands,
           pc = "plan" => handler[r].cmd = "sql.propose",
           pc = "show" => handler[r].cmd = "sql.propose" /\ e,
           pc \in {"target", "held"} => PinIsCurrent(r) \/ handler[r].pc \in {"target", "held"}
    PROVE  BrokerInv'
<1> DEFINE h == [handler[r] EXCEPT !.pc = pc]
<1>1. handler[r].cmd \in CommandName /\ HandlerShape(handler[r]) /\ RevisionAt(handler[r]) BY HandlerFacts
<1>2. /\ HandlerShape(h) /\ h.pc = pc /\ h.cmd = handler[r].cmd
      /\ h.d = handler[r].d /\ h.session = handler[r].session
  BY <1>1 DEF HandlerShape
<1>3. handler' = [handler EXCEPT ![r] = h] BY DEF ToHandler, BrokerInv, BrokerTypes
<1> HIDE DEF h
<1>4. h # NoHandler BY <1>2, NoHandlerFacts DEF HandlerPcs
<1>5. RevisionAt(h) BY <1>1, <1>2 DEF RevisionAt, PinIsCurrent
<1>6. h.cmd = "connection.list" => ~e
  BY <1>2 DEF HandlerPcs, TargetCommands, CatalogCommands
<1>7. HandlerAt(h, e) BY <1>1, <1>2, <1>6 DEF HandlerAt
<1> QED BY <1>2, <1>3, <1>4, <1>5, <1>7, HandlerGoesOn
        DEF UnchangedOthers, UnchangedFiles, UnchangedSessions

LEMMA HandlerTypes ==
    ASSUME BrokerInv, NEW r \in Calls
    PROVE  /\ effect = [effect EXCEPT ![r] = effect[r]] /\ call = [call EXCEPT ![r] = call[r]]
           /\ handler = [handler EXCEPT ![r] = handler[r]]
           /\ effect[r] \in BOOLEAN
BY DEF BrokerInv, BrokerTypes

(* No effect before the target is reached. *)
LEMMA QuietBefore ==
    ASSUME BrokerInv, NEW r \in Calls,
           handler[r].pc \in {"queued", "reading", "resolve", "serve", "held", "plan"}
    PROVE  effect[r] = FALSE /\ handler[r].pc # "none"
BY HandlerFacts DEF HandlerAt

(* Handling a request up to its pin. *)
LEMMA DispatchKeeps == ASSUME BrokerInv, NEW r \in Calls, dispatch_current(r) PROVE BrokerInv'
<1> DEFINE verdict == IF handler[r].cmd \in PublicCommands THEN "ok"
                      ELSE authenticate(handler[r].d, handler[r].auth, handler[r].cmd)
<1>1. handler[r].pc = "reading" BY DEF dispatch_current, AtHandler
<1>2. effect[r] = FALSE /\ handler[r].pc # "none" BY <1>1, QuietBefore
<1>3. verdict \in {"ok", "AuthenticationDenied", "ScopeDenied"} BY DEF authenticate
<1>4. /\ desktop' = desktop /\ connRevision' = connRevision /\ discovery' = discovery /\ call' = call
      /\ effect' = [effect EXCEPT ![r] = effect[r]] /\ effect[r] \in BOOLEAN
  BY HandlerTypes DEF dispatch_current, UnchangedFiles
<1>5. ASSUME NEW code \in Codes, code # "ok", Answer(r, code) PROVE BrokerInv'
  BY <1>2, <1>4, <1>5, HandlerAnswers
<1>6. CASE /\ verdict = "ok" /\ handler[r].valid
           /\ handler' = [handler EXCEPT
                              ![r].pc = IF handler[r].cmd \in ResolvingCommands THEN "resolve" ELSE "serve",
                              ![r].session = session[handler[r].d]]
  <2> PICK pc \in {"resolve", "serve"} : pc = IF handler[r].cmd \in ResolvingCommands THEN "resolve"
                                              ELSE "serve"
    OBVIOUS
  <2> DEFINE h == [handler[r] EXCEPT !.pc = pc, !.session = session[handler[r].d]]
  <2>1. handler[r].cmd \in CommandName /\ HandlerShape(handler[r]) BY <1>2, HandlerFacts
  <2>2. DOMAIN handler[r] = {"pc", "d", "cmd", "auth", "code", "selector", "valid", "session"}
    BY <2>1 DEF HandlerShape
  <2>3. h.pc = pc /\ h.cmd = handler[r].cmd /\ h.d = handler[r].d BY <2>2
  <2>4. HandlerShape(h)
    <3>1. h = [x \in {"pc", "d", "cmd", "auth", "code", "selector", "valid", "session"} |-> h[x]] BY <2>2
    <3> HIDE DEF h
    <3> QED BY <3>1 DEF HandlerShape
  <2>5. handler' = [handler EXCEPT ![r] = h] BY <1>6 DEF BrokerInv, BrokerTypes
  <2> HIDE DEF h
  <2>6. h # NoHandler BY <2>3, NoHandlerFacts
  <2>7. HandlerAt(h, effect[r]) /\ RevisionAt(h)
    BY <1>2, <2>1, <2>3, <2>4 DEF HandlerAt, RevisionAt, HandlerPcs
  <2> QED BY <1>2, <1>4, <2>3, <2>5, <2>6, <2>7, HandlerGoesOn
<1>7. \/ verdict # "ok" /\ Answer(r, verdict)
      \/ Answer(r, "InvalidRequest")
      \/ /\ verdict = "ok" /\ handler[r].valid
         /\ handler' = [handler EXCEPT
                              ![r].pc = IF handler[r].cmd \in ResolvingCommands THEN "resolve" ELSE "serve",
                              ![r].session = session[handler[r].d]]
  BY DEF dispatch_current
<1> HIDE DEF verdict
<1> QED BY <1>3, <1>5, <1>6, <1>7 DEF Codes, Blaming

LEMMA ReadTimeoutKeeps == ASSUME BrokerInv, NEW r \in Calls, ReadTimesOut(r) PROVE BrokerInv'
BY HandlerCloses DEF ReadTimesOut, AtHandler, UnchangedOthers, UnchangedFiles, UnchangedSessions

(* From serve, with nothing done yet, every refusal and every move to pc.  *)
LEMMA ServesOn ==
    ASSUME BrokerInv, NEW r \in Calls, handler[r].pc \in {"resolve", "serve", "held", "plan"},
           UnchangedOthers
    PROVE  /\ \A code \in Codes \ {"ok"} : Answer(r, code) /\ effect' = effect => BrokerInv'
           /\ Answer(r, "ok") /\ effect' = effect /\ handler[r].cmd \notin EffectCommands => BrokerInv'
           /\ \A code \in {"ok"} : Answer(r, code) /\ effect' = [effect EXCEPT ![r] = TRUE]
                                   /\ handler[r].cmd # "connection.list" => BrokerInv'
           /\ ToHandler(r, "serve") /\ effect' = effect => BrokerInv'
           /\ /\ ToHandler(r, "target") /\ PinIsCurrent(r) /\ handler[r].cmd \in TargetCommands
              /\ effect' = [effect EXCEPT ![r] = (handler[r].cmd = "query.run")]
              => BrokerInv'
<1>1. effect[r] = FALSE /\ handler[r].pc # "none" BY QuietBefore
<1>2. "ok" \in Codes /\ "ok" \notin Blaming BY DEF Codes, Blaming
<1>3. \A code \in Codes \ {"ok"} : Answer(r, code) /\ effect' = effect => BrokerInv'
  BY <1>1, HandlerRefuses
<1>4. Answer(r, "ok") /\ effect' = effect /\ handler[r].cmd \notin EffectCommands => BrokerInv'
  BY <1>1, <1>2, HandlerRefuses
<1>5. \A code \in {"ok"} : Answer(r, code) /\ effect' = [effect EXCEPT ![r] = TRUE]
                           /\ handler[r].cmd # "connection.list" => BrokerInv'
  BY <1>1, <1>2, HandlerAnswers DEF UnchangedOthers, UnchangedFiles, UnchangedSessions
<1>6. ToHandler(r, "serve") /\ effect' = effect => BrokerInv'
  BY <1>1, HandlerTypes, HandlerMoves DEF HandlerPcs
<1>7. ASSUME ToHandler(r, "target"), PinIsCurrent(r), handler[r].cmd \in TargetCommands,
             effect' = [effect EXCEPT ![r] = (handler[r].cmd = "query.run")]
      PROVE  BrokerInv'
  <2> PICK e \in BOOLEAN : e = (handler[r].cmd = "query.run") OBVIOUS
  <2> QED BY <1>1, <1>7, HandlerMoves DEF HandlerPcs
<1> QED BY <1>3, <1>4, <1>5, <1>6, <1>7

(* A second pin, for the commands that reach the target without an effect  *)
(* of their own.                                                           *)
LEMMA EntersTarget ==
    ASSUME BrokerInv, NEW r \in Calls, handler[r].pc = "serve", UnchangedOthers, effect' = effect,
           handler[r].cmd \in TargetCommands \ {"query.run"}, NEW denied \in Codes \ {"ok"},
           EnterTarget(r, denied)
    PROVE  BrokerInv'
<1>1. effect[r] = FALSE BY QuietBefore
<1>2. CASE ToHandler(r, "target") /\ PinIsCurrent(r)
  <2>1. effect' = [effect EXCEPT ![r] = FALSE] BY <1>1, HandlerTypes
  <2> QED BY <1>1, <1>2, <2>1, HandlerMoves DEF HandlerPcs
<1>3. CASE Answer(r, denied) BY <1>3, ServesOn
<1> QED BY <1>2, <1>3 DEF EnterTarget

LEMMA ResolveKeeps == ASSUME BrokerInv, NEW r \in Calls, resolve_connection(r) PROVE BrokerInv'
<1>1. handler[r].pc = "resolve" /\ UnchangedOthers /\ effect' = effect
  BY DEF resolve_connection, AtHandler
<1>2. \/ Answer(r, "ScopeDenied")
      \/ handler[r].cmd = "connection.show" /\ Answer(r, "ok")
      \/ ToHandler(r, "serve")
  BY DEF resolve_connection
<1> QED BY <1>1, <1>2, ServesOn DEF Codes, Blaming, EffectCommands

LEMMA PublicKeeps ==
    ASSUME BrokerInv, NEW r \in Calls, execute_public(r) \/ focus_app(r) \/ connection_list(r)
    PROVE  BrokerInv'
<1>1. CASE execute_public(r)
  BY <1>1, ServesOn DEF execute_public, ServesCommand, AtHandler, EffectCommands
<1>2. CASE focus_app(r)
  BY <1>2, ServesOn DEF focus_app, ServesCommand, AtHandler, Codes
<1>3. CASE connection_list(r)
  <2>1. handler[r].pc = "serve" /\ handler[r].cmd = "connection.list" /\ UnchangedOthers /\ effect' = effect
    BY <1>3 DEF connection_list, ServesCommand, AtHandler
  <2>2. Answer(r, "ok") \/ Answer(r, "ScopeDenied") BY <1>3 DEF connection_list
  <2> QED BY <2>1, <2>2, ServesOn DEF Codes, Blaming, EffectCommands
<1> QED BY <1>1, <1>2, <1>3

LEMMA TestKeeps == ASSUME BrokerInv, NEW r \in Calls, connection_test(r) PROVE BrokerInv'
<1>1. /\ handler[r].pc = "serve" /\ handler[r].cmd = "connection.test" /\ UnchangedOthers
      /\ effect' = effect /\ EnterTarget(r, "ScopeDenied")
  BY DEF connection_test, ServesCommand, AtHandler
<1> QED BY <1>1, EntersTarget DEF TargetCommands, Codes, Blaming

LEMMA CatalogKeeps == ASSUME BrokerInv, NEW r \in Calls, catalog(r) PROVE BrokerInv'
<1>1. UnchangedOthers /\ effect' = effect BY DEF catalog
<1>2. CASE /\ handler[r].pc = "serve" /\ handler[r].cmd \in CatalogCommands
           /\ PinIsCurrent(r) /\ ToHandler(r, "held")
  <2>1. effect[r] = FALSE BY <1>2, QuietBefore
  <2> QED BY <1>1, <1>2, <2>1, HandlerTypes, HandlerMoves DEF HandlerPcs
<1>3. CASE handler[r].pc = "serve" /\ Answer(r, "PolicyBlocked")
  BY <1>1, <1>3, ServesOn DEF Codes, Blaming
<1>4. CASE handler[r].pc = "held" /\ ToHandler(r, "target")
  <2>1. effect[r] = FALSE BY <1>4, QuietBefore
  <2>2. handler[r].cmd \in CatalogCommands BY <1>4, HandlerFacts DEF HandlerAt
  <2>3. handler[r].cmd \in TargetCommands /\ handler[r].cmd # "query.run"
    BY <2>2 DEF TargetCommands, CatalogCommands
  <2> QED BY <1>1, <1>4, <2>1, <2>3, HandlerTypes, HandlerMoves DEF HandlerPcs
<1> QED BY <1>2, <1>3, <1>4 DEF catalog, ServesCommand, AtHandler

LEMMA PlanKeeps == ASSUME BrokerInv, NEW r \in Calls, query_plan(r) PROVE BrokerInv'
<1>1. handler[r].pc = "serve" /\ handler[r].cmd = "query.plan" /\ UnchangedOthers /\ effect' = effect
  BY DEF query_plan, ServesCommand, AtHandler
<1>2. \/ \E code \in {"InvalidRequest", "PolicyBlocked"} : Answer(r, code)
      \/ EnterTarget(r, "PolicyBlocked")
  BY DEF query_plan
<1>3. CASE \E code \in {"InvalidRequest", "PolicyBlocked"} : Answer(r, code)
  BY <1>1, <1>3, ServesOn DEF Codes, Blaming
<1>4. CASE EnterTarget(r, "PolicyBlocked")
  BY <1>1, <1>4, EntersTarget DEF TargetCommands, Codes, Blaming
<1> QED BY <1>2, <1>3, <1>4

LEMMA RunKeeps == ASSUME BrokerInv, NEW r \in Calls, query_run(r) PROVE BrokerInv'
<1>1. handler[r].pc = "serve" /\ handler[r].cmd = "query.run" /\ UnchangedOthers
  BY DEF query_run, ServesCommand, AtHandler
<1>2. effect[r] = FALSE BY <1>1, QuietBefore
<1>3. CASE \E code \in {"OperationConflict", "OperationExpired", "ScopeDenied", "InvalidRequest"} :
              Answer(r, code) /\ effect' = effect
  BY <1>1, <1>3, ServesOn DEF Codes, Blaming
<1>4. CASE EnterTarget(r, "ScopeDenied") /\ effect' = [effect EXCEPT ![r] = PinIsCurrent(r)]
  <2>1. CASE PinIsCurrent(r)
    <3>1. ToHandler(r, "target") BY <1>4, <2>1 DEF EnterTarget
    <3>2. effect' = [effect EXCEPT ![r] = TRUE] BY <1>4, <2>1 DEF PinIsCurrent
    <3> QED BY <1>1, <2>1, <3>1, <3>2, HandlerMoves DEF HandlerPcs, TargetCommands
  <2>2. CASE ~PinIsCurrent(r)
    <3>1. Answer(r, "ScopeDenied") BY <1>4, <2>2 DEF EnterTarget
    <3>2. effect' = effect BY <1>2, <1>4, <2>2, HandlerTypes DEF PinIsCurrent
    <3> QED BY <1>1, <3>1, <3>2, ServesOn DEF Codes, Blaming
  <2> QED BY <2>1, <2>2
<1> QED BY <1>3, <1>4 DEF query_run

LEMMA ProposeKeeps == ASSUME BrokerInv, NEW r \in Calls, sql_propose(r) PROVE BrokerInv'
<1>1. UnchangedOthers BY DEF sql_propose
<1>2. CASE ServesCommand(r, {"sql.propose"}) /\ EnterTarget(r, "PolicyBlocked") /\ effect' = effect
  BY <1>1, <1>2, EntersTarget DEF ServesCommand, AtHandler, TargetCommands, Codes, Blaming
<1>3. CASE AtHandler(r, "plan") /\ ToHandler(r, "show") /\ effect' = [effect EXCEPT ![r] = TRUE]
  <2>1. handler[r].pc = "plan" BY <1>3 DEF AtHandler
  <2>2. handler[r].cmd = "sql.propose" BY <2>1, HandlerFacts DEF HandlerAt
  <2> QED BY <1>1, <1>3, <2>1, <2>2, HandlerMoves DEF HandlerPcs
<1>4. CASE /\ AtHandler(r, "plan") /\ effect' = effect
           /\ \E code \in ApplicationErrors : Answer(r, code)
  BY <1>1, <1>4, ServesOn DEF AtHandler, ApplicationErrors, Codes, Blaming
<1>6. CASE /\ AtHandler(r, "plan") /\ Answer(r, "TargetExecutionFailed")
           /\ effect' = [effect EXCEPT ![r] = TRUE]
  <2>1. handler[r].pc = "plan" BY <1>6 DEF AtHandler
  <2>2. handler[r].cmd = "sql.propose" /\ handler[r].pc # "none" BY <2>1, HandlerFacts DEF HandlerAt
  <2>3. "TargetExecutionFailed" \in Codes /\ "TargetExecutionFailed" \notin Blaming BY DEF Codes, Blaming
  <2>4. /\ desktop' = desktop /\ connRevision' = connRevision /\ discovery' = discovery
        /\ call' = call
    BY <1>1 DEF UnchangedOthers, UnchangedFiles, UnchangedSessions
  <2> QED BY <1>6, <2>2, <2>3, <2>4, HandlerAnswers
<1>5. CASE /\ AtHandler(r, "show") /\ effect' = effect
           /\ \E code \in {"ok", "TargetExecutionFailed"} : Answer(r, code)
  <2>1. handler[r].pc = "show" BY <1>5 DEF AtHandler
  <2>2. effect[r] = TRUE BY <2>1, HandlerFacts DEF HandlerAt
  <2>3. PICK code \in {"ok", "TargetExecutionFailed"} : Answer(r, code) BY <1>5
  <2>4. code \in Codes /\ code \notin Blaming BY DEF Codes, Blaming
  <2> QED BY <1>1, <1>5, <2>1, <2>2, <2>3, <2>4, HandlerRefuses
<1> QED BY <1>2, <1>3, <1>4, <1>5, <1>6 DEF sql_propose

LEMMA OperationKeeps ==
    ASSUME BrokerInv, NEW r \in Calls, show_operation(r) \/ wait_operation(r) \/ cancel_operation(r)
    PROVE  BrokerInv'
<1>1. /\ handler[r].pc = "serve" /\ handler[r].cmd \in OperationCommands /\ UnchangedOthers
  BY DEF show_operation, wait_operation, cancel_operation, ServesCommand, AtHandler, OperationCommands
<1>2. handler[r].cmd \notin EffectCommands /\ handler[r].cmd # "connection.list"
  BY <1>1 DEF OperationCommands, EffectCommands
<1>3. OperationErrors \cup {"ok", "Timeout"} \subseteq Codes BY DEF OperationErrors, Codes, Blaming
<1>4. CASE \E code \in OperationErrors \cup {"ok", "Timeout"} : Answer(r, code) /\ effect' = effect
  BY <1>1, <1>2, <1>3, <1>4, ServesOn
<1>5. CASE \E code \in {"ok", "TargetExecutionFailed"} : \E e \in BOOLEAN :
              Answer(r, code) /\ effect' = [effect EXCEPT ![r] = e]
  <2>1. PICK code \in {"ok", "TargetExecutionFailed"}, e \in BOOLEAN :
              Answer(r, code) /\ effect' = [effect EXCEPT ![r] = e]
    BY <1>5
  <2>2. code \in Codes /\ code \notin Blaming /\ handler[r].pc # "none" BY <1>1 DEF Codes, Blaming
  <2>3. /\ desktop' = desktop /\ connRevision' = connRevision /\ discovery' = discovery
        /\ call' = call
    BY <1>1 DEF UnchangedOthers, UnchangedFiles, UnchangedSessions
  <2> QED BY <1>2, <2>1, <2>2, <2>3, HandlerAnswers
<1>6. \/ \E code \in OperationErrors \cup {"ok", "Timeout"} : Answer(r, code) /\ effect' = effect
      \/ \E code \in {"ok", "TargetExecutionFailed"} : \E e \in BOOLEAN :
              Answer(r, code) /\ effect' = [effect EXCEPT ![r] = e]
  <2>1. CASE show_operation(r) BY <2>1 DEF show_operation
  <2>2. CASE wait_operation(r) BY <2>2 DEF wait_operation
  <2>3. CASE cancel_operation(r) BY <2>3 DEF cancel_operation
  <2> QED BY <2>1, <2>2, <2>3
<1> QED BY <1>4, <1>5, <1>6

LEMMA TargetKeeps == ASSUME BrokerInv, NEW r \in Calls, TargetReturns(r) PROVE BrokerInv'
<1>1. handler[r].pc = "target" /\ UnchangedOthers BY DEF TargetReturns, AtHandler
<1>2. handler[r].cmd \in TargetCommands /\ (effect[r] <=> handler[r].cmd = "query.run")
  BY <1>1, HandlerFacts DEF HandlerAt
<1>3. handler[r].cmd # "connection.list" BY <1>2 DEF TargetCommands, CatalogCommands
<1>4. CASE handler[r].cmd = "sql.propose" /\ ToHandler(r, "plan") /\ effect' = effect
  <2>1. effect[r] = FALSE BY <1>2, <1>4, HandlerTypes
  <2> QED BY <1>1, <1>4, <2>1, HandlerTypes, HandlerMoves DEF HandlerPcs
<1>5. CASE /\ \E code \in success(handler[r].cmd) : Answer(r, code)
           /\ effect' = [effect EXCEPT ![r] = TRUE]
  <2>1. PICK code \in success(handler[r].cmd) : Answer(r, code) BY <1>5
  <2>2. code \in Codes /\ code \notin Blaming BY DEF success, Codes, Blaming
  <2>3. /\ desktop' = desktop /\ connRevision' = connRevision /\ discovery' = discovery
        /\ call' = call
    BY <1>1 DEF UnchangedOthers, UnchangedFiles, UnchangedSessions
  <2> QED BY <1>1, <1>3, <1>5, <2>1, <2>2, <2>3, HandlerAnswers
<1>6. CASE \E code \in TargetErrors(handler[r].cmd) : Answer(r, code) /\ effect' = effect
  <2>1. PICK code \in TargetErrors(handler[r].cmd) : Answer(r, code) /\ effect' = effect BY <1>6
  <2>2. code \in Codes /\ code # "ok" BY DEF TargetErrors, ApplicationErrors, Codes, Blaming
  <2>3. code \in Blaming => ~effect[r] BY <1>2, <2>1 DEF TargetErrors, ApplicationErrors, Blaming
  <2> QED BY <1>1, <2>1, <2>2, <2>3, HandlerRefuses
<1> QED BY <1>4, <1>5, <1>6 DEF TargetReturns

--------------------------------------------------------------------------------
(* Steps of the client. *)

CallFields == {"pc", "request", "auth", "d", "polls", "named", "exit"}

LEMMA CallRow ==
    /\ \A c : CallShape(c) => DOMAIN c = CallFields
    /\ \A c : c = [x \in CallFields |-> c[x]] => CallShape(c)
<1>1. \A c : CallShape(c) => DOMAIN c = CallFields BY DEF CallShape, CallFields
<1>2. \A c : c = [x \in CallFields |-> c[x]] => CallShape(c)
  BY DEF CallShape, CallFields
<1> QED BY <1>1, <1>2

(* A call before its request: nobody serves it, and it had no effect. *)
LEMMA CallFacts ==
    ASSUME BrokerInv, NEW r \in Calls
    PROVE  /\ CallAt(call[r], handler[r], effect[r]) /\ call[r].request \in RequestKind
           /\ call[r].pc # "idle" => /\ CallShape(call[r]) /\ DOMAIN call[r] = CallFields
                                     /\ call[r].named \in BOOLEAN
           /\ call[r].pc \notin {"await", "done"} => handler[r] = NoHandler /\ effect[r] = FALSE
BY CallRow, HandlerTypes DEF BrokerInv, CallAt

(* The call goes on to c before its request is served. *)
LEMMA CallGoesOn ==
    ASSUME BrokerInv, NEW r \in Calls, call[r].pc \notin {"await", "done"}, NEW c,
           call' = [call EXCEPT ![r] = c], handler' = handler, effect' = effect,
           desktop' = desktop, connRevision' = connRevision, discovery' \in {discovery, NoRuntime},
           c = [x \in CallFields |-> c[x]], c.request = call[r].request, c.named \in BOOLEAN,
           c.pc \in CallPcs \ {"await"}, c.pc = "launching" => c.request.cmd = "app.open",
           c.pc = "done" /\ c.exit = 0 => c.request.cmd = "app.open" /\ ~c.request.wait
    PROVE  BrokerInv'
<1>1. /\ handler[r] = NoHandler /\ effect[r] = FALSE /\ call[r].request \in RequestKind BY CallFacts
<1>2. CallShape(c) BY CallRow
<1>3. CallAt(c, NoHandler, FALSE) BY <1>1, <1>2 DEF CallAt, Honest, CallPcs
<1>4. handler' = [handler EXCEPT ![r] = NoHandler] /\ effect' = [effect EXCEPT ![r] = FALSE]
  BY <1>1, HandlerTypes
<1>5. HandlerAt(NoHandler, FALSE) /\ RevisionAt(NoHandler) BY NoHandlerFacts
<1> QED BY <1>3, <1>4, <1>5, CallFrame

LEMMA StartKeeps == ASSUME BrokerInv, NEW r \in Calls, StartCall(r) PROVE BrokerInv'
<1>1. call[r].pc = "idle" BY DEF StartCall
<1>2. PICK q : q = call[r].request OBVIOUS
<1>3. PICK pc \in {"done", "discover"} : pc = IF q.cmd = "operation.wait" /\ ~q.valid THEN "done" ELSE "discover"
  OBVIOUS
<1>4. PICK named \in BOOLEAN : named = (q.selector = "name") OBVIOUS
<1>8. \E auth \in Tokens :
          /\ auth # NoToken => auth[2] <= issued[auth[1]]
          /\ q.cmd \in PublicCommands => auth = NoToken
          /\ call' = [call EXCEPT ![r] = [pc |-> pc, request |-> q, auth |-> auth, d |-> NoRuntime,
                                         polls |-> 0, named |-> named, exit |-> USAGE]]
  BY <1>2, <1>3, <1>4 DEF StartCall
<1>9. PICK auth : call' = [call EXCEPT ![r] = [pc |-> pc, request |-> q, auth |-> auth, d |-> NoRuntime,
                                              polls |-> 0, named |-> named, exit |-> USAGE]]
  BY <1>8, Zenon
<1> DEFINE c == [pc |-> pc, request |-> q, auth |-> auth, d |-> NoRuntime, polls |-> 0,
                 named |-> named, exit |-> USAGE]
<1>5. call' = [call EXCEPT ![r] = c] BY <1>9
<1>6. /\ c = [x \in CallFields |-> c[x]] /\ c.request = call[r].request /\ c.named \in BOOLEAN
      /\ c.pc \in CallPcs \ {"await"} /\ c.exit # 0 /\ c.pc # "launching"
  BY <1>2 DEF CallFields, CallPcs, USAGE
<1> HIDE DEF c
<1>7. /\ handler' = handler /\ effect' = effect /\ desktop' = desktop /\ connRevision' = connRevision
      /\ discovery' = discovery
  BY DEF StartCall, UnchangedFiles, UnchangedSessions
<1> QED BY <1>1, <1>5, <1>6, <1>7, CallGoesOn

(* Every way a call ends or goes on without a runtime. *)
LEMMA CallRows ==
    ASSUME BrokerInv, NEW r \in Calls, call[r].pc \notin {"idle", "await", "done"},
           handler' = handler, effect' = effect,
           desktop' = desktop, connRevision' = connRevision, discovery' \in {discovery, NoRuntime}
    PROVE  /\ \A x : ExitWith(r, x) /\ x # 0 => BrokerInv'
           /\ \A pc \in {x \in CallPcs \ {"await", "done"} :
                            x = "launching" => call[r].request.cmd = "app.open"} :
                 /\ ToCall(r, pc) => BrokerInv'
                 /\ \A d : call' = [call EXCEPT ![r].pc = pc, ![r].d = d] => BrokerInv'
                 /\ \A n : call' = [call EXCEPT ![r].pc = pc, ![r].polls = n] => BrokerInv'
           /\ call[r].request.cmd = "app.open" /\ ~call[r].request.wait
              => \A n : call' = [call EXCEPT ![r].pc = "done", ![r].exit = 0, ![r].polls = n] => BrokerInv'
<1>1. call[r].named \in BOOLEAN /\ DOMAIN call[r] = CallFields BY CallFacts
<1>2. call = [q \in Calls |-> call[q]] BY DEF BrokerInv, BrokerTypes
<1>3. ASSUME NEW x, ExitWith(r, x), x # 0 PROVE BrokerInv'
  <2> DEFINE c == [call[r] EXCEPT !.pc = "done", !.exit = x]
  <2>1. call' = [call EXCEPT ![r] = c] BY <1>2, <1>3 DEF ExitWith
  <2>2. /\ c.request = call[r].request /\ c.named \in BOOLEAN /\ c.pc = "done" /\ c.exit = x
        /\ c = [y \in CallFields |-> c[y]]
    BY <1>1 DEF CallFields
  <2> HIDE DEF c
  <2> QED BY <1>3, <2>1, <2>2, CallGoesOn DEF CallPcs
<1>4. ASSUME NEW pc \in CallPcs \ {"await", "done"}, ToCall(r, pc),
             pc = "launching" => call[r].request.cmd = "app.open"
      PROVE  BrokerInv'
  <2> DEFINE c == [call[r] EXCEPT !.pc = pc]
  <2>1. call' = [call EXCEPT ![r] = c] BY <1>2, <1>4 DEF ToCall
  <2>2. /\ c.request = call[r].request /\ c.named \in BOOLEAN /\ c.pc = pc
        /\ c = [y \in CallFields |-> c[y]]
    BY <1>1 DEF CallFields
  <2> HIDE DEF c
  <2> QED BY <1>4, <2>1, <2>2, CallGoesOn
<1>5. ASSUME NEW pc \in CallPcs \ {"await", "done"}, NEW d,
             call' = [call EXCEPT ![r].pc = pc, ![r].d = d],
             pc = "launching" => call[r].request.cmd = "app.open"
      PROVE  BrokerInv'
  <2> DEFINE c == [call[r] EXCEPT !.pc = pc, !.d = d]
  <2>1. call' = [call EXCEPT ![r] = c] BY <1>2, <1>5
  <2>2. /\ c.request = call[r].request /\ c.named \in BOOLEAN /\ c.pc = pc
        /\ c = [y \in CallFields |-> c[y]]
    BY <1>1 DEF CallFields
  <2> HIDE DEF c
  <2>3. c.pc = "launching" => c.request.cmd = "app.open" BY <1>5, <2>2
  <2> QED BY <2>1, <2>2, <2>3, CallGoesOn
<1>6. ASSUME NEW pc \in CallPcs \ {"await", "done"}, NEW n,
             call' = [call EXCEPT ![r].pc = pc, ![r].polls = n],
             pc = "launching" => call[r].request.cmd = "app.open"
      PROVE  BrokerInv'
  <2> DEFINE c == [call[r] EXCEPT !.pc = pc, !.polls = n]
  <2>1. call' = [call EXCEPT ![r] = c] BY <1>2, <1>6
  <2>2. /\ c.request = call[r].request /\ c.named \in BOOLEAN /\ c.pc = pc
        /\ c = [y \in CallFields |-> c[y]]
    BY <1>1 DEF CallFields
  <2> HIDE DEF c
  <2>3. c.pc = "launching" => c.request.cmd = "app.open" BY <1>6, <2>2
  <2> QED BY <2>1, <2>2, <2>3, CallGoesOn
<1>7. ASSUME NEW n, call[r].request.cmd = "app.open", ~call[r].request.wait,
             call' = [call EXCEPT ![r].pc = "done", ![r].exit = 0, ![r].polls = n]
      PROVE  BrokerInv'
  <2> DEFINE c == [call[r] EXCEPT !.pc = "done", !.exit = 0, !.polls = n]
  <2>1. call' = [call EXCEPT ![r] = c] BY <1>2, <1>7
  <2>2. /\ c.request = call[r].request /\ c.named \in BOOLEAN /\ c.pc = "done"
        /\ c = [y \in CallFields |-> c[y]]
    BY <1>1 DEF CallFields
  <2> HIDE DEF c
  <2> QED BY <1>7, <2>1, <2>2, CallGoesOn DEF CallPcs
<1> QED BY <1>3, <1>4, <1>5, <1>6, <1>7

LEMMA UnavailableKeeps ==
    ASSUME BrokerInv, NEW r \in Calls, call[r].pc \notin {"idle", "await", "done"},
           handler' = handler, effect' = effect, desktop' = desktop, connRevision' = connRevision,
           discovery' \in {discovery, NoRuntime}, RuntimeUnavailable(r)
    PROVE  BrokerInv'
<1>1. \/ ExitWith(r, RUNTIME_UNAVAILABLE)
      \/ /\ call[r].request.cmd = "app.open" /\ ~call[r].request.wait
         /\ call' = [call EXCEPT ![r].pc = "done", ![r].exit = 0, ![r].polls = 1]
      \/ \E pc \in {"discover", "launching"}, n \in {1, call[r].polls + 1} :
            call[r].request.cmd = "app.open" /\ call' = [call EXCEPT ![r].pc = pc, ![r].polls = n]
  BY DEF RuntimeUnavailable, Launched
<1>2. RUNTIME_UNAVAILABLE # 0 /\ {"discover", "launching"} \subseteq CallPcs \ {"await", "done"}
  BY DEF RUNTIME_UNAVAILABLE, CallPcs
<1> QED BY <1>1, <1>2, CallRows

(* The launched desktop ended; only app.open launches one.                 *)
LEMMA LaunchKeeps == ASSUME BrokerInv, NEW r \in Calls, launch_desktop(r) PROVE BrokerInv'
<1>1. /\ call[r].pc = "launching" /\ handler' = handler /\ effect' = effect /\ desktop' = desktop
      /\ connRevision' = connRevision /\ discovery' = discovery
  BY DEF launch_desktop, AtCall, UnchangedFiles, UnchangedSessions
<1>2. call[r].request.cmd = "app.open" BY <1>1, CallFacts DEF CallAt
<1>3. \/ ExitWith(r, RUNTIME_UNAVAILABLE)
      \/ call' = [call EXCEPT ![r].pc = "discover", ![r].polls = 1]
      \/ /\ ~call[r].request.wait
         /\ call' = [call EXCEPT ![r].pc = "done", ![r].exit = 0, ![r].polls = 1]
  BY DEF launch_desktop, Launched
<1>4. RUNTIME_UNAVAILABLE # 0 /\ "discover" \in CallPcs \ {"await", "done"}
  BY DEF RUNTIME_UNAVAILABLE, CallPcs
<1> QED BY <1>1, <1>2, <1>3, <1>4, CallRows

LEMMA DiscoverKeeps == ASSUME BrokerInv, NEW r \in Calls, discover(r) PROVE BrokerInv'
<1>1. /\ call[r].pc = "discover" /\ handler' = handler /\ effect' = effect /\ desktop' = desktop
      /\ connRevision' = connRevision /\ discovery' = discovery
  BY DEF discover, AtCall, UnchangedFiles, UnchangedSessions
<1>2. \/ RuntimeUnavailable(r) \/ ExitWith(r, PROTOCOL_MISMATCH)
      \/ \E pc \in {"stale", "request"} : call' = [call EXCEPT ![r].pc = pc, ![r].d = discovery]
  BY DEF discover, read_discovery
<1>3. PROTOCOL_MISMATCH # 0 /\ {"stale", "request"} \subseteq CallPcs \ {"await", "done"}
  BY DEF PROTOCOL_MISMATCH, CallPcs
<1> QED BY <1>1, <1>2, <1>3, CallRows, UnavailableKeeps

LEMMA RemoveStaleKeeps == ASSUME BrokerInv, NEW r \in Calls, remove_stale_discovery(r) PROVE BrokerInv'
<1>1. /\ call[r].pc \in {"stale", "unlink"} /\ handler' = handler /\ effect' = effect /\ desktop' = desktop
      /\ connRevision' = connRevision /\ discovery' \in {discovery, NoRuntime}
  BY DEF remove_stale_discovery, AtCall, UnchangedSessions
<1>2. RuntimeUnavailable(r) \/ ToCall(r, "unlink") BY DEF remove_stale_discovery
<1>3. "unlink" \in CallPcs \ {"await", "done"} BY DEF CallPcs
<1> QED BY <1>1, <1>2, <1>3, CallRows, UnavailableKeeps

(* A listening desktop is a desktop, as the file named it: a request is    *)
(* sent only to one.                                                       *)
LEMMA RequestKeeps == ASSUME BrokerInv, NEW r \in Calls, request(r) PROVE BrokerInv'
<1>1. /\ call[r].pc = "request" /\ effect' = effect /\ desktop' = desktop
      /\ connRevision' = connRevision /\ discovery' = discovery
  BY DEF request, AtCall, UnchangedFiles, UnchangedSessions
<1>2. /\ effect[r] = FALSE /\ CallShape(call[r]) /\ DOMAIN call[r] = CallFields
      /\ call[r].named \in BOOLEAN /\ call[r].request \in RequestKind
  BY <1>1, CallFacts
<1>3. CASE /\ handler' = handler
           /\ ExitWith(r, AUTHENTICATION_DENIED) \/ ExitWith(r, RUNTIME_UNAVAILABLE)
  <2>1. AUTHENTICATION_DENIED # 0 /\ RUNTIME_UNAVAILABLE # 0
    BY DEF AUTHENTICATION_DENIED, RUNTIME_UNAVAILABLE
  <2> QED BY <1>1, <1>3, <2>1, CallRows
<1> PICK cmd : cmd = IF call[r].named THEN "connection.list" ELSE call[r].request.cmd OBVIOUS
<1> PICK d : d = call[r].d OBVIOUS
<1> PICK selector : selector = IF call[r].request.selector = "other" THEN "other" ELSE "current" OBVIOUS
<1> PICK valid : valid = (call[r].named \/ call[r].request.valid) OBVIOUS
<1> DEFINE h == [pc |-> "queued", d |-> d, cmd |-> cmd, auth |-> call[r].auth, code |-> "none",
                 selector |-> selector, valid |-> valid, session |-> NoSession]
<1>4. CASE Listening(d) /\ ToCall(r, "await") /\ handler' = [handler EXCEPT ![r] = h]
  <2> DEFINE c == [call[r] EXCEPT !.pc = "await"]
  <2>1. call' = [call EXCEPT ![r] = c] BY <1>4 DEF ToCall, BrokerInv, BrokerTypes
  <2>2. /\ c.request = call[r].request /\ c.named = call[r].named /\ c.pc = "await"
        /\ c = [y \in CallFields |-> c[y]]
    BY <1>2 DEF CallFields
  <2>3. CallShape(c) BY <2>2, CallRow
  <2> HIDE DEF c
  <2>4. /\ HandlerShape(h) /\ h.pc = "queued" /\ h.cmd = cmd /\ h.d = d
    BY DEF HandlerShape
  <2> HIDE DEF h
  <2>5. cmd \in CommandName /\ (c.named => cmd = "connection.list") /\ (~c.named => cmd = c.request.cmd)
    BY <1>2, <2>2 DEF RequestKind, CommandName
  <2>6. h # NoHandler BY <2>4, NoHandlerFacts
  <2>7. CallAt(c, h, FALSE) BY <1>2, <2>2, <2>3, <2>4, <2>5, <2>6 DEF CallAt, CallPcs
  <2>8. HandlerAt(h, FALSE) /\ RevisionAt(h) BY <2>4, <2>5 DEF HandlerAt, RevisionAt, HandlerPcs
  <2>9. effect' = [effect EXCEPT ![r] = FALSE] BY <1>1, <1>2, HandlerTypes
  <2> QED BY <1>1, <1>4, <2>1, <2>4, <2>7, <2>8, <2>9, CallFrame
<1>5. \/ ExitWith(r, AUTHENTICATION_DENIED) /\ handler' = handler
      \/ ExitWith(r, RUNTIME_UNAVAILABLE) /\ handler' = handler
      \/ Listening(d) /\ ToCall(r, "await") /\ handler' = [handler EXCEPT ![r] = h]
  BY DEF request
<1> QED BY <1>3, <1>4, <1>5

(* The exit code of an answer is 0 for ok alone and blames only when the   *)
(* answer does (client.rs, exit_code.rs).                                  *)
LEMMA ExitOfCode ==
    ASSUME NEW code \in Codes
    PROVE  /\ for_client_error(code) = 0 => code = "ok"
           /\ for_client_error(code) \in {2, 4, 5, 6, 9} => code \in Blaming
<1>1. CASE code \in Blaming
  <2>1. for_client_error(code) # 0 BY <1>1 DEF for_client_error, Blaming
  <2> QED BY <1>1, <2>1
<1>2. CASE code = "ok"
  <2>1. for_client_error("ok") = 0 BY DEF for_client_error
  <2> QED BY <1>2, <2>1
<1>3. CASE code \in {"Cancelled", "Timeout"}
  <2>1. for_client_error(code) = 7 BY <1>3 DEF for_client_error
  <2> QED BY <2>1
<1>4. CASE code = "TargetExecutionFailed"
  <2>1. for_client_error("TargetExecutionFailed") = 8 BY DEF for_client_error
  <2> QED BY <1>4, <2>1
<1>5. CASE code \in {"ResponseTooLarge", "Internal"}
  <2>1. for_client_error(code) = 10 BY <1>5 DEF for_client_error
  <2> QED BY <2>1
<1> QED BY <1>1, <1>2, <1>3, <1>4, <1>5 DEF Codes

LEMMA AnswerKeeps == ASSUME BrokerInv, NEW r \in Calls, handle_stream(r) PROVE BrokerInv'
<1>1. /\ handler[r].pc = "reply" /\ handler' = [handler EXCEPT ![r] = NoHandler]
      /\ effect' = effect /\ desktop' = desktop /\ connRevision' = connRevision /\ discovery' = discovery
  BY DEF handle_stream, AtHandler, UnchangedFiles, UnchangedSessions
<1>2. /\ handler[r] # NoHandler /\ HandlerAt(handler[r], effect[r]) /\ CallAt(call[r], handler[r], effect[r])
      /\ call[r].pc \in {"await", "done"}
  BY <1>1, HandlerFacts
<1>3. /\ effect' = [effect EXCEPT ![r] = effect[r]] /\ effect[r] \in BOOLEAN
      /\ call = [call EXCEPT ![r] = call[r]]
  BY <1>1, HandlerTypes
<1>4. DOMAIN call[r] = CallFields /\ call[r].named \in BOOLEAN /\ call[r].request \in RequestKind
  BY <1>2, CallFacts
<1>5. HandlerAt(NoHandler, effect[r]) /\ RevisionAt(NoHandler) BY NoHandlerFacts
<1>6. CASE call' = call
  BY <1>1, <1>6, HandlerCloses
<1>7. CASE /\ call[r].pc = "await" /\ handler[r].code = "ok" /\ call[r].named
           /\ call' = [call EXCEPT ![r].pc = "request", ![r].named = FALSE]
  <2> PICK no \in BOOLEAN : no = FALSE OBVIOUS
  <2> DEFINE c == [call[r] EXCEPT !.pc = "request", !.named = no]
  <2>1. call' = [call EXCEPT ![r] = c] BY <1>7 DEF BrokerInv, BrokerTypes
  <2>2. /\ c.request = call[r].request /\ c.named = no /\ c.pc = "request"
        /\ c = [y \in CallFields |-> c[y]]
    BY <1>4 DEF CallFields
  <2>3. CallShape(c) BY <2>2, CallRow
  <2> HIDE DEF c
  <2>4. ~effect[r] BY <1>2, <1>7 DEF CallAt
  <2>5. CallAt(c, NoHandler, effect[r]) BY <1>4, <2>2, <2>3, <2>4 DEF CallAt, CallPcs
  <2> QED BY <1>1, <1>3, <1>5, <2>1, <2>5, CallFrame
<1>8. ASSUME call[r].pc = "await", NEW x, ExitWith(r, x), x \in {2, 4, 5, 6, 9} => ~effect[r],
             x = 0 => ~call[r].named /\ handler[r].code = "ok"
      PROVE  BrokerInv'
  <2> DEFINE c == [call[r] EXCEPT !.pc = "done", !.exit = x]
  <2>1. call' = [call EXCEPT ![r] = c] BY <1>8 DEF ExitWith, BrokerInv, BrokerTypes
  <2>2. /\ c.request = call[r].request /\ c.named = call[r].named /\ c.pc = "done" /\ c.exit = x
        /\ c = [y \in CallFields |-> c[y]]
    BY <1>4 DEF CallFields
  <2>3. CallShape(c) BY <2>2, CallRow
  <2> HIDE DEF c
  <2>4. x = 0 /\ c.request.cmd \in EffectCommands => effect[r]
    BY <1>1, <1>2, <1>8, <2>2 DEF CallAt, HandlerAt
  <2>5. Honest(c, effect[r]) BY <1>8, <2>2, <2>4 DEF Honest
  <2>6. CallAt(c, NoHandler, effect[r]) BY <1>4, <2>2, <2>3, <2>5 DEF CallAt, CallPcs
  <2> QED BY <1>1, <1>3, <1>5, <2>1, <2>6, CallFrame
<1>9. CASE call[r].pc = "await" /\ call[r].named /\ ExitWith(r, USAGE)
  BY <1>2, <1>8, <1>9 DEF CallAt, USAGE
<1>10. CASE /\ call[r].pc = "await" /\ ExitWith(r, for_client_error(handler[r].code))
            /\ ~(handler[r].code = "ok" /\ call[r].named)
  <2>1. /\ handler[r].code \in Codes /\ (handler[r].code \in Blaming => ~effect[r])
    BY <1>1, <1>2 DEF HandlerAt
  <2> QED BY <1>8, <1>10, <2>1, ExitOfCode
<1> QED BY <1>6, <1>7, <1>9, <1>10 DEF handle_stream, AtCall

LEMMA ExchangeKeeps == ASSUME BrokerInv, NEW r \in Calls, exchange_stream(r) PROVE BrokerInv'
<1>1. /\ call[r].pc = "await" /\ handler' = handler /\ effect' = effect /\ desktop' = desktop
      /\ connRevision' = connRevision /\ discovery' = discovery /\ ExitWith(r, RUNTIME_UNAVAILABLE)
  BY DEF exchange_stream, AtCall, UnchangedFiles, UnchangedSessions
<1>2. DOMAIN call[r] = CallFields /\ call[r].named \in BOOLEAN /\ call[r].request \in RequestKind
  BY <1>1, CallFacts
<1> DEFINE c == [call[r] EXCEPT !.pc = "done", !.exit = RUNTIME_UNAVAILABLE]
<1>3. call' = [call EXCEPT ![r] = c] BY <1>1 DEF ExitWith, BrokerInv, BrokerTypes
<1>4. /\ c.request = call[r].request /\ c.named = call[r].named /\ c.pc = "done" /\ c.exit = 3
      /\ c = [y \in CallFields |-> c[y]]
  BY <1>2 DEF CallFields, RUNTIME_UNAVAILABLE
<1>5. CallShape(c) BY <1>4, CallRow
<1> HIDE DEF c
<1>6. CallAt(c, handler[r], effect[r]) BY <1>2, <1>4, <1>5 DEF CallAt, CallPcs
<1>7. HandlerAt(handler[r], effect[r]) /\ RevisionAt(handler[r]) BY DEF BrokerInv
<1>8. /\ effect' = [effect EXCEPT ![r] = effect[r]] /\ handler' = [handler EXCEPT ![r] = handler[r]]
      /\ effect[r] \in BOOLEAN
  BY <1>1, HandlerTypes
<1> QED BY <1>1, <1>3, <1>6, <1>7, <1>8, CallFrame

--------------------------------------------------------------------------------
(* Steps of a desktop. *)

DesktopRow == [life: {"off", "up", "exiting", "gone"}, broker: BrokerPcs,
               exit: {"none", "checking", "unarmed", "waiting", "over"}, compatible: BOOLEAN,
               left: BOOLEAN]

(* The process d goes on to row; its connections stand or are closed. *)
LEMMA DesktopGoesOn ==
    ASSUME BrokerInv, NEW d \in Desktops, NEW row \in DesktopRow,
           desktop' = [desktop EXCEPT ![d] = row],
           call' = call, effect' = effect, connRevision' = connRevision,
           handler' = handler \/ CloseAll(d), discovery' \in {discovery, d, NoRuntime},
           handler' = handler /\ (\E r \in Calls : Serves(d, r)) =>
              row.life \in {"up", "exiting"} /\ row.broker \in {"bound", "serving", "aborting"},
           discovery' = d => /\ row.life # "off"
                             /\ row.life \in {"up", "exiting"} =>
                                   \/ row.broker \in {"serving", "aborting", "reading_own", "removing"}
                                   \/ row.left
    PROVE  BrokerInv'
<1> USE NoHandlerFacts
<1>1. BrokerTypes BY DEF BrokerInv
<1>2. \A r \in Calls : handler'[r] = handler[r] \/ handler'[r] = NoHandler BY <1>1 DEF CloseAll
<1>3. desktop'[d] = row /\ \A d2 \in Desktops \ {d} : desktop'[d2] = desktop[d2] BY <1>1 DEF BrokerTypes
<1>4. BrokerTypes' BY <1>1 DEF BrokerTypes, DesktopRow, CloseAll
<1>5. ASSUME NEW d2 \in Desktops PROVE AnnouncedAt(d2)'
  <2>1. CASE d2 = d
    <3>1. ASSUME NEW r \in Calls, Serves(d, r)'
          PROVE  row.life \in {"up", "exiting"} /\ row.broker \in {"bound", "serving", "aborting"}
      <4>1. ~CloseAll(d) BY <3>1 DEF CloseAll, Serves
      <4>2. handler' = handler BY <4>1
      <4> QED BY <3>1, <4>2 DEF Serves
    <3> QED BY <1>3, <2>1, <3>1 DEF AnnouncedAt, Alive
  <2>2. CASE d2 # d
    <3>1. AnnouncedAt(d2) BY DEF BrokerInv
    <3>2. \A r \in Calls : Serves(d2, r)' => Serves(d2, r) BY <1>2 DEF Serves
    <3>3. discovery' = d2 => discovery = d2 BY <2>2
    <3> QED BY <1>3, <2>2, <3>1, <3>2, <3>3 DEF AnnouncedAt, Alive
  <2> QED BY <2>1, <2>2
<1> QED BY <1>2, <1>4, <1>5, DesktopFrame

LEMMA DesktopFacts ==
    ASSUME BrokerInv, NEW d \in Desktops
    PROVE  /\ desktop[d] \in DesktopRow /\ AnnouncedAt(d) /\ desktop = [x \in Desktops |-> desktop[x]]
BY DEF BrokerInv, BrokerTypes, DesktopRow

(* The broker of d goes on to pc. *)
LEMMA BrokerGoesOn ==
    ASSUME BrokerInv, NEW d \in Desktops, NEW pc \in BrokerPcs, ToBroker(d, pc), Alive(d),
           call' = call, effect' = effect, connRevision' = connRevision,
           handler' = handler \/ CloseAll(d), discovery' \in {discovery, d, NoRuntime},
           handler' = handler /\ (\E r \in Calls : Serves(d, r)) => pc \in {"bound", "serving", "aborting"},
           discovery' = d => pc \in {"serving", "aborting", "reading_own", "removing"} \/ desktop[d].left
    PROVE  BrokerInv'
<1> DEFINE row == [desktop[d] EXCEPT !.broker = pc]
<1>1. desktop[d] \in DesktopRow /\ desktop = [x \in Desktops |-> desktop[x]] BY DesktopFacts
<1>2. desktop' = [desktop EXCEPT ![d] = row] BY <1>1 DEF ToBroker
<1>3. row \in DesktopRow /\ row.life \in {"up", "exiting"} /\ row.broker = pc /\ row.left = desktop[d].left
  BY <1>1 DEF DesktopRow, Alive
<1> HIDE DEF row
<1> QED BY <1>2, <1>3, DesktopGoesOn

LEMMA LifeKeeps ==
    ASSUME BrokerInv, NEW d \in Desktops, start(d) \/ shutdown(d) \/ shutdown_and_wait(d) \/ finish(d)
    PROVE  BrokerInv'
<1> USE NoHandlerFacts
<1>1. desktop[d] \in DesktopRow /\ AnnouncedAt(d) /\ desktop = [x \in Desktops |-> desktop[x]] BY DesktopFacts
<1>2. /\ call' = call /\ effect' = effect /\ connRevision' = connRevision /\ handler' = handler
      /\ discovery' = discovery
  BY DEF start, shutdown, shutdown_and_wait, finish, UnchangedFiles, UnchangedSessions
<1>3. CASE start(d)
  <2> DEFINE row == [desktop[d] EXCEPT !.life = "up", !.broker = "binding"]
  <2>1. desktop' = [desktop EXCEPT ![d] = row] BY <1>1, <1>3 DEF start
  <2>2. row \in DesktopRow BY <1>1 DEF DesktopRow, BrokerPcs
  <2>3. discovery # d /\ ~\E r \in Calls : Serves(d, r) BY <1>1, <1>3 DEF start, AnnouncedAt, Alive
  <2> HIDE DEF row
  <2> QED BY <1>2, <2>1, <2>2, <2>3, DesktopGoesOn
<1>4. CASE shutdown(d)
  <2> DEFINE row == [desktop[d] EXCEPT !.life = "exiting", !.exit = "checking"]
  <2>1. desktop' = [desktop EXCEPT ![d] = row] BY <1>1, <1>4 DEF shutdown
  <2>2. /\ row \in DesktopRow /\ row.life = "exiting" /\ row.broker = desktop[d].broker
        /\ row.left = desktop[d].left
    BY <1>1 DEF DesktopRow
  <2>3. Alive(d) BY <1>4 DEF shutdown, Alive
  <2> HIDE DEF row
  <2> QED BY <1>1, <1>2, <2>1, <2>2, <2>3, DesktopGoesOn DEF AnnouncedAt
<1>5. CASE shutdown_and_wait(d)
  <2>1. PICK x \in {"over", "unarmed", "waiting"} : desktop' = [desktop EXCEPT ![d].exit = x]
    BY <1>5 DEF shutdown_and_wait
  <2> DEFINE row == [desktop[d] EXCEPT !.exit = x]
  <2>2. desktop' = [desktop EXCEPT ![d] = row] BY <1>1, <2>1
  <2>3. /\ row \in DesktopRow /\ row.life = desktop[d].life /\ row.broker = desktop[d].broker
        /\ row.left = desktop[d].left
    BY <1>1 DEF DesktopRow
  <2> HIDE DEF row
  <2> QED BY <1>1, <1>2, <2>2, <2>3, DesktopGoesOn DEF AnnouncedAt, Alive
<1>6. CASE finish(d)
  <2>1. PICK x \in {"none", "checking", "unarmed", "waiting", "over"} :
           desktop' = [desktop EXCEPT ![d].broker = "stopped", ![d].exit = x]
    BY <1>1, <1>6 DEF finish, DesktopRow
  <2> DEFINE row == [desktop[d] EXCEPT !.broker = "stopped", !.exit = x]
  <2>2. desktop' = [desktop EXCEPT ![d] = row] BY <1>1, <2>1
  <2>3. row \in DesktopRow /\ row.left = desktop[d].left /\ row.life = desktop[d].life
    BY <1>1 DEF DesktopRow, BrokerPcs
  <2>4. /\ discovery = d => desktop[d].left /\ desktop[d].life # "off"
        /\ ~\E r \in Calls : Serves(d, r)
    BY <1>1, <1>6 DEF finish, AnnouncedAt
  <2> HIDE DEF row
  <2> QED BY <1>2, <2>2, <2>3, <2>4, DesktopGoesOn
<1> QED BY <1>3, <1>4, <1>5, <1>6

LEMMA ServingKeeps ==
    ASSUME BrokerInv, NEW d \in Desktops,
           Bind(d) \/ publish_discovery(d) \/ LeaveLoop(d) \/ platform_serve(d) \/ serve_at(d)
    PROVE  BrokerInv'
<1> USE NoHandlerFacts DEF BrokerPcs
<1>1. AnnouncedAt(d) BY DesktopFacts
<1>2. CASE Bind(d)
  <2>1. (discovery = d => desktop[d].left) /\ ~\E r \in Calls : Serves(d, r)
    BY <1>1, <1>2 DEF Bind, AnnouncedAt
  <2> QED BY <1>2, <2>1, BrokerGoesOn DEF Bind, UnchangedSessions
<1>7. CloseAll(d) /\ handler' = handler => ~\E r \in Calls : Serves(d, r)
  <2>1. CloseAll(d) => ~\E r \in Calls : Serves(d, r)' BY DEF CloseAll, Serves
  <2> QED BY <2>1 DEF Serves
<1>3. CASE publish_discovery(d)
  <2>1. Alive(d) /\ call' = call /\ effect' = effect /\ connRevision' = connRevision
    BY <1>3 DEF publish_discovery, UnchangedSessions
  <2>2. CASE discovery' = d /\ ToBroker(d, "serving") /\ handler' = handler BY <2>1, <2>2, BrokerGoesOn
  <2>3. CASE discovery' \in {discovery, d} /\ ToBroker(d, "reading_own") /\ CloseAll(d)
    BY <1>7, <2>1, <2>3, BrokerGoesOn
  <2> QED BY <1>3, <2>2, <2>3 DEF publish_discovery
<1>4. CASE LeaveLoop(d)
  BY <1>4, BrokerGoesOn DEF LeaveLoop, UnchangedFiles, UnchangedSessions
<1>5. CASE platform_serve(d)
  <2> QED BY <1>5, <1>7, BrokerGoesOn DEF platform_serve, UnchangedSessions
<1>6. CASE serve_at(d)
  <2>1. ~\E r \in Calls : Serves(d, r) BY <1>1, <1>6 DEF serve_at, remove_if_owned, AnnouncedAt
  <2>2. /\ Alive(d) /\ call' = call /\ effect' = effect /\ connRevision' = connRevision
        /\ handler' = handler
    BY <1>6 DEF serve_at, remove_if_owned, UnchangedSessions
  <2>3. \/ discovery = d /\ ToBroker(d, "removing") /\ discovery' = discovery
        \/ discovery # d /\ ToBroker(d, "finishing") /\ discovery' = discovery
        \/ ToBroker(d, "finishing") /\ discovery' = NoRuntime
        \/ /\ desktop' = [desktop EXCEPT ![d].broker = "finishing", ![d].left = discovery = d]
           /\ discovery' = discovery
    BY <1>6 DEF serve_at, remove_if_owned
  <2>5. CASE /\ desktop' = [desktop EXCEPT ![d].broker = "finishing", ![d].left = discovery = d]
             /\ discovery' = discovery
    <3> PICK left \in BOOLEAN : left = (discovery = d) OBVIOUS
    <3> DEFINE row == [desktop[d] EXCEPT !.broker = "finishing", !.left = left]
    <3>1. desktop[d] \in DesktopRow /\ desktop = [x \in Desktops |-> desktop[x]] BY DesktopFacts
    <3>2. desktop' = [desktop EXCEPT ![d] = row] BY <2>5, <3>1
    <3>3. row \in DesktopRow /\ row.left = left /\ row.life = desktop[d].life BY <3>1 DEF DesktopRow
    <3>4. discovery' = d => row.life # "off" /\ row.left BY <1>1, <2>5, <3>3 DEF AnnouncedAt
    <3>5. discovery' \in {discovery, d, NoRuntime} /\ handler' = handler BY <2>2, <2>5
    <3> HIDE DEF row
    <3> QED BY <2>1, <2>2, <3>2, <3>3, <3>4, <3>5, DesktopGoesOn
  <2> QED BY <2>1, <2>2, <2>3, <2>5, BrokerGoesOn
<1> QED BY <1>2, <1>3, <1>4, <1>5, <1>6

LEMMA EndKeeps ==
    ASSUME BrokerInv, NEW d \in Desktops, ExitProcess(d) \/ CrashProcess(d) PROVE BrokerInv'
<1> USE NoHandlerFacts
<1>1. desktop[d] \in DesktopRow /\ desktop = [x \in Desktops |-> desktop[x]] BY DesktopFacts
<1> DEFINE row == [desktop[d] EXCEPT !.life = "gone", !.broker = "off", !.exit = "none", !.left = FALSE]
<1>2. desktop' = [desktop EXCEPT ![d] = row] BY <1>1 DEF ExitProcess, CrashProcess, EndProcess
<1>3. row \in DesktopRow /\ row.life = "gone" BY <1>1 DEF DesktopRow, BrokerPcs
<1> HIDE DEF row
<1>4. /\ call' = call /\ effect' = effect /\ connRevision' = connRevision /\ CloseAll(d)
      /\ discovery' = discovery
  BY DEF ExitProcess, CrashProcess, EndProcess, UnchangedFiles
<1>5. handler' = handler => ~\E r \in Calls : Serves(d, r)
  <2>1. ~\E r \in Calls : Serves(d, r)' BY <1>4 DEF CloseAll, Serves
  <2> QED BY <2>1 DEF Serves
<1> QED BY <1>2, <1>3, <1>4, <1>5, DesktopGoesOn

(* Nothing the invariant speaks of changes. *)
LEMMA BrokerStands ==
    ASSUME BrokerInv, desktop' = desktop, discovery' = discovery, call' = call, handler' = handler,
           effect' = effect, connRevision' = connRevision
    PROVE  BrokerInv'
BY DEF BrokerInv, BrokerTypes, CallAt, HandlerAt, RevisionAt, AnnouncedAt, Serves, Alive

(* An edit waits until no handler of its own process holds a pin. *)
LEMMA EditKeeps == ASSUME BrokerInv, NEW d \in Desktops, EditConnection(d) PROVE BrokerInv'
<1>1. /\ GateHolders(d) = {} /\ connRevision' = [number |-> connRevision.number + 1, by |-> d]
      /\ desktop' = desktop /\ discovery' = discovery /\ call' = call /\ handler' = handler /\ effect' = effect
  BY DEF EditConnection, UnchangedFiles
<1>2. connRevision'.by = d BY <1>1
<1>3. ASSUME NEW r \in Calls PROVE RevisionAt(handler[r])'
  <2>1. handler[r].pc \in {"target", "held"} => handler[r].d # d
    BY <1>1, NoHandlerFacts DEF GateHolders, Serves
  <2> QED BY <1>1, <1>2, <2>1 DEF RevisionAt
<1>4. BrokerTypes' /\ \A d2 \in Desktops : AnnouncedAt(d2)'
  BY <1>1 DEF BrokerInv, BrokerTypes, AnnouncedAt, Serves, Alive
<1>5. \A r \in Calls : (CallAt(call[r], handler[r], effect[r]) /\ HandlerAt(handler[r], effect[r]))'
  BY <1>1 DEF BrokerInv, CallAt, HandlerAt
<1> QED BY <1>3, <1>4, <1>5 DEF BrokerInv

LEMMA AcceptKeeps ==
    ASSUME BrokerInv, NEW d \in Desktops, NEW r \in Calls, AcceptConnection(d, r) PROVE BrokerInv'
<1>1. /\ handler[r].pc = "queued" /\ desktop' = desktop /\ discovery' = discovery /\ call' = call
      /\ effect' = effect /\ connRevision' = connRevision /\ UnchangedOthers
  BY DEF AcceptConnection, UnchangedFiles, UnchangedSessions, UnchangedOthers
<1>2. CASE handler' = [handler EXCEPT ![r] = NoHandler] BY <1>1, <1>2, HandlerCloses
<1>3. CASE ToHandler(r, "reading")
  <2>1. effect[r] = FALSE /\ effect' = [effect EXCEPT ![r] = FALSE] BY <1>1, QuietBefore, HandlerTypes
  <2> QED BY <1>1, <1>3, <2>1, HandlerMoves DEF HandlerPcs
<1>4. \/ handler' = [handler EXCEPT ![r] = [handler[r] EXCEPT !.pc = "reading"]]
      \/ handler' = [handler EXCEPT ![r] = NoHandler]
  BY DEF AcceptConnection
<1>5. handler = [q \in Calls |-> handler[q]] BY DEF BrokerInv, BrokerTypes
<1> QED BY <1>2, <1>3, <1>4, <1>5 DEF ToHandler

--------------------------------------------------------------------------------
(* The invariant of the broker and its clients: LocalBroker's start, and   *)
(* every step of a desktop, a handler and a client, keep what BrokerInv    *)
(* says of an answer and of the effect behind it.                          *)
THEOREM BrokerInvariance == BrokerSpec => []BrokerInv
<1>1. BrokerInit => BrokerInv
  <2> SUFFICES ASSUME BrokerInit PROVE BrokerInv OBVIOUS
  <2> USE NoHandlerFacts
  <2>1. BrokerTypes BY DEF BrokerInit, BrokerTypes, BrokerPcs
  <2>2. ASSUME NEW r \in Calls
        PROVE  /\ CallAt(call[r], handler[r], effect[r])
               /\ HandlerAt(handler[r], effect[r]) /\ RevisionAt(handler[r])
    <3>1. handler[r] = NoHandler /\ effect[r] = FALSE BY DEF BrokerInit
    <3>2. call[r].pc = "idle" /\ call[r].request \in RequestKind BY BrokerAssumption DEF BrokerInit
    <3> QED BY <3>1, <3>2 DEF CallAt
  <2>3. ASSUME NEW d \in Desktops PROVE AnnouncedAt(d)
    BY DEF BrokerInit, AnnouncedAt, Serves
  <2> QED BY <2>1, <2>2, <2>3 DEF BrokerInv
<1>2. BrokerInv /\ [BrokerNext]_brokerVars => BrokerInv'
  <2> SUFFICES ASSUME BrokerInv, [BrokerNext]_brokerVars PROVE BrokerInv' OBVIOUS
  <2>1. CASE UNCHANGED brokerVars BY <2>1, BrokerStands DEF brokerVars
  <2>2. ASSUME NEW d \in Desktops,
               \/ start(d) \/ BrokerStep(d) \/ LeaveLoop(d) \/ shutdown(d) \/ ExitStep(d)
               \/ CrashProcess(d)
        PROVE  BrokerInv'
    BY <2>2, LifeKeeps, ServingKeeps, EndKeeps DEF BrokerStep, ExitStep
  <2>3. ASSUME NEW d \in Desktops,
               issue(d) \/ ExpireSession(d) \/ revoke(d) \/ begin_scope_mutation(d)
        PROVE  BrokerInv'
    BY <2>3, BrokerStands DEF issue, ExpireSession, revoke, begin_scope_mutation, UnchangedFiles
  <2>4. ASSUME NEW r \in Calls, HandlerStep(r) PROVE BrokerInv'
    BY <2>4, DispatchKeeps, ResolveKeeps, PublicKeeps, TestKeeps, CatalogKeeps, PlanKeeps, RunKeeps,
       ProposeKeeps, OperationKeeps, TargetKeeps, AnswerKeeps
       DEF HandlerStep
  <2>5. ASSUME NEW r \in Calls, \/ StartCall(r) \/ CallStep(r) \/ launch_desktop(r)
                               \/ ReadTimesOut(r)
        PROVE  BrokerInv'
    BY <2>5, StartKeeps, LaunchKeeps, DiscoverKeeps, RemoveStaleKeeps, RequestKeeps, ExchangeKeeps, ReadTimeoutKeeps
       DEF CallStep
  <2> QED BY <2>1, <2>2, <2>3, <2>4, <2>5, EditKeeps, AcceptKeeps DEF BrokerNext
<1> QED BY <1>1, <1>2, PTL DEF BrokerSpec

(* The exit code a script sees tells what its command did, operation       *)
(* cancel excepted, whose 0 promises nothing: the code of an answer is     *)
(* fixed in dispatch.rs after the effect is decided, client.rs   *)
(* turns it into the exit code, and a lost answer is never 0 or blame.     *)
THEOREM ExitCodesStayHonest == BrokerSpec => []ExitCodeIsHonest
<1>1. BrokerInv => ExitCodeIsHonest
  BY DEF BrokerInv, CallAt, Honest, ExitCodeIsHonest
<1> QED BY <1>1, BrokerInvariance, PTL

(* A broker that reports itself stopped serves nobody and is announced     *)
(* only by a file it could not read or remove (serve_at, remove_if_owned,  *)
(* finish), for any number of desktops.                                    *)
THEOREM StoppedBrokersStayQuiet == BrokerSpec => []StoppedBrokerIsQuiet
<1>1. BrokerInv => StoppedBrokerIsQuiet
  BY DEF BrokerInv, AnnouncedAt, StoppedBrokerIsQuiet, Active
<1> QED BY <1>1, BrokerInvariance, PTL

(* A command reaches the target under the revision of its session, unless  *)
(* another desktop edited it: ensure_pin compares under the scope gate.    *)
THEOREM TargetStaysUnderItsRevision == BrokerSpec => []TargetUnderItsRevision
<1>1. BrokerInv => TargetUnderItsRevision
  BY DEF BrokerInv, RevisionAt, TargetUnderItsRevision, AtHandler, PinIsCurrent
<1> QED BY <1>1, BrokerInvariance, PTL
================================================================================
