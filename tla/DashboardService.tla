---------------------------- MODULE DashboardService ----------------------------
(***************************************************************************)
(* Saved dashboards (services/dashboard_service.rs, dashboard.rs and the   *)
(* history queries of store/mod.rs): a dashboard is saved by the desktop   *)
(* or made by an agent from a query run of its own, and run again later,   *)
(* when the connection may be another than the one it was saved for.       *)
(*                                                                         *)
(* One shared connection of one team is enough to show it.  The scope gate *)
(* stops the edits of this process only, so the scope, the connection and  *)
(* its grants may change between any two steps, by another process on the  *)
(* same app.db.  That a pin compares equal only to the rows it was made    *)
(* from is CurrentPinIsFaithful of PinnedConnections, and used here.       *)
(***************************************************************************)
EXTENDS Integers

CONSTANTS
    DashUsers,     \* accounts of the team
    DashRequests,  \* requests to the service
    BoardIds,      \* ids of dashboards
    BoardTexts,    \* SQL texts: "pg" is a read to PostgreSQL and not to MySQL
    MaxDashEdits   \* bound on query runs and on changes from outside

VARIABLES
    selection,  \* the active scope: workspace, account, generation
    target,     \* the connection: engine, grants, revision
    runRows,    \* query_history: rows, which are never changed
    board,      \* board[d]: a dashboard, or NoBoard
    dashReq,    \* dashReq[r]: where a request stands
    dashEdits   \* the number of runs and changes so far

dashVars == <<selection, target, runRows, board, dashReq, dashEdits>>

NoBoard == [none |-> TRUE]
IdleReq == [pc |-> "idle"]

(* safety::classify, for the texts in use. *)
classify_for(sql, engine) ==
    IF sql = "select" \/ (sql = "pg" /\ engine = "postgres") THEN "read" ELSE "write"

DashInit ==
    /\ selection = [ws |-> "team", user |-> CHOOSE u \in DashUsers : TRUE, gen |-> 0]
    /\ target = [engine |-> "postgres", access |-> [u \in DashUsers |-> "read"], rev |-> 1, deleted |-> FALSE]
    /\ runRows = {}
    /\ board = [d \in BoardIds |-> NoBoard]
    /\ dashReq = [r \in DashRequests |-> IdleReq]
    /\ dashEdits = 0

AtDash(r, pc) == dashReq[r].pc = pc
DashGoto(r, q) == dashReq' = [dashReq EXCEPT ![r] = q]
DashEnd(r) == DashGoto(r, IdleReq)
DashEdit == dashEdits < MaxDashEdits /\ dashEdits' = dashEdits + 1

(* pin_connection_for_view and pin_connection_for_read of the connection.  *)
Viewable == selection.ws = "team" /\ ~target.deleted
PinNow == [selection |-> selection, target |-> target]
Readable(pin) == pin.target.access[pin.selection.user] = "read"
PinIsCurrentNow(pin) == Viewable /\ pin = PinNow

(* The SQL is classified anew for the engine of the pin; title, text and   *)
(* columns may be invalid too.                                             *)
validate_draft(sql, engine) == classify_for(sql, engine) = "read"

--------------------------------------------------------------------------------
(* run *)

(* get_dashboard asks for the workspace only, the pin comes after it. *)
get_dashboard(r, d) ==
    /\ AtDash(r, "idle")
    /\ board[d] # NoBoard /\ ~board[d].deleted /\ Viewable
    /\ DashGoto(r, [pc |-> "pin", sql |-> board[d].sql])
    /\ UNCHANGED <<selection, target, runRows, board, dashEdits>>

RunRecord(r, status, kind) ==
    DashGoto(r, [pc |-> "record", sql |-> dashReq[r].sql, pin |-> dashReq[r].pin, status |-> status, kind |-> kind])

(* Mutant: what was valid when it was saved is taken to be valid.          *)
validate_stored_mutant(r) ==
    /\ AtDash(r, "validate")
    /\ DashGoto(r, [dashReq[r] EXCEPT !.pc = "connect"])
    /\ UNCHANGED <<selection, target, runRows, board, dashEdits>>

(* The stored definition is judged again; a refusal is recorded. *)
validate_stored(r) ==
    /\ AtDash(r, "validate")
    /\ LET kind == classify_for(dashReq[r].sql, dashReq[r].pin.target.engine)
       IN  IF validate_draft(dashReq[r].sql, dashReq[r].pin.target.engine)
           THEN DashGoto(r, [dashReq[r] EXCEPT !.pc = "connect"]) \/ RunRecord(r, "blocked", kind)
           ELSE RunRecord(r, "blocked", kind)
    /\ UNCHANGED <<selection, target, runRows, board, dashEdits>>

pin_connection(r) ==
    /\ AtDash(r, "pin")
    /\ IF Viewable /\ Readable(PinNow)
       THEN DashGoto(r, [pc |-> "validate", sql |-> dashReq[r].sql, pin |-> PinNow])
       ELSE DashEnd(r)
    /\ UNCHANGED <<selection, target, runRows, board, dashEdits>>

(* The settings cannot be read or the connection is no SQL one: the run    *)
(* ends without a record.  It cannot be opened, or is not the pinned one   *)
(* any more: the run is recorded.  Else the statement is sent.             *)
connect_dashboard(r) ==
    /\ AtDash(r, "connect")
    /\ \/ DashEnd(r)
       \/ RunRecord(r, "error", "read")
       \/ /\ PinIsCurrentNow(dashReq[r].pin) /\ Readable(dashReq[r].pin)
          /\ DashGoto(r, [dashReq[r] EXCEPT !.pc = "target"])
    /\ UNCHANGED <<selection, target, runRows, board, dashEdits>>

(* An answer, an error, a cancellation or the timeout of cancel::guard. *)
run_read_only(r) ==
    /\ AtDash(r, "target")
    /\ \E status \in {"ok", "error"} : RunRecord(r, status, "read")
    /\ UNCHANGED <<selection, target, runRows, board, dashEdits>>

HistoryRow(user, sql, origin, status, kind) ==
    [user |-> user, sql |-> sql, origin |-> origin, status |-> status, kind |-> kind]

(* Audit and history are both tried; the history row is written only under *)
(* the pin, and what fails is logged.                                      *)
record_dashboard_run(r) ==
    LET q == dashReq[r] IN
    /\ AtDash(r, "record")
    /\ \/ UNCHANGED runRows
       \/ /\ PinIsCurrentNow(q.pin) /\ Readable(q.pin)
          /\ runRows' = runRows \cup {HistoryRow(q.pin.selection.user, q.sql, "dashboard", q.status, q.kind)}
    /\ DashEnd(r)
    /\ UNCHANGED <<selection, target, board, dashEdits>>

--------------------------------------------------------------------------------
(* save, delete, and dashboards made by agents *)

(* save_dashboard_if_current: writer lock, check and insert. *)
save_dashboard(r, d) ==
    LET q == dashReq[r] IN
    /\ AtDash(r, "save")
    /\ IF validate_draft(q.sql, q.pin.target.engine) /\ PinIsCurrentNow(q.pin) /\ board[d] = NoBoard
       THEN \/ UNCHANGED board
            \/ board' = [board EXCEPT ![d] = [sql |-> q.sql, by |-> q.by, user |-> q.pin.selection.user,
                                              deleted |-> FALSE]]
       ELSE UNCHANGED board
    /\ DashEnd(r)
    /\ UNCHANGED <<selection, target, runRows, dashEdits>>

save(r, sql) ==
    /\ AtDash(r, "idle") /\ Viewable
    /\ DashGoto(r, [pc |-> "save", sql |-> sql, pin |-> PinNow, by |-> "desktop"])
    /\ UNCHANGED <<selection, target, runRows, board, dashEdits>>

delete_dashboard(d) ==
    /\ board[d] # NoBoard /\ ~board[d].deleted /\ Viewable /\ DashEdit
    /\ board' = [board EXCEPT ![d].deleted = TRUE]
    /\ UNCHANGED <<selection, target, runRows, dashReq>>

is_eligible_agent_run(row) == row.origin = "agent" /\ row.status = "ok" /\ row.kind = "read"

(* prepare_agent_create: the run is looked up among those of the scope, in *)
(* one snapshot with its generation, ...                                   *)
resolve_history_for_dashboard_prepare(r, row) ==
    /\ AtDash(r, "idle")
    /\ Viewable /\ row.user = selection.user
    /\ is_eligible_agent_run(row)
    /\ DashGoto(r, [pc |-> "resolved", row |-> row, selection |-> selection])
    /\ UNCHANGED <<selection, target, runRows, board, dashEdits>>

(* ... its connection is pinned, to view it only, ... *)
pin_dashboard_connection(r) ==
    /\ AtDash(r, "resolved")
    /\ IF Viewable
       THEN DashGoto(r, [pc |-> "reread", row |-> dashReq[r].row, selection |-> dashReq[r].selection,
                         pin |-> PinNow])
       ELSE DashEnd(r)
    /\ UNCHANGED <<selection, target, runRows, board, dashEdits>>

(* Mutant: the run is not looked up again under the pin. *)
get_history_if_current_mutant(r) ==
    LET q == dashReq[r] IN
    /\ AtDash(r, "reread")
    /\ DashGoto(r, [pc |-> "save", sql |-> q.row.sql, pin |-> q.pin, by |-> "agent"])
    /\ UNCHANGED <<selection, target, runRows, board, dashEdits>>

(* ... and the run read again under that pin, if the scope is the same.    *)
get_history_if_current(r) ==
    LET q == dashReq[r] IN
    /\ AtDash(r, "reread")
    /\ IF /\ q.selection = q.pin.selection /\ PinIsCurrentNow(q.pin)
          /\ q.row \in runRows /\ q.row.user = q.pin.selection.user
          /\ is_eligible_agent_run(q.row)
       THEN DashGoto(r, [pc |-> "save", sql |-> q.row.sql, pin |-> q.pin, by |-> "agent"])
       ELSE DashEnd(r)
    /\ UNCHANGED <<selection, target, runRows, board, dashEdits>>

--------------------------------------------------------------------------------
(* The surroundings. *)

(* A query of the selected account ends and is recorded (SqlExecution). *)
QueryRun(origin, status, sql) ==
    /\ DashEdit /\ Viewable /\ Readable(PinNow)
    /\ runRows' = runRows \cup {HistoryRow(selection.user, sql, origin, status, classify_for(sql, target.engine))}
    /\ UNCHANGED <<selection, target, board, dashReq>>

Select(w, u) ==
    /\ DashEdit
    /\ <<w, u>> # <<selection.ws, selection.user>>
    /\ selection' = [ws |-> w, user |-> u, gen |-> selection.gen + 1]
    /\ UNCHANGED <<target, runRows, board, dashReq>>

EditTarget ==
    /\ DashEdit
    /\ \/ \E e \in {"postgres", "mysql"} \ {target.engine} :
             target' = [target EXCEPT !.engine = e, !.rev = @ + 1]
       \/ \E u \in DashUsers : target' = [target EXCEPT !.access[u] = "view", !.rev = @ + 1]
       \/ target' = [target EXCEPT !.deleted = TRUE, !.rev = @ + 1]
    /\ UNCHANGED <<selection, runRows, board, dashReq>>

DashNext ==
    \/ \E r \in DashRequests :
          \/ \E d \in BoardIds : get_dashboard(r, d) \/ save_dashboard(r, d)
          \/ pin_connection(r) \/ validate_stored(r) \/ connect_dashboard(r) \/ run_read_only(r)
          \/ record_dashboard_run(r)
          \/ \E sql \in BoardTexts : save(r, sql)
          \/ \E row \in runRows : resolve_history_for_dashboard_prepare(r, row)
          \/ pin_dashboard_connection(r) \/ get_history_if_current(r)
    \/ \E d \in BoardIds : delete_dashboard(d)
    \/ \E origin \in {"agent", "manual"}, status \in {"ok", "error"}, sql \in BoardTexts :
          QueryRun(origin, status, sql)
    \/ \E w \in {"team", "elsewhere"}, u \in DashUsers : Select(w, u)
    \/ EditTarget

DashSpec == DashInit /\ [][DashNext]_dashVars

--------------------------------------------------------------------------------
(* Properties. *)

(* What an agent saves as a dashboard is a read that it has run itself,    *)
(* with success, under the account the dashboard is saved by: a run of     *)
(* another account of the team is out of reach, however the scope moves    *)
(* while the request is under way (prepare_agent_create).                  *)
AgentDashboardHasItsRun ==
    \A d \in BoardIds : board[d] # NoBoard /\ board[d].by = "agent" =>
        \E row \in runRows : /\ row.sql = board[d].sql /\ row.user = board[d].user
                             /\ row.origin = "agent" /\ row.status = "ok"

(* A dashboard reaches the target only with a statement that is a read to  *)
(* the engine it is sent to, also when the connection was changed to       *)
(* another engine since it was saved (run).                                *)
DashboardsOnlyRead ==
    \A r \in DashRequests :
        AtDash(r, "target") => classify_for(dashReq[r].sql, dashReq[r].pin.target.engine) = "read"

(* A dashboard only ever reads: what an agent saves is a read of its own   *)
(* that succeeded, and what is run is still a read to the engine it is     *)
(* sent to.                                                                *)
DashboardsAreReads == AgentDashboardHasItsRun /\ DashboardsOnlyRead
================================================================================
