--------------------------- MODULE PinnedConnections ----------------------------
(***************************************************************************)
(* Connection rows, their per-account bindings and what is published under *)
(* a pin of them: query history, catalog cache and dashboards              *)
(* (store/mod.rs).  A long operation pins scope, revisions and profile in  *)
(* one SQLite snapshot and presents the pin again with every write;        *)
(* meanwhile another process on the same app.db may switch the scope, edit *)
(* or delete the connection, or apply a list of shared connections that    *)
(* was fetched before the control plane changed.                           *)
(*                                                                         *)
(* The scope is the contract ActiveScope, together with the memberships    *)
(* the store keeps.                                                        *)
(***************************************************************************)
EXTENDS Naturals, Sequences, FiniteSets

CONSTANTS
    Teams, Users, Personal, NoUser,
    LocalIds, SharedIds,  \* connection ids made here and by the control plane
    Contents,             \* what a local profile may say
    Creds,                \* credentials an account may bind to a shared profile
    Dashboards,           \* dashboard ids
    PinOps,               \* operations that hold a pin
    MaxPinEdits              \* bound on writes, here and at the control plane

ASSUME PinAssumption ==
    /\ Personal \notin Teams /\ NoUser \notin Users
    /\ LocalIds \cap SharedIds = {}
    /\ MaxPinEdits \in Nat

VARIABLES
    workspace, account, generation,  \* the active scope
    members,    \* members[t]: accounts with an active membership
    conn,       \* conn[c]: the row of a connection, or NoRow
    binding,    \* binding[c][u]: the row of workspace_connection_bindings, or NoRow
    clock,      \* the wall clock, as far as binding writes read it
    template,   \* template[c]: the shared connection at the control plane
    fetched,    \* a list of shared connections between its request and its use
    pinOp,      \* pinOp[o]: the pin an operation holds, and what it looked up
    history,    \* query_history: under which scope and profile each row was run
    cache,      \* cache[c]: rows of schema_cache_v2, one per workspace and account
    dash,       \* dash[d]: the row of a dashboard, or NoRow
    outbox,     \* sync_outbox
    pinEdits       \* the number of writes made

scope == <<workspace, account, generation>>
connRows == <<conn, binding, clock>>
artifacts == <<history, cache, dash, outbox>>
pinVars == <<scope, members, connRows, template, fetched, pinOp, artifacts, pinEdits>>

NoRow == [none |-> TRUE]
Conns == LocalIds \cup SharedIds
Workspaces == Teams \cup {Personal}

Contract == INSTANCE ActiveScope WITH
    workspace <- workspace, account <- account, generation <- generation

Edit == pinEdits < MaxPinEdits /\ pinEdits' = pinEdits + 1

(* A desktop whose accounts have each synchronized their team once. *)
PinInit ==
    /\ workspace \in Workspaces /\ account \in Users \cup {NoUser}
    /\ Contract!ValidScope(workspace, account)
    /\ generation = 0
    /\ members = [t \in Teams |-> Users]
    /\ template \in [SharedIds -> [team : Teams, rev : {1}, access : {[u \in Users |-> "read"]}]]
    /\ conn = [c \in Conns |->
                 IF c \in LocalIds THEN NoRow
                 ELSE [ws |-> template[c].team, owner |-> NoUser, rev |-> 1, deleted |-> FALSE,
                       content |-> "shared"]]
    /\ binding = [c \in SharedIds |->
                    [u \in Users |-> [rev |-> 1, at |-> 0, access |-> "read", cred |-> "none"]]]
    /\ clock = 0
    /\ fetched = NoRow
    /\ pinOp = [o \in PinOps |-> NoRow]
    /\ history = {} /\ cache = [c \in Conns |-> {}]
    /\ dash = [d \in Dashboards |-> NoRow]
    /\ outbox = <<>>
    /\ pinEdits = 0

--------------------------------------------------------------------------------
(* Reading rows. *)

(* AccountScope::storage_key *)
storage_key(w, a) == IF w = Personal THEN "personal" ELSE a

IsMember(w, a) == w # Personal => a \in members[w]

(* The row is of the workspace, alive, and shared or the account's own. *)
Visible(c, w, a) ==
    /\ conn[c] # NoRow /\ ~conn[c].deleted /\ conn[c].ws = w
    /\ w = Personal \/ c \in SharedIds \/ conn[c].owner = a

(* row_to_connection_with_binding: a shared profile takes its credentials  *)
(* and its access from the binding of the account.                         *)
ProfileOf(c, a) ==
    IF c \in LocalIds THEN [content |-> conn[c].content, cred |-> "own", access |-> "local"]
    ELSE [content |-> conn[c].rev, cred |-> binding[c][a].cred, access |-> binding[c][a].access]

BindingRev(c, a) == IF c \in LocalIds THEN 0 ELSE binding[c][a].rev
BindingAt(c, a) == IF c \in LocalIds THEN 0 ELSE binding[c][a].at

HasMaterial(c, a) == c \in SharedIds => a \in Users /\ binding[c][a] # NoRow

Material(c) == [ws |-> workspace, account |-> account, generation |-> generation, conn |-> c,
                rev |-> conn[c].rev, brev |-> BindingRev(c, account), bat |-> BindingAt(c, account),
                profile |-> ProfileOf(c, account)]

CanRead(profile) == profile.access \in {"local", "read", "write"}

is_pin_current_mutant(pin, allow_view) ==
    /\ pin.ws = workspace /\ pin.account = account /\ pin.generation = generation
    /\ IsMember(workspace, account)
    /\ Visible(pin.conn, workspace, account) /\ HasMaterial(pin.conn, account)
    /\ conn[pin.conn].rev = pin.rev
    /\ BindingRev(pin.conn, account) = pin.brev

(* The query every conditional write repeats: scope, revisions and access  *)
(* as they were pinned.                                                    *)
is_pin_current_with_access(pin, allow_view) ==
    /\ pin.ws = workspace /\ pin.account = account /\ pin.generation = generation
    /\ IsMember(workspace, account)
    /\ Visible(pin.conn, workspace, account) /\ HasMaterial(pin.conn, account)
    /\ conn[pin.conn].rev = pin.rev
    /\ BindingRev(pin.conn, account) = pin.brev
    /\ BindingAt(pin.conn, account) = pin.bat
    /\ allow_view \/ CanRead(ProfileOf(pin.conn, account))

--------------------------------------------------------------------------------
(* Writing rows: local connections. *)

enqueue_outbox(type, id, operation, rev) ==
    outbox' = Append(outbox, [type |-> type, id |-> id, operation |-> operation, rev |-> rev])

(* upsert_connection takes the writer lock before it reads the scope.  An  *)
(* id that is in use must be this scope's local connection; a tombstone    *)
(* comes back with the next revision.                                      *)
upsert_connection(c, content) ==
    LET owner == IF workspace = Personal THEN NoUser ELSE account
        next  == IF conn[c] = NoRow THEN 1 ELSE conn[c].rev + 1
    IN  /\ c \in LocalIds /\ Edit
        /\ IsMember(workspace, account)
        /\ conn[c] # NoRow => conn[c].ws = workspace /\ conn[c].owner = owner
        /\ conn' = [conn EXCEPT ![c] = [ws |-> workspace, owner |-> owner, rev |-> next,
                                        deleted |-> FALSE, content |-> content]]
        /\ enqueue_outbox("connection", c, "upsert", next)
        /\ UNCHANGED <<scope, members, binding, clock, template, fetched, pinOp, history, cache, dash>>

(* set_connections_schema_group, for one id: the group is content, the     *)
(* profile is otherwise kept.                                              *)
set_connections_schema_group(c, content) ==
    /\ c \in LocalIds /\ Visible(c, workspace, account) /\ Edit
    /\ conn' = [conn EXCEPT ![c].rev = @ + 1, ![c].content = content]
    /\ enqueue_outbox("connection", c, "upsert", conn[c].rev + 1)
    /\ UNCHANGED <<scope, members, binding, clock, template, fetched, pinOp, history, cache, dash>>

delete_connection(c) ==
    /\ c \in LocalIds /\ Visible(c, workspace, account) /\ Edit
    /\ conn' = [conn EXCEPT ![c].rev = @ + 1, ![c].deleted = TRUE]
    /\ enqueue_outbox("connection", c, "delete", conn[c].rev + 1)
    /\ UNCHANGED <<scope, members, binding, clock, template, fetched, pinOp, history, cache, dash>>

--------------------------------------------------------------------------------
(* Writing rows: shared connections. *)

(* remote_connections: what the control plane lists for u at this moment.  *)
remote_connections(t, u) ==
    /\ fetched = NoRow
    /\ fetched' = [team |-> t, user |-> u,
                   list |-> [c \in {x \in SharedIds : template[x].team = t /\ template[x].access[u] # "none"}
                               |-> [rev |-> template[c].rev, access |-> template[c].access[u]]]]
    /\ UNCHANGED <<scope, members, connRows, template, pinOp, artifacts, pinEdits>>

(* The request or the transaction failed: the cached rows stay. *)
SyncDeferred ==
    /\ fetched # NoRow
    /\ fetched' = NoRow
    /\ UNCHANGED <<scope, members, connRows, template, pinOp, artifacts, pinEdits>>

(* A binding is written only when it differs, and then gets a revision and *)
(* the time.                                                               *)
SyncedBinding(b, access) ==
    IF b = NoRow THEN [rev |-> 1, at |-> clock + 1, access |-> access, cred |-> "none"]
    ELSE IF b.access = access THEN b
    ELSE [b EXCEPT !.rev = @ + 1, !.at = clock + 1, !.access = access]

(* sync_remote_connections: rows that are not listed are tombstoned and    *)
(* lose the bindings of every account; listed ones take the revision of    *)
(* the list, which may be an older one.                                    *)
sync_remote_connections ==
    LET t == fetched.team  u == fetched.user  list == fetched.list IN
    /\ fetched # NoRow /\ Edit
    /\ fetched' = NoRow
    /\ IF u \notin members[t] THEN UNCHANGED connRows
       ELSE /\ clock' = clock + 1
            /\ conn' = [c \in Conns |->
                  IF c \in DOMAIN list
                  THEN [ws |-> t, owner |-> NoUser, rev |-> list[c].rev, deleted |-> FALSE, content |-> "shared"]
                  ELSE IF c \in SharedIds /\ conn[c] # NoRow /\ conn[c].ws = t
                  THEN [conn[c] EXCEPT !.deleted = TRUE] ELSE conn[c]]
            /\ binding' = [c \in SharedIds |->
                  IF c \in DOMAIN list
                  THEN [binding[c] EXCEPT ![u] = SyncedBinding(@, list[c].access)]
                  ELSE IF conn[c] # NoRow /\ conn[c].ws = t THEN [v \in Users |-> NoRow] ELSE binding[c]]
    /\ UNCHANGED <<scope, members, template, pinOp, artifacts>>

(* purge_remote_connection_cache deletes the row and, by its foreign keys, *)
(* everything that hangs on it.                                            *)
purge_remote_connection_cache(c) ==
    /\ c \in SharedIds /\ conn[c] # NoRow /\ Edit
    /\ conn' = [conn EXCEPT ![c] = NoRow]
    /\ binding' = [binding EXCEPT ![c] = [u \in Users |-> NoRow]]
    /\ history' = {h \in history : h.conn # c}
    /\ cache' = [cache EXCEPT ![c] = {}]
    /\ dash' = [d \in Dashboards |-> IF dash[d] # NoRow /\ dash[d].conn = c
                                       THEN [dash[d] EXCEPT !.purged = TRUE] ELSE dash[d]]
    /\ UNCHANGED <<scope, members, clock, template, fetched, pinOp, outbox>>

bind_connection_credentials(c, u, cred) ==
    LET b == binding[c][u] IN
    /\ conn[c] # NoRow /\ ~conn[c].deleted /\ u \in members[conn[c].ws]
    /\ b # NoRow /\ b.access # "view"
    /\ b.cred # cred /\ Edit
    /\ clock' = clock + 1
    /\ binding' = [binding EXCEPT ![c][u] = [b EXCEPT !.cred = cred, !.rev = @ + 1, !.at = clock + 1]]
    /\ UNCHANGED <<scope, members, conn, template, fetched, pinOp, artifacts>>

--------------------------------------------------------------------------------
(* Pins. *)

(* pin_connection_for_read and pin_connection_for_view: one snapshot. *)
pin_connection_with_access(o, c, require_read) ==
    /\ pinOp[o] = NoRow
    /\ IsMember(workspace, account) /\ Visible(c, workspace, account) /\ HasMaterial(c, account)
    /\ require_read => CanRead(ProfileOf(c, account))
    /\ pinOp' = [pinOp EXCEPT ![o] = [pin |-> Material(c), read |-> require_read, dash |-> NoRow]]
    /\ UNCHANGED <<scope, members, connRows, template, fetched, artifacts, pinEdits>>

Unpin(o) ==
    /\ pinOp[o] # NoRow
    /\ pinOp' = [pinOp EXCEPT ![o] = NoRow]
    /\ UNCHANGED <<scope, members, connRows, template, fetched, artifacts, pinEdits>>

Pin(o) == pinOp[o].pin
Pinned(o) == pinOp[o] # NoRow /\ "pin" \in DOMAIN pinOp[o]
Run(o) == [conn |-> Pin(o).conn, ws |-> Pin(o).ws, key |-> storage_key(Pin(o).ws, Pin(o).account),
           profile |-> Pin(o).profile]

insert_history_mutant(o) ==
    /\ Edit /\ Pinned(o) /\ pinOp[o].read
    /\ Visible(Pin(o).conn, workspace, account) /\ conn[Pin(o).conn].rev = Pin(o).rev
    /\ history' = history \cup {Run(o)}
    /\ UNCHANGED <<scope, members, connRows, template, fetched, pinOp, cache, dash, outbox>>

(* Check and insert are one statement. *)
insert_history_if_current(o) ==
    /\ Edit /\ Pinned(o) /\ pinOp[o].read
    /\ is_pin_current_with_access(Pin(o), FALSE)
    /\ history' = history \cup {Run(o)}
    /\ UNCHANGED <<scope, members, connRows, template, fetched, pinOp, cache, dash, outbox>>

(* A catalog row carries the revisions it was captured under; one row per  *)
(* workspace, account and connection.                                      *)
put_catalog_if_current(o) ==
    LET pin == Pin(o)
        key == storage_key(pin.ws, pin.account)
    IN  /\ Edit /\ Pinned(o) /\ pinOp[o].read
        /\ is_pin_current_with_access(pin, FALSE)
        /\ cache' = [cache EXCEPT ![pin.conn] =
                        {e \in @ : e.ws # pin.ws \/ e.key # key}
                            \cup {[ws |-> pin.ws, key |-> key, rev |-> pin.rev, brev |-> pin.brev,
                                   bat |-> pin.bat, profile |-> pin.profile]}]
        /\ UNCHANGED <<scope, members, connRows, template, fetched, pinOp, history, dash, outbox>>

CacheHits_mutant(pin) ==
    {e \in cache[pin.conn] : e.ws = pin.ws /\ e.brev = pin.brev /\ e.bat = pin.bat
                              /\ e.key = storage_key(pin.ws, pin.account)}

(* get_catalog_if_current: the row must match the pin, which must match    *)
(* the current rows.                                                       *)
CacheHits(pin) ==
    {e \in cache[pin.conn] :
        /\ e.ws = pin.ws /\ e.key = storage_key(pin.ws, pin.account)
        /\ e.rev = pin.rev /\ e.brev = pin.brev /\ e.bat = pin.bat}

get_catalog_if_current(pin) ==
    IF is_pin_current_with_access(pin, FALSE) THEN CacheHits(pin) ELSE {}

(* clear_schema_cache pins and then deletes, without a condition. *)
clear_schema_cache(o) ==
    LET pin == Pin(o) IN
    /\ Edit /\ Pinned(o) /\ pinOp[o].read
    /\ cache' = [cache EXCEPT ![pin.conn] =
                    {e \in @ : e.ws # pin.ws \/ e.key # storage_key(pin.ws, pin.account)}]
    /\ UNCHANGED <<scope, members, connRows, template, fetched, pinOp, history, dash, outbox>>

--------------------------------------------------------------------------------
(* Dashboards. *)

Live(d) == dash[d] # NoRow /\ ~dash[d].deleted /\ ~dash[d].purged

(* save_dashboard_if_current: writer lock, check, insert and event. *)
save_dashboard_if_current(o, d) ==
    /\ Edit /\ Pinned(o) /\ dash[d] = NoRow
    /\ is_pin_current_with_access(Pin(o), TRUE)
    /\ dash' = [dash EXCEPT ![d] = [ws |-> Pin(o).ws, conn |-> Pin(o).conn, rev |-> 1,
                                     deleted |-> FALSE, purged |-> FALSE]]
    /\ enqueue_outbox("dashboard", d, "upsert", 1)
    /\ UNCHANGED <<scope, members, connRows, template, fetched, pinOp, history, cache>>

(* pin_dashboard_for_view reads the dashboard with the scope, then pins    *)
(* its connection, and refuses when the scope moved in between.            *)
find_dashboard(o, d) ==
    /\ pinOp[o] = NoRow
    /\ Live(d) /\ dash[d].ws = workspace /\ IsMember(workspace, account)
    /\ Visible(dash[d].conn, workspace, account)
    /\ pinOp' = [pinOp EXCEPT ![o] = [found |-> d, rev |-> dash[d].rev, scope |-> scope]]
    /\ UNCHANGED <<scope, members, connRows, template, fetched, artifacts, pinEdits>>

pin_dashboard_for_view(o) ==
    LET d == pinOp[o].found  c == dash[d].conn IN
    /\ pinOp[o] # NoRow /\ "found" \in DOMAIN pinOp[o]
    /\ IF /\ pinOp[o].scope = scope
          /\ IsMember(workspace, account) /\ Visible(c, workspace, account) /\ HasMaterial(c, account)
          /\ Live(d) /\ dash[d].rev = pinOp[o].rev
       THEN pinOp' = [pinOp EXCEPT ![o] = [pin |-> Material(c), read |-> FALSE,
                                     dash |-> [id |-> d, rev |-> dash[d].rev]]]
       ELSE pinOp' = [pinOp EXCEPT ![o] = NoRow]
    /\ UNCHANGED <<scope, members, connRows, template, fetched, artifacts, pinEdits>>

delete_dashboard_mutant(o) ==
    LET d == pinOp[o].dash.id IN
    /\ Edit /\ Pinned(o) /\ pinOp[o].dash # NoRow
    /\ is_pin_current_with_access(Pin(o), TRUE)
    /\ dash' = [dash EXCEPT ![d].rev = pinOp[o].dash.rev + 1, ![d].deleted = TRUE]
    /\ enqueue_outbox("dashboard", d, "delete", pinOp[o].dash.rev + 1)
    /\ UNCHANGED <<scope, members, connRows, template, fetched, pinOp, history, cache>>

(* delete_dashboard_revision_if_current: exactly the pinned revision. *)
delete_dashboard_if_current(o) ==
    LET d == pinOp[o].dash.id IN
    /\ Edit /\ Pinned(o) /\ pinOp[o].dash # NoRow
    /\ is_pin_current_with_access(Pin(o), TRUE)
    /\ Live(d) /\ dash[d].ws = Pin(o).ws /\ dash[d].rev = pinOp[o].dash.rev
    /\ dash' = [dash EXCEPT ![d].rev = @ + 1, ![d].deleted = TRUE]
    /\ enqueue_outbox("dashboard", d, "delete", dash[d].rev + 1)
    /\ UNCHANGED <<scope, members, connRows, template, fetched, pinOp, history, cache>>

--------------------------------------------------------------------------------
(* The surroundings: the workspace store and the control plane. *)

(* A transaction of WorkspaceScope: memberships change, and the scope with *)
(* them or by selection.                                                   *)
ChangeScope ==
    /\ Edit
    /\ members' \in [Teams -> SUBSET Users]
    /\ Contract!Select
    /\ workspace' # Personal => account' \in members'[workspace']
    /\ UNCHANGED <<connRows, template, fetched, pinOp, artifacts>>

(* Another account's memberships change; the active scope stays valid. *)
ChangeMembers ==
    /\ Edit
    /\ members' \in [Teams -> SUBSET Users]
    /\ workspace # Personal => account \in members'[workspace]
    /\ UNCHANGED <<scope, connRows, template, fetched, pinOp, artifacts>>

(* The control plane edits a shared connection, which gets a revision, or  *)
(* changes who may see and use it, which does not.                         *)
ChangeTemplate(c) ==
    /\ Edit
    /\ \/ template' = [template EXCEPT ![c].rev = @ + 1]
       \/ \E u \in Users : \E access \in {"none", "view", "read"} \ {template[c].access[u]} :
             template' = [template EXCEPT ![c].access[u] = access]
    /\ UNCHANGED <<scope, members, connRows, fetched, pinOp, artifacts>>

PinNext ==
    \/ \E c \in LocalIds : \/ \E x \in Contents : upsert_connection(c, x) \/ set_connections_schema_group(c, x)
                           \/ delete_connection(c)
    \/ \E t \in Teams, u \in Users : remote_connections(t, u)
    \/ sync_remote_connections \/ SyncDeferred
    \/ \E c \in SharedIds : \/ purge_remote_connection_cache(c) \/ ChangeTemplate(c)
                            \/ \E u \in Users, x \in Creds : bind_connection_credentials(c, u, x)
    \/ \E o \in PinOps :
          \/ \E c \in Conns, r \in BOOLEAN : pin_connection_with_access(o, c, r)
          \/ Unpin(o)
          \/ insert_history_if_current(o) \/ put_catalog_if_current(o) \/ clear_schema_cache(o)
          \/ \E d \in Dashboards : save_dashboard_if_current(o, d) \/ find_dashboard(o, d)
          \/ pin_dashboard_for_view(o) \/ delete_dashboard_if_current(o)
    \/ ChangeScope
    \/ ChangeMembers

PinSpec == PinInit /\ [][PinNext]_pinVars

--------------------------------------------------------------------------------
(* Properties. *)

(* A pin that compares equal holds what the rows hold: nobody works on     *)
(* with a profile, a credential or an access that was replaced, not even   *)
(* when a binding was deleted and made anew with the same revision.        *)
CurrentPinIsFaithful ==
    \A o \in PinOps : Pinned(o) /\ is_pin_current_with_access(Pin(o), TRUE)
                      => Pin(o) = Material(Pin(o).conn)

(* A cached catalog is served only for the profile it was captured with.   *)
CatalogIsOfThePin ==
    \A o \in PinOps : Pinned(o)
                      => \A e \in get_catalog_if_current(Pin(o)) : e.profile = Pin(o).profile

(* Every revision of a local connection and of a dashboard is announced    *)
(* exactly once in the outbox, and no other.                               *)
OutboxIsExact ==
    LET Revs(type, id) == {i \in DOMAIN outbox : outbox[i].type = type /\ outbox[i].id = id}
        Exact(type, id, row) ==
            /\ Cardinality(Revs(type, id)) = (IF row = NoRow THEN 0 ELSE row.rev)
            /\ {outbox[i].rev : i \in Revs(type, id)} = 1 .. (IF row = NoRow THEN 0 ELSE row.rev)
    IN  /\ \A c \in LocalIds : Exact("connection", c, conn[c])
        /\ \A d \in Dashboards : Exact("dashboard", d, dash[d])

(* A revision stands for one content: a pin or a cached catalog that still *)
(* compares equal is of what the rows hold, and the outbox names every     *)
(* revision once.                                                          *)
RevisionsAreTrue ==
    /\ CurrentPinIsFaithful
    /\ CatalogIsOfThePin
    /\ OutboxIsExact

(* An execution is recorded only while the scope it ran under is active,   *)
(* by an account that may read the connection: the result of an old        *)
(* operation never lands in the scope that replaced it.                    *)
HistoryStaysInScope ==
    [][\A h \in history' \ history :
          /\ h.ws = workspace /\ h.key = storage_key(workspace, account)
          /\ h.profile = ProfileOf(h.conn, account)]_pinVars
================================================================================
