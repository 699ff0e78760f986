----------------------------- MODULE WorkspaceScope -----------------------------
(***************************************************************************)
(* Workspace accounts, memberships and the active scope: the store's       *)
(* transactions (store/mod.rs), the calls of the workspace service that    *)
(* string them together (services/workspace_service.rs), and the account   *)
(* client with its session tokens (workspace_auth.rs), against a control   *)
(* plane whose memberships and sessions change at any moment.              *)
(*                                                                         *)
(* A call of the service is the sequence of its remaining steps; a step is *)
(* one store transaction (under the scope gate of connection/runtime.rs)   *)
(* or one request, so steps of several calls interleave.                   *)
(***************************************************************************)
EXTENDS Naturals, Sequences, FiniteSets

CONSTANTS
    Teams, Users,       \* workspaces and accounts of the control plane
    Personal, NoUser,   \* the Personal Workspace; no account selected
    Calls,              \* service calls that can be in flight at once
    MaxCalls,           \* bound on service calls begun
    MaxGeneration,      \* bound on scope selections
    MaxServerChanges    \* bound on changes of the control plane

ASSUME ScopeAssumption ==
    /\ Personal \notin Teams
    /\ NoUser \notin Users
    /\ IsFiniteSet(Users)
    /\ MaxCalls \in Nat
    /\ MaxGeneration \in Nat
    /\ MaxServerChanges \in Nat

VARIABLES
    lifecycle,    \* lifecycle[t]: "absent", "active" or "archived" (workspaces)
    member,       \* member[t]: users with an active row in workspace_members
    accounts,     \* remembered accounts (workspace_accounts)
    newer,        \* <<u, v>>: u was used after v (last_used_at)
    last,         \* last[u]: last_workspace_id, or Personal for none
    workspace, account, generation,  \* the active scope (app_settings)
    legacy,       \* legacy[t]: owner of rows that predate accounts, or NoUser
    token,        \* users with a session token in the OS credential store
    oldToken,     \* the user of the pre-account credential item, or NoUser
    session,      \* users whose session the control plane accepts
    enrolled,     \* enrolled[t]: members according to the control plane
    serverChanges,
    call,         \* call[k]: the remaining steps of a service call
    begun         \* the number of calls begun

local == <<lifecycle, member, accounts, newer, last, workspace, account, generation, legacy>>
server == <<session, enrolled, serverChanges>>
vars == <<local, token, oldToken, server, call, begun>>

NoCall == [todo |-> <<>>, list |-> {}, lenient |-> FALSE, mode |-> "none"]

Init ==
    /\ lifecycle = [t \in Teams |-> "absent"]
    /\ member = [t \in Teams |-> {}]
    /\ accounts = {} /\ newer = {}
    /\ last = [u \in Users |-> Personal]
    /\ workspace = Personal /\ account = NoUser /\ generation = 0
    /\ legacy = [t \in Teams |-> NoUser]
    /\ token = {}
    /\ oldToken \in Users \cup {NoUser}
    /\ session = {u \in Users : u = oldToken}
    /\ enrolled \in [Teams -> SUBSET Users]
    /\ serverChanges = 0
    /\ call = [k \in Calls |-> NoCall]
    /\ begun = 0

--------------------------------------------------------------------------------
(* Transactions of the store. *)

(* The scope the store hands out: active_resource_scope finds no row for a *)
(* team without an account that is an active member of it.                 *)
active_resource_scope(w, a, life, mem) ==
    w # Personal => w \in Teams /\ life[w] = "active" /\ a \in mem[w]

(* last_used_at = now. *)
Touch(order, u, accts) ==
    {p \in order : p[1] # u /\ p[2] # u} \cup {<<u, v>> : v \in accts \ {u}}

remember_workspace_account(u) ==
    /\ accounts' = accounts \cup {u}
    /\ newer' = IF u \in accounts THEN newer ELSE Touch(newer, u, accounts)

ArchiveOrphans_mutant(life, mem) == life

(* A team that no remembered account is a member of is archived. *)
ArchiveOrphans(life, mem) ==
    [t \in Teams |-> IF life[t] # "absent" /\ mem[t] = {} THEN "archived" ELSE life[t]]

(* The COALESCE that picks where an account lands: its last team, any team *)
(* it belongs to (the first by name, and names are free), or Personal.     *)
Landing(u, lst, life, mem) ==
    LET open == {t \in Teams : life[t] = "active" /\ u \in mem[t]} IN
    IF lst[u] \in open THEN {lst[u]} ELSE IF open # {} THEN open ELSE {Personal}

bump_active_scope_generation ==
    /\ generation < MaxGeneration
    /\ generation' = generation + 1

repair_active_scope_mutant(life, mem, lst, accts, order) ==
    /\ last' = lst /\ newer' = order
    /\ UNCHANGED <<workspace, account, generation>>

(* repair_active_scope_after_membership_change: an account that was        *)
(* forgotten is deselected, a scope that lost its membership moves to where *)
(* the account lands.                                                      *)
repair_active_scope(life, mem, lst, accts, order) ==
    LET kept == IF account \in accts THEN account ELSE NoUser IN
    /\ account' = kept
    /\ IF active_resource_scope(workspace, kept, life, mem)
       THEN /\ workspace' = workspace /\ last' = lst /\ newer' = order
            /\ IF kept # account THEN bump_active_scope_generation ELSE UNCHANGED generation
       ELSE /\ workspace' \in IF kept = NoUser THEN {Personal} ELSE Landing(kept, lst, life, mem)
            /\ last' = IF kept # NoUser /\ workspace' # Personal
                         THEN [lst EXCEPT ![kept] = workspace'] ELSE lst
            /\ newer' = IF kept # NoUser THEN Touch(order, kept, accts) ELSE order
            /\ bump_active_scope_generation

(* Legacy rows of a team go to the first account whose membership the      *)
(* control plane confirmed.                                                *)
ClaimLegacy(u, mem) ==
    [t \in Teams |-> IF legacy[t] = NoUser /\ u \in mem[t] THEN u ELSE legacy[t]]

(* sync_account_workspaces, which remembers the account again first: the   *)
(* list replaces the memberships of u, and only those.                     *)
sync_account_workspaces(u, list) ==
    LET mem  == [t \in Teams |-> IF t \in list THEN member[t] \cup {u} ELSE member[t] \ {u}]
        life == ArchiveOrphans([t \in Teams |-> IF t \in list THEN "active" ELSE lifecycle[t]], mem)
        lst  == IF last[u] \in list THEN last ELSE [last EXCEPT ![u] = Personal]
    IN  /\ member' = mem
        /\ lifecycle' = life
        /\ legacy' = ClaimLegacy(u, mem)
        /\ accounts' = accounts \cup {u}
        /\ repair_active_scope(life, mem, lst, accounts \cup {u},
                               IF u \in accounts THEN newer ELSE Touch(newer, u, accounts))

(* activate_workspace: one transaction checks and selects. *)
CanActivate(w, a) ==
    /\ w # Personal => lifecycle[w] = "active"
    /\ a # NoUser => a \in accounts /\ (w # Personal => a \in member[w])
    /\ w # Personal => a # NoUser

activate_workspace(w, a) ==
    /\ CanActivate(w, a)
    /\ workspace' = w /\ account' = a
    /\ last' = IF a # NoUser /\ w # Personal THEN [last EXCEPT ![a] = w] ELSE last
    /\ newer' = IF a # NoUser THEN Touch(newer, a, accounts) ELSE newer
    /\ bump_active_scope_generation
    /\ UNCHANGED <<lifecycle, member, accounts, legacy>>

(* activate_workspace_account, under the scope gate: where the account     *)
(* lands is read before the transaction that selects it.                   *)
activate_workspace_account(u) ==
    \E w \in Landing(u, last, lifecycle, member) : activate_workspace(w, u)

(* The account the store falls back to when the active one is removed. *)
MostRecent(accts) == {u \in accts : \A v \in accts \ {u} : <<u, v>> \in newer}

remove_workspace_account_mutant(u) ==
    LET mem  == [t \in Teams |-> member[t] \ {u}]
        life == ArchiveOrphans(lifecycle, mem)
        left == accounts \ {u}
    IN  /\ member' = mem
        /\ lifecycle' = life
        /\ accounts' = left
        /\ newer' = {p \in newer : p[1] # u /\ p[2] # u}
        /\ last' = [last EXCEPT ![u] = Personal]
        /\ UNCHANGED <<legacy, generation>>
        /\ IF account = u
           THEN account' = NoUser /\ workspace' = Personal
           ELSE UNCHANGED <<workspace, account>>

remove_workspace_account(u) ==
    LET mem  == [t \in Teams |-> member[t] \ {u}]
        life == ArchiveOrphans(lifecycle, mem)
        left == accounts \ {u}
    IN  /\ member' = mem
        /\ lifecycle' = life
        /\ accounts' = left
        /\ newer' = {p \in newer : p[1] # u /\ p[2] # u}
        /\ last' = [last EXCEPT ![u] = Personal]
        /\ UNCHANGED legacy
        /\ IF account = u
           THEN /\ IF left = {} THEN account' = NoUser /\ workspace' = Personal
                   ELSE \E f \in MostRecent(left) :
                           /\ account' = f
                           /\ workspace' \in Landing(f, last, life, mem)
                /\ bump_active_scope_generation
           ELSE UNCHANGED <<workspace, account, generation>>

--------------------------------------------------------------------------------
(* Calls of the service.  A step is named after what it calls; Begin gives *)
(* a call its steps, Done removes the one that succeeded, Abort ends the   *)
(* call with an error.                                                     *)

Step(name, u) == [name |-> name, user |-> u, team |-> Personal]

Begin(k, mode, lenient, steps) ==
    /\ call[k].todo = <<>> /\ begun < MaxCalls
    /\ begun' = begun + 1
    /\ call' = [call EXCEPT ![k] = [todo |-> steps, list |-> {}, lenient |-> lenient, mode |-> mode]]

At(k, name) == call[k].todo # <<>> /\ Head(call[k].todo).name = name
Subject(k) == Head(call[k].todo).user
Rest(k) == Tail(call[k].todo)
Replace(k, steps) == call' = [call EXCEPT ![k].todo = steps \o Rest(k)]
Done(k) == Replace(k, <<>>)
Abort(k) == call' = [call EXCEPT ![k] = NoCall]

(* sync_account_memberships: remember the account, fetch its memberships,  *)
(* and then apply them.                                                    *)
Sync(u) == <<Step("remember", u), Step("fetch", u)>>

(* workspace_accounts: the accounts, most recently used first. *)
workspace_accounts ==
    {q \in [1 .. Cardinality(accounts) -> accounts] :
        \A i, j \in DOMAIN q : i < j => <<q[i], q[j]>> \in newer}

refresh_auth_state(k) ==
    /\ Begin(k, "refresh", TRUE, <<Step("migrate", NoUser), Step("ensure", NoUser), Step("active", NoUser)>>)
    /\ UNCHANGED <<local, token, oldToken, server>>

refresh_memberships(k) ==
    /\ \E q \in workspace_accounts :
          Begin(k, "memberships", FALSE,
                [i \in DOMAIN q |-> Step("auth", q[i])] \o <<Step("ensure", NoUser)>>)
    /\ UNCHANGED <<local, token, oldToken, server>>

(* The token is removed after the account, so that retired pools can still *)
(* return their leases.                                                    *)
sign_out(k, u) ==
    /\ Begin(k, "sign_out", FALSE, <<Step("remove", u), Step("revoke", u)>>)
    /\ UNCHANGED <<local, token, oldToken, server>>

sign_out_all(k) ==
    /\ accounts # {}
    /\ \E q \in workspace_accounts :
          Begin(k, "sign_out", FALSE,
                [i \in 1 .. 2 * Len(q) |->
                    Step(IF i % 2 = 1 THEN "remove" ELSE "revoke", q[(i + 1) \div 2])])
    /\ UNCHANGED <<local, token, oldToken, server>>

(* A poll that finds the device approved: the token is stored before the   *)
(* account is known to the store.                                          *)
poll_login(k, u) ==
    /\ Begin(k, "login", TRUE, Sync(u) \o <<Step("land", u)>>)
    /\ session' = session \cup {u}
    /\ token' = token \cup {u}
    /\ UNCHANGED <<local, oldToken, enrolled, serverChanges>>

activate(k, w, u) ==
    LET select == <<[Step("select", u) EXCEPT !.team = w]>> IN
    /\ IF w = Personal THEN Begin(k, "activate", FALSE, select)
       ELSE /\ lifecycle[w] = "active" /\ u # NoUser
            /\ Begin(k, "activate", FALSE, <<Step("auth", u)>> \o select \o <<Step("connections", u)>>)
    /\ UNCHANGED <<local, token, oldToken, server>>

activate_account(k, u) ==
    /\ Begin(k, "activate", FALSE, <<Step("auth", u), Step("land", u)>>)
    /\ UNCHANGED <<local, token, oldToken, server>>

--------------------------------------------------------------------------------
(* Steps of the calls. *)

(* migrate_legacy_session: the old token is deleted in any case but an     *)
(* unreachable control plane, and kept under its account when it is valid. *)
migrate_legacy_session(k) ==
    /\ At(k, "migrate")
    /\ IF accounts # {} \/ oldToken = NoUser
       THEN Done(k) /\ UNCHANGED <<token, oldToken>>
       ELSE \/ Abort(k) /\ UNCHANGED <<token, oldToken>>
            \/ /\ oldToken' = NoUser
               /\ IF oldToken \in session
                  THEN /\ token' = token \cup {oldToken}
                       /\ Replace(k, Sync(oldToken) \o <<Step("land", oldToken)>>)
                  ELSE Done(k) /\ UNCHANGED token
    /\ UNCHANGED <<local, server, begun>>

(* What a call does about a session that is gone. *)
SessionLost(k, u) ==
    LET forget == <<Step("remove", u), Step("ensure", NoUser)>> IN
    \/ call[k].mode = "refresh" /\ Replace(k, forget)
    \/ call[k].mode = "memberships" /\ Replace(k, <<Step("remove", u)>>)
    \/ call[k].mode = "activate" /\ call' = [call EXCEPT ![k].todo = forget]

(* auth_user: a token the control plane refuses is deleted. *)
auth_user(k) ==
    LET u == Subject(k) IN
    /\ At(k, "auth")
    /\ \/ /\ u \in token /\ u \in session
          /\ Replace(k, Sync(u))
          /\ UNCHANGED token
       \/ /\ u \notin token \/ u \notin session
          /\ token' = token \ {u}
          /\ SessionLost(k, u)
       \/ /\ u \in token
          /\ IF call[k].mode = "activate" THEN Abort(k) ELSE Done(k)
          /\ UNCHANGED token
    /\ UNCHANGED <<local, oldToken, server, begun>>

remember(k) ==
    /\ At(k, "remember")
    /\ remember_workspace_account(Subject(k))
    /\ Done(k)
    /\ UNCHANGED <<lifecycle, member, last, workspace, account, generation, legacy, token, oldToken, server, begun>>

(* A failed fetch skips the list or ends the call. *)
FetchFailed(k) ==
    IF call[k].lenient THEN Done(k) ELSE Abort(k)

(* remote_workspaces: the list is the control plane's at this moment. *)
remote_workspaces(k) ==
    LET u == Subject(k) IN
    /\ At(k, "fetch")
    /\ \/ /\ u \in token /\ u \in session
          /\ call' = [call EXCEPT ![k].todo = <<Step("apply", u)>> \o Rest(k),
                                  ![k].list = {t \in Teams : u \in enrolled[t]}]
          /\ UNCHANGED token
       \/ FetchFailed(k) /\ token' = IF u \in session THEN token ELSE token \ {u}
    /\ UNCHANGED <<local, oldToken, server, begun>>

(* The apply step, then the shared connections of the active team.  *)
apply(k) ==
    LET u == Subject(k) IN
    /\ At(k, "apply")
    /\ sync_account_workspaces(u, call[k].list)
    /\ call' = [call EXCEPT ![k].todo = <<Step("connections", u)>> \o Rest(k), ![k].list = {}]
    /\ UNCHANGED <<token, oldToken, server, begun>>

(* sync_connections swallows its errors; the rows it writes are those of   *)
(* PinnedConnections.                                                      *)
sync_connections(k) ==
    LET u == Subject(k) IN
    /\ At(k, "connections")
    /\ Done(k)
    /\ token' = IF workspace # Personal /\ account = u /\ u \notin session THEN token \ {u} ELSE token
    /\ UNCHANGED <<local, oldToken, server, begun>>

land(k) ==
    /\ At(k, "land")
    /\ IF Subject(k) \in accounts
       THEN activate_workspace_account(Subject(k)) /\ Done(k)
       ELSE Abort(k) /\ UNCHANGED local
    /\ UNCHANGED <<token, oldToken, server, begun>>

select(k) ==
    LET w == Head(call[k].todo).team IN
    /\ At(k, "select")
    /\ IF CanActivate(w, Subject(k))
       THEN activate_workspace(w, Subject(k)) /\ Done(k)
       ELSE Abort(k) /\ UNCHANGED local
    /\ UNCHANGED <<token, oldToken, server, begun>>

remove(k) ==
    /\ At(k, "remove")
    /\ remove_workspace_account(Subject(k))
    /\ Done(k)
    /\ UNCHANGED <<token, oldToken, server, begun>>

(* workspace_auth::sign_out: the remote revocation is best effort. *)
revoke(k) ==
    LET u == Subject(k) IN
    /\ At(k, "revoke")
    /\ session' \in IF u \in token THEN {session, session \ {u}} ELSE {session}
    /\ token' = token \ {u}
    /\ Done(k)
    /\ UNCHANGED <<local, oldToken, enrolled, serverChanges, begun>>

(* ensure_active_account reads the active account, then the accounts. *)
ensure(k) ==
    /\ At(k, "ensure")
    /\ Replace(k, <<Step("ensure_accounts", account)>>)
    /\ UNCHANGED <<local, token, oldToken, server, begun>>

ensure_accounts(k) ==
    LET a == Subject(k) IN
    /\ At(k, "ensure_accounts")
    /\ \/ a \in accounts \cup {NoUser} /\ (a = NoUser => accounts = {}) /\ Done(k)
       \/ a \notin accounts \cup {NoUser} /\ Replace(k, <<Step("remove", a)>>)
       \/ /\ a = NoUser /\ accounts # {}
          /\ \E q \in workspace_accounts : Replace(k, <<Step("land", Head(q))>>)
    /\ UNCHANGED <<local, token, oldToken, server, begun>>

(* refresh_auth_state validates the account that is active by then. *)
active(k) ==
    /\ At(k, "active")
    /\ IF account = NoUser THEN Done(k) ELSE Replace(k, <<Step("auth", account)>>)
    /\ UNCHANGED <<local, token, oldToken, server, begun>>

--------------------------------------------------------------------------------
(* The control plane, and a restart of the desktop. *)

ServerChange ==
    /\ serverChanges < MaxServerChanges
    /\ serverChanges' = serverChanges + 1
    /\ \/ \E t \in Teams, u \in Users :
             /\ enrolled' = [enrolled EXCEPT ![t] = IF u \in @ THEN @ \ {u} ELSE @ \cup {u}]
             /\ UNCHANGED session
       \/ \E u \in session : session' = session \ {u} /\ UNCHANGED enrolled
    /\ UNCHANGED <<local, token, oldToken, call, begun>>

(* A crash loses the calls in flight; opening the store repairs the scope. *)
Restart ==
    /\ call' = [k \in Calls |-> NoCall]
    /\ repair_active_scope(lifecycle, member, last, accounts, newer)
    /\ UNCHANGED <<lifecycle, member, accounts, legacy, token, oldToken, server, begun>>

Next ==
    \/ \E k \in Calls :
          \/ refresh_auth_state(k) \/ refresh_memberships(k) \/ sign_out_all(k)
          \/ \E u \in Users : sign_out(k, u) \/ poll_login(k, u) \/ activate_account(k, u)
          \/ \E w \in Teams \cup {Personal}, u \in Users \cup {NoUser} : activate(k, w, u)
          \/ migrate_legacy_session(k) \/ auth_user(k) \/ remember(k) \/ remote_workspaces(k)
          \/ apply(k) \/ sync_connections(k) \/ land(k) \/ select(k) \/ remove(k) \/ revoke(k)
          \/ ensure(k) \/ ensure_accounts(k) \/ active(k)
    \/ ServerChange
    \/ Restart

Spec == Init /\ [][Next]_vars

--------------------------------------------------------------------------------
(* Properties. *)

(* The tables hold what their columns allow. *)
TypeOK ==
    /\ lifecycle \in [Teams -> {"absent", "active", "archived"}]
    /\ member \in [Teams -> SUBSET Users]
    /\ accounts \subseteq Users
    /\ newer \subseteq Users \X Users
    /\ last \in [Users -> Teams \cup {Personal}]
    /\ workspace \in Teams \cup {Personal}
    /\ account \in Users \cup {NoUser}
    /\ generation \in Nat
    /\ legacy \in [Teams -> Users \cup {NoUser}]

(* "No committed state ever exposes a revoked account with a team": the    *)
(* active scope is always one that active_resource_scope hands out, and    *)
(* the active account is a remembered one.                                 *)
ScopeIsValid ==
    /\ active_resource_scope(workspace, account, lifecycle, member)
    /\ account # NoUser => account \in accounts

(* A team is listed exactly as long as a remembered account is a member.   *)
ListedIffMember ==
    \A t \in Teams : /\ lifecycle[t] = "active" <=> member[t] # {}
                     /\ member[t] \subseteq accounts

(* The remembered accounts are totally ordered by their last use, however  *)
(* touching, forgetting and remembering them interleave: the account that  *)
(* takes over when the active one is removed is determined.                *)
RecencyIsTotal ==
    /\ newer \subseteq accounts \X accounts
    /\ \A u, v \in accounts : u # v => (<<u, v>> \in newer <=> <<v, u>> \notin newer)
    /\ \A u, v, w \in accounts : <<u, v>> \in newer /\ <<v, w>> \in newer => <<u, w>> \in newer
    /\ \A u \in accounts : <<u, u>> \notin newer

(* The scope tables agree with each other after every transaction: the     *)
(* active scope is a valid one, the teams that are listed are those of the *)
(* remembered accounts, and these have an order.                           *)
ScopeIsSound == ScopeIsValid /\ ListedIffMember /\ RecencyIsTotal

(* The store implements the contract the pins rest on: every transaction   *)
(* that moves the selection, by a choice, a lost membership, a sign-out or *)
(* the repair at start, moves it to a valid one under a new generation, so *)
(* a scope pinned before it never compares equal after it.                 *)
Contract == INSTANCE ActiveScope WITH
    workspace <- workspace, account <- account, generation <- generation

ImplementsActiveScope == Contract!ScopeSpec
================================================================================
