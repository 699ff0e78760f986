--------------------------- MODULE ConnectionSecrets ----------------------------
(***************************************************************************)
(* Connection profiles and the credentials they point to: the desktop's    *)
(* edits of local connections (services/connection_service.rs), the copy   *)
(* of one into a team workspace and the binding of a member's credential   *)
(* (services/workspace_service.rs), the credential store of the operating  *)
(* system (connection/keychain.rs) and the control plane's collection of   *)
(* shared connections (workspace_auth.rs).  A credential is stored under a *)
(* fresh id, here the request that stores it; a shared connection has the  *)
(* id of the copy that creates it.                                         *)
(*                                                                         *)
(* Desktops and broker processes share one store and one vault, but each   *)
(* has a scope gate of its own.  What a request reads and what it writes   *)
(* under the gate are steps of their own where another request of the      *)
(* process can come between; delete and set_schema_group are single steps. *)
(***************************************************************************)
EXTENDS Naturals, FiniteSets

CONSTANTS
    Locals,        \* ids of local connections
    Requests,      \* requests of the desktop, each made at most once
    AppOf,         \* AppOf[r]: the process that serves request r
    Engines, SchemaGroups,
    OldSecret,     \* the credential of a profile that exists at the start
    MaxCrashes     \* bound on crashes of the desktop

VARIABLES
    profile,       \* profile[c]: the live row of connection c, or NoProfile
    activeScope,   \* the selected scope: personal or the team workspace
    vault,         \* credentials in the operating system's store
    remote,        \* shared connections of the team on the control plane
    req,           \* req[r]: where request r stands
    deletedIn,     \* tombstones: <<c, s>> when c was last deleted in scope s
    unreclaimed,   \* credentials whose deletion failed or died with the process
    leftBehind,    \* shared connections whose roll back failed or was never tried
    secretCrashes

secretVars == <<profile, activeScope, vault, remote, req, deletedIn, unreclaimed, leftBehind,
                secretCrashes>>

NoProfile == [scope |-> "none"]
NoSecret == "no secret"
NoGroup == "no group"

ASSUME SecretsAssumption ==
    /\ Locals \cap Requests = {} /\ OldSecret \notin Requests \cup {NoSecret}
    /\ NoSecret \notin Requests
    /\ DOMAIN AppOf = Requests
    /\ Engines # {} /\ MaxCrashes \in Nat

Apps == {AppOf[r] : r \in Requests}

(* One process serves every request; see ProfilesAreSound.                 *)
OneApp == \A r, q \in Requests : AppOf[r] = AppOf[q]

IdleRequest == [pc |-> "idle"]
SecretConns == Locals \cup Requests
Profile(scope, engine, group, secret) ==
    [scope |-> scope, engine |-> engine, group |-> group, secret |-> secret]

SecretsInit ==
    /\ profile \in {[c \in SecretConns |-> NoProfile]} \cup
                   {[c \in SecretConns |-> IF c = d THEN Profile("personal", e, NoGroup, OldSecret)
                                     ELSE NoProfile] : d \in Locals, e \in Engines}
    /\ activeScope = "personal"
    /\ vault = {profile[c].secret : c \in {d \in SecretConns : profile[d] # NoProfile}}
    /\ remote = [k \in Requests |-> NoProfile]
    /\ req = [r \in Requests |-> IdleRequest]
    /\ deletedIn = {}
    /\ unreclaimed = {} /\ leftBehind = {} /\ secretCrashes = 0

Rows == {c \in SecretConns : profile[c] # NoProfile}
Pointed(s) == \E c \in Rows : profile[c].secret = s
IsShared(c) == c \in Requests

(* list_connections: the rows of the active scope. *)
Listed == {c \in Rows : profile[c].scope = activeScope}

--------------------------------------------------------------------------------
(* Requests and the gate. *)

AtReq(r, pc) == req[r].pc = pc
ToReq(r, pc) == req' = [req EXCEPT ![r].pc = pc]
Ended == {"idle", "done", "failed", "crashed"}
InFlight(r) == req[r].pc \notin Ended
Holds(r) == {r} \cup (IF "old" \in DOMAIN req[r] THEN {req[r].old} ELSE {})

StartRequest(r) ==
    /\ req[r] = IdleRequest
    /\ UNCHANGED <<profile, activeScope, vault, remote, deletedIn, unreclaimed, leftBehind,
                   secretCrashes>>

(* The guard of the scope gate is taken by TakeGate and dropped when the   *)
(* request returns, however it does.                                       *)
InGate(r) ==
    req[r].pc \in {"upsert", "set_schema_group", "delete", "bind", "store", "commit", "committed", "uncommitted"}

(* begin_scope_mutation: one writer at a time in each process.             *)
GateFree(a) == \A q \in Requests : AppOf[q] = a => ~InGate(q)

TakeGate(r) ==
    /\ AtReq(r, "gate") /\ GateFree(AppOf[r])
    /\ ToReq(r, req[r].kind)
    /\ UNCHANGED <<profile, activeScope, vault, remote, deletedIn, unreclaimed, leftBehind,
                   secretCrashes>>

Refuse(r) ==
    /\ ToReq(r, "failed")
    /\ UNCHANGED <<profile, activeScope, vault, remote, deletedIn, unreclaimed, leftBehind,
                   secretCrashes>>

--------------------------------------------------------------------------------
(* The credential store.  The cache of the process returns what the store  *)
(* returned for the same, never reused, id and is left out.                *)

store_secret(s) == vault' = vault \cup {s}

fetch_secret(s) == s \in vault

(* delete_secret_best_effort: a failure is only logged.  S is one id, or   *)
(* the ids a synchronization removed.                                      *)
delete_secret_best_effort(S) ==
    \E failed \in SUBSET (S \cap vault) :
        /\ vault' = vault \ (S \ failed)
        /\ unreclaimed' = unreclaimed \cup failed

(* Mutant: a failed commit keeps the credential it stored. *)
CleanUp_mutant(r) ==
    /\ \/ AtReq(r, "committed") /\ delete_secret_best_effort({req[r].old} \ {NoSecret})
          /\ ToReq(r, "done")
       \/ AtReq(r, "uncommitted") /\ ToReq(r, "failed") /\ UNCHANGED <<vault, unreclaimed>>
    /\ UNCHANGED <<profile, activeScope, remote, deletedIn, leftBehind, secretCrashes>>

(* The password of a request, stored before any row refers to it. *)
StorePassword(r) ==
    /\ AtReq(r, "store")
    /\ \/ store_secret(r) /\ ToReq(r, "commit")
       \/ ToReq(r, "failed") /\ UNCHANGED vault
    /\ UNCHANGED <<profile, activeScope, remote, deletedIn, unreclaimed, leftBehind, secretCrashes>>

(* After the commit: the pool is retired and the superseded credential     *)
(* deleted; after a failed one the new credential is.                      *)
CleanUp(r) ==
    /\ \/ AtReq(r, "committed") /\ delete_secret_best_effort({req[r].old} \ {NoSecret})
          /\ ToReq(r, "done")
       \/ AtReq(r, "uncommitted")
          /\ delete_secret_best_effort(IF req[r].password THEN {r} ELSE {})
          /\ ToReq(r, "failed")
    /\ UNCHANGED <<profile, activeScope, remote, deletedIn, leftBehind, secretCrashes>>

--------------------------------------------------------------------------------
(* Local connections. *)

(* Mutant: the engine of a group is not compared. *)
validate_schema_group_engine_mutant(c, rows) == TRUE

(* Compatible: no other connection of the group has another engine.        *)
(* validate_schema_group_engine compares trimmed names without case; the   *)
(* groups here are the classes of that comparison.                         *)
validate_schema_group_engine(c, rows) ==
    rows[c].group # NoGroup =>
        \A d \in DOMAIN rows \ {c} : rows[d].group = rows[c].group => rows[d].engine = rows[c].engine

(* ensure_connection_write_scope: a new id, or a local row of this scope,  *)
(* one that was deleted there included.                                    *)
ensure_connection_write_scope(c) ==
    IF profile[c] = NoProfile
    THEN \A s \in {"personal", "team"} \ {activeScope} : <<c, s>> \notin deletedIn
    ELSE c \in Listed /\ ~IsShared(c)

StartUpsert(r, c, engine, group, password) ==
    /\ StartRequest(r)
    /\ req' = [req EXCEPT ![r] = [pc |-> "gate", kind |-> "upsert", conn |-> c, engine |-> engine,
                                  group |-> group, password |-> password, old |-> NoSecret]]

(* Under the gate: the checks, and the pointer the stored row has now.  A  *)
(* password from the form is stored under a fresh id, without one the      *)
(* pointer is kept.                                                        *)
upsert(r) ==
    LET c == req[r].conn
        kept == IF c \in Listed THEN profile[c].secret ELSE NoSecret
        rows == [d \in Listed \cup {c} |-> IF d = c THEN Profile(activeScope, req[r].engine,
                                                                 req[r].group, kept)
                                           ELSE profile[d]]
    IN  /\ AtReq(r, "upsert")
        /\ IF ensure_connection_write_scope(c) /\ validate_schema_group_engine(c, rows)
           THEN /\ req' = [req EXCEPT ![r].pc = IF req[r].password THEN "store" ELSE "commit",
                                      ![r].old = kept]
                /\ UNCHANGED <<profile, activeScope, vault, remote, deletedIn, unreclaimed,
                               leftBehind, secretCrashes>>
           ELSE Refuse(r)

(* Mutant: the old credential is deleted before the profile is committed. *)
commit_upsert_mutant(r) ==
    LET c == req[r].conn
    IN  /\ AtReq(r, "commit") /\ req[r].kind = "upsert"
        /\ \/ profile' = [profile EXCEPT ![c] =
                  Profile(activeScope, req[r].engine, req[r].group,
                          IF req[r].password THEN r ELSE req[r].old)]
              /\ ToReq(r, "committed")
           \/ ToReq(r, "uncommitted") /\ UNCHANGED profile
        /\ vault' = IF req[r].password THEN vault \ {req[r].old} ELSE vault
        /\ UNCHANGED <<activeScope, remote, deletedIn, unreclaimed, leftBehind, secretCrashes>>

(* The row and its pointer change in one transaction, which looks at the   *)
(* scope and the owner again, or not at all.  The pointer is the one that  *)
(* was read before.  Only a request with a password supersedes a           *)
(* credential.                                                             *)
commit_upsert(r) ==
    LET c == req[r].conn
    IN  /\ AtReq(r, "commit") /\ req[r].kind = "upsert"
        /\ \/ /\ ensure_connection_write_scope(c)
              /\ profile' = [profile EXCEPT ![c] =
                    Profile(activeScope, req[r].engine, req[r].group,
                            IF req[r].password THEN r ELSE req[r].old)]
              /\ req' = [req EXCEPT ![r].pc = "committed",
                                    ![r].old = IF req[r].password THEN @ ELSE NoSecret]
           \/ ToReq(r, "uncommitted") /\ UNCHANGED profile
        /\ UNCHANGED <<activeScope, vault, remote, deletedIn, unreclaimed, leftBehind,
                       secretCrashes>>

StartSetGroup(r, ids, group) ==
    /\ StartRequest(r)
    /\ req' = [req EXCEPT ![r] = [pc |-> "gate", kind |-> "set_schema_group", ids |-> ids,
                                  group |-> group]]

(* All rows of the batch or none, judged as they will be together. *)
set_schema_group(r) ==
    LET ids == req[r].ids
        rows == [d \in Listed |-> IF d \in ids THEN [profile[d] EXCEPT !.group = req[r].group]
                                  ELSE profile[d]]
        allowed == /\ ids \subseteq {d \in Listed : ~IsShared(d)}
                   /\ \A d \in ids : validate_schema_group_engine(d, rows)
    IN  /\ AtReq(r, "set_schema_group")
        /\ \/ /\ allowed
              /\ profile' = [c \in SecretConns |-> IF c \in Listed THEN rows[c] ELSE profile[c]]
              /\ ToReq(r, "done")
              /\ UNCHANGED <<activeScope, vault, remote, deletedIn, unreclaimed, leftBehind,
                             secretCrashes>>
           \/ Refuse(r)

StartDelete(r, c) ==
    /\ StartRequest(r)
    /\ req' = [req EXCEPT ![r] = [pc |-> "gate", kind |-> "delete", conn |-> c, old |-> NoSecret,
                                  password |-> FALSE]]

(* The row is tombstoned first, its credential deleted after the commit. *)
delete(r) ==
    LET c == req[r].conn
    IN  /\ AtReq(r, "delete")
        /\ \/ /\ c \in Listed
              /\ profile' = [profile EXCEPT ![c] = NoProfile]
              /\ deletedIn' = deletedIn \cup {<<c, activeScope>>}
              /\ req' = [req EXCEPT ![r].pc = "committed", ![r].old = profile[c].secret]
              /\ UNCHANGED <<activeScope, vault, remote, unreclaimed, leftBehind, secretCrashes>>
           \/ Refuse(r)

--------------------------------------------------------------------------------
(* A member's credential for a shared connection. *)

StartBind(r, c) ==
    /\ StartRequest(r)
    /\ req' = [req EXCEPT ![r] = [pc |-> "gate", kind |-> "bind", conn |-> c, old |-> NoSecret,
                                  password |-> TRUE]]

(* The pinned row names the credential that the new one supersedes. *)
CheckBind(r) ==
    LET c == req[r].conn
    IN  /\ AtReq(r, "bind")
        /\ IF c \in Listed
           THEN /\ req' = [req EXCEPT ![r].pc = "store", ![r].old = profile[c].secret]
                /\ UNCHANGED <<profile, activeScope, vault, remote, deletedIn, unreclaimed,
                               leftBehind, secretCrashes>>
           ELSE Refuse(r)

(* Store::bind_connection_credentials looks the row up again. *)
commit_bind(r) ==
    LET c == req[r].conn
    IN  /\ AtReq(r, "commit") /\ req[r].kind = "bind"
        /\ \/ /\ c \in Rows
              /\ profile' = [profile EXCEPT ![c].secret = r]
              /\ ToReq(r, "committed")
           \/ ToReq(r, "uncommitted") /\ UNCHANGED profile
        /\ UNCHANGED <<activeScope, vault, remote, deletedIn, unreclaimed, leftBehind,
                       secretCrashes>>

--------------------------------------------------------------------------------
(* Copy of a local connection into the team workspace.  The gate is only   *)
(* taken for the synchronization in the middle.                            *)

StartCopy(r, c) ==
    /\ activeScope # "team" /\ c \in Listed
    /\ StartRequest(r)
    /\ req' = [req EXCEPT ![r] = [pc |-> "fetch", kind |-> "copy", conn |-> c, source |-> profile[c],
                                  password |-> profile[c].secret # NoSecret, list |-> remote]]

(* The credential and the remote collection are read before anything is    *)
(* created; either can fail.                                               *)
FetchForCopy(r) ==
    /\ AtReq(r, "fetch")
    /\ \/ /\ req[r].password => fetch_secret(req[r].source.secret)
          /\ ToReq(r, "snapshot")
       \/ ToReq(r, "failed")
    /\ UNCHANGED <<profile, activeScope, vault, remote, deletedIn, unreclaimed, leftBehind,
                   secretCrashes>>

(* remote_connections, then the copied credential under its own id. *)
SnapshotRemote(r) ==
    /\ AtReq(r, "snapshot")
    /\ \/ /\ req' = [req EXCEPT ![r].pc = "share", ![r].list = remote]
          /\ IF req[r].password THEN store_secret(r) ELSE UNCHANGED vault
       \/ ToReq(r, "failed") /\ UNCHANGED vault
    /\ UNCHANGED <<profile, activeScope, remote, deletedIn, unreclaimed, leftBehind, secretCrashes>>

Template(r) == Profile("team", req[r].source.engine, req[r].source.group, NoSecret)

(* The template is created, refused, or created with the answer lost; in   *)
(* the last case nobody knows its id.                                      *)
share_connection(r) ==
    /\ AtReq(r, "share")
    /\ \/ remote' = [remote EXCEPT ![r] = Template(r)] /\ UNCHANGED <<vault, unreclaimed, leftBehind>>
          /\ req' = [req EXCEPT ![r].pc = "sync", ![r].list[r] = Template(r)]
       \/ /\ \/ UNCHANGED <<remote, leftBehind>>
             \/ remote' = [remote EXCEPT ![r] = Template(r)] /\ leftBehind' = leftBehind \cup {r}
          /\ delete_secret_best_effort(IF req[r].password THEN {r} ELSE {})
          /\ ToReq(r, "failed")
    /\ UNCHANGED <<profile, activeScope, deletedIn, secretCrashes>>

(* ConnectionManager::sync_remote_connections, under the gate: rows that   *)
(* are not in the list go with their bindings, and their credentials are   *)
(* deleted.  The list is as old as the snapshot.                           *)
SyncCopied(r) ==
    LET list == req[r].list
        incoming == {c \in Requests : list[c] # NoProfile}
        removed == {c \in Rows : IsShared(c) /\ c \notin incoming}
    IN  /\ AtReq(r, "sync") /\ GateFree(AppOf[r])
        /\ \/ /\ profile' = [c \in SecretConns |->
                    IF c \in removed THEN NoProfile
                    ELSE IF c \in incoming
                         THEN IF c \in Rows THEN [list[c] EXCEPT !.secret = profile[c].secret]
                              ELSE list[c]
                         ELSE profile[c]]
              /\ delete_secret_best_effort({profile[c].secret : c \in removed} \ {NoSecret})
              /\ ToReq(r, "bind_copy")
           \/ ToReq(r, "rollback") /\ UNCHANGED <<profile, vault, unreclaimed>>
        /\ UNCHANGED <<activeScope, remote, deletedIn, leftBehind, secretCrashes>>

(* Bound without the gate; a row that another synchronization removed      *)
(* fails the copy.                                                         *)
BindCopy(r) ==
    /\ AtReq(r, "bind_copy")
    /\ \/ /\ r \in Rows
          /\ profile' = [profile EXCEPT ![r].secret = IF req[r].password THEN r ELSE NoSecret]
          /\ ToReq(r, "done")
       \/ ToReq(r, "rollback") /\ UNCHANGED profile
    /\ UNCHANGED <<activeScope, vault, remote, deletedIn, unreclaimed, leftBehind, secretCrashes>>

(* Mutant: a failed copy deletes its credential and not its template. *)
RollBackCopy_mutant(r) ==
    /\ AtReq(r, "rollback")
    /\ delete_secret_best_effort(IF req[r].password THEN {r} ELSE {})
    /\ ToReq(r, "failed")
    /\ UNCHANGED <<profile, remote, leftBehind, activeScope, deletedIn, secretCrashes>>

(* A copy that fails after the template exists deletes its credential,     *)
(* then the template, then the cached row.                                 *)
RollBackCopy(r) ==
    /\ AtReq(r, "rollback")
    /\ delete_secret_best_effort(IF req[r].password THEN {r} ELSE {})
    /\ ToReq(r, "delete_remote")
    /\ UNCHANGED <<profile, remote, leftBehind, activeScope, deletedIn, secretCrashes>>

(* The failure of this call, or its lost answer, leaves cleaning up to     *)
(* somebody else; so does a failure to purge the cached row.               *)
delete_shared_connection(r) ==
    /\ AtReq(r, "delete_remote")
    /\ \/ /\ remote' = [remote EXCEPT ![r] = NoProfile]
          /\ profile' \in {profile, [profile EXCEPT ![r] = NoProfile]}
          /\ UNCHANGED leftBehind
       \/ /\ remote' \in {remote, [remote EXCEPT ![r] = NoProfile]}
          /\ leftBehind' = leftBehind \cup {r} /\ UNCHANGED profile
    /\ ToReq(r, "failed")
    /\ UNCHANGED <<activeScope, vault, deletedIn, unreclaimed, secretCrashes>>

--------------------------------------------------------------------------------
(* The scope changes under the gate; the process dies at any point.        *)

SwitchActiveScope ==
    /\ \E a \in Apps : GateFree(a)
    /\ activeScope' \in {"personal", "team"} \ {activeScope}
    /\ UNCHANGED <<profile, vault, remote, req, deletedIn, unreclaimed, leftBehind, secretCrashes>>

CrashDesktop(a) ==
    LET lost == {r \in Requests : AppOf[r] = a /\ InFlight(r)}
    IN  /\ secretCrashes < MaxCrashes
        /\ secretCrashes' = secretCrashes + 1
        /\ req' = [r \in Requests |-> IF r \in lost THEN [req[r] EXCEPT !.pc = "crashed"] ELSE req[r]]
        /\ unreclaimed' = unreclaimed \cup {s \in vault : ~Pointed(s) /\ \E r \in lost : s \in Holds(r)}
        /\ leftBehind' = leftBehind \cup {r \in lost : remote[r] # NoProfile}
        /\ UNCHANGED <<profile, activeScope, vault, remote, deletedIn>>

SecretsStep(r) ==
    \/ TakeGate(r) \/ StorePassword(r) \/ CleanUp(r)
    \/ upsert(r) \/ commit_upsert(r) \/ set_schema_group(r) \/ delete(r)
    \/ CheckBind(r) \/ commit_bind(r)
    \/ FetchForCopy(r) \/ SnapshotRemote(r) \/ share_connection(r) \/ SyncCopied(r)
    \/ BindCopy(r) \/ RollBackCopy(r) \/ delete_shared_connection(r)

SecretsNext ==
    \/ \E r \in Requests :
          \/ SecretsStep(r)
          \/ \E c \in Locals :
                \/ \E e \in Engines, g \in SchemaGroups \cup {NoGroup}, p \in BOOLEAN :
                      StartUpsert(r, c, e, g, p)
                \/ StartDelete(r, c) \/ StartCopy(r, c)
          \/ \E ids \in SUBSET Locals \ {{}}, g \in SchemaGroups \cup {NoGroup} :
                StartSetGroup(r, ids, g)
          \/ \E c \in Requests : StartBind(r, c)
    \/ SwitchActiveScope \/ \E a \in Apps : CrashDesktop(a)

SecretsSpec == SecretsInit /\ [][SecretsNext]_secretVars

--------------------------------------------------------------------------------
(* Properties. *)

(* A stored profile never points to a credential that is gone, whatever    *)
(* failed, crashed or ran next to it: a credential is stored before the    *)
(* row that names it and deleted only after no row does (upsert, delete,   *)
(* bind_connection_credentials, copy_connection).                          *)
PointerHasSecret == \A c \in Rows : profile[c].secret # NoSecret => profile[c].secret \in vault

(* No credential is forgotten in the operating system's store: one that no *)
(* row points to is still in the hands of a request, or its deletion was   *)
(* tried and failed or died with the process.  The credentials of bindings *)
(* are exempt once their request succeeded: a copy binds without the gate, *)
(* and of two concurrent bindings the loser's credential is not reclaimed. *)
SecretHasOwner ==
    \A s \in vault \ unreclaimed :
        \/ Pointed(s)
        \/ \E r \in Requests : InFlight(r) /\ s \in Holds(r)
        \/ s \in Requests /\ req[s].pc = "done" /\ req[s].kind \in {"bind", "copy"}

(* A copy that reports failure has taken its template back from the        *)
(* control plane, unless that failed too or the answer to its creation was *)
(* lost (copy_connection).                                                 *)
FailedCopyLeavesNothing ==
    \A k \in Requests :
        AtReq(k, "failed") /\ req[k].kind = "copy" /\ k \notin leftBehind => remote[k] = NoProfile

(* What a request made outside the local store is reclaimed when it fails: *)
(* the credential in the system's vault and the template at the control    *)
(* plane.  It takes OneApp: of two processes that rotate the password of   *)
(* one profile, both reclaim the one they read.                            *)
NothingIsLeftBehind == SecretHasOwner /\ FailedCopyLeavesNothing

(* The local connections of a scope that share a schema group have one     *)
(* engine: set_schema_group and upsert judge lists that concurrent         *)
(* requests change (validate_schema_group_engine, the scope gate).  Two    *)
(* processes are not kept apart.                                           *)
OneEnginePerGroup ==
    \A c, d \in Rows \cap Locals :
        profile[c].scope = profile[d].scope /\ profile[c].group = profile[d].group
            /\ profile[c].group # NoGroup => profile[c].engine = profile[d].engine

(* A stored profile can be used: its credential is there, and its schema   *)
(* group is of its engine, whatever failed, crashed or ran next to the     *)
(* request that wrote it in the same process.  It takes OneApp: an upsert  *)
(* of one process writes the pointer it read back over one that another    *)
(* process rotated, and deleted the credential of, in the meantime.        *)
ProfilesAreSound == PointerHasSecret /\ OneEnginePerGroup

=================================================================================
