------------------------ MODULE StoredConnectionsProofs ------------------------
(***************************************************************************)
(* The connections a desktop stores: their rows and credentials            *)
(* (ConnectionSecrets), and the pins, catalogs and dashboards that rest on *)
(* their revisions (PinnedConnections).                                    *)
(***************************************************************************)
EXTENDS ConnectionSecrets, PinnedConnections, FiniteSetTheorems, TLAPS

--------------------------------------------------------------------------------
(***************************************************************************)
(* ConnectionSecrets.  A row points to a credential that is in the vault,  *)
(* no two rows to the same one, and a credential in the vault has an       *)
(* owner.                                                                  *)
(*                                                                         *)
(* Neither is inductive.  A request deletes a credential long after it     *)
(* read the row, so it must know that no row points to it by then and none *)
(* will again (Settled, HolderInv), which holds because only one request   *)
(* at a time is inside the scope gate (GateInv) and because shared rows    *)
(* are those of copies that got that far (SharedInv).  A credential that   *)
(* no row points to yet belongs to the request that will point to it or    *)
(* delete it (OwnerInv, VaultInv).                                         *)
(***************************************************************************)

Secrets == Requests \cup {OldSecret}
AnySecret == Secrets \cup {NoSecret}

ProfileFields == {"scope", "engine", "group", "secret"}

(* A row of the store, and a shared connection, which has no credential. *)
RowShape(p) == p = NoProfile \/ (DOMAIN p = ProfileFields /\ p.secret \in AnySecret)
SharedShape(p) == p = NoProfile \/ (DOMAIN p = ProfileFields /\ p.secret = NoSecret)

UpsertPcs == {"gate", "upsert", "store", "commit", "committed", "uncommitted", "done", "failed", "crashed"}
GroupPcs == {"gate", "set_schema_group", "done", "failed", "crashed"}
DeletePcs == {"gate", "delete", "committed", "done", "failed", "crashed"}
BindPcs == {"gate", "bind", "store", "commit", "committed", "uncommitted", "done", "failed", "crashed"}
CopyPcs == {"fetch", "snapshot", "share", "sync", "bind_copy", "rollback", "delete_remote", "done", "failed",
            "crashed"}

IsUpsert(q) ==
    /\ DOMAIN q = {"pc", "kind", "conn", "engine", "group", "password", "old"}
    /\ q.kind = "upsert" /\ q.pc \in UpsertPcs
    /\ q.conn \in Locals /\ q.password \in BOOLEAN /\ q.old \in AnySecret
IsSetGroup(q) ==
    /\ DOMAIN q = {"pc", "kind", "ids", "group"}
    /\ q.kind = "set_schema_group" /\ q.pc \in GroupPcs /\ q.ids \subseteq Locals
IsDelete(q) ==
    /\ DOMAIN q = {"pc", "kind", "conn", "old", "password"}
    /\ q.kind = "delete" /\ q.pc \in DeletePcs
    /\ q.conn \in Locals /\ q.password = FALSE /\ q.old \in AnySecret
IsBind(q) ==
    /\ DOMAIN q = {"pc", "kind", "conn", "old", "password"}
    /\ q.kind = "bind" /\ q.pc \in BindPcs
    /\ q.conn \in Requests /\ q.password = TRUE /\ q.old \in AnySecret
IsCopy(q) ==
    /\ DOMAIN q = {"pc", "kind", "conn", "source", "password", "list"}
    /\ q.kind = "copy" /\ q.pc \in CopyPcs
    /\ q.conn \in Locals /\ q.password \in BOOLEAN
    /\ DOMAIN q.list = Requests /\ \A c \in Requests : SharedShape(q.list[c])

ReqShape(q) ==
    q = IdleRequest \/ IsUpsert(q) \/ IsSetGroup(q) \/ IsDelete(q) \/ IsBind(q) \/ IsCopy(q)

SecretsType ==
    /\ DOMAIN profile = SecretConns /\ \A c \in SecretConns : RowShape(profile[c])
    /\ DOMAIN remote = Requests /\ \A c \in Requests : SharedShape(remote[c])
    /\ DOMAIN req = Requests /\ \A r \in Requests : ReqShape(req[r])
    /\ vault \subseteq Secrets

(* What the argument is about, read off the state: where each request      *)
(* stands, what it holds, and the credential each connection points to.    *)
pcs == [r \in Requests |-> req[r].pc]
kinds == [r \in Requests |-> IF req[r] = IdleRequest THEN "none" ELSE req[r].kind]
olds == [r \in Requests |-> IF "old" \in DOMAIN req[r] THEN req[r].old ELSE NoSecret]
pws == [r \in Requests |-> IF "password" \in DOMAIN req[r] THEN req[r].password ELSE FALSE]
tgts == [r \in Requests |-> IF "conn" \in DOMAIN req[r] THEN req[r].conn ELSE r]
sec == [c \in SecretConns |-> IF profile[c] = NoProfile THEN NoSecret ELSE profile[c].secret]

(* A copy that got as far as creating its template, or ended. *)
Past(c) ==
    kinds[c] = "copy" /\ pcs[c] \in {"sync", "bind_copy", "rollback", "delete_remote", "done", "failed", "crashed"}

(* Shared rows, here, at the control plane and in a fetched list, are      *)
(* those of such copies.                                                   *)
SharedInv ==
    \A c \in Requests :
        /\ profile[c] # NoProfile => Past(c)
        /\ remote[c] # NoProfile => Past(c)
        /\ \A r \in Requests : kinds[r] = "copy" => (req[r].list[c] # NoProfile => Past(c))

GatePcs == {"upsert", "set_schema_group", "delete", "bind", "store", "commit", "committed", "uncommitted"}
Alone(r) == \A q \in Requests \ {r} : pcs[q] \notin GatePcs
GateInv == OneApp /\ \A r \in Requests : pcs[r] \in GatePcs => Alone(r)

(* A credential whose request is through, or that was there before: no     *)
(* row will be made to point to it again.                                  *)
Settled(s) == s = OldSecret \/ (s \in Requests /\ pcs[s] \in {"committed", "done", "crashed"})
Exempt(s) == s \in Requests /\ pcs[s] = "done" /\ kinds[s] \in {"bind", "copy"}

PointerInv ==
    /\ \A c \in SecretConns : sec[c] # NoSecret => sec[c] \in vault /\ Settled(sec[c])
    /\ \A c, d \in SecretConns : sec[c] = sec[d] /\ sec[c] # NoSecret => c = d
    /\ \A c \in Requests : sec[c] # NoSecret =>
          /\ sec[c] \in Requests /\ kinds[sec[c]] \in {"bind", "copy"}
          /\ pcs[c] \notin Ended => pcs[sec[c]] # "crashed"

(* A credential is in the vault only after its request stored it. *)
VaultInv ==
    \A r \in Requests :
        /\ r \in vault => /\ pws[r]
                          /\ pcs[r] \notin {"idle", "gate", "upsert", "bind", "delete", "store", "fetch", "snapshot"}
        /\ pws[r] /\ pcs[r] \in {"commit", "share", "sync", "bind_copy"} => r \in vault
        /\ pcs[r] = "delete_remote" /\ r \in vault => r \in unreclaimed
        /\ pcs[r] = "store" => pws[r]

(* What a request knows of the credential it is about to supersede. *)
Fresh(r) == pcs[r] \in {"gate", "upsert", "delete", "bind", "set_schema_group"} => olds[r] = NoSecret
Superseding(r) ==
    pcs[r] \in {"store", "commit", "uncommitted"} =>
        /\ kinds[r] = "upsert" => olds[r] = sec[tgts[r]]
        /\ kinds[r] = "bind" =>
              /\ olds[r] # NoSecret => /\ Settled(olds[r])
                                       /\ \A d \in SecretConns : sec[d] = olds[r] => d = tgts[r]
                                       /\ sec[tgts[r]] = olds[r] \/ Exempt(olds[r])
              /\ sec[tgts[r]] \in {olds[r], NoSecret} \/ Exempt(sec[tgts[r]])
Superseded(r) ==
    pcs[r] = "committed" =>
        /\ olds[r] # NoSecret => /\ Settled(olds[r]) /\ olds[r] # r
                                 /\ \A d \in SecretConns : sec[d] # olds[r]
        /\ kinds[r] = "upsert" /\ pws[r] => sec[tgts[r]] = r
HolderInv == \A r \in Requests : Fresh(r) /\ Superseding(r) /\ Superseded(r)

Owned(s) ==
    \/ \E c \in SecretConns : sec[c] = s
    \/ \E r \in Requests : pcs[r] \notin Ended /\ (s = r \/ s = olds[r])
    \/ Exempt(s)
OwnerInv == \A s \in vault \ unreclaimed : Owned(s)

(* A connection that is about to be written agrees with its group. *)
GroupInv ==
    /\ OneEnginePerGroup
    /\ \A r \in Requests : kinds[r] = "upsert" /\ pcs[r] \in {"store", "commit"} /\ req[r].group # NoGroup =>
          \A d \in (Rows \cap Locals) \ {req[r].conn} :
             profile[d].scope = activeScope /\ profile[d].group = req[r].group => profile[d].engine = req[r].engine

(* A failed copy took its template back. *)
CopyInv ==
    \A k \in Requests : pcs[k] = "failed" /\ kinds[k] = "copy" /\ k \notin leftBehind => remote[k] = NoProfile

SecretsInv ==
    /\ SecretsType /\ SharedInv /\ GateInv /\ PointerInv /\ VaultInv /\ HolderInv /\ OwnerInv /\ GroupInv
    /\ CopyInv

--------------------------------------------------------------------------------
(* Shapes, and what each step does to what was read off the state. *)

(* Moving a request on keeps its shape. *)
LEMMA PcMoves ==
    ASSUME NEW q, ReqShape(q), q # IdleRequest, NEW p,
           IsUpsert(q) => p \in UpsertPcs, IsSetGroup(q) => p \in GroupPcs, IsDelete(q) => p \in DeletePcs,
           IsBind(q) => p \in BindPcs, IsCopy(q) => p \in CopyPcs
    PROVE  LET k == [q EXCEPT !.pc = p] IN
           /\ ReqShape(k) /\ k # IdleRequest
           /\ k.pc = p /\ k.kind = q.kind /\ DOMAIN k = DOMAIN q
           /\ "old" \in DOMAIN q => k.old = q.old
           /\ "password" \in DOMAIN q => k.password = q.password
           /\ "conn" \in DOMAIN q => k.conn = q.conn
           /\ "list" \in DOMAIN q => k.list = q.list
           /\ "group" \in DOMAIN q => k.group = q.group
           /\ "engine" \in DOMAIN q => k.engine = q.engine
<1> DEFINE k == [q EXCEPT !.pc = p]
<1>0. DOMAIN IdleRequest = {"pc"}
  BY DEF IdleRequest
<1>1. CASE IsUpsert(q)
  <2>1. IsUpsert(k)
    BY <1>1 DEF IsUpsert
  <2>. QED BY <1>0, <1>1, <2>1 DEF ReqShape, IsUpsert
<1>2. CASE IsSetGroup(q)
  <2>1. IsSetGroup(k)
    BY <1>2 DEF IsSetGroup
  <2>. QED BY <1>0, <1>2, <2>1 DEF ReqShape, IsSetGroup
<1>3. CASE IsDelete(q)
  <2>1. IsDelete(k)
    BY <1>3 DEF IsDelete
  <2>. QED BY <1>0, <1>3, <2>1 DEF ReqShape, IsDelete
<1>4. CASE IsBind(q)
  <2>1. IsBind(k)
    BY <1>4 DEF IsBind
  <2>. QED BY <1>0, <1>4, <2>1 DEF ReqShape, IsBind
<1>5. CASE IsCopy(q)
  <2>1. IsCopy(k)
    BY <1>5 DEF IsCopy
  <2>. QED BY <1>0, <1>5, <2>1 DEF ReqShape, IsCopy
<1>. QED BY <1>1, <1>2, <1>3, <1>4, <1>5 DEF ReqShape

(* What the shapes say of one request, in the flat view. *)
LEMMA Flat ==
    ASSUME SecretsType, NEW r \in Requests
    PROVE  /\ DOMAIN pcs = Requests /\ DOMAIN kinds = Requests /\ DOMAIN olds = Requests
           /\ DOMAIN pws = Requests /\ DOMAIN tgts = Requests /\ DOMAIN sec = SecretConns
           /\ pcs[r] = req[r].pc /\ (kinds[r] = "none" <=> req[r] = IdleRequest)
           /\ kinds[r] = "none" <=> pcs[r] = "idle"
           /\ kinds[r] \in {"none", "upsert", "set_schema_group", "delete", "bind", "copy"}
           /\ kinds[r] = "upsert" <=> IsUpsert(req[r])
           /\ kinds[r] = "set_schema_group" <=> IsSetGroup(req[r])
           /\ kinds[r] = "delete" <=> IsDelete(req[r])
           /\ kinds[r] = "bind" <=> IsBind(req[r])
           /\ kinds[r] = "copy" <=> IsCopy(req[r])
           /\ olds[r] \in AnySecret /\ pws[r] \in BOOLEAN
<1>1. ReqShape(req[r])
  BY DEF SecretsType
<1>2. /\ DOMAIN pcs = Requests /\ DOMAIN kinds = Requests /\ DOMAIN olds = Requests
      /\ DOMAIN pws = Requests /\ DOMAIN tgts = Requests /\ DOMAIN sec = SecretConns
  BY DEF pcs, kinds, olds, pws, tgts, sec
<1>3. /\ pcs[r] = req[r].pc
      /\ kinds[r] = IF req[r] = IdleRequest THEN "none" ELSE req[r].kind
      /\ olds[r] = IF "old" \in DOMAIN req[r] THEN req[r].old ELSE NoSecret
      /\ pws[r] = IF "password" \in DOMAIN req[r] THEN req[r].password ELSE FALSE
  BY DEF pcs, kinds, olds, pws
<1>4. DOMAIN IdleRequest = {"pc"} /\ IdleRequest.pc = "idle"
  BY DEF IdleRequest
<1>5. CASE req[r] = IdleRequest
  BY <1>2, <1>3, <1>4, <1>5 DEF IsUpsert, IsSetGroup, IsDelete, IsBind, IsCopy, AnySecret
<1>6. CASE IsUpsert(req[r])
  BY <1>2, <1>3, <1>4, <1>6 DEF IsUpsert, IsSetGroup, IsDelete, IsBind, IsCopy, UpsertPcs
<1>7. CASE IsSetGroup(req[r])
  BY <1>2, <1>3, <1>4, <1>7 DEF IsUpsert, IsSetGroup, IsDelete, IsBind, IsCopy, GroupPcs, AnySecret
<1>8. CASE IsDelete(req[r])
  BY <1>2, <1>3, <1>4, <1>8 DEF IsUpsert, IsSetGroup, IsDelete, IsBind, IsCopy, DeletePcs
<1>9. CASE IsBind(req[r])
  BY <1>2, <1>3, <1>4, <1>9 DEF IsUpsert, IsSetGroup, IsDelete, IsBind, IsCopy, BindPcs
<1>10. CASE IsCopy(req[r])
  BY <1>2, <1>3, <1>4, <1>10 DEF IsUpsert, IsSetGroup, IsDelete, IsBind, IsCopy, CopyPcs, AnySecret
<1>. QED BY <1>1, <1>5, <1>6, <1>7, <1>8, <1>9, <1>10 DEF ReqShape

(* The positions of each kind of request. *)
LEMMA FlatPcs ==
    ASSUME SecretsType, NEW r \in Requests
    PROVE  /\ kinds[r] = "upsert" => pcs[r] \in UpsertPcs /\ tgts[r] \in Locals /\ tgts[r] = req[r].conn
           /\ kinds[r] = "set_schema_group" => pcs[r] \in GroupPcs /\ pws[r] = FALSE /\ olds[r] = NoSecret
           /\ kinds[r] = "delete" => /\ pcs[r] \in DeletePcs /\ pws[r] = FALSE
                                     /\ tgts[r] \in Locals /\ tgts[r] = req[r].conn
           /\ kinds[r] = "bind" => /\ pcs[r] \in BindPcs /\ pws[r] = TRUE
                                   /\ tgts[r] \in Requests /\ tgts[r] = req[r].conn
           /\ kinds[r] = "copy" => pcs[r] \in CopyPcs /\ olds[r] = NoSecret /\ pws[r] = req[r].password
           /\ kinds[r] \in {"upsert", "delete", "bind"} => olds[r] = req[r].old /\ pws[r] = req[r].password
           /\ kinds[r] = "none" => pws[r] = FALSE /\ olds[r] = NoSecret
<1>1. /\ pcs[r] = req[r].pc
      /\ olds[r] = IF "old" \in DOMAIN req[r] THEN req[r].old ELSE NoSecret
      /\ pws[r] = IF "password" \in DOMAIN req[r] THEN req[r].password ELSE FALSE
      /\ tgts[r] = IF "conn" \in DOMAIN req[r] THEN req[r].conn ELSE r
  BY DEF pcs, olds, pws, tgts
<1>2. kinds[r] = "upsert" => pcs[r] \in UpsertPcs /\ tgts[r] \in Locals /\ tgts[r] = req[r].conn
  BY <1>1, Flat DEF IsUpsert
<1>3. kinds[r] = "set_schema_group" => pcs[r] \in GroupPcs /\ pws[r] = FALSE /\ olds[r] = NoSecret
  BY <1>1, Flat DEF IsSetGroup
<1>4. kinds[r] = "delete" => /\ pcs[r] \in DeletePcs /\ pws[r] = FALSE
                             /\ tgts[r] \in Locals /\ tgts[r] = req[r].conn
  BY <1>1, Flat DEF IsDelete
<1>5. kinds[r] = "bind" => /\ pcs[r] \in BindPcs /\ pws[r] = TRUE
                           /\ tgts[r] \in Requests /\ tgts[r] = req[r].conn
  BY <1>1, Flat DEF IsBind
<1>6. kinds[r] = "copy" => pcs[r] \in CopyPcs /\ olds[r] = NoSecret /\ pws[r] = req[r].password
  <2> SUFFICES ASSUME kinds[r] = "copy" PROVE pcs[r] \in CopyPcs /\ olds[r] = NoSecret /\ pws[r] = req[r].password
    OBVIOUS
  <2>1. IsCopy(req[r])
    BY Flat
  <2>2. /\ "old" \notin DOMAIN req[r] /\ "password" \in DOMAIN req[r] /\ req[r].pc \in CopyPcs
    BY <2>1 DEF IsCopy
  <2>. QED BY <1>1, <2>2
<1>7. kinds[r] \in {"upsert", "delete", "bind"} => olds[r] = req[r].old /\ pws[r] = req[r].password
  BY <1>1, Flat DEF IsUpsert, IsDelete, IsBind
<1>8. kinds[r] = "none" => pws[r] = FALSE /\ olds[r] = NoSecret
  BY <1>1, Flat DEF IdleRequest
<1>. QED BY <1>2, <1>3, <1>4, <1>5, <1>6, <1>7, <1>8

(* A request that only moves. *)
LEMMA ToReqEffect ==
    ASSUME SecretsType, NEW r \in Requests, kinds[r] # "none", NEW p, ToReq(r, p),
           kinds[r] = "upsert" => p \in UpsertPcs, kinds[r] = "set_schema_group" => p \in GroupPcs,
           kinds[r] = "delete" => p \in DeletePcs, kinds[r] = "bind" => p \in BindPcs,
           kinds[r] = "copy" => p \in CopyPcs
    PROVE  /\ DOMAIN req' = Requests /\ \A x \in Requests : ReqShape(req'[x])
           /\ pcs' = [pcs EXCEPT ![r] = p] /\ kinds' = kinds /\ olds' = olds /\ pws' = pws /\ tgts' = tgts
           /\ \A x \in Requests : "list" \in DOMAIN req[x] => req'[x].list = req[x].list
           /\ \A x \in Requests : "group" \in DOMAIN req[x] => req'[x].group = req[x].group
           /\ \A x \in Requests : "engine" \in DOMAIN req[x] => req'[x].engine = req[x].engine
           /\ \A x \in Requests : "conn" \in DOMAIN req[x] => req'[x].conn = req[x].conn
           /\ \A x \in Requests \ {r} : req'[x] = req[x]
<1>1. ReqShape(req[r]) /\ req[r] # IdleRequest /\ DOMAIN req = Requests /\ \A x \in Requests : ReqShape(req[x])
  BY Flat DEF SecretsType
<1>2. req'[r] = [req[r] EXCEPT !.pc = p] /\ DOMAIN req' = Requests /\ \A x \in Requests \ {r} : req'[x] = req[x]
  BY <1>1 DEF ToReq
<1>3. PICK q : q = req[r]
  OBVIOUS
<1>4. PICK k : k = [q EXCEPT !.pc = p]
  OBVIOUS
<1>5. /\ ReqShape(k) /\ k # IdleRequest /\ k.pc = p /\ k.kind = q.kind /\ DOMAIN k = DOMAIN q
      /\ "old" \in DOMAIN q => k.old = q.old
      /\ "password" \in DOMAIN q => k.password = q.password
      /\ "conn" \in DOMAIN q => k.conn = q.conn
      /\ "list" \in DOMAIN q => k.list = q.list
      /\ "group" \in DOMAIN q => k.group = q.group
      /\ "engine" \in DOMAIN q => k.engine = q.engine
  BY <1>1, <1>3, <1>4, Flat, PcMoves
<1>6. req'[r] = k
  BY <1>2, <1>3, <1>4
<1>7. \A x \in Requests : ReqShape(req'[x])
  BY <1>1, <1>2, <1>5, <1>6 DEF ReqShape, IsUpsert, IsSetGroup, IsDelete, IsBind, IsCopy
<1>8. pcs' = [pcs EXCEPT ![r] = p]
  BY <1>2, <1>5, <1>6 DEF pcs
<1>9. kinds' = kinds
  BY <1>1, <1>2, <1>3, <1>5, <1>6 DEF kinds
<1>10. olds' = olds
  BY <1>2, <1>3, <1>5, <1>6 DEF olds
<1>11. pws' = pws
  BY <1>2, <1>3, <1>5, <1>6 DEF pws
<1>12. tgts' = tgts
  BY <1>2, <1>3, <1>5, <1>6 DEF tgts
<1>13. \A x \in Requests : "list" \in DOMAIN req[x] => req'[x].list = req[x].list
  BY <1>2, <1>3, <1>5, <1>6
<1>14. \A x \in Requests : "group" \in DOMAIN req[x] => req'[x].group = req[x].group
  BY <1>2, <1>3, <1>5, <1>6
<1>15. \A x \in Requests : "engine" \in DOMAIN req[x] => req'[x].engine = req[x].engine
  BY <1>2, <1>3, <1>5, <1>6
<1>16. \A x \in Requests : "conn" \in DOMAIN req[x] => req'[x].conn = req[x].conn
  BY <1>2, <1>3, <1>5, <1>6
<1>. QED BY <1>2, <1>7, <1>8, <1>9, <1>10, <1>11, <1>12, <1>13, <1>14, <1>15, <1>16

(* A request that moves and takes down what it will supersede. *)
LEMMA PcOldEffect ==
    ASSUME SecretsType, NEW r \in Requests, kinds[r] \in {"upsert", "delete", "bind"},
           DOMAIN req' = Requests, \A x \in Requests \ {r} : req'[x] = req[x],
           DOMAIN req'[r] = DOMAIN req[r], req'[r].old \in AnySecret,
           \A f \in DOMAIN req[r] \ {"pc", "old"} : req'[r][f] = req[r][f],
           kinds[r] = "upsert" => req'[r].pc \in UpsertPcs, kinds[r] = "delete" => req'[r].pc \in DeletePcs,
           kinds[r] = "bind" => req'[r].pc \in BindPcs
    PROVE  /\ \A x \in Requests : ReqShape(req'[x])
           /\ pcs' = [pcs EXCEPT ![r] = req'[r].pc] /\ kinds' = kinds /\ olds' = [olds EXCEPT ![r] = req'[r].old]
           /\ pws' = pws /\ tgts' = tgts
           /\ \A x \in Requests : "group" \in DOMAIN req[x] => req'[x].group = req[x].group
           /\ \A x \in Requests : "engine" \in DOMAIN req[x] => req'[x].engine = req[x].engine
<1>1. /\ IsUpsert(req[r]) \/ IsDelete(req[r]) \/ IsBind(req[r])
      /\ req[r] # IdleRequest /\ DOMAIN req = Requests /\ \A x \in Requests : ReqShape(req[x])
  BY Flat DEF SecretsType
<1>2. /\ DOMAIN req' = Requests /\ \A x \in Requests \ {r} : req'[x] = req[x]
  OBVIOUS
<1>3. PICK q : q = req[r]
  OBVIOUS
<1>4. PICK k, p, s : k = req'[r] /\ p = k.pc /\ s = k.old /\ s \in AnySecret
  OBVIOUS
<1>5. /\ ReqShape(k) /\ k # IdleRequest /\ k.pc = p /\ k.kind = q.kind /\ DOMAIN k = DOMAIN q
      /\ k.old = s /\ k.password = q.password /\ k.conn = q.conn
      /\ "old" \in DOMAIN q /\ "password" \in DOMAIN q /\ "conn" \in DOMAIN q
      /\ "group" \in DOMAIN q => k.group = q.group
      /\ "engine" \in DOMAIN q => k.engine = q.engine
  <2>1. /\ IsUpsert(q) \/ IsDelete(q) \/ IsBind(q)
        /\ DOMAIN k = DOMAIN q /\ \A f \in DOMAIN q \ {"pc", "old"} : k[f] = q[f]
        /\ IsUpsert(q) => p \in UpsertPcs
        /\ IsDelete(q) => p \in DeletePcs
        /\ IsBind(q) => p \in BindPcs
    BY <1>1, <1>3, <1>4, Flat
  <2>2. CASE IsUpsert(q)
    <3>1. IsUpsert(k)
      BY <1>4, <2>1, <2>2 DEF IsUpsert
    <3>. QED BY <1>4, <2>1, <2>2, <3>1 DEF ReqShape, IsUpsert, IdleRequest
  <2>3. CASE IsDelete(q)
    <3>1. IsDelete(k)
      BY <1>4, <2>1, <2>3 DEF IsDelete
    <3>. QED BY <1>4, <2>1, <2>3, <3>1 DEF ReqShape, IsDelete, IdleRequest
  <2>4. CASE IsBind(q)
    <3>1. IsBind(k)
      BY <1>4, <2>1, <2>4 DEF IsBind
    <3>. QED BY <1>4, <2>1, <2>4, <3>1 DEF ReqShape, IsBind, IdleRequest
  <2>. QED BY <2>1, <2>2, <2>3, <2>4
<1>6. req'[r] = k
  BY <1>2, <1>3, <1>4
<1>7. \A x \in Requests : ReqShape(req'[x])
  BY <1>1, <1>2, <1>5, <1>6 DEF ReqShape, IsUpsert, IsSetGroup, IsDelete, IsBind, IsCopy
<1>8. pcs' = [pcs EXCEPT ![r] = req'[r].pc]
  BY <1>2, <1>4, <1>5, <1>6 DEF pcs
<1>9. kinds' = kinds
  BY <1>1, <1>2, <1>3, <1>5, <1>6 DEF kinds
<1>10. olds' = [olds EXCEPT ![r] = req'[r].old]
  BY <1>2, <1>3, <1>4, <1>5, <1>6 DEF olds
<1>11. pws' = pws
  BY <1>2, <1>3, <1>5, <1>6 DEF pws
<1>12. tgts' = tgts
  BY <1>2, <1>3, <1>5, <1>6 DEF tgts
<1>13. \A x \in Requests : "group" \in DOMAIN req[x] => req'[x].group = req[x].group
  BY <1>2, <1>3, <1>5, <1>6
<1>14. \A x \in Requests : "engine" \in DOMAIN req[x] => req'[x].engine = req[x].engine
  BY <1>2, <1>3, <1>5, <1>6
<1>. QED BY <1>2, <1>7, <1>8, <1>9, <1>10, <1>11, <1>12, <1>13, <1>14

(* A copy that moves and takes down a list. *)
LEMMA PcListEffect ==
    ASSUME SecretsType, NEW r \in Requests, kinds[r] = "copy", DOMAIN req'[r] = DOMAIN req[r],
           \A f \in DOMAIN req[r] \ {"pc", "list"} : req'[r][f] = req[r][f], req'[r].pc \in CopyPcs,
           DOMAIN req'[r].list = Requests, \A c \in Requests : SharedShape(req'[r].list[c]),
           DOMAIN req' = Requests, \A x \in Requests \ {r} : req'[x] = req[x]
    PROVE  /\ \A x \in Requests : ReqShape(req'[x])
           /\ pcs' = [pcs EXCEPT ![r] = req'[r].pc] /\ kinds' = kinds /\ olds' = olds /\ pws' = pws /\ tgts' = tgts
<1>1. IsCopy(req[r]) /\ req[r] # IdleRequest /\ DOMAIN req = Requests /\ \A x \in Requests : ReqShape(req[x])
  BY Flat DEF SecretsType
<1>2. PICK q : q = req[r]
  OBVIOUS
<1>3. PICK k, l : k = req'[r] /\ l = k.list
  OBVIOUS
<1>4. /\ DOMAIN k = DOMAIN q /\ \A f \in DOMAIN q \ {"pc", "list"} : k[f] = q[f]
      /\ k.pc \in CopyPcs /\ DOMAIN l = Requests /\ \A c \in Requests : SharedShape(l[c])
  BY <1>2, <1>3 DEF SharedShape
<1>5. /\ IsCopy(k) /\ k.kind = q.kind /\ k.password = q.password /\ k.conn = q.conn
      /\ "old" \notin DOMAIN q
  BY <1>1, <1>2, <1>3, <1>4 DEF IsCopy
<1>6. k # IdleRequest
  BY <1>5 DEF IsCopy, IdleRequest
<1>7. \A x \in Requests : ReqShape(req'[x])
  BY <1>1, <1>3, <1>5 DEF ReqShape, IsUpsert, IsSetGroup, IsDelete, IsBind, IsCopy
<1>8. pcs' = [pcs EXCEPT ![r] = req'[r].pc]
  BY <1>3 DEF pcs
<1>9. kinds' = kinds
  BY <1>1, <1>2, <1>3, <1>5, <1>6 DEF kinds
<1>10. olds' = olds
  BY <1>2, <1>3, <1>4, <1>5 DEF olds
<1>11. pws' = pws
  BY <1>2, <1>3, <1>4, <1>5 DEF pws
<1>12. tgts' = tgts
  BY <1>2, <1>3, <1>4, <1>5 DEF tgts
<1>. QED BY <1>7, <1>8, <1>9, <1>10, <1>11, <1>12

(* A request that starts. *)
LEMMA StartEffect ==
    ASSUME SecretsType, NEW r \in Requests, req[r] = IdleRequest, NEW q, ReqShape(q), q # IdleRequest,
           req' = [req EXCEPT ![r] = q], "old" \in DOMAIN q => q.old = NoSecret
    PROVE  /\ DOMAIN req' = Requests /\ \A x \in Requests : ReqShape(req'[x])
           /\ pcs' = [pcs EXCEPT ![r] = q.pc] /\ kinds' = [kinds EXCEPT ![r] = q.kind] /\ olds' = olds
           /\ pws'[r] = (IF "password" \in DOMAIN q THEN q.password ELSE FALSE)
           /\ \A x \in Requests \ {r} : req'[x] = req[x] /\ pws'[x] = pws[x] /\ tgts'[x] = tgts[x]
           /\ req'[r] = q
<1>1. DOMAIN req = Requests /\ \A x \in Requests : ReqShape(req[x])
  BY DEF SecretsType
<1>2. DOMAIN req' = Requests /\ req'[r] = q /\ \A x \in Requests \ {r} : req'[x] = req[x]
  BY <1>1
<1>3. \A x \in Requests : ReqShape(req'[x])
  BY <1>1, <1>2 DEF ReqShape, IsUpsert, IsSetGroup, IsDelete, IsBind, IsCopy
<1>4. pcs' = [pcs EXCEPT ![r] = q.pc] /\ kinds' = [kinds EXCEPT ![r] = q.kind]
  BY <1>2 DEF pcs, kinds
<1>5. olds' = olds
  BY <1>2 DEF olds, IdleRequest
<1>6. \A x \in Requests \ {r} : pws'[x] = pws[x] /\ tgts'[x] = tgts[x]
  BY <1>2 DEF pws, tgts
<1>7. pws'[r] = (IF "password" \in DOMAIN q THEN q.password ELSE FALSE)
  BY <1>2 DEF pws
<1>. QED BY <1>2, <1>3, <1>4, <1>5, <1>6, <1>7

--------------------------------------------------------------------------------
(* What carries over from one state to the next. *)

(* A step is one request's: the others stand where they stood. *)
Others(r) ==
    \A x \in Requests \ {r} : /\ pcs'[x] = pcs[x] /\ kinds'[x] = kinds[x] /\ olds'[x] = olds[x]
                              /\ pws'[x] = pws[x] /\ tgts'[x] = tgts[x]

SettledPcs == {"committed", "done", "crashed"}
PastPcs == {"sync", "bind_copy", "rollback", "delete_remote", "done", "failed", "crashed"}

(* What the step of a request may not undo. *)
Forward(r) ==
    /\ pcs[r] \in SettledPcs => pcs'[r] \in SettledPcs
    /\ pcs[r] = "done" => pcs'[r] = "done"
    /\ kinds[r] # "none" => kinds'[r] = kinds[r]
    /\ kinds[r] = "copy" /\ pcs[r] \in PastPcs => pcs'[r] \in PastPcs
    /\ pcs'[r] = "crashed" => pcs[r] = "crashed"
    /\ pcs'[r] \notin Ended => pcs[r] \notin Ended \/ kinds[r] = "none"

(* A settled credential stays settled, an exempt one exempt, and a copy    *)
(* that created its template has done so.                                  *)
LEMMA Stays ==
    ASSUME SecretsType, NEW r \in Requests, Others(r), Forward(r)
    PROVE  /\ \A s : Settled(s) => Settled(s)'
           /\ \A s : Exempt(s) => Exempt(s)'
           /\ \A c \in Requests : Past(c) => Past(c)'
           /\ \A x \in Requests : kinds[x] # "none" => kinds'[x] = kinds[x]
           /\ \A x \in Requests : pcs'[x] = "crashed" => pcs[x] = "crashed"
           /\ \A x \in Requests : pcs'[x] \notin Ended => pcs[x] \notin Ended \/ kinds[x] = "none"
<1>1. \A s : Settled(s) => Settled(s)'
  BY DEF Settled, Others, Forward, SettledPcs
<1>2. \A s : Exempt(s) => Exempt(s)'
  BY DEF Exempt, Others, Forward
<1>3. \A c \in Requests : Past(c) => Past(c)'
  BY DEF Past, Others, Forward, PastPcs
<1>4. \A x \in Requests : kinds[x] # "none" => kinds'[x] = kinds[x]
  BY DEF Others, Forward
<1>5. \A x \in Requests : pcs'[x] = "crashed" => pcs[x] = "crashed"
  BY DEF Others, Forward
<1>6. \A x \in Requests : pcs'[x] \notin Ended => pcs[x] \notin Ended \/ kinds[x] = "none"
  BY DEF Others, Forward
<1>. QED BY <1>1, <1>2, <1>3, <1>4, <1>5, <1>6

(* Shared rows appear only for copies that created their template. *)
LEMMA SharedKept ==
    ASSUME SharedInv, \A c \in Requests : Past(c) => Past(c)',
           \A c \in Requests : profile'[c] # NoProfile => profile[c] # NoProfile \/ Past(c)',
           \A c \in Requests : remote'[c] # NoProfile => remote[c] # NoProfile \/ Past(c)',
           \A x, c \in Requests : kinds'[x] = "copy" /\ req'[x].list[c] # NoProfile =>
               Past(c)' \/ (kinds[x] = "copy" /\ req[x].list[c] # NoProfile)
    PROVE  SharedInv'
<1>1. \A c \in Requests : profile'[c] # NoProfile => Past(c)'
  BY DEF SharedInv
<1>2. \A c \in Requests : remote'[c] # NoProfile => Past(c)'
  BY DEF SharedInv
<1>3. \A x, c \in Requests : kinds'[x] = "copy" /\ req'[x].list[c] # NoProfile => Past(c)'
  BY DEF SharedInv
<1>. QED BY <1>1, <1>2, <1>3 DEF SharedInv

(* Where the gate is free nobody is inside: every request is of the one    *)
(* process there is.                                                       *)
LEMMA GateIsFree ==
    ASSUME SecretsType, GateInv, NEW a \in Apps, GateFree(a)
    PROVE  \A q \in Requests : pcs[q] \notin GatePcs
<1>1. \A q \in Requests : AppOf[q] = a
  BY DEF GateInv, OneApp, Apps
<1>. QED BY <1>1, Flat DEF GateFree, InGate, GatePcs

(* The gate is handed over by the request that holds it. *)
LEMMA GateKept ==
    ASSUME SecretsType, GateInv, NEW r \in Requests, Others(r),
           pcs'[r] \in GatePcs => Alone(r)
    PROVE  GateInv'
BY DEF GateInv, Others, Alone

(* Rows lose their credential, or one row gets that of the request. *)
LEMMA PointerKept ==
    ASSUME SecretsType, SharedInv, PointerInv, NEW r \in Requests, Others(r), Forward(r),
           \A c \in SecretConns : sec'[c] \in {sec[c], NoSecret, r},
           \A c \in SecretConns : sec'[c] = sec[c] /\ sec[c] # NoSecret => sec[c] \in vault',
           (\E c \in SecretConns : sec'[c] = r /\ sec[c] # r) =>
               /\ \A c \in SecretConns : sec[c] # r
               /\ \A c, d \in SecretConns : sec'[c] = r /\ sec'[d] = r => c = d
               /\ r \in vault' /\ pcs'[r] \in SettledPcs \ {"crashed"},
           \A c \in Requests : sec'[c] = r /\ sec[c] # r => kinds'[r] \in {"bind", "copy"}
    PROVE  PointerInv'
<1>0. NoSecret # r /\ Requests \subseteq SecretConns
  BY SecretsAssumption DEF SecretConns
<1>1. ASSUME NEW c \in SecretConns, sec'[c] # NoSecret PROVE sec'[c] \in vault' /\ Settled(sec[c])'
  <2>1. CASE sec'[c] = sec[c]
    <3>1. PICK s : s = sec[c]
      OBVIOUS
    <3>2. Settled(s) /\ s \in vault'
      BY <1>1, <2>1, <3>1 DEF PointerInv
    <3>3. Settled(s)'
      BY <3>2, Stays
    <3>. QED BY <2>1, <3>1, <3>2, <3>3 DEF Settled
  <2>2. CASE sec'[c] # sec[c]
    <3>1. sec'[c] = r /\ r \in vault' /\ pcs'[r] \in SettledPcs
      BY <1>0, <1>1, <2>2
    <3>. QED BY <3>1 DEF Settled, SettledPcs
  <2>. QED BY <2>1, <2>2
<1>2. ASSUME NEW c \in SecretConns, NEW d \in SecretConns, sec'[c] = sec'[d], sec'[c] # NoSecret PROVE c = d
  <2>1. CASE sec'[c] = sec[c] /\ sec'[d] = sec[d]
    BY <1>2, <2>1 DEF PointerInv
  <2>2. CASE sec'[c] # sec[c] \/ sec'[d] # sec[d]
    BY <1>0, <1>2, <2>2
  <2>. QED BY <2>1, <2>2
<1>3. ASSUME NEW c \in Requests, sec'[c] # NoSecret
      PROVE /\ sec'[c] \in Requests /\ kinds'[sec'[c]] \in {"bind", "copy"}
            /\ pcs'[c] \notin Ended => pcs'[sec'[c]] # "crashed"
  <2>1. CASE sec'[c] = sec[c]
    <3>1. PICK s : s = sec[c]
      OBVIOUS
    <3>2. s \in Requests /\ kinds[s] \in {"bind", "copy"} /\ (pcs[c] \notin Ended => pcs[s] # "crashed")
      BY <1>3, <2>1, <3>1 DEF PointerInv
    <3>3. c \in SecretConns /\ profile[c] # NoProfile
      BY <1>0, <1>3, <2>1 DEF sec
    <3>4. kinds[c] # "none"
      BY <3>3 DEF SharedInv, Past
    <3>5. kinds'[s] = kinds[s] /\ (pcs'[s] = "crashed" => pcs[s] = "crashed")
          /\ (pcs'[c] \notin Ended => pcs[c] \notin Ended)
      BY <3>2, <3>4, Stays
    <3>. QED BY <2>1, <3>1, <3>2, <3>5
  <2>2. CASE sec'[c] # sec[c]
    <3>1. sec'[c] = r /\ pcs'[r] \in SettledPcs \ {"crashed"} /\ kinds'[r] \in {"bind", "copy"}
      BY <1>0, <1>3, <2>2
    <3>. QED BY <3>1
  <2>. QED BY <2>1, <2>2
<1>. QED BY <1>1, <1>2, <1>3 DEF PointerInv

(* The vault changes for the request, or loses credentials that no request *)
(* is about to use.                                                        *)
LEMMA VaultKept ==
    ASSUME SecretsType, VaultInv, NEW r \in Requests, Others(r), unreclaimed \subseteq unreclaimed',
           \A x \in Requests \ {r} : x \in vault' => x \in vault,
           \A x \in Requests \ {r} : x \in vault /\ x \notin vault' =>
               pcs[x] \notin {"commit", "share", "sync", "bind_copy"},
           r \in vault' => /\ pws'[r]
                           /\ pcs'[r] \notin {"idle", "gate", "upsert", "bind", "delete", "store", "fetch", "snapshot"},
           pws'[r] /\ pcs'[r] \in {"commit", "share", "sync", "bind_copy"} => r \in vault',
           pcs'[r] = "delete_remote" /\ r \in vault' => r \in unreclaimed',
           pcs'[r] = "store" => pws'[r]
    PROVE  VaultInv'
<1>. SUFFICES ASSUME NEW x \in Requests
     PROVE  /\ x \in vault' => /\ pws'[x]
                               /\ pcs'[x] \notin {"idle", "gate", "upsert", "bind", "delete", "store", "fetch", "snapshot"}
            /\ pws'[x] /\ pcs'[x] \in {"commit", "share", "sync", "bind_copy"} => x \in vault'
            /\ pcs'[x] = "delete_remote" /\ x \in vault' => x \in unreclaimed'
            /\ pcs'[x] = "store" => pws'[x]
  BY DEF VaultInv
<1>1. CASE x = r
  BY <1>1
<1>2. CASE x # r
  <2>1. pcs'[x] = pcs[x] /\ pws'[x] = pws[x]
    BY <1>2 DEF Others
  <2>. QED BY <1>2, <2>1 DEF VaultInv
<1>. QED BY <1>1, <1>2

(* A credential keeps an owner when the step's own do. *)
LEMMA OwnerKept ==
    ASSUME SecretsType, OwnerInv, NEW r \in Requests, Others(r), Forward(r), unreclaimed \subseteq unreclaimed',
           \A s \in vault' : s \in vault \/ s = r,
           \A c \in SecretConns, s \in vault' \ unreclaimed' : s = sec[c] => Owned(s)',
           r \in vault' \ unreclaimed' => Owned(r)',
           \A s \in vault' \ unreclaimed' : s = olds[r] /\ pcs[r] \notin Ended => Owned(s)'
    PROVE  OwnerInv'
<1>. SUFFICES ASSUME NEW s \in vault' \ unreclaimed' PROVE Owned(s)'
  BY DEF OwnerInv
<1>1. CASE s = r
  BY <1>1
<1>2. CASE s # r
  <2>1. Owned(s)
    BY <1>2 DEF OwnerInv
  <2>2. CASE \E c \in SecretConns : sec[c] = s
    <3>1. PICK c \in SecretConns : sec[c] = s
      BY <2>2
    <3>. QED BY <3>1
  <2>3. CASE \E x \in Requests : pcs[x] \notin Ended /\ (s = x \/ s = olds[x])
    <3>1. PICK x \in Requests : pcs[x] \notin Ended /\ (s = x \/ s = olds[x])
      BY <2>3
    <3>2. CASE x = r
      BY <1>2, <3>1, <3>2
    <3>3. CASE x # r
      BY <3>1, <3>3 DEF Owned, Others
    <3>. QED BY <3>2, <3>3
  <2>4. CASE Exempt(s)
    <3>1. Exempt(s)'
      BY <2>4, Stays
    <3>. QED BY <3>1 DEF Owned
  <2>. QED BY <2>1, <2>2, <2>3, <2>4 DEF Owned
<1>. QED BY <1>1, <1>2

(* What the others are about to supersede is not touched by a step that    *)
(* leaves the pointers alone.                                              *)
LEMMA HolderQuiet ==
    ASSUME SecretsType, HolderInv, NEW r \in Requests, Others(r), Forward(r), sec' = sec,
           Fresh(r)', Superseding(r)', Superseded(r)'
    PROVE  HolderInv'
<1>. SUFFICES ASSUME NEW x \in Requests \ {r} PROVE Fresh(x)' /\ Superseding(x)' /\ Superseded(x)'
  BY DEF HolderInv
<1>1. /\ pcs'[x] = pcs[x] /\ kinds'[x] = kinds[x] /\ olds'[x] = olds[x] /\ pws'[x] = pws[x] /\ tgts'[x] = tgts[x]
  BY DEF Others
<1>2. Fresh(x) /\ Superseding(x) /\ Superseded(x)
  BY DEF HolderInv
<1>3. PICK o, t : o = olds[x] /\ t = sec[tgts[x]]
  OBVIOUS
<1>4. (Settled(o) => Settled(o)') /\ (Exempt(o) => Exempt(o)') /\ (Exempt(t) => Exempt(t)')
  BY Stays
<1>5. Fresh(x)'
  BY <1>1, <1>2 DEF Fresh
<1>6. Superseding(x)'
  BY <1>1, <1>2, <1>3, <1>4 DEF Superseding, Settled, Exempt
<1>7. Superseded(x)'
  BY <1>1, <1>2, <1>3, <1>4 DEF Superseded, Settled
<1>. QED BY <1>5, <1>6, <1>7

(* Nobody else is about to supersede anything when no other request is     *)
(* inside the gate.                                                        *)
LEMMA HolderAlone ==
    ASSUME SecretsType, GateInv, HolderInv, NEW r \in Requests, Others(r),
           Alone(r), Fresh(r)', Superseding(r)', Superseded(r)'
    PROVE  HolderInv'
<1>. SUFFICES ASSUME NEW x \in Requests \ {r} PROVE Fresh(x)' /\ Superseding(x)' /\ Superseded(x)'
  BY DEF HolderInv
<1>1. pcs'[x] = pcs[x] /\ kinds'[x] = kinds[x] /\ olds'[x] = olds[x]
  BY DEF Others
<1>2. Fresh(x)
  BY DEF HolderInv
<1>3. pcs[x] \notin {"store", "commit", "uncommitted", "committed"}
  BY DEF Alone, GatePcs
<1>. QED BY <1>1, <1>2, <1>3 DEF Fresh, Superseding, Superseded

(* A copy that binds its row, or removes it, disturbs no binding of the    *)
(* same row: the credential it takes the place of is exempt.               *)
LEMMA HolderBeside ==
    ASSUME SecretsType, GateInv, PointerInv, HolderInv, NEW r \in Requests, Others(r), Forward(r),
           DOMAIN sec = SecretConns,
           \A c \in SecretConns \ {r} : sec'[c] = sec[c], sec'[r] \in {NoSecret, r},
           kinds[r] = "copy", pcs[r] \in {"bind_copy", "delete_remote"},
           sec'[r] = r => pcs'[r] = "done",
           pcs'[r] \in {"done", "failed"}, olds'[r] = NoSecret
    PROVE  HolderInv'
<1>0. kinds'[r] = "copy" /\ r \in SecretConns /\ r # NoSecret /\ Locals \cap Requests = {}
  BY SecretsAssumption DEF Forward, SecretConns
<1>1. Fresh(r)' /\ Superseding(r)' /\ Superseded(r)'
  BY <1>0 DEF Fresh, Superseding, Superseded
<1>. SUFFICES ASSUME NEW x \in Requests \ {r} PROVE Fresh(x)' /\ Superseding(x)' /\ Superseded(x)'
  BY <1>1 DEF HolderInv
<1>2. /\ pcs'[x] = pcs[x] /\ kinds'[x] = kinds[x] /\ olds'[x] = olds[x] /\ pws'[x] = pws[x] /\ tgts'[x] = tgts[x]
  BY DEF Others
<1>3. Fresh(x) /\ Superseding(x) /\ Superseded(x)
  BY DEF HolderInv
<1>4. PICK o, t : o = olds[x] /\ t = sec[tgts[x]]
  OBVIOUS
<1>5. (Settled(o) => Settled(o)') /\ (Exempt(o) => Exempt(o)') /\ (Exempt(t) => Exempt(t)')
  BY Stays
<1>6. Fresh(x)'
  BY <1>2, <1>3 DEF Fresh
<1>7. ~Settled(r)
  BY SecretsAssumption DEF Settled
<1>8. Superseded(x)'
  <2>1. o # r \/ ~Settled(o)
    BY <1>7
  <2>2. kinds[x] = "upsert" => tgts[x] \in SecretConns \ {r}
    BY <1>0, FlatPcs DEF SecretConns
  <2>. QED BY <1>2, <1>3, <1>4, <1>5, <2>1, <2>2 DEF Superseded, Settled
<1>9. ASSUME pcs[x] \in {"store", "commit", "uncommitted"}, sec[r] # NoSecret PROVE Exempt(sec[r])
  <2>1. /\ sec[r] \in Requests /\ kinds[sec[r]] \in {"bind", "copy"} /\ pcs[sec[r]] # "crashed"
        /\ pcs[sec[r]] \in {"committed", "done", "crashed"}
    BY <1>0, <1>9, SecretsAssumption DEF PointerInv, Settled, Ended
  <2>2. pcs[sec[r]] # "committed"
    BY <1>9, <2>1 DEF GateInv, GatePcs, Alone
  <2>. QED BY <2>1, <2>2 DEF Exempt
<1>10. Superseding(x)'
  <2>. SUFFICES ASSUME pcs[x] \in {"store", "commit", "uncommitted"} PROVE Superseding(x)'
    BY <1>2 DEF Superseding
  <2>1. kinds[x] = "upsert" => tgts[x] \in SecretConns \ {r}
    BY <1>0, FlatPcs DEF SecretConns
  <2>2. kinds[x] = "bind" => tgts[x] \in Requests /\ tgts[x] \in SecretConns
    BY FlatPcs DEF SecretConns
  <2>3. kinds[x] = "upsert" => olds'[x] = sec'[tgts'[x]]
    BY <1>2, <1>3, <2>1 DEF Superseding
  <2>4. ASSUME kinds[x] = "bind", olds[x] # NoSecret
        PROVE /\ Settled(o)' /\ \A d \in SecretConns : sec'[d] = o => d = tgts[x]
              /\ sec'[tgts[x]] = o \/ Exempt(o)'
    <3>1. /\ Settled(o) /\ \A d \in SecretConns : sec[d] = o => d = tgts[x]
          /\ sec[tgts[x]] = o \/ Exempt(o)
      BY <1>3, <1>4, <2>4 DEF Superseding
    <3>2. \A d \in SecretConns : sec'[d] = o => d = tgts[x]
      BY <1>4, <1>7, <2>4, <3>1
    <3>3. CASE tgts[x] = r
      BY <1>4, <1>5, <1>9, <2>4, <3>1, <3>2, <3>3
    <3>4. CASE tgts[x] # r
      BY <1>5, <2>2, <2>4, <3>1, <3>2, <3>4
    <3>. QED BY <3>3, <3>4
  <2>5. ASSUME kinds[x] = "bind"
        PROVE \/ sec'[tgts[x]] \in {olds[x], NoSecret}
              \/ sec'[tgts[x]] \in Requests /\ pcs'[sec'[tgts[x]]] = "done" /\ kinds'[sec'[tgts[x]]] \in {"bind", "copy"}
    <3>1. sec[tgts[x]] \in {olds[x], NoSecret} \/ Exempt(t)
      BY <1>3, <1>4, <2>5 DEF Superseding
    <3>2. CASE tgts[x] = r
      BY <1>0, <3>2
    <3>3. CASE tgts[x] # r
      <4>1. sec'[tgts[x]] = t
        BY <1>4, <2>2, <2>5, <3>3
      <4>. QED BY <1>4, <1>5, <3>1, <4>1 DEF Exempt
    <3>. QED BY <3>2, <3>3
  <2>. QED BY <1>2, <1>4, <2>3, <2>4, <2>5 DEF Superseding, Settled, Exempt
<1>. QED BY <1>6, <1>8, <1>10

(* Rows of local connections that stay keep their groups sound. *)
LEMMA GroupKept ==
    ASSUME SecretsType, GroupInv, \A c \in Locals : profile'[c] = profile[c], activeScope' = activeScope,
           \A x \in Requests : kinds'[x] = "upsert" /\ pcs'[x] \in {"store", "commit"} =>
               /\ kinds[x] = "upsert" /\ pcs[x] \in {"store", "commit"}
               /\ req'[x].group = req[x].group /\ req'[x].engine = req[x].engine /\ req'[x].conn = req[x].conn
    PROVE  GroupInv'
<1>1. \A c \in Locals : c \in Rows' <=> c \in Rows
  BY DEF Rows, SecretConns
<1>2. OneEnginePerGroup'
  BY <1>1 DEF GroupInv, OneEnginePerGroup
<1>3. ASSUME NEW x \in Requests, kinds'[x] = "upsert", pcs'[x] \in {"store", "commit"}, req'[x].group # NoGroup,
             NEW d \in Locals, d \in Rows', d # req'[x].conn,
             profile'[d].scope = activeScope', profile'[d].group = req'[x].group
      PROVE profile'[d].engine = req'[x].engine
  BY <1>1, <1>3 DEF GroupInv
<1>. QED BY <1>2, <1>3 DEF GroupInv

--------------------------------------------------------------------------------
(* Steps that leave rows and vault alone. *)

(* The credential a request may leave in its place has another owner. *)
LEMMA OldHasOwner ==
    ASSUME SecretsInv, NEW r \in Requests, pcs[r] \in {"store", "commit", "uncommitted"}, olds[r] # NoSecret
    PROVE  (\E c \in SecretConns : sec[c] = olds[r]) \/ Exempt(olds[r])
<1>1. SecretsType /\ Superseding(r)
  BY DEF SecretsInv, HolderInv
<1>2. kinds[r] \in {"upsert", "bind"} /\ tgts[r] \in SecretConns
  BY <1>1, Flat, FlatPcs DEF SecretConns, GroupPcs, DeletePcs, CopyPcs
<1>. QED BY <1>1, <1>2 DEF Superseding

(* What such a step still has to show. *)
LEMMA QuietStep ==
    ASSUME SecretsInv, NEW r \in Requests, SecretsType', Others(r), Forward(r),
           profile' = profile, activeScope' = activeScope, remote' = remote, vault' = vault,
           unreclaimed' = unreclaimed, leftBehind' = leftBehind,
           pcs'[r] \in GatePcs => Alone(r),
           Fresh(r)', Superseding(r)', Superseded(r)',
           r \in vault => /\ pws'[r] /\ pcs'[r] \notin Ended \cup {"delete_remote"}
                          /\ pcs'[r] \notin {"idle", "gate", "upsert", "bind", "delete", "store", "fetch", "snapshot"},
           pws'[r] /\ pcs'[r] \in {"commit", "share", "sync", "bind_copy"} => r \in vault,
           pcs[r] \notin Ended => \/ pcs'[r] \notin Ended /\ olds'[r] = olds[r]
                                  \/ olds[r] = NoSecret
                                  \/ pcs[r] \in {"store", "commit", "uncommitted"},
           \A x, c \in Requests : kinds'[x] = "copy" /\ req'[x].list[c] # NoProfile =>
               remote[c] # NoProfile \/ (kinds[x] = "copy" /\ req[x].list[c] # NoProfile),
           GroupInv', pcs'[r] = "store" => pws'[r],
           pcs'[r] = "failed" /\ kinds'[r] = "copy" => remote[r] = NoProfile
    PROVE  SecretsInv'
<1>1. /\ SecretsType /\ SharedInv /\ GateInv /\ PointerInv /\ VaultInv /\ HolderInv /\ OwnerInv /\ GroupInv /\ CopyInv
  BY DEF SecretsInv
<1>2. sec' = sec
  BY DEF sec
<1>3. SharedInv'
  <2>1. \A c \in Requests : Past(c) => Past(c)'
    BY <1>1, Stays
  <2>2. \A c \in Requests : remote[c] # NoProfile => Past(c)
    BY <1>1 DEF SharedInv
  <2>3. \A x, c \in Requests : kinds'[x] = "copy" /\ req'[x].list[c] # NoProfile =>
               Past(c)' \/ (kinds[x] = "copy" /\ req[x].list[c] # NoProfile)
    BY <2>1, <2>2
  <2>. QED BY <1>1, <2>1, <2>3, SharedKept
<1>4. GateInv'
  BY <1>1, GateKept
<1>5. PointerInv'
  <2>1. \A c \in SecretConns : sec[c] # NoSecret => sec[c] \in vault
    BY <1>1 DEF PointerInv
  <2>. QED BY <1>1, <1>2, <2>1, PointerKept
<1>6. VaultInv'
  BY <1>1, VaultKept DEF Ended
<1>7. HolderInv'
  BY <1>1, <1>2, HolderQuiet
<1>8. OwnerInv'
  <2>0. NoSecret \notin vault
    BY <1>1, SecretsAssumption DEF SecretsType, Secrets
  <2>1. \A s : (\E c \in SecretConns : sec[c] = s) => Owned(s)'
    BY <1>2 DEF Owned
  <2>2. r \in vault' => Owned(r)'
    BY DEF Owned
  <2>3. \A s \in vault' : s = olds[r] /\ pcs[r] \notin Ended => Owned(s)'
    <3>. SUFFICES ASSUME NEW s \in vault, s = olds[r], pcs[r] \notin Ended PROVE Owned(s)'
      OBVIOUS
    <3>1. CASE pcs'[r] \notin Ended /\ olds'[r] = olds[r]
      BY <3>1 DEF Owned
    <3>2. CASE pcs[r] \in {"store", "commit", "uncommitted"}
      <4>1. (\E c \in SecretConns : sec[c] = s) \/ Exempt(s)
        BY <2>0, <3>2, OldHasOwner
      <4>2. Exempt(s) => Exempt(s)'
        BY <1>1, Stays
      <4>. QED BY <2>1, <4>1, <4>2 DEF Owned
    <3>. QED BY <2>0, <3>1, <3>2
  <2>. QED BY <1>1, <2>1, <2>2, <2>3, OwnerKept
<1>9. CopyInv'
  BY <1>1 DEF CopyInv, Others
<1>. QED BY <1>3, <1>4, <1>5, <1>6, <1>7, <1>8, <1>9 DEF SecretsInv

(* A request that only moves, in terms of where it goes. *)
LEMMA QuietMove ==
    ASSUME SecretsInv, NEW r \in Requests, NEW p, ToReq(r, p),
           profile' = profile, activeScope' = activeScope, remote' = remote, vault' = vault,
           unreclaimed' = unreclaimed, leftBehind' = leftBehind,
           pcs[r] \notin Ended \cup {"committed"}, p \notin {"idle", "crashed", "committed", "delete_remote"},
           kinds[r] = "upsert" => p \in UpsertPcs, kinds[r] = "set_schema_group" => p \in GroupPcs,
           kinds[r] = "delete" => p \in DeletePcs, kinds[r] = "bind" => p \in BindPcs,
           kinds[r] = "copy" => p \in CopyPcs,
           kinds[r] = "copy" /\ pcs[r] \in PastPcs => p \in PastPcs,
           p \in GatePcs => Alone(r),
           p \in {"gate", "upsert", "delete", "bind", "set_schema_group"} => olds[r] = NoSecret,
           p \in {"store", "commit", "uncommitted"} => pcs[r] \in {"store", "commit", "uncommitted"},
           kinds[r] = "upsert" /\ p \in {"store", "commit"} => pcs[r] \in {"store", "commit"},
           r \in vault => p \notin Ended \cup {"gate", "upsert", "bind", "delete", "store", "fetch", "snapshot"},
           pws[r] /\ p \in {"commit", "share", "sync", "bind_copy"} => r \in vault, p = "store" => pws[r],
           p \in Ended => olds[r] = NoSecret \/ pcs[r] \in {"store", "commit", "uncommitted"},
           p = "failed" /\ kinds[r] = "copy" => remote[r] = NoProfile
    PROVE  SecretsInv'
<1>1. /\ SecretsType /\ VaultInv /\ HolderInv /\ GroupInv
  BY DEF SecretsInv
<1>2. kinds[r] # "none"
  BY <1>1, Flat DEF Ended
<1>3. /\ DOMAIN req' = Requests /\ \A x \in Requests : ReqShape(req'[x])
      /\ pcs' = [pcs EXCEPT ![r] = p] /\ kinds' = kinds /\ olds' = olds /\ pws' = pws /\ tgts' = tgts
      /\ \A x \in Requests : "list" \in DOMAIN req[x] => req'[x].list = req[x].list
      /\ \A x \in Requests : "group" \in DOMAIN req[x] => req'[x].group = req[x].group
      /\ \A x \in Requests : "engine" \in DOMAIN req[x] => req'[x].engine = req[x].engine
      /\ \A x \in Requests : "conn" \in DOMAIN req[x] => req'[x].conn = req[x].conn
  BY <1>1, <1>2, ToReqEffect
<1>4. DOMAIN pcs = Requests
  BY DEF pcs
<1>5. pcs'[r] = p /\ \A x \in Requests \ {r} : pcs'[x] = pcs[x]
  BY <1>3, <1>4
<1>6. SecretsType'
  BY <1>1, <1>3 DEF SecretsType, RowShape, SharedShape
<1>7. Others(r)
  BY <1>3, <1>5 DEF Others
<1>8. Forward(r)
  BY <1>3, <1>5 DEF Forward, SettledPcs, Ended
<1>9. sec' = sec
  BY DEF sec
<1>10. Fresh(r)'
  BY <1>3, <1>5 DEF Fresh
<1>11. Superseding(r)'
  <2>. SUFFICES ASSUME p \in {"store", "commit", "uncommitted"} PROVE Superseding(r)'
    BY <1>5 DEF Superseding
  <2>1. Superseding(r) /\ pcs[r] \in {"store", "commit", "uncommitted"}
    BY <1>1 DEF HolderInv
  <2>2. PICK o, t : o = olds[r] /\ t = sec[tgts[r]]
    OBVIOUS
  <2>3. (Settled(o) => Settled(o)') /\ (Exempt(o) => Exempt(o)') /\ (Exempt(t) => Exempt(t)')
    BY <1>1, <1>7, <1>8, Stays
  <2>. QED BY <1>3, <1>9, <2>1, <2>2, <2>3 DEF Superseding, Settled, Exempt
<1>12. Superseded(r)'
  BY <1>5 DEF Superseded
<1>13. \A x, c \in Requests : kinds'[x] = "copy" /\ req'[x].list[c] # NoProfile =>
               kinds[x] = "copy" /\ req[x].list[c] # NoProfile
  <2>1. \A x \in Requests : kinds[x] = "copy" => "list" \in DOMAIN req[x]
    BY <1>1, Flat DEF IsCopy
  <2>. QED BY <1>3, <2>1
<1>14. GroupInv'
  <2>1. \A x \in Requests : kinds[x] = "upsert" => "group" \in DOMAIN req[x] /\ "engine" \in DOMAIN req[x] /\ "conn" \in DOMAIN req[x]
    BY <1>1, Flat DEF IsUpsert
  <2>2. \A x \in Requests : kinds'[x] = "upsert" /\ pcs'[x] \in {"store", "commit"} =>
               /\ kinds[x] = "upsert" /\ pcs[x] \in {"store", "commit"}
               /\ req'[x].group = req[x].group /\ req'[x].engine = req[x].engine /\ req'[x].conn = req[x].conn
    BY <1>3, <1>5, <2>1
  <2>. QED BY <1>1, <2>2, GroupKept
<1>15. r \in vault => pws[r]
  BY <1>1 DEF VaultInv
<1>16. r \in vault => /\ pws'[r] /\ pcs'[r] \notin Ended \cup {"delete_remote"}
                      /\ pcs'[r] \notin {"idle", "gate", "upsert", "bind", "delete", "store", "fetch", "snapshot"}
  BY <1>3, <1>5, <1>15
<1>17. /\ pcs'[r] \in GatePcs => Alone(r)
       /\ pws'[r] /\ pcs'[r] \in {"commit", "share", "sync", "bind_copy"} => r \in vault
       /\ pcs[r] \notin Ended => \/ pcs'[r] \notin Ended /\ olds'[r] = olds[r]
                                 \/ olds[r] = NoSecret
                                 \/ pcs[r] \in {"store", "commit", "uncommitted"}
       /\ pcs'[r] = "failed" /\ kinds'[r] = "copy" => remote[r] = NoProfile
       /\ pcs'[r] = "store" => pws'[r]
  BY <1>3, <1>5
<1>. QED BY <1>6, <1>7, <1>8, <1>10, <1>11, <1>12, <1>13, <1>14, <1>16, <1>17, QuietStep

(* Where a request stands says of which kind it is. *)
LEMMA KindAt ==
    ASSUME SecretsType, NEW r \in Requests
    PROVE  /\ pcs[r] = "upsert" => kinds[r] = "upsert"
           /\ pcs[r] = "set_schema_group" => kinds[r] = "set_schema_group"
           /\ pcs[r] = "delete" => kinds[r] = "delete"
           /\ pcs[r] = "bind" => kinds[r] = "bind"
           /\ pcs[r] \in {"store", "commit", "uncommitted"} => kinds[r] \in {"upsert", "bind"}
           /\ pcs[r] = "committed" => kinds[r] \in {"upsert", "delete", "bind"}
           /\ pcs[r] \in {"fetch", "snapshot", "share", "sync", "bind_copy", "rollback", "delete_remote"} =>
                 kinds[r] = "copy"
           /\ pcs[r] = "gate" => kinds[r] \in {"upsert", "set_schema_group", "delete", "bind"} /\ req[r].kind = kinds[r]
           /\ kinds[r] = "none" <=> pcs[r] = "idle"
<1>1. kinds[r] \in {"none", "upsert", "set_schema_group", "delete", "bind", "copy"} /\ (kinds[r] = "none" <=> pcs[r] = "idle")
  BY Flat
<1>2. /\ kinds[r] = "upsert" => pcs[r] \in UpsertPcs
      /\ kinds[r] = "set_schema_group" => pcs[r] \in GroupPcs
      /\ kinds[r] = "delete" => pcs[r] \in DeletePcs
      /\ kinds[r] = "bind" => pcs[r] \in BindPcs
      /\ kinds[r] = "copy" => pcs[r] \in CopyPcs
  BY FlatPcs
<1>3. kinds[r] # "none" => req[r].kind = kinds[r]
  BY DEF kinds
<1>. QED BY <1>1, <1>2, <1>3 DEF UpsertPcs, GroupPcs, DeletePcs, BindPcs, CopyPcs

(* begin_scope_mutation keeps the invariant. *)
LEMMA TakeGateKeeps ==
    ASSUME SecretsInv, NEW r \in Requests, TakeGate(r)
    PROVE  SecretsInv'
<1>1. SecretsType /\ VaultInv /\ GateInv /\ Fresh(r)
  BY DEF SecretsInv, HolderInv
<1>2. pcs[r] = "gate"
  BY <1>1, Flat DEF TakeGate, AtReq
<1>3. kinds[r] \in {"upsert", "set_schema_group", "delete", "bind"} /\ req[r].kind = kinds[r]
  BY <1>1, <1>2, KindAt
<1>4. olds[r] = NoSecret /\ r \notin vault
  BY <1>1, <1>2 DEF Fresh, VaultInv
<1>5. PICK p : p = kinds[r]
  OBVIOUS
<1>6. /\ ToReq(r, p) /\ Alone(r)
      /\ profile' = profile /\ activeScope' = activeScope /\ remote' = remote /\ vault' = vault
      /\ unreclaimed' = unreclaimed /\ leftBehind' = leftBehind
  <2>1. Alone(r)
    BY <1>1, GateIsFree DEF TakeGate, Apps, Alone
  <2>. QED BY <1>3, <1>5, <2>1 DEF TakeGate
<1>7. /\ kinds[r] = "upsert" => p \in UpsertPcs
      /\ kinds[r] = "set_schema_group" => p \in GroupPcs
      /\ kinds[r] = "delete" => p \in DeletePcs
      /\ kinds[r] = "bind" => p \in BindPcs
      /\ kinds[r] # "copy" /\ p \in {"upsert", "set_schema_group", "delete", "bind"}
  BY <1>3, <1>5 DEF UpsertPcs, GroupPcs, DeletePcs, BindPcs
<1>8. /\ pcs[r] \notin Ended \cup {"committed"} /\ p \notin {"idle", "crashed", "committed", "delete_remote"}
      /\ p \notin {"store", "commit", "uncommitted", "share", "sync", "bind_copy", "failed"}
      /\ p \notin Ended
  BY <1>2, <1>7 DEF Ended
<1>. QED BY <1>4, <1>6, <1>7, <1>8, QuietMove

(* A request that failed before it stored anything. *)
LEMMA EarlyFailureKeeps ==
    ASSUME SecretsInv, NEW r \in Requests,
           pcs[r] \in {"upsert", "set_schema_group", "delete", "bind", "store", "fetch", "snapshot"},
           ToReq(r, "failed"),
           profile' = profile, activeScope' = activeScope, remote' = remote, vault' = vault,
           unreclaimed' = unreclaimed, leftBehind' = leftBehind
    PROVE  SecretsInv'
<1>1. SecretsType /\ SharedInv /\ VaultInv /\ Fresh(r)
  BY DEF SecretsInv, HolderInv
<1>2. /\ pcs[r] \in {"fetch", "snapshot"} => kinds[r] = "copy"
      /\ pcs[r] \in {"upsert", "set_schema_group", "delete", "bind", "store"} => kinds[r] # "copy"
  BY <1>1, KindAt
<1>3. r \notin vault
  <2>1. CASE pcs[r] = "set_schema_group"
    <3>1. pws[r] = FALSE
      BY <1>1, <2>1, KindAt, FlatPcs
    <3>. QED BY <1>1, <3>1 DEF VaultInv
  <2>. QED BY <1>1, <2>1 DEF VaultInv
<1>4. olds[r] = NoSecret \/ pcs[r] \in {"store", "commit", "uncommitted"}
  <2>1. pcs[r] \in {"fetch", "snapshot"} => olds[r] = NoSecret
    BY <1>1, <1>2, FlatPcs
  <2>. QED BY <1>1, <2>1 DEF Fresh
<1>5. kinds[r] = "copy" => remote[r] = NoProfile
  BY <1>1, <1>2 DEF SharedInv, Past
<1>6. /\ pcs[r] \notin Ended \cup {"committed"}
      /\ "failed" \in UpsertPcs /\ "failed" \in GroupPcs /\ "failed" \in DeletePcs /\ "failed" \in BindPcs
      /\ "failed" \in CopyPcs /\ "failed" \in PastPcs /\ "failed" \notin GatePcs
  BY DEF Ended, UpsertPcs, GroupPcs, DeletePcs, BindPcs, CopyPcs, PastPcs, GatePcs
<1>. QED BY <1>3, <1>4, <1>5, <1>6, QuietMove

(* An error return that drops the gate. *)
LEMMA RefuseKeeps ==
    ASSUME SecretsInv, NEW r \in Requests, pcs[r] \in {"upsert", "set_schema_group", "delete", "bind"}, Refuse(r)
    PROVE  SecretsInv'
<1>1. Alone(r)
  BY DEF SecretsInv, GateInv, GatePcs
<1>2. /\ ToReq(r, "failed")
      /\ profile' = profile /\ activeScope' = activeScope /\ remote' = remote /\ vault' = vault
      /\ unreclaimed' = unreclaimed /\ leftBehind' = leftBehind
  BY DEF Refuse
<1>. QED BY <1>1, <1>2, EarlyFailureKeeps

(* A commit that failed. *)
LEMMA UncommittedKeeps ==
    ASSUME SecretsInv, NEW r \in Requests, pcs[r] = "commit", ToReq(r, "uncommitted"),
           profile' = profile, activeScope' = activeScope, remote' = remote, vault' = vault,
           unreclaimed' = unreclaimed, leftBehind' = leftBehind
    PROVE  SecretsInv'
<1>1. SecretsType /\ Alone(r)
  BY DEF SecretsInv, GateInv, GatePcs
<1>2. kinds[r] \in {"upsert", "bind"}
  BY <1>1, KindAt
<1>3. /\ pcs[r] \notin Ended \cup {"committed"}
      /\ "uncommitted" \in UpsertPcs /\ "uncommitted" \in BindPcs
      /\ "uncommitted" \notin Ended
  BY DEF Ended, UpsertPcs, BindPcs
<1>. QED BY <1>1, <1>2, <1>3, QuietMove

(* A copy that goes on to its next call, or to its roll back. *)
LEMMA CopyMoveKeeps ==
    ASSUME SecretsInv, NEW r \in Requests, NEW p, ToReq(r, p),
           (pcs[r] = "fetch" /\ p = "snapshot") \/ (pcs[r] \in {"sync", "bind_copy"} /\ p = "rollback"),
           profile' = profile, activeScope' = activeScope, remote' = remote, vault' = vault,
           unreclaimed' = unreclaimed, leftBehind' = leftBehind
    PROVE  SecretsInv'
<1>1. SecretsType /\ VaultInv
  BY DEF SecretsInv
<1>2. kinds[r] = "copy"
  BY <1>1, KindAt
<1>3. /\ pcs[r] \notin Ended \cup {"committed"} /\ p \in CopyPcs /\ p \notin Ended /\ p \notin GatePcs
      /\ p \notin {"idle", "crashed", "committed", "delete_remote", "failed"}
      /\ pcs[r] \in PastPcs => p \in PastPcs
  BY DEF Ended, CopyPcs, GatePcs, PastPcs
<1>4. r \in vault => p # "snapshot"
  BY <1>1 DEF VaultInv
<1>5. r \in vault => p \notin Ended \cup {"gate", "upsert", "bind", "delete", "store", "fetch", "snapshot"}
  BY <1>3, <1>4
<1>6. /\ p \notin {"store", "commit", "uncommitted"} /\ p \notin {"gate", "upsert", "delete", "bind", "set_schema_group"}
      /\ p \notin {"commit", "share", "sync", "bind_copy"}
  OBVIOUS
<1>. QED BY <1>2, <1>3, <1>5, <1>6, QuietMove

(* FetchForCopy keeps the invariant. *)
LEMMA FetchForCopyKeeps ==
    ASSUME SecretsInv, NEW r \in Requests, FetchForCopy(r)
    PROVE  SecretsInv'
<1>1. SecretsType
  BY DEF SecretsInv
<1>2. /\ pcs[r] = "fetch" /\ (ToReq(r, "snapshot") \/ ToReq(r, "failed"))
      /\ profile' = profile /\ activeScope' = activeScope /\ remote' = remote /\ vault' = vault
      /\ unreclaimed' = unreclaimed /\ leftBehind' = leftBehind
  BY <1>1, Flat DEF FetchForCopy, AtReq
<1>. QED BY <1>2, CopyMoveKeeps, EarlyFailureKeeps

(* A request that starts. *)
LEMMA StartKeeps ==
    ASSUME SecretsInv, NEW r \in Requests, StartRequest(r), NEW q, ReqShape(q), q # IdleRequest,
           req' = [req EXCEPT ![r] = q], "old" \in DOMAIN q => q.old = NoSecret,
           q.pc \in {"gate", "fetch"}, q.kind = "copy" => q.list = remote
    PROVE  SecretsInv'
<1>1. /\ SecretsType /\ VaultInv /\ GroupInv
  BY DEF SecretsInv
<1>2. /\ req[r] = IdleRequest /\ profile' = profile /\ activeScope' = activeScope /\ remote' = remote /\ vault' = vault
      /\ unreclaimed' = unreclaimed /\ leftBehind' = leftBehind
  BY DEF StartRequest
<1>3. /\ DOMAIN req' = Requests /\ \A x \in Requests : ReqShape(req'[x])
      /\ pcs' = [pcs EXCEPT ![r] = q.pc] /\ kinds' = [kinds EXCEPT ![r] = q.kind] /\ olds' = olds
      /\ \A x \in Requests \ {r} : req'[x] = req[x] /\ pws'[x] = pws[x] /\ tgts'[x] = tgts[x]
      /\ req'[r] = q
  BY <1>1, <1>2, StartEffect
<1>4. /\ DOMAIN pcs = Requests /\ DOMAIN kinds = Requests /\ kinds[r] = "none" /\ pcs[r] = "idle"
  BY <1>1, <1>2, Flat
<1>5. pcs'[r] = q.pc /\ kinds'[r] = q.kind /\ \A x \in Requests \ {r} : pcs'[x] = pcs[x] /\ kinds'[x] = kinds[x]
  BY <1>3, <1>4
<1>6. pws[r] = FALSE /\ olds[r] = NoSecret
  BY <1>1, <1>4, FlatPcs
<1>7. r \notin vault
  BY <1>1, <1>6 DEF VaultInv
<1>8. SecretsType'
  BY <1>1, <1>2, <1>3 DEF SecretsType, RowShape, SharedShape
<1>9. Others(r)
  BY <1>3, <1>5 DEF Others
<1>10. Forward(r)
  BY <1>4, <1>5 DEF Forward, SettledPcs
<1>11. Fresh(r)' /\ Superseding(r)' /\ Superseded(r)'
  BY <1>3, <1>5, <1>6 DEF Fresh, Superseding, Superseded
<1>12. \A x, c \in Requests : kinds'[x] = "copy" /\ req'[x].list[c] # NoProfile =>
               remote[c] # NoProfile \/ (kinds[x] = "copy" /\ req[x].list[c] # NoProfile)
  BY <1>3, <1>5
<1>13. GroupInv'
  <2>1. \A x \in Requests : kinds'[x] = "upsert" /\ pcs'[x] \in {"store", "commit"} =>
               /\ kinds[x] = "upsert" /\ pcs[x] \in {"store", "commit"}
               /\ req'[x].group = req[x].group /\ req'[x].engine = req[x].engine /\ req'[x].conn = req[x].conn
    BY <1>3, <1>5
  <2>. QED BY <1>1, <1>2, <2>1, GroupKept
<1>14. pcs'[r] \notin GatePcs /\ pcs'[r] \notin {"commit", "share", "sync", "bind_copy"} /\ pcs'[r] \notin {"failed", "store"}
       /\ pcs[r] \in Ended
  BY <1>4, <1>5 DEF GatePcs, Ended
<1>. QED BY <1>2, <1>7, <1>8, <1>9, <1>10, <1>11, <1>12, <1>13, <1>14, QuietStep

(* The requests a user can make. *)
LEMMA StartsKeep ==
    ASSUME SecretsInv, NEW r \in Requests
    PROVE  /\ \A c \in Locals, e \in Engines, g \in SchemaGroups \cup {NoGroup}, p \in BOOLEAN :
                 StartUpsert(r, c, e, g, p) => SecretsInv'
           /\ \A c \in Locals : StartDelete(r, c) => SecretsInv'
           /\ \A c \in Locals : StartCopy(r, c) => SecretsInv'
           /\ \A ids \in SUBSET Locals, g \in SchemaGroups \cup {NoGroup} : StartSetGroup(r, ids, g) => SecretsInv'
           /\ \A c \in Requests : StartBind(r, c) => SecretsInv'
<1>0. DOMAIN IdleRequest = {"pc"} /\ NoSecret \in AnySecret
  BY DEF IdleRequest, AnySecret
<1>1. ASSUME NEW c \in Locals, NEW e \in Engines, NEW g \in SchemaGroups \cup {NoGroup}, NEW p \in BOOLEAN,
             StartUpsert(r, c, e, g, p)
      PROVE SecretsInv'
  <2>1. PICK q : q = [pc |-> "gate", kind |-> "upsert", conn |-> c, engine |-> e, group |-> g, password |-> p,
                      old |-> NoSecret]
    OBVIOUS
  <2>2. IsUpsert(q)
    BY <1>0, <2>1 DEF IsUpsert, UpsertPcs
  <2>3. ReqShape(q) /\ q # IdleRequest /\ q.old = NoSecret /\ q.pc = "gate" /\ q.kind # "copy"
    BY <1>0, <2>1, <2>2 DEF ReqShape
  <2>4. StartRequest(r) /\ req' = [req EXCEPT ![r] = q]
    BY <1>1, <2>1 DEF StartUpsert
  <2>. QED BY <2>3, <2>4, StartKeeps
<1>2. ASSUME NEW c \in Locals, StartDelete(r, c) PROVE SecretsInv'
  <2>1. PICK q : q = [pc |-> "gate", kind |-> "delete", conn |-> c, old |-> NoSecret, password |-> FALSE]
    OBVIOUS
  <2>2. IsDelete(q)
    BY <1>0, <2>1 DEF IsDelete, DeletePcs
  <2>3. ReqShape(q) /\ q # IdleRequest /\ q.old = NoSecret /\ q.pc = "gate" /\ q.kind # "copy"
    BY <1>0, <2>1, <2>2 DEF ReqShape
  <2>4. StartRequest(r) /\ req' = [req EXCEPT ![r] = q]
    BY <1>2, <2>1 DEF StartDelete
  <2>. QED BY <2>3, <2>4, StartKeeps
<1>3. ASSUME NEW c \in Locals, StartCopy(r, c) PROVE SecretsInv'
  <2>0. PICK b \in BOOLEAN : b = (profile[c].secret # NoSecret)
    OBVIOUS
  <2>1. PICK q : q = [pc |-> "fetch", kind |-> "copy", conn |-> c, source |-> profile[c], password |-> b,
                      list |-> remote]
    OBVIOUS
  <2>2. IsCopy(q)
    <3>1. DOMAIN remote = Requests /\ \A k \in Requests : SharedShape(remote[k])
      BY DEF SecretsInv, SecretsType
    <3>. QED BY <2>1, <3>1 DEF IsCopy, CopyPcs
  <2>3. ReqShape(q) /\ q # IdleRequest /\ "old" \notin DOMAIN q /\ q.pc = "fetch" /\ q.list = remote
    BY <1>0, <2>1, <2>2 DEF ReqShape
  <2>4. StartRequest(r) /\ req' = [req EXCEPT ![r] = q]
    BY <1>3, <2>0, <2>1 DEF StartCopy
  <2>. QED BY <2>3, <2>4, StartKeeps
<1>4. ASSUME NEW ids \in SUBSET Locals, NEW g \in SchemaGroups \cup {NoGroup}, StartSetGroup(r, ids, g) PROVE SecretsInv'
  <2>1. PICK q : q = [pc |-> "gate", kind |-> "set_schema_group", ids |-> ids, group |-> g]
    OBVIOUS
  <2>2. IsSetGroup(q)
    BY <2>1 DEF IsSetGroup, GroupPcs
  <2>3. ReqShape(q) /\ q # IdleRequest /\ "old" \notin DOMAIN q /\ q.pc = "gate" /\ q.kind # "copy"
    BY <1>0, <2>1, <2>2 DEF ReqShape
  <2>4. StartRequest(r) /\ req' = [req EXCEPT ![r] = q]
    BY <1>4, <2>1 DEF StartSetGroup
  <2>. QED BY <2>3, <2>4, StartKeeps
<1>5. ASSUME NEW c \in Requests, StartBind(r, c) PROVE SecretsInv'
  <2>1. PICK q : q = [pc |-> "gate", kind |-> "bind", conn |-> c, old |-> NoSecret, password |-> TRUE]
    OBVIOUS
  <2>2. IsBind(q)
    BY <1>0, <2>1 DEF IsBind, BindPcs
  <2>3. ReqShape(q) /\ q # IdleRequest /\ q.old = NoSecret /\ q.pc = "gate" /\ q.kind # "copy"
    BY <1>0, <2>1, <2>2 DEF ReqShape
  <2>4. StartRequest(r) /\ req' = [req EXCEPT ![r] = q]
    BY <1>5, <2>1 DEF StartBind
  <2>. QED BY <2>3, <2>4, StartKeeps
<1>. QED BY <1>1, <1>2, <1>3, <1>4, <1>5

(* A request takes down the credential its target points to now. *)
LEMMA TakeDownKeeps ==
    ASSUME SecretsInv, NEW r \in Requests,
           (pcs[r] = "upsert" /\ kinds[r] = "upsert") \/ (pcs[r] = "bind" /\ kinds[r] = "bind"),
           NEW p, p = (IF pws[r] THEN "store" ELSE "commit"),
           req' = [req EXCEPT ![r].pc = p, ![r].old = sec[tgts[r]]],
           profile' = profile, activeScope' = activeScope, remote' = remote, vault' = vault,
           unreclaimed' = unreclaimed, leftBehind' = leftBehind,
           kinds[r] = "upsert" /\ req[r].group # NoGroup =>
               \A d \in (Rows \cap Locals) \ {req[r].conn} :
                   profile[d].scope = activeScope /\ profile[d].group = req[r].group => profile[d].engine = req[r].engine
    PROVE  SecretsInv'
<1>1. /\ SecretsType /\ GateInv /\ PointerInv /\ VaultInv /\ GroupInv /\ HolderInv
  BY DEF SecretsInv
<1>2. tgts[r] \in SecretConns /\ (kinds[r] = "bind" => pws[r] = TRUE)
  BY <1>1, FlatPcs DEF SecretConns
<1>3. PICK s : s = sec[tgts[r]]
  OBVIOUS
<1>4. s \in AnySecret
  BY <1>1, <1>2, <1>3 DEF sec, SecretsType, RowShape, AnySecret
<1>5. /\ DOMAIN req' = Requests /\ req'[r] = [req[r] EXCEPT !.pc = p, !.old = s]
      /\ \A x \in Requests \ {r} : req'[x] = req[x]
  BY <1>1, <1>3 DEF SecretsType
<1>6. p \in UpsertPcs /\ (kinds[r] = "bind" => p \in BindPcs)
  BY <1>2 DEF UpsertPcs, BindPcs
<1>7. /\ \A x \in Requests : ReqShape(req'[x])
      /\ pcs' = [pcs EXCEPT ![r] = p] /\ kinds' = kinds /\ olds' = [olds EXCEPT ![r] = s] /\ pws' = pws /\ tgts' = tgts
      /\ \A x \in Requests : "group" \in DOMAIN req[x] => req'[x].group = req[x].group
      /\ \A x \in Requests : "engine" \in DOMAIN req[x] => req'[x].engine = req[x].engine
  <2>1. /\ kinds[r] \in {"upsert", "delete", "bind"}
        /\ kinds[r] = "upsert" => p \in UpsertPcs
        /\ kinds[r] = "delete" => p \in DeletePcs
        /\ kinds[r] = "bind" => p \in BindPcs
    BY <1>6
  <2>2. IsUpsert(req[r]) \/ IsBind(req[r])
    BY <1>1, Flat
  <2>3. PICK q, k : q = req[r] /\ k = req'[r]
    OBVIOUS
  <2>4. /\ DOMAIN k = DOMAIN q /\ k.old = s /\ k.pc = p
        /\ \A f \in DOMAIN q \ {"pc", "old"} : k[f] = q[f]
    BY <1>5, <2>2, <2>3 DEF IsUpsert, IsBind
  <2>5. /\ DOMAIN req'[r] = DOMAIN req[r] /\ req'[r].old = s /\ req'[r].pc = p
        /\ \A f \in DOMAIN req[r] \ {"pc", "old"} : req'[r][f] = req[r][f]
    BY <2>3, <2>4
  <2>6. /\ req'[r].old \in AnySecret
        /\ kinds[r] = "upsert" => req'[r].pc \in UpsertPcs
        /\ kinds[r] = "delete" => req'[r].pc \in DeletePcs
        /\ kinds[r] = "bind" => req'[r].pc \in BindPcs
    BY <1>4, <2>1, <2>5
  <2>7. /\ \A x \in Requests : ReqShape(req'[x])
        /\ pcs' = [pcs EXCEPT ![r] = req'[r].pc] /\ kinds' = kinds /\ olds' = [olds EXCEPT ![r] = req'[r].old]
        /\ pws' = pws /\ tgts' = tgts
        /\ \A x \in Requests : "group" \in DOMAIN req[x] => req'[x].group = req[x].group
        /\ \A x \in Requests : "engine" \in DOMAIN req[x] => req'[x].engine = req[x].engine
    BY <1>1, <1>5, <2>1, <2>5, <2>6, PcOldEffect
  <2>. QED BY <2>5, <2>7
<1>8. /\ DOMAIN pcs = Requests /\ DOMAIN olds = Requests
  BY <1>1, Flat
<1>9. pcs'[r] = p /\ olds'[r] = s /\ \A x \in Requests \ {r} : pcs'[x] = pcs[x] /\ olds'[x] = olds[x]
  BY <1>7, <1>8
<1>10. SecretsType'
  BY <1>1, <1>5, <1>7 DEF SecretsType, RowShape, SharedShape
<1>11. Others(r)
  BY <1>7, <1>9 DEF Others
<1>12. p \in {"store", "commit"} /\ p \notin Ended
  BY DEF Ended
<1>13. Forward(r)
  BY <1>7, <1>9, <1>12 DEF Forward, SettledPcs, Ended
<1>14. sec' = sec
  BY DEF sec
<1>15. Fresh(r)' /\ Superseded(r)'
  BY <1>9, <1>12 DEF Fresh, Superseded
<1>16. Superseding(r)'
  <2>1. s # NoSecret => Settled(s) /\ \A d \in SecretConns : sec[d] = s => d = tgts[r]
    BY <1>1, <1>2, <1>3 DEF PointerInv
  <2>2. s # NoSecret => Settled(s)'
    BY <1>1, <1>11, <1>13, <2>1, Stays
  <2>. QED BY <1>3, <1>7, <1>9, <1>14, <2>1, <2>2 DEF Superseding, Settled
<1>17. r \notin vault /\ olds[r] = NoSecret
  BY <1>1 DEF VaultInv, HolderInv, Fresh
<1>18. pws[r] => p = "store"
  OBVIOUS
<1>19. Alone(r)
  BY <1>1 DEF GateInv, GatePcs
<1>20. \A x, c \in Requests : kinds'[x] = "copy" /\ req'[x].list[c] # NoProfile =>
               kinds[x] = "copy" /\ req[x].list[c] # NoProfile
  BY <1>5, <1>7
<1>21. GroupInv'
  <2>1. IsUpsert(req[r]) \/ IsBind(req[r])
    BY <1>1, Flat
  <2>2. kinds[r] = "upsert" =>
           req'[r].group = req[r].group /\ req'[r].engine = req[r].engine /\ req'[r].conn = req[r].conn
    <3>1. kinds[r] = "upsert" => IsUpsert(req[r])
      BY <1>1, Flat
    <3>2. PICK q : q = req[r]
      OBVIOUS
    <3>3. kinds[r] = "upsert" => "pc" \in DOMAIN q /\ "old" \in DOMAIN q /\ DOMAIN q = DOMAIN req[r] /\ "conn" \in DOMAIN q
                 /\ "group" \in DOMAIN q /\ "engine" \in DOMAIN q
      BY <3>1, <3>2 DEF IsUpsert
    <3>. QED BY <1>5, <3>2, <3>3
  <2>3. \A c \in Locals : c \in Rows' <=> c \in Rows
    BY DEF Rows
  <2>4. OneEnginePerGroup'
    BY <1>1, <2>3 DEF GroupInv, OneEnginePerGroup
  <2>5. ASSUME NEW x \in Requests, kinds'[x] = "upsert", pcs'[x] \in {"store", "commit"}, req'[x].group # NoGroup,
               NEW d \in Locals, d \in Rows', d # req'[x].conn,
               profile'[d].scope = activeScope', profile'[d].group = req'[x].group
        PROVE profile'[d].engine = req'[x].engine
    <3>1. CASE x = r
      BY <1>7, <2>2, <2>3, <2>5, <3>1
    <3>2. CASE x # r
      <4>1. req'[x] = req[x] /\ kinds[x] = "upsert" /\ pcs[x] \in {"store", "commit"}
        BY <1>5, <1>7, <1>9, <2>5, <3>2
      <4>. QED BY <1>1, <2>3, <2>5, <4>1 DEF GroupInv
    <3>. QED BY <3>1, <3>2
  <2>. QED BY <2>4, <2>5 DEF GroupInv
<1>22. /\ ~(pws'[r] /\ pcs'[r] \in {"commit", "share", "sync", "bind_copy"})
       /\ pcs'[r] # "failed" /\ (pcs'[r] = "store" => pws'[r])
  BY <1>7, <1>9, <1>12, <1>18
<1>. QED BY <1>10, <1>11, <1>13, <1>15, <1>16, <1>17, <1>19, <1>20, <1>21, <1>22, QuietStep

(* upsert keeps the invariant: the pointer it keeps is the row's. *)
LEMMA UpsertKeeps ==
    ASSUME SecretsInv, NEW r \in Requests, upsert(r)
    PROVE  SecretsInv'
<1>1. SecretsType
  BY DEF SecretsInv
<1>2. pcs[r] = "upsert" /\ kinds[r] = "upsert"
  BY <1>1, Flat, KindAt DEF upsert, AtReq
<1>3. PICK c, kept : c = req[r].conn /\ kept = (IF c \in Listed THEN profile[c].secret ELSE NoSecret)
  OBVIOUS
<1>4. PICK rows : rows = [d \in Listed \cup {c} |-> IF d = c THEN Profile(activeScope, req[r].engine, req[r].group, kept)
                                                    ELSE profile[d]]
  OBVIOUS
<1>5. CASE ~(ensure_connection_write_scope(c) /\ validate_schema_group_engine(c, rows))
  <2>1. Refuse(r)
    BY <1>3, <1>4, <1>5 DEF upsert
  <2>. QED BY <1>2, <2>1, RefuseKeeps
<1>6. CASE ensure_connection_write_scope(c) /\ validate_schema_group_engine(c, rows)
  <2>1. /\ req' = [req EXCEPT ![r].pc = IF req[r].password THEN "store" ELSE "commit", ![r].old = kept]
        /\ profile' = profile /\ activeScope' = activeScope /\ remote' = remote /\ vault' = vault
        /\ unreclaimed' = unreclaimed /\ leftBehind' = leftBehind
    BY <1>3, <1>4, <1>6 DEF upsert
  <2>2. pws[r] = req[r].password /\ tgts[r] = c /\ c \in Locals /\ c \in SecretConns
    BY <1>1, <1>2, <1>3, FlatPcs DEF SecretConns
  <2>3. kept = sec[tgts[r]]
    BY <1>3, <1>6, <2>2 DEF sec, ensure_connection_write_scope, Listed, Rows
  <2>4. PICK p : p = IF pws[r] THEN "store" ELSE "commit"
    OBVIOUS
  <2>5. req' = [req EXCEPT ![r].pc = p, ![r].old = sec[tgts[r]]]
    BY <2>1, <2>2, <2>3, <2>4
  <2>6. req[r].group # NoGroup =>
               \A d \in (Rows \cap Locals) \ {req[r].conn} :
                   profile[d].scope = activeScope /\ profile[d].group = req[r].group => profile[d].engine = req[r].engine
    <3>. SUFFICES ASSUME req[r].group # NoGroup, NEW d \in (Rows \cap Locals) \ {c},
                         profile[d].scope = activeScope, profile[d].group = req[r].group
                  PROVE profile[d].engine = req[r].engine
      BY <1>3
    <3>1. d \in Listed
      BY DEF Listed
    <3>2. rows[d] = profile[d] /\ rows[c].group = req[r].group /\ rows[c].engine = req[r].engine
          /\ d \in DOMAIN rows \ {c}
      BY <1>4, <3>1 DEF Profile
    <3>. QED BY <1>6, <3>2 DEF validate_schema_group_engine
  <2>7. kinds[r] = "upsert" /\ req[r].group # NoGroup =>
               \A d \in (Rows \cap Locals) \ {req[r].conn} :
                   profile[d].scope = activeScope /\ profile[d].group = req[r].group => profile[d].engine = req[r].engine
    BY <2>6
  <2>8. /\ profile' = profile /\ activeScope' = activeScope /\ remote' = remote /\ vault' = vault
        /\ unreclaimed' = unreclaimed /\ leftBehind' = leftBehind
    BY <2>1
  <2>. QED BY <1>2, <2>4, <2>5, <2>7, <2>8, TakeDownKeeps
<1>. QED BY <1>5, <1>6

(* CheckBind keeps the invariant. *)
LEMMA CheckBindKeeps ==
    ASSUME SecretsInv, NEW r \in Requests, CheckBind(r)
    PROVE  SecretsInv'
<1>1. SecretsType
  BY DEF SecretsInv
<1>2. pcs[r] = "bind" /\ kinds[r] = "bind"
  BY <1>1, Flat, KindAt DEF CheckBind, AtReq
<1>3. CASE req[r].conn \notin Listed
  <2>1. Refuse(r)
    BY <1>3 DEF CheckBind
  <2>. QED BY <1>2, <2>1, RefuseKeeps
<1>4. CASE req[r].conn \in Listed
  <2>1. /\ req' = [req EXCEPT ![r].pc = "store", ![r].old = profile[req[r].conn].secret]
        /\ profile' = profile /\ activeScope' = activeScope /\ remote' = remote /\ vault' = vault
        /\ unreclaimed' = unreclaimed /\ leftBehind' = leftBehind
    BY <1>4 DEF CheckBind
  <2>2. pws[r] = TRUE /\ tgts[r] = req[r].conn /\ tgts[r] \in SecretConns
    BY <1>1, <1>2, FlatPcs DEF SecretConns
  <2>3. profile[req[r].conn].secret = sec[tgts[r]]
    BY <1>4, <2>2 DEF sec, Listed, Rows
  <2>4. PICK p : p = IF pws[r] THEN "store" ELSE "commit"
    OBVIOUS
  <2>5. p = "store"
    BY <2>2, <2>4
  <2>6. req' = [req EXCEPT ![r].pc = p, ![r].old = sec[tgts[r]]]
    BY <2>1, <2>3, <2>5
  <2>. QED BY <1>2, <2>1, <2>4, <2>6, TakeDownKeeps
<1>. QED BY <1>3, <1>4

--------------------------------------------------------------------------------
(* Steps on the vault and the control plane. *)

(* A move, request by request. *)
LEMMA MoveFacts ==
    ASSUME SecretsType, NEW r \in Requests, kinds[r] # "none", NEW p, ToReq(r, p),
           kinds[r] = "upsert" => p \in UpsertPcs, kinds[r] = "set_schema_group" => p \in GroupPcs,
           kinds[r] = "delete" => p \in DeletePcs, kinds[r] = "bind" => p \in BindPcs,
           kinds[r] = "copy" => p \in CopyPcs
    PROVE  /\ DOMAIN req' = Requests /\ \A x \in Requests : ReqShape(req'[x])
           /\ pcs'[r] = p /\ kinds' = kinds /\ olds' = olds /\ pws' = pws /\ tgts' = tgts /\ Others(r)
           /\ \A x \in Requests : kinds[x] = "copy" => req'[x].list = req[x].list
           /\ \A x \in Requests : kinds[x] = "upsert" =>
                 req'[x].group = req[x].group /\ req'[x].engine = req[x].engine /\ req'[x].conn = req[x].conn
<1>1. /\ DOMAIN req' = Requests /\ \A x \in Requests : ReqShape(req'[x])
      /\ pcs' = [pcs EXCEPT ![r] = p] /\ kinds' = kinds /\ olds' = olds /\ pws' = pws /\ tgts' = tgts
      /\ \A x \in Requests : "list" \in DOMAIN req[x] => req'[x].list = req[x].list
      /\ \A x \in Requests : "group" \in DOMAIN req[x] => req'[x].group = req[x].group
      /\ \A x \in Requests : "engine" \in DOMAIN req[x] => req'[x].engine = req[x].engine
      /\ \A x \in Requests : "conn" \in DOMAIN req[x] => req'[x].conn = req[x].conn
  BY ToReqEffect
<1>2. DOMAIN pcs = Requests
  BY DEF pcs
<1>3. Others(r) /\ pcs'[r] = p
  BY <1>1, <1>2 DEF Others
<1>4. \A x \in Requests : kinds[x] = "copy" => "list" \in DOMAIN req[x]
  BY Flat DEF IsCopy
<1>5. \A x \in Requests : kinds[x] = "upsert" => "group" \in DOMAIN req[x] /\ "engine" \in DOMAIN req[x] /\ "conn" \in DOMAIN req[x]
  BY Flat DEF IsUpsert
<1>. QED BY <1>1, <1>3, <1>4, <1>5

(* A step that leaves the rows alone. *)
LEMMA VaultStep ==
    ASSUME SecretsInv, NEW r \in Requests, SecretsType', Others(r), Forward(r),
           profile' = profile, unreclaimed \subseteq unreclaimed', leftBehind \subseteq leftBehind',
           \A s \in vault' : s \in vault \/ s = r,
           \A c \in SecretConns : sec[c] # NoSecret => sec[c] \in vault',
           \A x \in Requests \ {r} : x \in vault /\ x \notin vault' =>
               pcs[x] \notin {"commit", "share", "sync", "bind_copy"},
           \A x \in Requests \ {r} : remote'[x] = remote[x], remote'[r] # NoProfile => remote[r] # NoProfile \/ Past(r)',
           pcs'[r] \in GatePcs => Alone(r),
           Fresh(r)', Superseding(r)', Superseded(r)',
           r \in vault' => /\ pws'[r]
                           /\ pcs'[r] \notin {"idle", "gate", "upsert", "bind", "delete", "store", "fetch", "snapshot"},
           pws'[r] /\ pcs'[r] \in {"commit", "share", "sync", "bind_copy"} => r \in vault',
           pcs'[r] = "delete_remote" /\ r \in vault' => r \in unreclaimed',
           r \in vault' \ unreclaimed' => Owned(r)',
           \A s \in vault' \ unreclaimed' : s = olds[r] /\ pcs[r] \notin Ended => Owned(s)',
           \A x, c \in Requests : kinds'[x] = "copy" /\ req'[x].list[c] # NoProfile =>
               Past(c)' \/ remote[c] # NoProfile \/ (kinds[x] = "copy" /\ req[x].list[c] # NoProfile),
           GroupInv', pcs'[r] = "store" => pws'[r],
           pcs'[r] = "failed" /\ kinds'[r] = "copy" /\ r \notin leftBehind' => remote'[r] = NoProfile
    PROVE  SecretsInv'
<1>1. /\ SecretsType /\ SharedInv /\ GateInv /\ PointerInv /\ VaultInv /\ HolderInv /\ OwnerInv /\ GroupInv /\ CopyInv
  BY DEF SecretsInv
<1>2. sec' = sec
  BY DEF sec
<1>3. SharedInv'
  <2>1. \A c \in Requests : Past(c) => Past(c)'
    BY <1>1, Stays
  <2>2. \A c \in Requests : remote[c] # NoProfile => Past(c)
    BY <1>1 DEF SharedInv
  <2>3. \A x, c \in Requests : kinds'[x] = "copy" /\ req'[x].list[c] # NoProfile =>
               Past(c)' \/ (kinds[x] = "copy" /\ req[x].list[c] # NoProfile)
    BY <2>1, <2>2
  <2>4. \A c \in Requests : remote'[c] # NoProfile => remote[c] # NoProfile \/ Past(c)'
    OBVIOUS
  <2>. QED BY <1>1, <2>1, <2>3, <2>4, SharedKept
<1>4. GateInv'
  BY <1>1, GateKept
<1>5. PointerInv'
  BY <1>1, <1>2, PointerKept
<1>6. VaultInv'
  BY <1>1, VaultKept
<1>7. HolderInv'
  BY <1>1, <1>2, HolderQuiet
<1>8. OwnerInv'
  <2>1. \A c \in SecretConns, s \in vault' \ unreclaimed' : s = sec[c] => Owned(s)'
    BY <1>2 DEF Owned
  <2>. QED BY <1>1, <2>1, OwnerKept
<1>9. CopyInv'
  <2>. SUFFICES ASSUME NEW k \in Requests, pcs'[k] = "failed", kinds'[k] = "copy", k \notin leftBehind'
                PROVE remote'[k] = NoProfile
    BY DEF CopyInv
  <2>1. CASE k = r
    BY <2>1
  <2>2. CASE k # r
    BY <1>1, <2>2 DEF CopyInv, Others
  <2>. QED BY <2>1, <2>2
<1>. QED BY <1>3, <1>4, <1>5, <1>6, <1>7, <1>8, <1>9 DEF SecretsInv

(* What a deletion that may fail leaves. *)
LEMMA DeleteFacts ==
    ASSUME NEW S, delete_secret_best_effort(S)
    PROVE  /\ vault' \subseteq vault /\ unreclaimed \subseteq unreclaimed'
           /\ \A s \in vault : s \notin S => s \in vault'
           /\ \A s \in S : s \in vault' => s \in unreclaimed'
BY DEF delete_secret_best_effort

(* Nothing about groups changes when a request moves. *)
LEMMA MoveGroups ==
    ASSUME SecretsType, GroupInv, NEW r \in Requests, profile' = profile, activeScope' = activeScope,
           kinds' = kinds, Others(r),
           \A x \in Requests : kinds[x] = "upsert" =>
                 req'[x].group = req[x].group /\ req'[x].engine = req[x].engine /\ req'[x].conn = req[x].conn,
           kinds[r] = "upsert" /\ pcs'[r] \in {"store", "commit"} => pcs[r] \in {"store", "commit"}
    PROVE  GroupInv'
<1>1. \A x \in Requests : kinds'[x] = "upsert" /\ pcs'[x] \in {"store", "commit"} =>
               /\ kinds[x] = "upsert" /\ pcs[x] \in {"store", "commit"}
               /\ req'[x].group = req[x].group /\ req'[x].engine = req[x].engine /\ req'[x].conn = req[x].conn
  BY DEF Others
<1>. QED BY <1>1, GroupKept

(* A credential of a request that is not through is in no row. *)
LEMMA UnsettledIsUnpointed ==
    ASSUME SecretsInv, NEW r \in Requests, pcs[r] \notin SettledPcs
    PROVE  \A c \in SecretConns : sec[c] # r
BY SecretsAssumption DEF SecretsInv, PointerInv, Settled, SettledPcs

(* StorePassword keeps the invariant. *)
LEMMA StorePasswordKeeps ==
    ASSUME SecretsInv, NEW r \in Requests, StorePassword(r)
    PROVE  SecretsInv'
<1>1. SecretsType /\ GateInv /\ PointerInv /\ VaultInv /\ HolderInv /\ GroupInv
  BY DEF SecretsInv
<1>2. pcs[r] = "store"
  BY <1>1, Flat DEF StorePassword, AtReq
<1>3. kinds[r] \in {"upsert", "bind"} /\ Alone(r)
  BY <1>1, <1>2, KindAt DEF GateInv, GatePcs
<1>4. /\ profile' = profile /\ activeScope' = activeScope /\ remote' = remote /\ unreclaimed' = unreclaimed
      /\ leftBehind' = leftBehind
  BY DEF StorePassword
<1>5. CASE ToReq(r, "failed") /\ UNCHANGED vault
  BY <1>2, <1>3, <1>4, <1>5, EarlyFailureKeeps
<1>6. CASE store_secret(r) /\ ToReq(r, "commit")
  <2>1. vault' = vault \cup {r}
    BY <1>6 DEF store_secret
  <2>2. "commit" \in UpsertPcs /\ "commit" \in BindPcs
    BY DEF UpsertPcs, BindPcs
  <2>3. /\ DOMAIN req' = Requests /\ \A x \in Requests : ReqShape(req'[x])
        /\ pcs'[r] = "commit" /\ kinds' = kinds /\ olds' = olds /\ pws' = pws /\ tgts' = tgts /\ Others(r)
        /\ \A x \in Requests : kinds[x] = "copy" => req'[x].list = req[x].list
        /\ \A x \in Requests : kinds[x] = "upsert" =>
                 req'[x].group = req[x].group /\ req'[x].engine = req[x].engine /\ req'[x].conn = req[x].conn
    BY <1>1, <1>3, <1>6, <2>2, MoveFacts
  <2>4. SecretsType'
    BY <1>1, <1>4, <2>1, <2>3 DEF SecretsType, RowShape, SharedShape, Secrets
  <2>5. Forward(r)
    BY <1>2, <1>3, <2>3 DEF Forward, SettledPcs, Ended
  <2>6. sec' = sec
    BY <1>4 DEF sec
  <2>7. Fresh(r)' /\ Superseded(r)'
    BY <2>3 DEF Fresh, Superseded
  <2>8. Superseding(r)'
    <3>1. Superseding(r)
      BY <1>1 DEF HolderInv
    <3>2. PICK o, t : o = olds[r] /\ t = sec[tgts[r]]
      OBVIOUS
    <3>3. (Settled(o) => Settled(o)') /\ (Exempt(o) => Exempt(o)') /\ (Exempt(t) => Exempt(t)')
      BY <1>1, <2>3, <2>5, Stays
    <3>. QED BY <1>2, <2>3, <2>6, <3>1, <3>2, <3>3 DEF Superseding, Settled, Exempt
  <2>9. \A c \in SecretConns : sec[c] # NoSecret => sec[c] \in vault'
    BY <1>1, <2>1 DEF PointerInv
  <2>10. GroupInv'
    BY <1>1, <1>2, <1>4, <2>3, MoveGroups
  <2>11. pws[r]
    BY <1>1, <1>2 DEF VaultInv
  <2>12. Owned(r)' /\ \A s : s = olds[r] => Owned(s)'
    BY <2>3 DEF Owned, Ended
  <2>13. /\ r \in vault' /\ pws'[r] /\ pcs'[r] = "commit" /\ kinds'[r] # "copy"
         /\ \A s \in vault' : s \in vault \/ s = r
         /\ \A x \in Requests : x \in vault => x \in vault'
    BY <1>3, <2>1, <2>3, <2>11
  <2>14. \A x, c \in Requests : kinds'[x] = "copy" /\ req'[x].list[c] # NoProfile =>
               kinds[x] = "copy" /\ req[x].list[c] # NoProfile
    BY <2>3
  <2>. QED BY <1>3, <1>4, <2>1, <2>3, <2>4, <2>5, <2>7, <2>8, <2>9, <2>10, <2>12, <2>13, <2>14, VaultStep
<1>. QED BY <1>5, <1>6 DEF StorePassword

(* CleanUp keeps the invariant: what it deletes is in no row. *)
LEMMA CleanUpKeeps ==
    ASSUME SecretsInv, NEW r \in Requests, CleanUp(r)
    PROVE  SecretsInv'
<1>1. SecretsType /\ GateInv /\ PointerInv /\ VaultInv /\ HolderInv /\ GroupInv
  BY DEF SecretsInv
<1>2. /\ profile' = profile /\ activeScope' = activeScope /\ remote' = remote /\ leftBehind' = leftBehind
  BY DEF CleanUp
<1>3. sec' = sec /\ NoSecret \notin vault
  BY <1>1, <1>2, SecretsAssumption DEF sec, SecretsType, Secrets
<1>4. CASE pcs[r] = "committed" /\ delete_secret_best_effort({req[r].old} \ {NoSecret}) /\ ToReq(r, "done")
  <2>1. kinds[r] \in {"upsert", "delete", "bind"} /\ Alone(r) /\ olds[r] = req[r].old
    BY <1>1, <1>4, KindAt, FlatPcs DEF GateInv, GatePcs
  <2>2. PICK S : S = {olds[r]} \ {NoSecret}
    OBVIOUS
  <2>3. /\ vault' \subseteq vault /\ unreclaimed \subseteq unreclaimed'
        /\ \A s \in vault : s \notin S => s \in vault'
        /\ \A s \in S : s \in vault' => s \in unreclaimed'
    BY <1>4, <2>1, <2>2, DeleteFacts
  <2>4. "done" \in UpsertPcs /\ "done" \in DeletePcs /\ "done" \in BindPcs
    BY DEF UpsertPcs, DeletePcs, BindPcs
  <2>5. /\ DOMAIN req' = Requests /\ \A x \in Requests : ReqShape(req'[x])
        /\ pcs'[r] = "done" /\ kinds' = kinds /\ olds' = olds /\ pws' = pws /\ tgts' = tgts /\ Others(r)
        /\ \A x \in Requests : kinds[x] = "copy" => req'[x].list = req[x].list
        /\ \A x \in Requests : kinds[x] = "upsert" =>
                 req'[x].group = req[x].group /\ req'[x].engine = req[x].engine /\ req'[x].conn = req[x].conn
    BY <1>1, <1>4, <2>1, <2>4, MoveFacts
  <2>6. SecretsType'
    BY <1>1, <1>2, <2>3, <2>5 DEF SecretsType, RowShape, SharedShape
  <2>7. Forward(r)
    BY <1>4, <2>1, <2>5 DEF Forward, SettledPcs, Ended
  <2>8. Fresh(r)' /\ Superseding(r)' /\ Superseded(r)'
    BY <2>5 DEF Fresh, Superseding, Superseded
  <2>9. Superseded(r)
    BY <1>1 DEF HolderInv
  <2>10. \A c \in SecretConns : sec[c] # NoSecret => sec[c] \in vault'
    BY <1>1, <1>4, <2>2, <2>3, <2>9 DEF PointerInv, Superseded
  <2>11. \A x \in Requests : x \in vault /\ x \notin vault' => pcs[x] \in SettledPcs
    BY <1>4, <2>2, <2>3, <2>9, SecretsAssumption DEF Superseded, Settled, SettledPcs
  <2>12. GroupInv'
    BY <1>1, <1>2, <2>5, MoveGroups
  <2>13. r \in vault' => pws[r] /\ Owned(r)'
    <3>. SUFFICES ASSUME r \in vault' PROVE pws[r] /\ Owned(r)'
      OBVIOUS
    <3>1. pws[r]
      BY <1>1, <2>3 DEF VaultInv
    <3>2. CASE kinds[r] = "upsert"
      <4>1. sec[tgts[r]] = r /\ tgts[r] \in SecretConns
        BY <1>1, <1>4, <2>9, <3>1, <3>2, FlatPcs DEF Superseded, SecretConns
      <4>. QED BY <1>3, <3>1, <4>1 DEF Owned
    <3>3. CASE kinds[r] = "bind"
      BY <2>5, <3>1, <3>3 DEF Owned, Exempt
    <3>4. CASE kinds[r] = "delete"
      BY <1>1, <3>1, <3>4, FlatPcs
    <3>. QED BY <2>1, <3>2, <3>3, <3>4
  <2>14. \A s \in vault' : s = olds[r] => s \in unreclaimed'
    BY <1>3, <2>2, <2>3
  <2>15. /\ \A x, c \in Requests : kinds'[x] = "copy" /\ req'[x].list[c] # NoProfile =>
               kinds[x] = "copy" /\ req[x].list[c] # NoProfile
         /\ \A s \in vault' : s \in vault
         /\ \A x \in Requests : x \in vault /\ x \notin vault' => pcs[x] \notin {"commit", "share", "sync", "bind_copy"}
         /\ pcs'[r] \notin GatePcs /\ (r \in vault' => pws'[r]) /\ kinds'[r] # "copy"
    BY <2>1, <2>3, <2>5, <2>11, <2>13 DEF SettledPcs, GatePcs
  <2>. QED BY <1>2, <2>1, <2>3, <2>5, <2>6, <2>7, <2>8, <2>10, <2>12, <2>13, <2>14, <2>15, VaultStep
<1>5. CASE /\ pcs[r] = "uncommitted" /\ delete_secret_best_effort(IF req[r].password THEN {r} ELSE {})
           /\ ToReq(r, "failed")
  <2>1. kinds[r] \in {"upsert", "bind"} /\ Alone(r) /\ pws[r] = req[r].password
    BY <1>1, <1>5, KindAt, FlatPcs DEF GateInv, GatePcs
  <2>2. PICK S : S = IF pws[r] THEN {r} ELSE {}
    OBVIOUS
  <2>3. /\ vault' \subseteq vault /\ unreclaimed \subseteq unreclaimed'
        /\ \A s \in vault : s \notin S => s \in vault'
        /\ \A s \in S : s \in vault' => s \in unreclaimed'
    BY <1>5, <2>1, <2>2, DeleteFacts
  <2>4. "failed" \in UpsertPcs /\ "failed" \in BindPcs
    BY DEF UpsertPcs, BindPcs
  <2>5. /\ DOMAIN req' = Requests /\ \A x \in Requests : ReqShape(req'[x])
        /\ pcs'[r] = "failed" /\ kinds' = kinds /\ olds' = olds /\ pws' = pws /\ tgts' = tgts /\ Others(r)
        /\ \A x \in Requests : kinds[x] = "copy" => req'[x].list = req[x].list
        /\ \A x \in Requests : kinds[x] = "upsert" =>
                 req'[x].group = req[x].group /\ req'[x].engine = req[x].engine /\ req'[x].conn = req[x].conn
    BY <1>1, <1>5, <2>1, <2>4, MoveFacts
  <2>6. SecretsType'
    BY <1>1, <1>2, <2>3, <2>5 DEF SecretsType, RowShape, SharedShape
  <2>7. Forward(r)
    BY <1>5, <2>1, <2>5 DEF Forward, SettledPcs, Ended
  <2>8. Fresh(r)' /\ Superseding(r)' /\ Superseded(r)'
    BY <2>5 DEF Fresh, Superseding, Superseded
  <2>9. \A c \in SecretConns : sec[c] # r
    BY <1>5, UnsettledIsUnpointed DEF SettledPcs
  <2>10. \A c \in SecretConns : sec[c] # NoSecret => sec[c] \in vault'
    BY <1>1, <2>2, <2>3, <2>9 DEF PointerInv
  <2>12. GroupInv'
    BY <1>1, <1>2, <2>5, MoveGroups
  <2>13. r \in vault' => pws[r] /\ r \in unreclaimed'
    BY <1>1, <2>2, <2>3 DEF VaultInv
  <2>14. \A s \in vault' : s = olds[r] => Owned(s)'
    <3>. SUFFICES ASSUME NEW s \in vault', s = olds[r] PROVE Owned(s)'
      OBVIOUS
    <3>1. (\E c \in SecretConns : sec[c] = s) \/ Exempt(s)
      BY <1>3, <1>5, <2>3, OldHasOwner
    <3>2. Exempt(s) => Exempt(s)'
      BY <1>1, <2>5, <2>7, Stays
    <3>. QED BY <1>3, <3>1, <3>2 DEF Owned
  <2>15. /\ \A x, c \in Requests : kinds'[x] = "copy" /\ req'[x].list[c] # NoProfile =>
               kinds[x] = "copy" /\ req[x].list[c] # NoProfile
         /\ \A s \in vault' : s \in vault
         /\ \A x \in Requests \ {r} : x \in vault => x \in vault'
         /\ pcs'[r] \notin GatePcs /\ (r \in vault' => pws'[r]) /\ kinds'[r] # "copy"
    BY <2>1, <2>2, <2>3, <2>5, <2>13 DEF GatePcs
  <2>. QED BY <1>2, <2>1, <2>3, <2>5, <2>6, <2>7, <2>8, <2>10, <2>12, <2>13, <2>14, <2>15, VaultStep
<1>6. pcs[r] = req[r].pc
  BY <1>1, Flat
<1>. QED BY <1>4, <1>5, <1>6 DEF CleanUp, AtReq

(* RollBackCopy keeps the invariant. *)
LEMMA RollBackCopyKeeps ==
    ASSUME SecretsInv, NEW r \in Requests, RollBackCopy(r)
    PROVE  SecretsInv'
<1>1. SecretsType /\ GateInv /\ PointerInv /\ VaultInv /\ HolderInv /\ GroupInv
  BY DEF SecretsInv
<1>2. /\ profile' = profile /\ activeScope' = activeScope /\ remote' = remote /\ leftBehind' = leftBehind
      /\ ToReq(r, "delete_remote")
      /\ delete_secret_best_effort(IF req[r].password THEN {r} ELSE {})
  BY DEF RollBackCopy
<1>3. pcs[r] = "rollback"
  BY <1>1, Flat DEF RollBackCopy, AtReq
<1>4. kinds[r] = "copy" /\ pws[r] = req[r].password /\ olds[r] = NoSecret
  BY <1>1, <1>3, KindAt, FlatPcs
<1>5. NoSecret \notin vault
  BY <1>1, SecretsAssumption DEF SecretsType, Secrets
<1>6. PICK S : S = IF pws[r] THEN {r} ELSE {}
  OBVIOUS
<1>7. /\ vault' \subseteq vault /\ unreclaimed \subseteq unreclaimed'
      /\ \A s \in vault : s \notin S => s \in vault'
      /\ \A s \in S : s \in vault' => s \in unreclaimed'
  BY <1>2, <1>4, <1>6, DeleteFacts
<1>8. "delete_remote" \in CopyPcs
  BY DEF CopyPcs
<1>9. /\ DOMAIN req' = Requests /\ \A x \in Requests : ReqShape(req'[x])
      /\ pcs'[r] = "delete_remote" /\ kinds' = kinds /\ olds' = olds /\ pws' = pws /\ tgts' = tgts /\ Others(r)
      /\ \A x \in Requests : kinds[x] = "copy" => req'[x].list = req[x].list
      /\ \A x \in Requests : kinds[x] = "upsert" =>
               req'[x].group = req[x].group /\ req'[x].engine = req[x].engine /\ req'[x].conn = req[x].conn
  BY <1>1, <1>2, <1>4, <1>8, MoveFacts
<1>10. SecretsType'
  BY <1>1, <1>2, <1>7, <1>9 DEF SecretsType, RowShape, SharedShape
<1>11. Forward(r)
  BY <1>3, <1>4, <1>9 DEF Forward, SettledPcs, Ended, PastPcs
<1>12. Fresh(r)' /\ Superseding(r)' /\ Superseded(r)'
  BY <1>9 DEF Fresh, Superseding, Superseded
<1>13. \A c \in SecretConns : sec[c] # r
  BY <1>3, UnsettledIsUnpointed DEF SettledPcs
<1>14. \A c \in SecretConns : sec[c] # NoSecret => sec[c] \in vault'
  BY <1>1, <1>6, <1>7, <1>13 DEF PointerInv
<1>15. GroupInv'
  BY <1>1, <1>2, <1>9, MoveGroups
<1>16. r \in vault' => pws[r] /\ r \in unreclaimed'
  BY <1>1, <1>6, <1>7 DEF VaultInv
<1>17. /\ \A x, c \in Requests : kinds'[x] = "copy" /\ req'[x].list[c] # NoProfile =>
             kinds[x] = "copy" /\ req[x].list[c] # NoProfile
       /\ \A s \in vault' : s \in vault /\ s # olds[r]
       /\ \A x \in Requests \ {r} : x \in vault => x \in vault'
       /\ pcs'[r] \notin GatePcs /\ (r \in vault' => pws'[r])
  BY <1>4, <1>5, <1>6, <1>7, <1>9, <1>16 DEF GatePcs
<1>. QED BY <1>2, <1>7, <1>9, <1>10, <1>11, <1>12, <1>14, <1>15, <1>16, <1>17, VaultStep

(* A copy that goes on with a list, request by request. *)
LEMMA ListFacts ==
    ASSUME SecretsType, NEW r \in Requests, kinds[r] = "copy", NEW p \in CopyPcs, NEW l,
           DOMAIN l = Requests, \A c \in Requests : SharedShape(l[c]),
           req' = [req EXCEPT ![r] = [req[r] EXCEPT !.pc = p, !.list = l]]
    PROVE  /\ DOMAIN req' = Requests /\ \A x \in Requests : ReqShape(req'[x])
           /\ pcs'[r] = p /\ kinds' = kinds /\ olds' = olds /\ pws' = pws /\ tgts' = tgts /\ Others(r)
           /\ req'[r].list = l /\ \A x \in Requests \ {r} : req'[x] = req[x]
<1>1. IsCopy(req[r]) /\ DOMAIN req = Requests
  BY Flat DEF SecretsType
<1>2. PICK q, k : q = req[r] /\ k = [req[r] EXCEPT !.pc = p, !.list = l]
  OBVIOUS
<1>3. /\ DOMAIN k = DOMAIN q /\ \A f \in DOMAIN q \ {"pc", "list"} : k[f] = q[f]
      /\ k.pc = p /\ k.list = l
  BY <1>1, <1>2 DEF IsCopy
<1>4. DOMAIN req' = Requests /\ req'[r] = k /\ \A x \in Requests \ {r} : req'[x] = req[x]
  BY <1>1, <1>2
<1>5. /\ DOMAIN req'[r] = DOMAIN req[r]
      /\ \A f \in DOMAIN req[r] \ {"pc", "list"} : req'[r][f] = req[r][f]
      /\ req'[r].pc = p /\ req'[r].list = l
  BY <1>2, <1>3, <1>4
<1>6. /\ DOMAIN req'[r].list = Requests /\ \A c \in Requests : SharedShape(req'[r].list[c])
      /\ req'[r].pc \in CopyPcs
  BY <1>5 DEF SharedShape
<1>7. /\ \A x \in Requests : ReqShape(req'[x])
      /\ pcs' = [pcs EXCEPT ![r] = req'[r].pc] /\ kinds' = kinds /\ olds' = olds /\ pws' = pws /\ tgts' = tgts
  BY <1>4, <1>5, <1>6, PcListEffect
<1>8. DOMAIN pcs = Requests
  BY DEF pcs
<1>9. Others(r) /\ pcs'[r] = p
  BY <1>5, <1>7, <1>8 DEF Others
<1>. QED BY <1>4, <1>5, <1>7, <1>9

(* SnapshotRemote keeps the invariant. *)
LEMMA SnapshotRemoteKeeps ==
    ASSUME SecretsInv, NEW r \in Requests, SnapshotRemote(r)
    PROVE  SecretsInv'
<1>1. SecretsType /\ GateInv /\ PointerInv /\ VaultInv /\ HolderInv /\ GroupInv
  BY DEF SecretsInv
<1>2. /\ profile' = profile /\ activeScope' = activeScope /\ remote' = remote /\ leftBehind' = leftBehind
      /\ unreclaimed' = unreclaimed
  BY DEF SnapshotRemote
<1>3. pcs[r] = "snapshot"
  BY <1>1, Flat DEF SnapshotRemote, AtReq
<1>4. kinds[r] = "copy" /\ pws[r] = req[r].password /\ olds[r] = NoSecret
  BY <1>1, <1>3, KindAt, FlatPcs
<1>5. CASE ToReq(r, "failed") /\ UNCHANGED vault
  BY <1>2, <1>3, <1>5, EarlyFailureKeeps
<1>6. CASE /\ req' = [req EXCEPT ![r].pc = "share", ![r].list = remote]
           /\ IF req[r].password THEN store_secret(r) ELSE UNCHANGED vault
  <2>1. req' = [req EXCEPT ![r] = [req[r] EXCEPT !.pc = "share", !.list = remote]]
    BY <1>1, <1>6 DEF SecretsType
  <2>2. vault' = IF pws[r] THEN vault \cup {r} ELSE vault
    BY <1>4, <1>6 DEF store_secret
  <2>3. /\ "share" \in CopyPcs /\ DOMAIN remote = Requests /\ \A c \in Requests : SharedShape(remote[c])
    BY <1>1 DEF SecretsType, CopyPcs
  <2>4. /\ DOMAIN req' = Requests /\ \A x \in Requests : ReqShape(req'[x])
        /\ pcs'[r] = "share" /\ kinds' = kinds /\ olds' = olds /\ pws' = pws /\ tgts' = tgts /\ Others(r)
        /\ req'[r].list = remote /\ \A x \in Requests \ {r} : req'[x] = req[x]
    BY <1>1, <1>4, <2>1, <2>3, ListFacts
  <2>5. NoSecret \notin vault /\ r \notin vault /\ NoSecret # r
    BY <1>1, <1>3, SecretsAssumption DEF SecretsType, Secrets, VaultInv
  <2>6. SecretsType'
    BY <1>1, <1>2, <2>2, <2>4 DEF SecretsType, RowShape, SharedShape, Secrets
  <2>7. Forward(r)
    BY <1>3, <1>4, <2>4 DEF Forward, SettledPcs, Ended, PastPcs
  <2>8. Fresh(r)' /\ Superseding(r)' /\ Superseded(r)'
    BY <2>4 DEF Fresh, Superseding, Superseded
  <2>9. \A c \in SecretConns : sec[c] # NoSecret => sec[c] \in vault'
    BY <1>1, <2>2 DEF PointerInv
  <2>10. GroupInv'
    BY <1>1, <1>2, <1>4, <2>4, MoveGroups
  <2>11. Owned(r)'
    BY <2>4 DEF Owned, Ended
  <2>12. /\ \A x, c \in Requests : kinds'[x] = "copy" /\ req'[x].list[c] # NoProfile =>
               remote[c] # NoProfile \/ (kinds[x] = "copy" /\ req[x].list[c] # NoProfile)
         /\ \A s \in vault' : (s \in vault \/ s = r) /\ s # olds[r]
         /\ \A x \in Requests : x \in vault => x \in vault'
         /\ pcs'[r] \notin GatePcs /\ (r \in vault' => pws'[r]) /\ (pws'[r] => r \in vault')
    BY <1>4, <2>2, <2>4, <2>5 DEF GatePcs
  <2>. QED BY <1>2, <2>4, <2>6, <2>7, <2>8, <2>9, <2>10, <2>11, <2>12, VaultStep
<1>. QED BY <1>5, <1>6 DEF SnapshotRemote

(* share_connection keeps the invariant. *)
LEMMA ShareKeeps ==
    ASSUME SecretsInv, NEW r \in Requests, share_connection(r)
    PROVE  SecretsInv'
<1>1. SecretsType /\ SharedInv /\ GateInv /\ PointerInv /\ VaultInv /\ HolderInv /\ GroupInv
  BY DEF SecretsInv
<1>2. profile' = profile /\ activeScope' = activeScope
  BY DEF share_connection
<1>3. pcs[r] = "share"
  BY <1>1, Flat DEF share_connection, AtReq
<1>4. kinds[r] = "copy" /\ pws[r] = req[r].password /\ olds[r] = NoSecret /\ IsCopy(req[r])
  BY <1>1, <1>3, KindAt, FlatPcs, Flat
<1>5. NoSecret \notin vault
  BY <1>1, SecretsAssumption DEF SecretsType, Secrets
<1>6. PICK m : m = Template(r)
  OBVIOUS
<1>7. SharedShape(m)
  BY <1>6 DEF Template, Profile, SharedShape, ProfileFields
<1>8. remote[r] = NoProfile
  BY <1>1, <1>3 DEF SharedInv, Past
<1>9. CASE /\ remote' = [remote EXCEPT ![r] = Template(r)] /\ UNCHANGED <<vault, unreclaimed, leftBehind>>
           /\ req' = [req EXCEPT ![r].pc = "sync", ![r].list[r] = Template(r)]
  <2>1. PICK l : l = [req[r].list EXCEPT ![r] = m]
    OBVIOUS
  <2>2. DOMAIN l = Requests /\ l[r] = m /\ \A c \in Requests \ {r} : l[c] = req[r].list[c]
    BY <1>4, <2>1 DEF IsCopy
  <2>3. \A c \in Requests : SharedShape(l[c])
    BY <1>4, <1>7, <2>2 DEF IsCopy
  <2>4. req' = [req EXCEPT ![r] = [req[r] EXCEPT !.pc = "sync", !.list = l]]
    <3>1. PICK q : q = req[r]
      OBVIOUS
    <3>2. "pc" \in DOMAIN q /\ "list" \in DOMAIN q /\ DOMAIN req = Requests
      BY <1>1, <1>4, <3>1 DEF IsCopy, SecretsType
    <3>. QED BY <1>6, <1>9, <2>1, <3>1, <3>2
  <2>5. "sync" \in CopyPcs
    BY DEF CopyPcs
  <2>6. /\ DOMAIN req' = Requests /\ \A x \in Requests : ReqShape(req'[x])
        /\ pcs'[r] = "sync" /\ kinds' = kinds /\ olds' = olds /\ pws' = pws /\ tgts' = tgts /\ Others(r)
        /\ req'[r].list = l /\ \A x \in Requests \ {r} : req'[x] = req[x]
    BY <1>1, <1>4, <2>2, <2>3, <2>4, <2>5, ListFacts
  <2>7. /\ DOMAIN remote' = Requests /\ remote'[r] = m /\ \A c \in Requests \ {r} : remote'[c] = remote[c]
        /\ vault' = vault /\ unreclaimed' = unreclaimed /\ leftBehind' = leftBehind
    BY <1>1, <1>6, <1>9 DEF SecretsType
  <2>8. SecretsType'
    BY <1>1, <1>2, <1>7, <2>6, <2>7 DEF SecretsType, RowShape, SharedShape
  <2>9. Forward(r)
    BY <1>3, <1>4, <2>6 DEF Forward, SettledPcs, Ended, PastPcs
  <2>10. Fresh(r)' /\ Superseding(r)' /\ Superseded(r)'
    BY <2>6 DEF Fresh, Superseding, Superseded
  <2>11. \A c \in SecretConns : sec[c] # NoSecret => sec[c] \in vault'
    BY <1>1, <2>7 DEF PointerInv
  <2>12. GroupInv'
    BY <1>1, <1>2, <1>4, <2>6, MoveGroups
  <2>13. Owned(r)' /\ Past(r)'
    BY <1>4, <2>6 DEF Owned, Ended, Past
  <2>14. /\ r \in vault' => pws'[r]
         /\ pws'[r] => r \in vault'
    BY <1>1, <1>3, <2>6, <2>7 DEF VaultInv
  <2>15. \A x, c \in Requests : kinds'[x] = "copy" /\ req'[x].list[c] # NoProfile =>
               Past(c)' \/ (kinds[x] = "copy" /\ req[x].list[c] # NoProfile)
    BY <2>2, <2>6, <2>13
  <2>16. pcs'[r] \notin GatePcs /\ (\A s \in vault' : s \in vault /\ s # olds[r])
    BY <1>4, <1>5, <2>6, <2>7 DEF GatePcs
  <2>. QED BY <1>2, <2>6, <2>7, <2>8, <2>9, <2>10, <2>11, <2>12, <2>13, <2>14, <2>15, <2>16, VaultStep
<1>10. CASE /\ \/ UNCHANGED <<remote, leftBehind>>
               \/ remote' = [remote EXCEPT ![r] = Template(r)] /\ leftBehind' = leftBehind \cup {r}
            /\ delete_secret_best_effort(IF req[r].password THEN {r} ELSE {})
            /\ ToReq(r, "failed")
  <2>1. PICK S : S = IF pws[r] THEN {r} ELSE {}
    OBVIOUS
  <2>2. /\ vault' \subseteq vault /\ unreclaimed \subseteq unreclaimed'
        /\ \A s \in vault : s \notin S => s \in vault'
        /\ \A s \in S : s \in vault' => s \in unreclaimed'
    BY <1>4, <1>10, <2>1, DeleteFacts
  <2>3. /\ DOMAIN remote' = Requests /\ remote'[r] \in {m, NoProfile} /\ \A c \in Requests \ {r} : remote'[c] = remote[c]
        /\ leftBehind \subseteq leftBehind' /\ (r \notin leftBehind' => remote'[r] = NoProfile)
    BY <1>1, <1>6, <1>8, <1>10 DEF SecretsType
  <2>4. "failed" \in CopyPcs
    BY DEF CopyPcs
  <2>5. /\ DOMAIN req' = Requests /\ \A x \in Requests : ReqShape(req'[x])
        /\ pcs'[r] = "failed" /\ kinds' = kinds /\ olds' = olds /\ pws' = pws /\ tgts' = tgts /\ Others(r)
        /\ \A x \in Requests : kinds[x] = "copy" => req'[x].list = req[x].list
        /\ \A x \in Requests : kinds[x] = "upsert" =>
                 req'[x].group = req[x].group /\ req'[x].engine = req[x].engine /\ req'[x].conn = req[x].conn
    BY <1>1, <1>4, <1>10, <2>4, MoveFacts
  <2>6. SecretsType'
    BY <1>1, <1>2, <1>7, <2>2, <2>3, <2>5 DEF SecretsType, RowShape, SharedShape
  <2>7. Forward(r)
    BY <1>3, <1>4, <2>5 DEF Forward, SettledPcs, Ended, PastPcs
  <2>8. Fresh(r)' /\ Superseding(r)' /\ Superseded(r)'
    BY <2>5 DEF Fresh, Superseding, Superseded
  <2>9. \A c \in SecretConns : sec[c] # r
    BY <1>3, UnsettledIsUnpointed DEF SettledPcs
  <2>10. \A c \in SecretConns : sec[c] # NoSecret => sec[c] \in vault'
    BY <1>1, <2>1, <2>2, <2>9 DEF PointerInv
  <2>11. GroupInv'
    BY <1>1, <1>2, <2>5, MoveGroups
  <2>12. r \in vault' => pws[r] /\ r \in unreclaimed'
    BY <1>1, <2>1, <2>2 DEF VaultInv
  <2>13. Past(r)'
    BY <1>4, <2>5 DEF Past
  <2>14. /\ \A x, c \in Requests : kinds'[x] = "copy" /\ req'[x].list[c] # NoProfile =>
               kinds[x] = "copy" /\ req[x].list[c] # NoProfile
         /\ \A s \in vault' : s \in vault /\ s # olds[r]
         /\ \A x \in Requests \ {r} : x \in vault => x \in vault'
         /\ pcs'[r] \notin GatePcs /\ (r \in vault' => pws'[r])
    BY <1>4, <1>5, <2>1, <2>2, <2>5, <2>12 DEF GatePcs
  <2>. QED BY <1>2, <2>2, <2>3, <2>5, <2>6, <2>7, <2>8, <2>10, <2>11, <2>12, <2>13, <2>14, VaultStep
<1>. QED BY <1>9, <1>10 DEF share_connection

--------------------------------------------------------------------------------
(* Steps on the rows. *)

(* What a step on the rows has to show. *)
LEMMA RowStep ==
    ASSUME SecretsInv, NEW r \in Requests, SecretsType', Others(r), Forward(r), HolderInv', GroupInv',
           unreclaimed \subseteq unreclaimed', leftBehind \subseteq leftBehind', vault' \subseteq vault,
           \A c \in SecretConns : sec'[c] \in {sec[c], NoSecret, r},
           \A c \in SecretConns : sec'[c] = sec[c] /\ sec[c] # NoSecret => sec[c] \in vault',
           (\E c \in SecretConns : sec'[c] = r /\ sec[c] # r) =>
               /\ \A c \in SecretConns : sec[c] # r
               /\ \A c, d \in SecretConns : sec'[c] = r /\ sec'[d] = r => c = d
               /\ r \in vault' /\ pcs'[r] \in SettledPcs \ {"crashed"},
           \A c \in Requests : sec'[c] = r /\ sec[c] # r => kinds'[r] \in {"bind", "copy"},
           \A x \in Requests \ {r} : x \in vault /\ x \notin vault' =>
               pcs[x] \notin {"commit", "share", "sync", "bind_copy"},
           \A c \in Requests : profile'[c] # NoProfile => profile[c] # NoProfile \/ Past(c)',
           \A x \in Requests \ {r} : remote'[x] = remote[x], remote'[r] \in {remote[r], NoProfile},
           pcs'[r] \in GatePcs => Alone(r),
           r \in vault' => /\ pws'[r]
                           /\ pcs'[r] \notin {"idle", "gate", "upsert", "bind", "delete", "store", "fetch", "snapshot"},
           pws'[r] /\ pcs'[r] \in {"commit", "share", "sync", "bind_copy"} => r \in vault',
           pcs'[r] \notin {"delete_remote", "store"},
           \A c \in SecretConns, s \in vault' \ unreclaimed' : s = sec[c] => Owned(s)',
           r \in vault' \ unreclaimed' => Owned(r)',
           \A s \in vault' \ unreclaimed' : s = olds[r] /\ pcs[r] \notin Ended => Owned(s)',
           \A x, c \in Requests : kinds'[x] = "copy" /\ req'[x].list[c] # NoProfile =>
               kinds[x] = "copy" /\ req[x].list[c] # NoProfile,
           pcs'[r] = "failed" /\ kinds'[r] = "copy" /\ r \notin leftBehind' => remote'[r] = NoProfile
    PROVE  SecretsInv'
<1>1. /\ SecretsType /\ SharedInv /\ GateInv /\ PointerInv /\ VaultInv /\ HolderInv /\ OwnerInv /\ GroupInv /\ CopyInv
  BY DEF SecretsInv
<1>2. SharedInv'
  <2>1. \A c \in Requests : Past(c) => Past(c)'
    BY <1>1, Stays
  <2>2. \A c \in Requests : remote'[c] # NoProfile => remote[c] # NoProfile \/ Past(c)'
    OBVIOUS
  <2>. QED BY <1>1, <2>1, <2>2, SharedKept
<1>3. GateInv'
  BY <1>1, GateKept
<1>4. PointerInv'
  BY <1>1, PointerKept
<1>5. VaultInv'
  <2>1. \A x \in Requests \ {r} : x \in vault' => x \in vault
    OBVIOUS
  <2>. QED BY <1>1, <2>1, VaultKept
<1>6. OwnerInv'
  <2>1. \A s \in vault' : s \in vault
    OBVIOUS
  <2>. QED BY <1>1, <2>1, OwnerKept
<1>7. CopyInv'
  <2>. SUFFICES ASSUME NEW k \in Requests, pcs'[k] = "failed", kinds'[k] = "copy", k \notin leftBehind'
                PROVE remote'[k] = NoProfile
    BY DEF CopyInv
  <2>1. CASE k = r
    BY <2>1
  <2>2. CASE k # r
    BY <1>1, <2>2 DEF CopyInv, Others
  <2>. QED BY <2>1, <2>2
<1>. QED BY <1>2, <1>3, <1>4, <1>5, <1>6, <1>7 DEF SecretsInv

(* A move that takes a credential down, request by request. *)
LEMMA OldFacts ==
    ASSUME SecretsType, NEW r \in Requests, kinds[r] \in {"upsert", "delete", "bind"}, NEW p, NEW s \in AnySecret,
           req' = [req EXCEPT ![r] = [req[r] EXCEPT !.pc = p, !.old = s]],
           kinds[r] = "upsert" => p \in UpsertPcs, kinds[r] = "delete" => p \in DeletePcs,
           kinds[r] = "bind" => p \in BindPcs
    PROVE  /\ DOMAIN req' = Requests /\ \A x \in Requests : ReqShape(req'[x])
           /\ pcs'[r] = p /\ olds'[r] = s /\ kinds' = kinds /\ pws' = pws /\ tgts' = tgts /\ Others(r)
           /\ \A x \in Requests \ {r} : req'[x] = req[x]
<1>1. (IsUpsert(req[r]) \/ IsDelete(req[r]) \/ IsBind(req[r])) /\ DOMAIN req = Requests
  BY Flat DEF SecretsType
<1>2. PICK q, k : q = req[r] /\ k = [req[r] EXCEPT !.pc = p, !.old = s]
  OBVIOUS
<1>3. /\ DOMAIN k = DOMAIN q /\ \A f \in DOMAIN q \ {"pc", "old"} : k[f] = q[f]
      /\ k.pc = p /\ k.old = s
  BY <1>1, <1>2 DEF IsUpsert, IsDelete, IsBind
<1>4. DOMAIN req' = Requests /\ req'[r] = k /\ \A x \in Requests \ {r} : req'[x] = req[x]
  BY <1>1, <1>2
<1>5. /\ DOMAIN req'[r] = DOMAIN req[r]
      /\ \A f \in DOMAIN req[r] \ {"pc", "old"} : req'[r][f] = req[r][f]
      /\ req'[r].pc = p /\ req'[r].old = s
  BY <1>2, <1>3, <1>4
<1>6. /\ req'[r].old \in AnySecret
      /\ kinds[r] = "upsert" => req'[r].pc \in UpsertPcs
      /\ kinds[r] = "delete" => req'[r].pc \in DeletePcs
      /\ kinds[r] = "bind" => req'[r].pc \in BindPcs
  BY <1>5
<1>7. /\ \A x \in Requests : ReqShape(req'[x])
      /\ pcs' = [pcs EXCEPT ![r] = req'[r].pc] /\ kinds' = kinds /\ olds' = [olds EXCEPT ![r] = req'[r].old]
      /\ pws' = pws /\ tgts' = tgts
  BY <1>4, <1>5, <1>6, PcOldEffect
<1>8. DOMAIN pcs = Requests /\ DOMAIN olds = Requests
  BY DEF pcs, olds
<1>9. Others(r) /\ pcs'[r] = p /\ olds'[r] = s
  BY <1>5, <1>7, <1>8 DEF Others
<1>. QED BY <1>4, <1>7, <1>9

(* With the gate in hand, no other request has judged a group. *)
LEMMA GroupAlone ==
    ASSUME SecretsType, GateInv, NEW r \in Requests, Others(r), Alone(r), OneEnginePerGroup',
           pcs'[r] \notin {"store", "commit"}
    PROVE  GroupInv'
<1>1. \A x \in Requests : pcs'[x] \notin {"store", "commit"}
  BY DEF Alone, GatePcs, Others
<1>. QED BY <1>1 DEF GroupInv

(* Groups stay sound when local rows stay or go. *)
LEMMA FewerRows ==
    ASSUME SecretsType, GroupInv, \A c \in Locals : profile'[c] \in {profile[c], NoProfile}
    PROVE  OneEnginePerGroup'
<1>1. \A c \in Locals : c \in Rows' => c \in Rows /\ profile'[c] = profile[c]
  BY DEF Rows, SecretConns
<1>. QED BY <1>1 DEF GroupInv, OneEnginePerGroup

(* delete keeps the invariant. *)
LEMMA DeleteKeeps ==
    ASSUME SecretsInv, NEW r \in Requests, delete(r)
    PROVE  SecretsInv'
<1>1. SecretsType /\ GateInv /\ PointerInv /\ VaultInv /\ HolderInv /\ GroupInv
  BY DEF SecretsInv
<1>2. pcs[r] = "delete"
  BY <1>1, Flat DEF delete, AtReq
<1>3. kinds[r] = "delete" /\ Alone(r)
  BY <1>1, <1>2, KindAt DEF GateInv, GatePcs
<1>4. CASE Refuse(r)
  BY <1>2, <1>4, RefuseKeeps
<1>5. PICK c : c = req[r].conn
  OBVIOUS
<1>6. CASE /\ c \in Listed /\ profile' = [profile EXCEPT ![c] = NoProfile]
           /\ req' = [req EXCEPT ![r].pc = "committed", ![r].old = profile[c].secret]
           /\ UNCHANGED <<activeScope, vault, remote, unreclaimed, leftBehind, secretCrashes>>
  <2>1. c \in Locals /\ c \in SecretConns /\ c \notin Requests /\ pws[r] = FALSE /\ tgts[r] = c
    BY <1>1, <1>3, <1>5, FlatPcs, SecretsAssumption DEF SecretConns
  <2>2. PICK s : s = sec[c]
    OBVIOUS
  <2>3. s = profile[c].secret /\ s \in AnySecret
    BY <1>1, <1>6, <2>1, <2>2 DEF sec, Listed, Rows, SecretsType, RowShape
  <2>4. req' = [req EXCEPT ![r] = [req[r] EXCEPT !.pc = "committed", !.old = s]]
    BY <1>1, <1>6, <2>3 DEF SecretsType
  <2>5. "committed" \in DeletePcs
    BY DEF DeletePcs
  <2>6. /\ DOMAIN req' = Requests /\ \A x \in Requests : ReqShape(req'[x])
        /\ pcs'[r] = "committed" /\ olds'[r] = s /\ kinds' = kinds /\ pws' = pws /\ tgts' = tgts /\ Others(r)
        /\ \A x \in Requests \ {r} : req'[x] = req[x]
    BY <1>1, <1>3, <2>3, <2>4, <2>5, OldFacts
  <2>7. /\ DOMAIN profile' = SecretConns /\ profile'[c] = NoProfile /\ \A d \in SecretConns \ {c} : profile'[d] = profile[d]
        /\ activeScope' = activeScope /\ vault' = vault /\ remote' = remote
        /\ unreclaimed' = unreclaimed /\ leftBehind' = leftBehind
    BY <1>1, <1>6, <2>1 DEF SecretsType
  <2>8. sec'[c] = NoSecret /\ \A d \in SecretConns \ {c} : sec'[d] = sec[d]
    BY <2>1, <2>7 DEF sec
  <2>9. SecretsType'
    BY <1>1, <2>1, <2>6, <2>7 DEF SecretsType, RowShape, SharedShape
  <2>10. Forward(r)
    BY <1>2, <1>3, <2>6 DEF Forward, SettledPcs, Ended
  <2>11. ~Settled(r)
    BY <1>2, SecretsAssumption DEF Settled
  <2>12. s # NoSecret => Settled(s) /\ s # r /\ \A d \in SecretConns : sec'[d] # s
    BY <1>1, <2>1, <2>2, <2>8, <2>11 DEF PointerInv
  <2>13. Settled(s) => Settled(s)'
    BY <1>1, <2>6, <2>10, Stays
  <2>14. Fresh(r)' /\ Superseding(r)'
    BY <2>6 DEF Fresh, Superseding
  <2>15. Superseded(r)'
    BY <1>3, <2>6, <2>12, <2>13 DEF Superseded, Settled
  <2>16. HolderInv'
    BY <1>1, <1>3, <2>6, <2>14, <2>15, HolderAlone
  <2>17. OneEnginePerGroup'
    <3>1. \A d \in Locals : profile'[d] \in {profile[d], NoProfile}
      BY <2>7 DEF SecretConns
    <3>. QED BY <1>1, <3>1, FewerRows
  <2>18. GroupInv'
    BY <1>1, <1>3, <2>6, <2>17, GroupAlone
  <2>19. r \notin vault /\ olds[r] = NoSecret /\ NoSecret \notin vault
    BY <1>1, <1>2, SecretsAssumption DEF VaultInv, HolderInv, Fresh, SecretsType, Secrets
  <2>20. \A d \in SecretConns, t \in vault' : t = sec[d] => Owned(t)'
    BY <2>2, <2>6, <2>8 DEF Owned, Ended
  <2>21. \A d \in SecretConns : sec[d] # NoSecret => sec[d] \in vault'
    BY <1>1, <2>7 DEF PointerInv
  <2>22. /\ \A d \in SecretConns : sec'[d] \in {sec[d], NoSecret}
         /\ \A k \in Requests : profile'[k] = profile[k]
         /\ \A x, k \in Requests : kinds'[x] = "copy" /\ req'[x].list[k] # NoProfile =>
               kinds[x] = "copy" /\ req[x].list[k] # NoProfile
    BY <1>3, <2>1, <2>6, <2>7, <2>8 DEF SecretConns
  <2>23. /\ \A d \in SecretConns : ~(sec'[d] = r /\ sec[d] # r)
         /\ \A d \in Requests : ~(sec'[d] = r /\ sec[d] # r)
         /\ \A t \in vault' : t # olds[r]
         /\ vault' \subseteq vault /\ r \notin vault' /\ remote'[r] = remote[r]
    BY <2>7, <2>19, <2>22, SecretsAssumption DEF SecretConns
  <2>24. /\ ~(pws'[r] /\ pcs'[r] \in {"commit", "share", "sync", "bind_copy"})
         /\ pcs'[r] \notin {"delete_remote", "store", "failed"}
         /\ pcs'[r] \in GatePcs => Alone(r)
    BY <1>3, <2>6, <2>7
  <2>. QED BY <1>3, <2>6, <2>7, <2>9, <2>10, <2>16, <2>18, <2>19, <2>20, <2>21, <2>22, <2>23, <2>24, RowStep
<1>. QED BY <1>4, <1>5, <1>6 DEF delete

(* commit_upsert keeps the invariant: the row, and the group it was judged *)
(* against.                                                                *)
LEMMA CommitUpsertKeeps ==
    ASSUME SecretsInv, NEW r \in Requests, commit_upsert(r)
    PROVE  SecretsInv'
<1>1. SecretsType /\ GateInv /\ PointerInv /\ VaultInv /\ HolderInv /\ GroupInv
  BY DEF SecretsInv
<1>2. pcs[r] = "commit"
  BY <1>1, Flat DEF commit_upsert, AtReq
<1>3. kinds[r] = "upsert" /\ Alone(r)
  <2>1. kinds[r] \in {"upsert", "bind"} /\ (kinds[r] = "bind" => IsBind(req[r]))
    BY <1>1, <1>2, KindAt, Flat
  <2>. QED BY <1>1, <1>2, <2>1 DEF commit_upsert, IsBind, GateInv, GatePcs
<1>4. UNCHANGED <<activeScope, vault, remote, unreclaimed, leftBehind, secretCrashes>>
  BY DEF commit_upsert
<1>5. CASE ToReq(r, "uncommitted") /\ UNCHANGED profile
  BY <1>2, <1>4, <1>5, UncommittedKeeps
<1>6. PICK c, n, s : /\ c = req[r].conn /\ n = (IF req[r].password THEN r ELSE req[r].old)
                     /\ s = (IF req[r].password THEN req[r].old ELSE NoSecret)
  OBVIOUS
<1>7. CASE /\ profile' = [profile EXCEPT ![c] = Profile(activeScope, req[r].engine, req[r].group, n)]
           /\ req' = [req EXCEPT ![r].pc = "committed", ![r].old = IF req[r].password THEN @ ELSE NoSecret]
  <2>1. /\ c \in Locals /\ c \in SecretConns /\ c \notin Requests /\ tgts[r] = c
        /\ pws[r] = req[r].password /\ olds[r] = req[r].old /\ pws[r] \in BOOLEAN /\ olds[r] \in AnySecret
    BY <1>1, <1>3, <1>6, Flat, FlatPcs, SecretsAssumption DEF SecretConns
  <2>2. olds[r] = sec[c]
    BY <1>1, <1>2, <1>3, <2>1 DEF HolderInv, Superseding
  <2>3. s \in AnySecret /\ n \in AnySecret
    BY <1>6, <2>1 DEF AnySecret, Secrets
  <2>4. req' = [req EXCEPT ![r] = [req[r] EXCEPT !.pc = "committed", !.old = s]]
    <3>1. PICK q : q = req[r]
      OBVIOUS
    <3>2. IsUpsert(q) /\ DOMAIN req = Requests
      BY <1>1, <1>3, <3>1, Flat DEF SecretsType
    <3>3. "pc" \in DOMAIN q /\ "old" \in DOMAIN q
      BY <3>2 DEF IsUpsert
    <3>. QED BY <1>6, <1>7, <3>1, <3>2, <3>3
  <2>5. "committed" \in UpsertPcs
    BY DEF UpsertPcs
  <2>6. /\ DOMAIN req' = Requests /\ \A x \in Requests : ReqShape(req'[x])
        /\ pcs'[r] = "committed" /\ olds'[r] = s /\ kinds' = kinds /\ pws' = pws /\ tgts' = tgts /\ Others(r)
        /\ \A x \in Requests \ {r} : req'[x] = req[x]
    BY <1>1, <1>3, <2>3, <2>4, <2>5, OldFacts
  <2>7. /\ DOMAIN profile' = SecretConns /\ profile'[c] = Profile(activeScope, req[r].engine, req[r].group, n)
        /\ \A d \in SecretConns \ {c} : profile'[d] = profile[d]
        /\ activeScope' = activeScope /\ vault' = vault /\ remote' = remote
        /\ unreclaimed' = unreclaimed /\ leftBehind' = leftBehind
    BY <1>1, <1>4, <1>7, <2>1 DEF SecretsType
  <2>8. PICK w : w = Profile(activeScope, req[r].engine, req[r].group, n)
    OBVIOUS
  <2>9. /\ DOMAIN w = ProfileFields /\ w.secret = n /\ w.engine = req[r].engine /\ w.group = req[r].group
        /\ w.scope = activeScope /\ w # NoProfile
    BY <2>8 DEF Profile, ProfileFields, NoProfile
  <2>10. sec'[c] = n /\ \A d \in SecretConns \ {c} : sec'[d] = sec[d]
    BY <2>1, <2>7, <2>8, <2>9 DEF sec
  <2>11. SecretsType'
    BY <1>1, <2>1, <2>3, <2>6, <2>7, <2>8, <2>9 DEF SecretsType, RowShape, SharedShape
  <2>12. Forward(r)
    BY <1>2, <1>3, <2>6 DEF Forward, SettledPcs, Ended
  <2>13. ~Settled(r) /\ \A d \in SecretConns : sec[d] # r
    BY <1>2, SecretsAssumption, UnsettledIsUnpointed DEF Settled, SettledPcs
  <2>14. s # NoSecret => Settled(s) /\ s # r /\ s = sec[c] /\ n = r /\ \A d \in SecretConns : sec'[d] # s
    BY <1>1, <1>6, <2>1, <2>2, <2>10, <2>13 DEF PointerInv
  <2>15. Settled(s) => Settled(s)'
    BY <1>1, <2>6, <2>12, Stays
  <2>16. Fresh(r)' /\ Superseding(r)'
    BY <2>6 DEF Fresh, Superseding
  <2>17. Superseded(r)'
    BY <1>3, <1>6, <2>1, <2>6, <2>10, <2>14, <2>15 DEF Superseded, Settled
  <2>18. HolderInv'
    BY <1>1, <1>3, <2>6, <2>16, <2>17, HolderAlone
  <2>19. OneEnginePerGroup'
    <3>1. \A d \in Locals \ {c} : (d \in Rows' <=> d \in Rows) /\ profile'[d] = profile[d]
      BY <2>7 DEF Rows, SecretConns
    <3>2. \A d \in (Rows \cap Locals) \ {c} : req[r].group # NoGroup /\ profile[d].scope = activeScope
                /\ profile[d].group = req[r].group => profile[d].engine = req[r].engine
      BY <1>1, <1>2, <1>3, <1>6 DEF GroupInv
    <3>3. \A d, e \in (Rows \cap Locals) \ {c} :
              profile[d].scope = profile[e].scope /\ profile[d].group = profile[e].group
                  /\ profile[d].group # NoGroup => profile[d].engine = profile[e].engine
      BY <1>1 DEF GroupInv, OneEnginePerGroup
    <3>4. profile'[c] = w
      BY <2>7, <2>8
    <3>5. ASSUME NEW d \in Rows' \cap Locals, NEW e \in Rows' \cap Locals,
                 profile'[d].scope = profile'[e].scope, profile'[d].group = profile'[e].group,
                 profile'[d].group # NoGroup
          PROVE  profile'[d].engine = profile'[e].engine
      <4>1. CASE d = c /\ e = c
        BY <4>1
      <4>2. CASE d = c /\ e # c
        BY <2>9, <3>1, <3>2, <3>4, <3>5, <4>2
      <4>3. CASE d # c /\ e = c
        BY <2>9, <3>1, <3>2, <3>4, <3>5, <4>3
      <4>4. CASE d # c /\ e # c
        BY <3>1, <3>3, <3>5, <4>4
      <4>. QED BY <4>1, <4>2, <4>3, <4>4
    <3>. QED BY <3>5 DEF OneEnginePerGroup
  <2>20. GroupInv'
    BY <1>1, <1>3, <2>6, <2>19, GroupAlone
  <2>21. NoSecret \notin vault /\ (pws[r] => r \in vault) /\ (r \in vault => pws[r])
    BY <1>1, <1>2, SecretsAssumption DEF VaultInv, SecretsType, Secrets
  <2>22. Owned(r)' /\ (\A t : t = s => Owned(t)')
    BY <2>6 DEF Owned, Ended
  <2>23. \A d \in SecretConns, t \in vault' : t = sec[d] => Owned(t)'
    <3>. SUFFICES ASSUME NEW d \in SecretConns, NEW t \in vault', t = sec[d] PROVE Owned(t)'
      OBVIOUS
    <3>1. CASE d # c
      BY <2>10, <3>1 DEF Owned
    <3>2. CASE d = c /\ pws[r]
      BY <1>6, <2>1, <2>2, <2>22, <3>2
    <3>3. CASE d = c /\ ~pws[r]
      <4>1. sec'[c] = t
        BY <1>6, <2>1, <2>2, <2>10, <3>3
      <4>. QED BY <2>1, <4>1 DEF Owned
    <3>. QED BY <3>1, <3>2, <3>3
  <2>24. \A d \in SecretConns : sec[d] # NoSecret => sec[d] \in vault'
    BY <1>1, <2>7 DEF PointerInv
  <2>25. \A t \in vault' : t = olds[r] => Owned(t)'
    BY <2>1, <2>2, <2>23
  <2>26. /\ \A d \in SecretConns : sec'[d] \in {sec[d], NoSecret, r}
         /\ \A d, e \in SecretConns : sec'[d] = r /\ sec'[e] = r => d = e
         /\ (\E d \in SecretConns : sec'[d] = r /\ sec[d] # r) => r \in vault'
    BY <1>6, <2>1, <2>2, <2>7, <2>10, <2>13, <2>21
  <2>27. /\ \A k \in Requests : profile'[k] = profile[k] /\ sec'[k] = sec[k]
         /\ \A x, k \in Requests : kinds'[x] = "copy" /\ req'[x].list[k] # NoProfile =>
               kinds[x] = "copy" /\ req[x].list[k] # NoProfile
    BY <1>3, <2>1, <2>6, <2>7, <2>10 DEF SecretConns
  <2>28. /\ vault' \subseteq vault /\ remote'[r] = remote[r] /\ (r \in vault' => pws'[r])
         /\ pcs'[r] \in SettledPcs \ {"crashed"}
         /\ ~(pws'[r] /\ pcs'[r] \in {"commit", "share", "sync", "bind_copy"})
         /\ pcs'[r] \notin {"delete_remote", "store", "failed"}
         /\ pcs'[r] \in GatePcs => Alone(r)
    BY <1>3, <2>6, <2>7, <2>21 DEF SettledPcs
  <2>. QED BY <1>3, <2>6, <2>7, <2>11, <2>12, <2>13, <2>18, <2>20, <2>22, <2>23, <2>24, <2>25, <2>26, <2>27, <2>28, RowStep
<1>. QED BY <1>5, <1>6, <1>7 DEF commit_upsert

(* commit_bind keeps the invariant. *)
LEMMA CommitBindKeeps ==
    ASSUME SecretsInv, NEW r \in Requests, commit_bind(r)
    PROVE  SecretsInv'
<1>1. SecretsType /\ SharedInv /\ GateInv /\ PointerInv /\ VaultInv /\ HolderInv /\ GroupInv
  BY DEF SecretsInv
<1>2. pcs[r] = "commit"
  BY <1>1, Flat DEF commit_bind, AtReq
<1>3. kinds[r] = "bind" /\ Alone(r)
  <2>1. kinds[r] \in {"upsert", "bind"} /\ (kinds[r] = "upsert" => IsUpsert(req[r]))
    BY <1>1, <1>2, KindAt, Flat
  <2>. QED BY <1>1, <1>2, <2>1 DEF commit_bind, IsUpsert, GateInv, GatePcs
<1>4. UNCHANGED <<activeScope, vault, remote, unreclaimed, leftBehind, secretCrashes>>
  BY DEF commit_bind
<1>5. CASE ToReq(r, "uncommitted") /\ UNCHANGED profile
  BY <1>2, <1>4, <1>5, UncommittedKeeps
<1>6. PICK c : c = req[r].conn
  OBVIOUS
<1>7. CASE c \in Rows /\ profile' = [profile EXCEPT ![c].secret = r] /\ ToReq(r, "committed")
  <2>1. c \in Requests /\ c \in SecretConns /\ c \notin Locals /\ tgts[r] = c /\ pws[r] = TRUE
    BY <1>1, <1>3, <1>6, FlatPcs, SecretsAssumption DEF SecretConns
  <2>2. "committed" \in BindPcs
    BY DEF BindPcs
  <2>3. /\ DOMAIN req' = Requests /\ \A x \in Requests : ReqShape(req'[x])
        /\ pcs'[r] = "committed" /\ kinds' = kinds /\ olds' = olds /\ pws' = pws /\ tgts' = tgts /\ Others(r)
        /\ \A x \in Requests : kinds[x] = "copy" => req'[x].list = req[x].list
    BY <1>1, <1>3, <1>7, <2>2, MoveFacts
  <2>4. PICK o, w : o = profile[c] /\ w = [o EXCEPT !.secret = r]
    OBVIOUS
  <2>5. o # NoProfile /\ DOMAIN o = ProfileFields
    BY <1>1, <1>7, <2>1, <2>4 DEF SecretsType, RowShape, Rows
  <2>6. DOMAIN w = ProfileFields /\ w.secret = r /\ w # NoProfile
    BY <2>4, <2>5 DEF ProfileFields, NoProfile
  <2>7. /\ DOMAIN profile' = SecretConns /\ profile'[c] = w
        /\ \A d \in SecretConns \ {c} : profile'[d] = profile[d]
        /\ activeScope' = activeScope /\ vault' = vault /\ remote' = remote
        /\ unreclaimed' = unreclaimed /\ leftBehind' = leftBehind
    BY <1>1, <1>4, <1>7, <2>1, <2>4 DEF SecretsType
  <2>8. sec'[c] = r /\ \A d \in SecretConns \ {c} : sec'[d] = sec[d]
    BY <2>1, <2>6, <2>7 DEF sec
  <2>9. SecretsType'
    BY <1>1, <2>1, <2>3, <2>6, <2>7 DEF SecretsType, RowShape, SharedShape, AnySecret, Secrets
  <2>10. Forward(r)
    BY <1>2, <1>3, <2>3 DEF Forward, SettledPcs, Ended
  <2>11. ~Settled(r) /\ \A d \in SecretConns : sec[d] # r
    BY <1>2, SecretsAssumption, UnsettledIsUnpointed DEF Settled, SettledPcs
  <2>12. Superseding(r)
    BY <1>1 DEF HolderInv
  <2>13. PICK s, t : s = olds[r] /\ t = sec[c]
    OBVIOUS
  <2>14. s # NoSecret => Settled(s) /\ s # r /\ \A d \in SecretConns : sec'[d] # s
    BY <1>2, <1>3, <2>1, <2>8, <2>11, <2>12, <2>13 DEF Superseding
  <2>15. (Settled(s) => Settled(s)') /\ (Exempt(t) => Exempt(t)')
    BY <1>1, <2>3, <2>10, Stays
  <2>16. Fresh(r)' /\ Superseding(r)'
    BY <2>3 DEF Fresh, Superseding
  <2>17. Superseded(r)'
    BY <1>3, <2>3, <2>13, <2>14, <2>15 DEF Superseded, Settled
  <2>18. HolderInv'
    BY <1>1, <1>3, <2>3, <2>16, <2>17, HolderAlone
  <2>19. OneEnginePerGroup'
    <3>1. \A d \in Locals : profile'[d] \in {profile[d], NoProfile}
      BY <2>1, <2>7 DEF SecretConns
    <3>. QED BY <1>1, <3>1, FewerRows
  <2>20. GroupInv'
    BY <1>1, <1>3, <2>3, <2>19, GroupAlone
  <2>21. NoSecret \notin vault /\ r \in vault
    BY <1>1, <1>2, <2>1, SecretsAssumption DEF VaultInv, SecretsType, Secrets
  <2>22. Owned(r)' /\ (\A v : v = s => Owned(v)')
    BY <2>3, <2>13 DEF Owned, Ended
  <2>23. \A d \in SecretConns, v \in vault' : v = sec[d] => Owned(v)'
    <3>. SUFFICES ASSUME NEW d \in SecretConns, NEW v \in vault', v = sec[d] PROVE Owned(v)'
      OBVIOUS
    <3>1. CASE d # c
      BY <2>8, <3>1 DEF Owned
    <3>2. CASE d = c
      <4>1. v = t /\ (t \in {s, NoSecret} \/ Exempt(t))
        BY <1>2, <1>3, <2>1, <2>12, <2>13, <3>2 DEF Superseding
      <4>. QED BY <2>7, <2>15, <2>21, <2>22, <4>1 DEF Owned
    <3>. QED BY <3>1, <3>2
  <2>24. \A d \in SecretConns : sec[d] # NoSecret => sec[d] \in vault'
    BY <1>1, <2>7 DEF PointerInv
  <2>25. \A v \in vault' : v = olds[r] => Owned(v)'
    BY <2>13, <2>22
  <2>26. /\ \A d \in SecretConns : sec'[d] \in {sec[d], NoSecret, r}
         /\ \A d, e \in SecretConns : sec'[d] = r /\ sec'[e] = r => d = e
         /\ r \in vault' /\ kinds'[r] = "bind"
    BY <1>3, <2>3, <2>7, <2>8, <2>11, <2>21
  <2>27. /\ \A k \in Requests : profile'[k] # NoProfile => profile[k] # NoProfile
         /\ \A x, k \in Requests : kinds'[x] = "copy" /\ req'[x].list[k] # NoProfile =>
               kinds[x] = "copy" /\ req[x].list[k] # NoProfile
    BY <2>1, <2>3, <2>4, <2>5, <2>7 DEF SecretConns
  <2>28. /\ vault' \subseteq vault /\ remote'[r] = remote[r] /\ pws'[r]
         /\ pcs'[r] \in SettledPcs \ {"crashed"}
         /\ ~(pws'[r] /\ pcs'[r] \in {"commit", "share", "sync", "bind_copy"})
         /\ pcs'[r] \notin {"delete_remote", "store", "failed"}
         /\ pcs'[r] \in GatePcs => Alone(r)
    BY <1>3, <2>1, <2>3, <2>7 DEF SettledPcs
  <2>. QED BY <1>3, <2>3, <2>7, <2>9, <2>10, <2>11, <2>18, <2>20, <2>22, <2>23, <2>24, <2>25, <2>26, <2>27, <2>28, RowStep
<1>. QED BY <1>5, <1>6, <1>7 DEF commit_bind

(* A copy that binds or removes its row leaves what it displaces to        *)
(* another request.                                                        *)
LEMMA DisplacedHasOwner ==
    ASSUME SecretsInv, NEW r \in Requests, Others(r), Forward(r), pcs[r] \in {"bind_copy", "delete_remote"},
           NEW s, s = sec[r], s # NoSecret
    PROVE  Owned(s)'
<1>1. SecretsType /\ PointerInv
  BY DEF SecretsInv
<1>2. r \in SecretConns
  BY DEF SecretConns
<1>3. /\ s \in Requests /\ kinds[s] \in {"bind", "copy"} /\ pcs[s] # "crashed"
      /\ pcs[s] \in {"committed", "done", "crashed"}
  BY <1>1, <1>2, SecretsAssumption DEF PointerInv, Settled, Ended
<1>4. CASE pcs[s] = "done"
  <2>1. Exempt(s)
    BY <1>3, <1>4 DEF Exempt
  <2>2. Exempt(s)'
    BY <1>1, <2>1, Stays
  <2>. QED BY <2>2 DEF Owned
<1>5. CASE pcs[s] = "committed"
  <2>1. s # r /\ pcs'[s] = "committed"
    BY <1>3, <1>5 DEF Others
  <2>. QED BY <1>3, <2>1 DEF Owned, Ended
<1>. QED BY <1>3, <1>4, <1>5

(* Groups stay sound when only shared rows change. *)
LEMMA SharedRowGroups ==
    ASSUME SecretsType, GroupInv, NEW r \in Requests, Others(r), kinds[r] = "copy", kinds' = kinds,
           \A c \in Locals : profile'[c] = profile[c], activeScope' = activeScope,
           \A x \in Requests : kinds[x] = "upsert" =>
                 req'[x].group = req[x].group /\ req'[x].engine = req[x].engine /\ req'[x].conn = req[x].conn
    PROVE  GroupInv'
<1>1. \A x \in Requests : kinds'[x] = "upsert" /\ pcs'[x] \in {"store", "commit"} =>
               /\ kinds[x] = "upsert" /\ pcs[x] \in {"store", "commit"}
               /\ req'[x].group = req[x].group /\ req'[x].engine = req[x].engine /\ req'[x].conn = req[x].conn
  BY DEF Others
<1>. QED BY <1>1, GroupKept

(* BindCopy keeps the invariant, with no gate in hand. *)
LEMMA BindCopyKeeps ==
    ASSUME SecretsInv, NEW r \in Requests, BindCopy(r)
    PROVE  SecretsInv'
<1>1. SecretsType /\ SharedInv /\ GateInv /\ PointerInv /\ VaultInv /\ HolderInv /\ GroupInv
  BY DEF SecretsInv
<1>2. pcs[r] = "bind_copy"
  BY <1>1, Flat DEF BindCopy, AtReq
<1>3. kinds[r] = "copy" /\ pws[r] = req[r].password /\ olds[r] = NoSecret /\ pws[r] \in BOOLEAN
  BY <1>1, <1>2, KindAt, FlatPcs, Flat
<1>4. UNCHANGED <<activeScope, vault, remote, unreclaimed, leftBehind, secretCrashes>>
  BY DEF BindCopy
<1>5. CASE ToReq(r, "rollback") /\ UNCHANGED profile
  BY <1>2, <1>4, <1>5, CopyMoveKeeps
<1>6. PICK n : n = IF pws[r] THEN r ELSE NoSecret
  OBVIOUS
<1>7. CASE r \in Rows /\ profile' = [profile EXCEPT ![r].secret = n] /\ ToReq(r, "done")
  <2>1. r \in SecretConns /\ r \notin Locals /\ r # NoSecret
    BY SecretsAssumption DEF SecretConns
  <2>2. "done" \in CopyPcs
    BY DEF CopyPcs
  <2>3. /\ DOMAIN req' = Requests /\ \A x \in Requests : ReqShape(req'[x])
        /\ pcs'[r] = "done" /\ kinds' = kinds /\ olds' = olds /\ pws' = pws /\ tgts' = tgts /\ Others(r)
        /\ \A x \in Requests : kinds[x] = "copy" => req'[x].list = req[x].list
        /\ \A x \in Requests : kinds[x] = "upsert" =>
                 req'[x].group = req[x].group /\ req'[x].engine = req[x].engine /\ req'[x].conn = req[x].conn
    BY <1>1, <1>3, <1>7, <2>2, MoveFacts
  <2>4. PICK o, w : o = profile[r] /\ w = [o EXCEPT !.secret = n]
    OBVIOUS
  <2>5. o # NoProfile /\ DOMAIN o = ProfileFields
    BY <1>1, <1>7, <2>1, <2>4 DEF SecretsType, RowShape, Rows
  <2>6. DOMAIN w = ProfileFields /\ w.secret = n /\ w # NoProfile
    BY <2>4, <2>5 DEF ProfileFields, NoProfile
  <2>7. /\ DOMAIN profile' = SecretConns /\ profile'[r] = w
        /\ \A d \in SecretConns \ {r} : profile'[d] = profile[d]
        /\ activeScope' = activeScope /\ vault' = vault /\ remote' = remote
        /\ unreclaimed' = unreclaimed /\ leftBehind' = leftBehind
    BY <1>1, <1>4, <1>7, <2>1, <2>4 DEF SecretsType
  <2>8. sec'[r] = n /\ \A d \in SecretConns \ {r} : sec'[d] = sec[d]
    BY <2>1, <2>6, <2>7 DEF sec
  <2>9. SecretsType'
    BY <1>1, <1>6, <2>1, <2>3, <2>6, <2>7 DEF SecretsType, RowShape, SharedShape, AnySecret, Secrets
  <2>10. Forward(r)
    BY <1>2, <1>3, <2>3 DEF Forward, SettledPcs, Ended, PastPcs
  <2>11. \A d \in SecretConns : sec[d] # r
    BY <1>2, UnsettledIsUnpointed DEF SettledPcs
  <2>12. HolderInv'
    <3>1. DOMAIN sec = SecretConns /\ sec'[r] \in {NoSecret, r} /\ olds'[r] = NoSecret
      BY <1>3, <1>6, <2>3, <2>8 DEF sec
    <3>. QED BY <1>1, <1>2, <1>3, <2>3, <2>8, <2>10, <3>1, HolderBeside
  <2>13. GroupInv'
    <3>1. \A d \in Locals : profile'[d] = profile[d]
      BY <2>1, <2>7 DEF SecretConns
    <3>. QED BY <1>1, <1>3, <2>3, <2>7, <3>1, SharedRowGroups
  <2>14. NoSecret \notin vault /\ (pws[r] => r \in vault) /\ (r \in vault => pws[r])
    BY <1>1, <1>2, SecretsAssumption DEF VaultInv, SecretsType, Secrets
  <2>15. Owned(r)'
    BY <1>3, <2>3 DEF Owned, Exempt
  <2>16. \A d \in SecretConns, v \in vault' : v = sec[d] => Owned(v)'
    <3>. SUFFICES ASSUME NEW d \in SecretConns, NEW v \in vault', v = sec[d] PROVE Owned(v)'
      OBVIOUS
    <3>1. CASE d # r
      BY <2>8, <3>1 DEF Owned
    <3>2. CASE d = r
      BY <1>2, <2>3, <2>7, <2>10, <2>14, <3>2, DisplacedHasOwner
    <3>. QED BY <3>1, <3>2
  <2>17. \A d \in SecretConns : sec[d] # NoSecret => sec[d] \in vault'
    BY <1>1, <2>7 DEF PointerInv
  <2>18. /\ \A d \in SecretConns : sec'[d] \in {sec[d], NoSecret, r}
         /\ \A d, e \in SecretConns : sec'[d] = r /\ sec'[e] = r => d = e
         /\ (\E d \in SecretConns : sec'[d] = r /\ sec[d] # r) => r \in vault'
         /\ kinds'[r] = "copy"
    BY <1>3, <1>6, <2>1, <2>3, <2>7, <2>8, <2>11, <2>14
  <2>19. /\ \A k \in Requests : profile'[k] # NoProfile => profile[k] # NoProfile
         /\ \A x, k \in Requests : kinds'[x] = "copy" /\ req'[x].list[k] # NoProfile =>
               kinds[x] = "copy" /\ req[x].list[k] # NoProfile
    BY <2>1, <2>3, <2>4, <2>5, <2>7 DEF SecretConns
  <2>20. /\ vault' \subseteq vault /\ remote'[r] = remote[r] /\ (r \in vault' => pws'[r])
         /\ pcs'[r] \in SettledPcs \ {"crashed"} /\ pcs'[r] \notin GatePcs
         /\ pcs'[r] \notin {"commit", "share", "sync", "bind_copy"}
         /\ pcs'[r] \notin {"delete_remote", "store", "failed"}
         /\ \A v \in vault' : v # olds[r]
    BY <1>3, <2>3, <2>7, <2>14 DEF SettledPcs, GatePcs
  <2>. QED BY <2>3, <2>7, <2>9, <2>10, <2>11, <2>12, <2>13, <2>15, <2>16, <2>17, <2>18, <2>19, <2>20, RowStep
<1>8. req[r].password = pws[r]
  BY <1>3
<1>. QED BY <1>5, <1>6, <1>7, <1>8 DEF BindCopy

(* delete_shared_connection keeps the invariant. *)
LEMMA DeleteSharedKeeps ==
    ASSUME SecretsInv, NEW r \in Requests, delete_shared_connection(r)
    PROVE  SecretsInv'
<1>1. SecretsType /\ SharedInv /\ GateInv /\ PointerInv /\ VaultInv /\ HolderInv /\ GroupInv
  BY DEF SecretsInv
<1>2. pcs[r] = "delete_remote"
  BY <1>1, Flat DEF delete_shared_connection, AtReq
<1>3. kinds[r] = "copy" /\ olds[r] = NoSecret
  BY <1>1, <1>2, KindAt, FlatPcs
<1>4. activeScope' = activeScope /\ vault' = vault /\ unreclaimed' = unreclaimed
  BY DEF delete_shared_connection
<1>5. r \in SecretConns /\ r \notin Locals /\ r # NoSecret
  BY SecretsAssumption DEF SecretConns
<1>6. "failed" \in CopyPcs /\ ToReq(r, "failed")
  BY DEF CopyPcs, delete_shared_connection
<1>7. /\ DOMAIN req' = Requests /\ \A x \in Requests : ReqShape(req'[x])
      /\ pcs'[r] = "failed" /\ kinds' = kinds /\ olds' = olds /\ pws' = pws /\ tgts' = tgts /\ Others(r)
      /\ \A x \in Requests : kinds[x] = "copy" => req'[x].list = req[x].list
      /\ \A x \in Requests : kinds[x] = "upsert" =>
               req'[x].group = req[x].group /\ req'[x].engine = req[x].engine /\ req'[x].conn = req[x].conn
  BY <1>1, <1>3, <1>6, MoveFacts
<1>8. /\ DOMAIN profile' = SecretConns /\ profile'[r] \in {profile[r], NoProfile}
      /\ \A d \in SecretConns \ {r} : profile'[d] = profile[d]
      /\ profile' = profile \/ profile'[r] = NoProfile
  BY <1>1, <1>5 DEF SecretsType, delete_shared_connection
<1>9. /\ DOMAIN remote' = Requests /\ remote'[r] \in {remote[r], NoProfile}
      /\ \A d \in Requests \ {r} : remote'[d] = remote[d]
      /\ leftBehind \subseteq leftBehind' /\ (r \notin leftBehind' => remote'[r] = NoProfile)
  BY <1>1 DEF SecretsType, delete_shared_connection
<1>10. /\ sec'[r] \in {sec[r], NoSecret} /\ \A d \in SecretConns \ {r} : sec'[d] = sec[d]
       /\ sec' = sec \/ sec'[r] = NoSecret
  BY <1>5, <1>8 DEF sec
<1>11. SecretsType'
  BY <1>1, <1>4, <1>5, <1>7, <1>8, <1>9 DEF SecretsType, RowShape, SharedShape
<1>12. Forward(r)
  BY <1>2, <1>3, <1>7 DEF Forward, SettledPcs, Ended, PastPcs
<1>13. HolderInv'
  <2>1. Fresh(r)' /\ Superseding(r)' /\ Superseded(r)'
    BY <1>7 DEF Fresh, Superseding, Superseded
  <2>2. CASE sec' = sec
    BY <1>1, <1>7, <1>12, <2>1, <2>2, HolderQuiet
  <2>3. CASE sec'[r] = NoSecret
    <3>1. DOMAIN sec = SecretConns /\ sec'[r] \in {NoSecret, r} /\ olds'[r] = NoSecret /\ sec'[r] # r
      BY <1>3, <1>5, <1>7, <2>3 DEF sec
    <3>. QED BY <1>1, <1>2, <1>3, <1>7, <1>10, <1>12, <3>1, HolderBeside
  <2>. QED BY <1>10, <2>2, <2>3
<1>14. GroupInv'
  <2>1. \A d \in Locals : profile'[d] = profile[d]
    BY <1>5, <1>8 DEF SecretConns
  <2>. QED BY <1>1, <1>3, <1>4, <1>7, <2>1, SharedRowGroups
<1>15. NoSecret \notin vault /\ (r \in vault => pws[r] /\ r \in unreclaimed)
  BY <1>1, <1>2, SecretsAssumption DEF VaultInv, SecretsType, Secrets
<1>16. \A d \in SecretConns, v \in vault' : v = sec[d] => Owned(v)'
  <2>. SUFFICES ASSUME NEW d \in SecretConns, NEW v \in vault', v = sec[d] PROVE Owned(v)'
    OBVIOUS
  <2>1. CASE d # r
    BY <1>10, <2>1 DEF Owned
  <2>2. CASE d = r
    BY <1>2, <1>4, <1>7, <1>12, <1>15, <2>2, DisplacedHasOwner
  <2>. QED BY <2>1, <2>2
<1>17. \A d \in SecretConns : sec[d] # NoSecret => sec[d] \in vault'
  BY <1>1, <1>4 DEF PointerInv
<1>18. /\ \A d \in SecretConns : sec'[d] \in {sec[d], NoSecret} /\ ~(sec'[d] = r /\ sec[d] # r)
       /\ \A d \in Requests : ~(sec'[d] = r /\ sec[d] # r)
  BY <1>5, <1>10 DEF SecretConns
<1>19. /\ \A k \in Requests : profile'[k] # NoProfile => profile[k] # NoProfile
       /\ \A x, k \in Requests : kinds'[x] = "copy" /\ req'[x].list[k] # NoProfile =>
             kinds[x] = "copy" /\ req[x].list[k] # NoProfile
  BY <1>7, <1>8 DEF SecretConns
<1>20. /\ vault' \subseteq vault /\ (r \in vault' => pws'[r] /\ r \in unreclaimed')
       /\ pcs'[r] \notin GatePcs /\ pcs'[r] \notin {"commit", "share", "sync", "bind_copy"}
       /\ pcs'[r] \notin {"delete_remote", "store"}
       /\ \A v \in vault' : v # olds[r]
  BY <1>3, <1>4, <1>7, <1>15 DEF GatePcs
<1>. QED BY <1>4, <1>7, <1>9, <1>11, <1>12, <1>13, <1>14, <1>16, <1>17, <1>18, <1>19, <1>20, RowStep

(* SyncCopied keeps the invariant: the credentials of the rows it removes  *)
(* are in no other row, and nobody is about to use them.                   *)
LEMMA SyncCopiedKeeps ==
    ASSUME SecretsInv, NEW r \in Requests, SyncCopied(r)
    PROVE  SecretsInv'
<1>1. SecretsType /\ SharedInv /\ GateInv /\ PointerInv /\ VaultInv /\ HolderInv /\ GroupInv
  BY DEF SecretsInv
<1>2. pcs[r] = "sync" /\ \A q \in Requests : pcs[q] \notin GatePcs
  BY <1>1, Flat, GateIsFree DEF SyncCopied, AtReq, Apps
<1>3. kinds[r] = "copy" /\ olds[r] = NoSecret /\ IsCopy(req[r])
  BY <1>1, <1>2, KindAt, FlatPcs, Flat
<1>4. UNCHANGED <<activeScope, remote, leftBehind, secretCrashes>>
  BY DEF SyncCopied
<1>5. CASE ToReq(r, "rollback") /\ UNCHANGED <<profile, vault, unreclaimed>>
  BY <1>2, <1>4, <1>5, CopyMoveKeeps
<1>6. PICK list, incoming, removed :
         /\ list = req[r].list /\ incoming = {c \in Requests : list[c] # NoProfile}
         /\ removed = {c \in Rows : IsShared(c) /\ c \notin incoming}
  OBVIOUS
<1>7. CASE /\ profile' = [c \in SecretConns |->
                 IF c \in removed THEN NoProfile
                 ELSE IF c \in incoming
                      THEN IF c \in Rows THEN [list[c] EXCEPT !.secret = profile[c].secret] ELSE list[c]
                      ELSE profile[c]]
           /\ delete_secret_best_effort({profile[c].secret : c \in removed} \ {NoSecret})
           /\ ToReq(r, "bind_copy")
  <2>1. DOMAIN list = Requests /\ \A c \in Requests : SharedShape(list[c])
    BY <1>3, <1>6 DEF IsCopy
  <2>2. /\ incoming \subseteq Requests /\ removed \subseteq Requests /\ Locals \cap Requests = {}
        /\ \A c \in removed : c \in SecretConns /\ profile[c] # NoProfile
        /\ \A c \in incoming : c \in SecretConns /\ list[c] # NoProfile
    BY <1>6, SecretsAssumption DEF IsShared, Rows, SecretConns
  <2>3. PICK S : S = {profile[c].secret : c \in removed} \ {NoSecret}
    OBVIOUS
  <2>4. S = {sec[c] : c \in removed} \ {NoSecret}
    BY <2>2, <2>3 DEF sec
  <2>5. /\ vault' \subseteq vault /\ unreclaimed \subseteq unreclaimed'
        /\ \A s \in vault : s \notin S => s \in vault'
        /\ \A s \in S : s \in vault' => s \in unreclaimed'
    BY <1>7, <2>3, DeleteFacts
  <2>6. "bind_copy" \in CopyPcs
    BY DEF CopyPcs
  <2>7. /\ DOMAIN req' = Requests /\ \A x \in Requests : ReqShape(req'[x])
        /\ pcs'[r] = "bind_copy" /\ kinds' = kinds /\ olds' = olds /\ pws' = pws /\ tgts' = tgts /\ Others(r)
        /\ \A x \in Requests : kinds[x] = "copy" => req'[x].list = req[x].list
        /\ \A x \in Requests : kinds[x] = "upsert" =>
                 req'[x].group = req[x].group /\ req'[x].engine = req[x].engine /\ req'[x].conn = req[x].conn
    BY <1>1, <1>3, <1>7, <2>6, MoveFacts
  <2>8. DOMAIN profile' = SecretConns
    BY <1>7
  <2>9. \A c \in removed : profile'[c] = NoProfile
    BY <1>7, <2>2
  <2>10. \A c \in SecretConns : c \notin removed /\ c \notin incoming => profile'[c] = profile[c]
    BY <1>7
  <2>11. \A c \in incoming : c \notin Rows => profile'[c] = list[c]
    BY <1>6, <1>7, <2>2
  <2>12. ASSUME NEW c \in incoming, c \in Rows
         PROVE  /\ profile'[c] # NoProfile /\ DOMAIN profile'[c] = ProfileFields
                /\ profile'[c].secret = profile[c].secret
    <3>1. PICK o, w, n : o = list[c] /\ n = profile[c].secret /\ w = [o EXCEPT !.secret = n]
      OBVIOUS
    <3>2. DOMAIN o = ProfileFields
      BY <2>1, <2>2, <3>1 DEF SharedShape
    <3>3. DOMAIN w = ProfileFields /\ w.secret = n /\ w # NoProfile
      BY <3>1, <3>2 DEF ProfileFields, NoProfile
    <3>4. profile'[c] = w
      BY <1>6, <1>7, <2>2, <2>12, <3>1
    <3>. QED BY <3>1, <3>3, <3>4
  <2>13. \A c \in SecretConns : RowShape(profile'[c])
    <3>. SUFFICES ASSUME NEW c \in SecretConns PROVE RowShape(profile'[c])
      OBVIOUS
    <3>1. RowShape(profile[c])
      BY <1>1 DEF SecretsType
    <3>2. CASE c \in removed
      BY <2>9, <3>2 DEF RowShape
    <3>3. CASE c \in incoming /\ c \in Rows
      BY <2>12, <3>1, <3>3 DEF RowShape, Rows
    <3>4. CASE c \in incoming /\ c \notin Rows
      BY <2>1, <2>2, <2>11, <3>4 DEF RowShape, SharedShape, AnySecret
    <3>5. CASE c \notin removed /\ c \notin incoming
      BY <2>10, <3>1, <3>5 DEF RowShape
    <3>. QED BY <3>2, <3>3, <3>4, <3>5
  <2>14. \A c \in SecretConns : sec'[c] = IF c \in removed THEN NoSecret ELSE sec[c]
    <3>. SUFFICES ASSUME NEW c \in SecretConns PROVE sec'[c] = IF c \in removed THEN NoSecret ELSE sec[c]
      OBVIOUS
    <3>1. /\ sec[c] = IF profile[c] = NoProfile THEN NoSecret ELSE profile[c].secret
          /\ sec'[c] = IF profile'[c] = NoProfile THEN NoSecret ELSE profile'[c].secret
      BY DEF sec
    <3>2. CASE c \in removed
      BY <2>9, <3>1, <3>2
    <3>3. CASE c \in incoming /\ c \in Rows
      BY <1>6, <2>12, <3>1, <3>3 DEF Rows
    <3>4. CASE c \in incoming /\ c \notin Rows
      BY <1>6, <2>1, <2>2, <2>11, <3>1, <3>4 DEF SharedShape, Rows
    <3>5. CASE c \notin removed /\ c \notin incoming
      BY <2>10, <3>1, <3>5
    <3>. QED BY <3>2, <3>3, <3>4, <3>5
  <2>15. SecretsType'
    BY <1>1, <1>4, <2>5, <2>7, <2>8, <2>13 DEF SecretsType, RowShape, SharedShape
  <2>16. Forward(r)
    BY <1>2, <1>3, <2>7 DEF Forward, SettledPcs, Ended, PastPcs
  <2>17. \A d \in SecretConns : sec[d] # r
    BY <1>2, UnsettledIsUnpointed DEF SettledPcs
  <2>18. HolderInv'
    <3>1. Fresh(r)' /\ Superseding(r)' /\ Superseded(r)'
      BY <2>7 DEF Fresh, Superseding, Superseded
    <3>2. Alone(r)
      BY <1>2 DEF Alone
    <3>. QED BY <1>1, <2>7, <3>1, <3>2, HolderAlone
  <2>19. GroupInv'
    <3>1. \A d \in Locals : profile'[d] = profile[d]
      BY <2>2, <2>10 DEF SecretConns
    <3>. QED BY <1>1, <1>3, <1>4, <2>7, <3>1, SharedRowGroups
  <2>20. r \notin S /\ NoSecret \notin vault /\ (pws[r] => r \in vault) /\ (r \in vault => pws[r])
    BY <1>1, <1>2, <2>2, <2>4, <2>17, SecretsAssumption DEF VaultInv, SecretsType, Secrets
  <2>21. \A s \in S : Settled(s)
    BY <1>1, <2>2, <2>4 DEF PointerInv
  <2>22. \A x \in Requests : x \in vault /\ x \notin vault' => pcs[x] \in SettledPcs
    BY <2>5, <2>21, SecretsAssumption DEF Settled, SettledPcs
  <2>23. \A d \in SecretConns : sec'[d] = sec[d] /\ sec[d] # NoSecret => sec[d] \in vault'
    <3>. SUFFICES ASSUME NEW d \in SecretConns, sec'[d] = sec[d], sec[d] # NoSecret PROVE sec[d] \in vault'
      OBVIOUS
    <3>1. d \notin removed
      BY <2>14
    <3>2. sec[d] \notin S
      BY <1>1, <2>2, <2>4, <3>1 DEF PointerInv
    <3>. QED BY <1>1, <2>5, <3>2 DEF PointerInv
  <2>24. Owned(r)'
    BY <2>7 DEF Owned, Ended
  <2>25. \A d \in SecretConns, v \in vault' \ unreclaimed' : v = sec[d] => Owned(v)'
    <3>. SUFFICES ASSUME NEW d \in SecretConns, NEW v \in vault' \ unreclaimed', v = sec[d] PROVE Owned(v)'
      OBVIOUS
    <3>1. v # NoSecret /\ v \notin S
      BY <2>5, <2>20
    <3>2. d \notin removed
      BY <2>4, <3>1
    <3>. QED BY <2>14, <3>2 DEF Owned
  <2>26. \A k \in Requests : profile'[k] # NoProfile => profile[k] # NoProfile \/ Past(k)'
    <3>1. \A k \in incoming : Past(k)
      BY <1>1, <1>3, <1>6 DEF SharedInv
    <3>2. \A k \in Requests : Past(k) => Past(k)'
      BY <1>1, <2>7, <2>16, Stays
    <3>. QED BY <2>2, <2>9, <2>10, <3>1, <3>2 DEF SecretConns
  <2>27. /\ \A d \in SecretConns : sec'[d] \in {sec[d], NoSecret} /\ ~(sec'[d] = r /\ sec[d] # r)
         /\ \A d \in Requests : ~(sec'[d] = r /\ sec[d] # r)
    BY <2>14, SecretsAssumption DEF SecretConns
  <2>28. \A x, k \in Requests : kinds'[x] = "copy" /\ req'[x].list[k] # NoProfile =>
             kinds[x] = "copy" /\ req[x].list[k] # NoProfile
    BY <2>7
  <2>29. /\ (r \in vault' => pws'[r]) /\ (pws'[r] => r \in vault')
         /\ pcs'[r] \notin GatePcs /\ pcs'[r] \notin {"delete_remote", "store", "failed"}
         /\ \A v \in vault' : v # olds[r]
         /\ \A x \in Requests : x \in vault /\ x \notin vault' => pcs[x] \notin {"commit", "share", "sync", "bind_copy"}
    BY <1>3, <2>5, <2>7, <2>20, <2>22 DEF GatePcs, SettledPcs
  <2>. QED BY <1>4, <2>5, <2>7, <2>15, <2>16, <2>18, <2>19, <2>23, <2>24, <2>25, <2>26, <2>27, <2>28, <2>29, RowStep
<1>. QED BY <1>5, <1>6, <1>7 DEF SyncCopied

(* set_schema_group keeps the invariant: the batch is judged as it will    *)
(* be, under the gate.                                                     *)
LEMMA SetGroupKeeps ==
    ASSUME SecretsInv, NEW r \in Requests, set_schema_group(r)
    PROVE  SecretsInv'
<1>1. SecretsType /\ SharedInv /\ GateInv /\ PointerInv /\ VaultInv /\ HolderInv /\ GroupInv
  BY DEF SecretsInv
<1>2. pcs[r] = "set_schema_group"
  BY <1>1, Flat DEF set_schema_group, AtReq
<1>3. kinds[r] = "set_schema_group" /\ olds[r] = NoSecret /\ pws[r] = FALSE /\ Alone(r)
  BY <1>1, <1>2, KindAt, FlatPcs DEF GateInv, GatePcs
<1>4. CASE Refuse(r)
  BY <1>2, <1>4, RefuseKeeps
<1>5. PICK ids, g : ids = req[r].ids /\ g = req[r].group
  OBVIOUS
<1>6. PICK rows : rows = [d \in Listed |-> IF d \in ids THEN [profile[d] EXCEPT !.group = g] ELSE profile[d]]
  OBVIOUS
<1>7. CASE /\ ids \subseteq {d \in Listed : ~IsShared(d)}
           /\ \A d \in ids : validate_schema_group_engine(d, rows)
           /\ profile' = [c \in SecretConns |-> IF c \in Listed THEN rows[c] ELSE profile[c]]
           /\ ToReq(r, "done")
           /\ UNCHANGED <<activeScope, vault, remote, unreclaimed, leftBehind, secretCrashes>>
  <2>1. "done" \in GroupPcs
    BY DEF GroupPcs
  <2>2. /\ DOMAIN req' = Requests /\ \A x \in Requests : ReqShape(req'[x])
        /\ pcs'[r] = "done" /\ kinds' = kinds /\ olds' = olds /\ pws' = pws /\ tgts' = tgts /\ Others(r)
        /\ \A x \in Requests : kinds[x] = "copy" => req'[x].list = req[x].list
    BY <1>1, <1>3, <1>7, <2>1, MoveFacts
  <2>3. /\ activeScope' = activeScope /\ vault' = vault /\ remote' = remote
        /\ unreclaimed' = unreclaimed /\ leftBehind' = leftBehind /\ DOMAIN profile' = SecretConns
    BY <1>7
  <2>4. \A d \in SecretConns \ ids : profile'[d] = profile[d]
    BY <1>6, <1>7
  <2>5. ASSUME NEW d \in ids
        PROVE  /\ d \in Listed /\ d \in SecretConns /\ d \notin Requests /\ profile[d] # NoProfile
               /\ profile'[d] # NoProfile /\ DOMAIN profile'[d] = ProfileFields
               /\ profile'[d].secret = profile[d].secret /\ profile'[d].scope = profile[d].scope
               /\ profile'[d].engine = profile[d].engine
    <3>1. d \in Listed /\ d \in SecretConns /\ d \notin Requests /\ profile[d] # NoProfile
      BY <1>7 DEF Listed, Rows, IsShared
    <3>2. PICK o, w : o = profile[d] /\ w = [o EXCEPT !.group = g]
      OBVIOUS
    <3>3. DOMAIN o = ProfileFields
      BY <1>1, <3>1, <3>2 DEF SecretsType, RowShape
    <3>4. /\ DOMAIN w = ProfileFields /\ w.secret = o.secret /\ w.scope = o.scope /\ w.engine = o.engine
          /\ w # NoProfile
      BY <3>2, <3>3 DEF ProfileFields, NoProfile
    <3>5. profile'[d] = w
      BY <1>6, <1>7, <3>1, <3>2
    <3>. QED BY <3>1, <3>2, <3>4, <3>5
  <2>6. sec' = sec
    <3>1. \A d \in SecretConns : (profile'[d] = NoProfile <=> profile[d] = NoProfile)
                                 /\ (profile[d] # NoProfile => profile'[d].secret = profile[d].secret)
      BY <2>4, <2>5
    <3>. QED BY <3>1 DEF sec
  <2>7. \A d \in SecretConns : RowShape(profile'[d])
    BY <1>1, <2>4, <2>5 DEF SecretsType, RowShape
  <2>8. SecretsType'
    BY <1>1, <2>2, <2>3, <2>7 DEF SecretsType, RowShape, SharedShape
  <2>9. Forward(r)
    BY <1>2, <1>3, <2>2 DEF Forward, SettledPcs, Ended
  <2>10. HolderInv'
    <3>1. Fresh(r)' /\ Superseding(r)' /\ Superseded(r)'
      BY <2>2 DEF Fresh, Superseding, Superseded
    <3>. QED BY <1>1, <2>2, <2>6, <2>9, <3>1, HolderQuiet
  <2>11. OneEnginePerGroup'
    <3>1. \A d \in SecretConns : /\ d \in Rows' <=> d \in Rows
                                 /\ d \in Rows => /\ profile'[d].scope = profile[d].scope
                                                  /\ profile'[d].engine = profile[d].engine
      BY <2>4, <2>5 DEF Rows
    <3>2. ASSUME NEW d \in ids, NEW e \in Rows, profile'[e].scope = profile'[d].scope,
                 profile'[e].group = profile'[d].group, profile'[d].group # NoGroup
          PROVE  profile'[e].engine = profile'[d].engine
      <4>1. e \in Listed /\ d \in Listed /\ e \in SecretConns /\ d \in SecretConns
        BY <2>5, <3>1, <3>2 DEF Listed, Rows
      <4>2. rows[d] = profile'[d] /\ rows[e] = profile'[e] /\ DOMAIN rows = Listed
        BY <1>6, <1>7, <4>1
      <4>. QED BY <1>7, <3>2, <4>1, <4>2 DEF validate_schema_group_engine
    <3>3. ASSUME NEW d \in Rows' \cap Locals, NEW e \in Rows' \cap Locals,
                 profile'[d].scope = profile'[e].scope, profile'[d].group = profile'[e].group,
                 profile'[d].group # NoGroup
          PROVE  profile'[d].engine = profile'[e].engine
      <4>1. d \in Rows /\ e \in Rows /\ d \in SecretConns /\ e \in SecretConns
        BY <3>1 DEF SecretConns
      <4>2. CASE d \in ids
        BY <3>2, <3>3, <4>1, <4>2
      <4>3. CASE e \in ids
        BY <3>2, <3>3, <4>1, <4>3
      <4>4. CASE d \notin ids /\ e \notin ids
        BY <1>1, <2>4, <3>3, <4>1, <4>4 DEF GroupInv, OneEnginePerGroup
      <4>. QED BY <4>2, <4>3, <4>4
    <3>. QED BY <3>3 DEF OneEnginePerGroup
  <2>12. GroupInv'
    BY <1>1, <1>3, <2>2, <2>11, GroupAlone
  <2>13. r \notin vault /\ NoSecret \notin vault
    BY <1>1, <1>3, SecretsAssumption DEF VaultInv, SecretsType, Secrets
  <2>14. \A d \in SecretConns, v \in vault' : v = sec[d] => Owned(v)'
    BY <2>6 DEF Owned
  <2>15. \A d \in SecretConns : sec[d] # NoSecret => sec[d] \in vault'
    BY <1>1, <2>3 DEF PointerInv
  <2>16. \A k \in Requests : profile'[k] = profile[k]
    BY <2>4, <2>5 DEF SecretConns
  <2>17. \A x, k \in Requests : kinds'[x] = "copy" /\ req'[x].list[k] # NoProfile =>
             kinds[x] = "copy" /\ req[x].list[k] # NoProfile
    BY <2>2
  <2>18. /\ vault' \subseteq vault /\ r \notin vault' /\ pcs'[r] \notin GatePcs
         /\ pcs'[r] \notin {"commit", "share", "sync", "bind_copy", "delete_remote", "store", "failed"}
         /\ \A v \in vault' : v # olds[r]
    BY <1>3, <2>2, <2>3, <2>13 DEF GatePcs
  <2>. QED BY <1>3, <2>2, <2>3, <2>6, <2>8, <2>9, <2>10, <2>12, <2>14, <2>15, <2>16, <2>17, <2>18, RowStep
<1>. QED BY <1>4, <1>5, <1>6, <1>7 DEF set_schema_group

--------------------------------------------------------------------------------
(* The scope switch, a crash and the start. *)

(* The scope changes when no request has judged a group in it. *)
LEMMA SwitchKeeps ==
    ASSUME SecretsInv, SwitchActiveScope
    PROVE  SecretsInv'
<1>1. /\ SecretsType /\ SharedInv /\ GateInv /\ PointerInv /\ VaultInv /\ HolderInv /\ OwnerInv /\ GroupInv /\ CopyInv
  BY DEF SecretsInv
<1>2. /\ profile' = profile /\ vault' = vault /\ remote' = remote /\ req' = req
      /\ unreclaimed' = unreclaimed /\ leftBehind' = leftBehind /\ \A x \in Requests : pcs[x] \notin GatePcs
  BY <1>1, GateIsFree DEF SwitchActiveScope, Apps, GateInv
<1>3. pcs' = pcs /\ kinds' = kinds /\ olds' = olds /\ pws' = pws /\ tgts' = tgts /\ sec' = sec
  BY <1>2 DEF pcs, kinds, olds, pws, tgts, sec
<1>4. SecretsType'
  BY <1>1, <1>2 DEF SecretsType, RowShape, SharedShape, ReqShape, IsUpsert, IsSetGroup, IsDelete, IsBind, IsCopy
<1>5. SharedInv' /\ GateInv' /\ CopyInv'
  BY <1>1, <1>2, <1>3 DEF SharedInv, GateInv, CopyInv, Past
<1>6. PointerInv'
  BY <1>1, <1>2, <1>3 DEF PointerInv, Settled
<1>7. VaultInv'
  BY <1>1, <1>2, <1>3 DEF VaultInv
<1>8. HolderInv'
  BY <1>1, <1>3 DEF HolderInv, Fresh, Superseding, Superseded, Settled, Exempt
<1>9. OwnerInv'
  BY <1>1, <1>2, <1>3 DEF OwnerInv, Owned, Exempt
<1>10. GroupInv'
  <2>1. \A x \in Requests : pcs[x] \notin {"store", "commit"}
    BY <1>2 DEF GatePcs
  <2>2. OneEnginePerGroup'
    BY <1>1, <1>2 DEF GroupInv, OneEnginePerGroup, Rows
  <2>. QED BY <1>3, <2>1, <2>2 DEF GroupInv
<1>. QED BY <1>4, <1>5, <1>6, <1>7, <1>8, <1>9, <1>10 DEF SecretsInv

(* A crash ends what was in flight, wherever it stood. *)
LEMMA CrashEffect ==
    ASSUME SecretsType, GateInv, NEW a \in Apps, CrashDesktop(a)
    PROVE  /\ DOMAIN req' = Requests /\ \A x \in Requests : ReqShape(req'[x])
           /\ \A x \in Requests : pcs'[x] = IF pcs[x] \in Ended THEN pcs[x] ELSE "crashed"
           /\ kinds' = kinds /\ olds' = olds /\ pws' = pws /\ tgts' = tgts
           /\ \A x \in Requests : kinds[x] = "copy" => req'[x].list = req[x].list
<1>1. DOMAIN req' = Requests /\ \A x \in Requests : req'[x] = IF InFlight(x) THEN [req[x] EXCEPT !.pc = "crashed"] ELSE req[x]
  BY DEF CrashDesktop, GateInv, OneApp, Apps
<1>2. ASSUME NEW x \in Requests
      PROVE  \E q, k : /\ q = req[x] /\ k = req'[x] /\ ReqShape(k) /\ DOMAIN k = DOMAIN q
                       /\ (k = IdleRequest <=> q = IdleRequest)
                       /\ k.pc = (IF pcs[x] \in Ended THEN pcs[x] ELSE "crashed")
                       /\ q # IdleRequest => k.kind = q.kind
                       /\ "old" \in DOMAIN q => k.old = q.old
                       /\ "password" \in DOMAIN q => k.password = q.password
                       /\ "conn" \in DOMAIN q => k.conn = q.conn
                       /\ "list" \in DOMAIN q => k.list = q.list
  <2>1. ReqShape(req[x]) /\ pcs[x] = req[x].pc /\ (req[x] = IdleRequest <=> pcs[x] = "idle")
    BY Flat DEF SecretsType
  <2>2. CASE InFlight(x)
    <3>1. PICK q : q = req[x]
      OBVIOUS
    <3>2. pcs[x] \notin Ended /\ q # IdleRequest /\ ReqShape(q)
      BY <2>1, <2>2, <3>1 DEF InFlight, Ended
    <3>3. "crashed" \in UpsertPcs /\ "crashed" \in GroupPcs /\ "crashed" \in DeletePcs /\ "crashed" \in BindPcs
          /\ "crashed" \in CopyPcs
      BY DEF UpsertPcs, GroupPcs, DeletePcs, BindPcs, CopyPcs
    <3>4. PICK k : k = [q EXCEPT !.pc = "crashed"]
      OBVIOUS
    <3>5. /\ ReqShape(k) /\ k # IdleRequest
          /\ k.pc = "crashed" /\ k.kind = q.kind /\ DOMAIN k = DOMAIN q
          /\ "old" \in DOMAIN q => k.old = q.old
          /\ "password" \in DOMAIN q => k.password = q.password
          /\ "conn" \in DOMAIN q => k.conn = q.conn
          /\ "list" \in DOMAIN q => k.list = q.list
      BY <3>2, <3>3, <3>4, PcMoves
    <3>6. k = req'[x]
      BY <1>1, <2>2, <3>1, <3>4
    <3>. QED BY <3>1, <3>2, <3>5, <3>6
  <2>3. CASE ~InFlight(x)
    <3>1. req'[x] = req[x] /\ pcs[x] \in Ended
      BY <1>1, <2>1, <2>3 DEF InFlight
    <3>2. PICK q : q = req[x]
      OBVIOUS
    <3>. QED BY <2>1, <3>1, <3>2
  <2>. QED BY <2>2, <2>3
<1>3. \A x \in Requests : ReqShape(req'[x])
  <2>. SUFFICES ASSUME NEW x \in Requests PROVE ReqShape(req'[x])
    OBVIOUS
  <2>1. PICK k : k = req'[x] /\ ReqShape(k)
    BY <1>2
  <2>. QED BY <2>1 DEF ReqShape, IsUpsert, IsSetGroup, IsDelete, IsBind, IsCopy
<1>4. \A x \in Requests : /\ DOMAIN req'[x] = DOMAIN req[x]
                          /\ (req'[x] = IdleRequest <=> req[x] = IdleRequest)
                          /\ req'[x].pc = (IF pcs[x] \in Ended THEN pcs[x] ELSE "crashed")
                          /\ req[x] # IdleRequest => req'[x].kind = req[x].kind
                          /\ "old" \in DOMAIN req[x] => req'[x].old = req[x].old
                          /\ "password" \in DOMAIN req[x] => req'[x].password = req[x].password
                          /\ "conn" \in DOMAIN req[x] => req'[x].conn = req[x].conn
                          /\ "list" \in DOMAIN req[x] => req'[x].list = req[x].list
  BY <1>2
<1>5. \A x \in Requests : pcs'[x] = IF pcs[x] \in Ended THEN pcs[x] ELSE "crashed"
  <2>1. \A x \in Requests : pcs'[x] = req'[x].pc
    BY DEF pcs
  <2>. QED BY <1>4, <2>1
<1>6. kinds' = kinds
  BY <1>4 DEF kinds
<1>7. olds' = olds
  BY <1>4 DEF olds
<1>8. pws' = pws
  BY <1>4 DEF pws
<1>9. tgts' = tgts
  BY <1>4 DEF tgts
<1>10. \A x \in Requests : kinds[x] = "copy" => "list" \in DOMAIN req[x]
  BY Flat DEF IsCopy
<1>. QED BY <1>1, <1>3, <1>4, <1>5, <1>6, <1>7, <1>8, <1>9, <1>10

(* A crash keeps the invariant: what only a request in flight held is      *)
(* given up.                                                               *)
LEMMA CrashKeeps ==
    ASSUME SecretsInv, NEW a \in Apps, CrashDesktop(a)
    PROVE  SecretsInv'
<1>1. /\ SecretsType /\ SharedInv /\ GateInv /\ PointerInv /\ VaultInv /\ HolderInv /\ OwnerInv /\ GroupInv /\ CopyInv
  BY DEF SecretsInv
<1>2. /\ profile' = profile /\ vault' = vault /\ remote' = remote /\ activeScope' = activeScope
      /\ unreclaimed \subseteq unreclaimed' /\ leftBehind \subseteq leftBehind'
  BY DEF CrashDesktop
<1>2a. \A s \in vault, x \in Requests : ~Pointed(s) /\ InFlight(x) /\ s \in Holds(x) => s \in unreclaimed'
  BY <1>1 DEF CrashDesktop, GateInv, OneApp, Apps
<1>3. /\ DOMAIN req' = Requests /\ \A x \in Requests : ReqShape(req'[x])
      /\ \A x \in Requests : pcs'[x] = IF pcs[x] \in Ended THEN pcs[x] ELSE "crashed"
      /\ kinds' = kinds /\ olds' = olds /\ pws' = pws /\ tgts' = tgts
      /\ \A x \in Requests : kinds[x] = "copy" => req'[x].list = req[x].list
  BY <1>1, CrashEffect
<1>4. sec' = sec
  BY <1>2 DEF sec
<1>5. SecretsType'
  BY <1>1, <1>2, <1>3 DEF SecretsType, RowShape, SharedShape
<1>6. \A x \in Requests : pcs'[x] \in Ended
  BY <1>3 DEF Ended
<1>7. SharedInv'
  <2>1. \A c \in Requests : Past(c) => Past(c)'
    BY <1>3 DEF Past
  <2>. QED BY <1>1, <1>2, <1>3, <2>1, SharedKept
<1>8. GateInv'
  BY <1>1, <1>6 DEF GateInv, OneApp, GatePcs, Ended
<1>9. PointerInv'
  <2>1. \A s : Settled(s) => Settled(s)'
    BY <1>3 DEF Settled
  <2>2. ASSUME NEW c \in SecretConns, sec[c] # NoSecret PROVE sec'[c] \in vault' /\ Settled(sec[c])'
    <3>1. PICK s : s = sec[c]
      OBVIOUS
    <3>2. Settled(s)' /\ s \in vault
      BY <1>1, <2>1, <2>2, <3>1 DEF PointerInv
    <3>. QED BY <1>2, <1>4, <3>1, <3>2 DEF Settled
  <2>. QED BY <1>1, <1>3, <1>4, <1>6, <2>2 DEF PointerInv
<1>10. VaultInv'
  BY <1>1, <1>2, <1>3 DEF VaultInv, Ended
<1>11. HolderInv'
  BY <1>6 DEF HolderInv, Fresh, Superseding, Superseded, Ended
<1>12. OwnerInv'
  <2>. SUFFICES ASSUME NEW s \in vault' \ unreclaimed' PROVE Owned(s)'
    BY DEF OwnerInv
  <2>1. Owned(s) /\ s \in vault /\ s # NoSecret
    BY <1>1, <1>2, SecretsAssumption DEF OwnerInv, SecretsType, Secrets
  <2>2. CASE \E c \in SecretConns : sec[c] = s
    BY <1>4, <2>2 DEF Owned
  <2>3. CASE \E x \in Requests : pcs[x] \notin Ended /\ (s = x \/ s = olds[x])
    <3>1. PICK x \in Requests : pcs[x] \notin Ended /\ (s = x \/ s = olds[x])
      BY <2>3
    <3>2. InFlight(x) /\ s \in Holds(x)
      BY <1>1, <2>1, <3>1, Flat DEF InFlight, Holds, olds
    <3>3. Pointed(s)
      BY <1>2a, <2>1, <3>2
    <3>4. PICK c \in SecretConns : sec[c] = s
      BY <3>3 DEF Pointed, Rows, sec
    <3>. QED BY <1>4, <3>4 DEF Owned
  <2>4. CASE Exempt(s)
    BY <1>3, <2>4 DEF Owned, Exempt, Ended
  <2>. QED BY <2>1, <2>2, <2>3, <2>4 DEF Owned
<1>13. GroupInv'
  <2>1. OneEnginePerGroup'
    BY <1>1, <1>2 DEF GroupInv, OneEnginePerGroup, Rows
  <2>. QED BY <1>6, <2>1 DEF GroupInv, Ended
<1>14. CopyInv'
  BY <1>1, <1>2, <1>3 DEF CopyInv
<1>. QED BY <1>5, <1>7, <1>8, <1>9, <1>10, <1>11, <1>12, <1>13, <1>14 DEF SecretsInv

(* The invariant at the start: at most one profile, with the credential it *)
(* came with.                                                              *)
LEMMA SecretsInitSound ==
    ASSUME SecretsInit, OneApp
    PROVE  SecretsInv
<1>1. /\ req = [r \in Requests |-> IdleRequest] /\ remote = [k \in Requests |-> NoProfile]
      /\ vault = {profile[c].secret : c \in {d \in SecretConns : profile[d] # NoProfile}}
      /\ unreclaimed = {} /\ leftBehind = {}
  BY DEF SecretsInit
<1>2. DOMAIN IdleRequest = {"pc"} /\ IdleRequest.pc = "idle"
  BY DEF IdleRequest
<1>3. /\ DOMAIN profile = SecretConns
      /\ \A c \in SecretConns : \/ profile[c] = NoProfile
                                \/ /\ c \in Locals /\ DOMAIN profile[c] = ProfileFields
                                   /\ profile[c].secret = OldSecret /\ profile[c].group = NoGroup
      /\ \A c, d \in SecretConns : profile[c] # NoProfile /\ profile[d] # NoProfile => c = d
  <2>1. CASE profile = [c \in SecretConns |-> NoProfile]
    BY <2>1
  <2>2. ASSUME NEW d \in Locals, NEW e \in Engines,
               profile = [c \in SecretConns |-> IF c = d THEN Profile("personal", e, NoGroup, OldSecret) ELSE NoProfile]
        PROVE  /\ DOMAIN profile = SecretConns
               /\ \A c \in SecretConns : \/ profile[c] = NoProfile
                                         \/ /\ c \in Locals /\ DOMAIN profile[c] = ProfileFields
                                            /\ profile[c].secret = OldSecret /\ profile[c].group = NoGroup
               /\ \A c, b \in SecretConns : profile[c] # NoProfile /\ profile[b] # NoProfile => c = b
    <3>1. PICK w : w = Profile("personal", e, NoGroup, OldSecret)
      OBVIOUS
    <3>2. DOMAIN w = ProfileFields /\ w.secret = OldSecret /\ w.group = NoGroup
      BY <3>1 DEF Profile, ProfileFields
    <3>3. \A c \in SecretConns : profile[c] = IF c = d THEN w ELSE NoProfile
      BY <2>2, <3>1
    <3>. QED BY <2>2, <3>2, <3>3
  <2>. QED BY <2>1, <2>2 DEF SecretsInit
<1>4. \A c \in SecretConns : sec[c] = IF profile[c] = NoProfile THEN NoSecret ELSE OldSecret
  BY <1>3 DEF sec
<1>5. vault \subseteq {OldSecret} /\ \A c \in SecretConns : profile[c] # NoProfile => OldSecret \in vault
  BY <1>1, <1>3
<1>6. \A s \in vault : \E c \in SecretConns : sec[c] = s
  BY <1>1, <1>3, <1>4
<1>7. \A x \in Requests : req[x] = IdleRequest /\ pcs[x] = "idle" /\ kinds[x] = "none" /\ olds[x] = NoSecret
  BY <1>1, <1>2 DEF pcs, kinds, olds
<1>8. SecretsType
  BY <1>1, <1>3, <1>5, <1>7 DEF SecretsType, RowShape, SharedShape, ReqShape, AnySecret, Secrets
<1>9. \A c \in Requests : c \in SecretConns /\ profile[c] = NoProfile /\ c # OldSecret
  BY <1>3, SecretsAssumption DEF SecretConns
<1>10. SharedInv /\ GateInv /\ CopyInv
  BY <1>1, <1>7, <1>9 DEF SharedInv, GateInv, GatePcs, CopyInv
<1>11. PointerInv
  BY <1>3, <1>4, <1>5, <1>9 DEF PointerInv, Settled
<1>12. VaultInv
  BY <1>5, <1>7, <1>9 DEF VaultInv
<1>13. HolderInv
  BY <1>7 DEF HolderInv, Fresh, Superseding, Superseded
<1>14. OwnerInv
  BY <1>6 DEF OwnerInv, Owned
<1>15. GroupInv
  <2>1. OneEnginePerGroup
    BY <1>3 DEF OneEnginePerGroup, Rows
  <2>. QED BY <1>7, <2>1 DEF GroupInv
<1>. QED BY <1>8, <1>10, <1>11, <1>12, <1>13, <1>14, <1>15 DEF SecretsInv

(* Every step keeps the invariant. *)
LEMMA SecretsNextSound ==
    ASSUME SecretsInv, [SecretsNext]_secretVars
    PROVE  SecretsInv'
<1>1. ASSUME NEW r \in Requests, SecretsStep(r) PROVE SecretsInv'
  <2>1. CASE TakeGate(r)
    BY <2>1, TakeGateKeeps
  <2>2. CASE StorePassword(r)
    BY <2>2, StorePasswordKeeps
  <2>3. CASE CleanUp(r)
    BY <2>3, CleanUpKeeps
  <2>4. CASE upsert(r)
    BY <2>4, UpsertKeeps
  <2>5. CASE commit_upsert(r)
    BY <2>5, CommitUpsertKeeps
  <2>6. CASE set_schema_group(r)
    BY <2>6, SetGroupKeeps
  <2>7. CASE delete(r)
    BY <2>7, DeleteKeeps
  <2>8. CASE CheckBind(r)
    BY <2>8, CheckBindKeeps
  <2>9. CASE commit_bind(r)
    BY <2>9, CommitBindKeeps
  <2>10. CASE FetchForCopy(r)
    BY <2>10, FetchForCopyKeeps
  <2>11. CASE SnapshotRemote(r)
    BY <2>11, SnapshotRemoteKeeps
  <2>12. CASE share_connection(r)
    BY <2>12, ShareKeeps
  <2>13. CASE SyncCopied(r)
    BY <2>13, SyncCopiedKeeps
  <2>14. CASE BindCopy(r)
    BY <2>14, BindCopyKeeps
  <2>15. CASE RollBackCopy(r)
    BY <2>15, RollBackCopyKeeps
  <2>16. CASE delete_shared_connection(r)
    BY <2>16, DeleteSharedKeeps
  <2>. QED BY <1>1, <2>1, <2>2, <2>3, <2>4, <2>5, <2>6, <2>7, <2>8, <2>9, <2>10, <2>11, <2>12, <2>13, <2>14,
              <2>15, <2>16 DEF SecretsStep
<1>2. ASSUME NEW r \in Requests, NEW c \in Locals, NEW e \in Engines, NEW g \in SchemaGroups \cup {NoGroup},
             NEW p \in BOOLEAN, StartUpsert(r, c, e, g, p)
      PROVE SecretsInv'
  BY <1>2, StartsKeep
<1>3. ASSUME NEW r \in Requests, NEW c \in Locals, StartDelete(r, c) \/ StartCopy(r, c) PROVE SecretsInv'
  BY <1>3, StartsKeep
<1>4. ASSUME NEW r \in Requests, NEW ids \in SUBSET Locals \ {{}}, NEW g \in SchemaGroups \cup {NoGroup},
             StartSetGroup(r, ids, g)
      PROVE SecretsInv'
  <2>1. ids \in SUBSET Locals
    OBVIOUS
  <2>. QED BY <1>4, <2>1, StartsKeep
<1>5. ASSUME NEW r \in Requests, NEW c \in Requests, StartBind(r, c) PROVE SecretsInv'
  BY <1>5, StartsKeep
<1>6. CASE SwitchActiveScope
  BY <1>6, SwitchKeeps
<1>7. ASSUME NEW a \in Apps, CrashDesktop(a) PROVE SecretsInv'
  BY <1>7, CrashKeeps
<1>8. CASE UNCHANGED secretVars
  <2>1. /\ profile' = profile /\ vault' = vault /\ remote' = remote /\ req' = req
        /\ unreclaimed' = unreclaimed /\ leftBehind' = leftBehind /\ activeScope' = activeScope
    BY <1>8 DEF secretVars
  <2>2. pcs' = pcs /\ kinds' = kinds /\ olds' = olds /\ pws' = pws /\ tgts' = tgts /\ sec' = sec
    BY <2>1 DEF pcs, kinds, olds, pws, tgts, sec
  <2>3. SecretsType'
    BY <2>1 DEF SecretsInv, SecretsType, RowShape, SharedShape, ReqShape, IsUpsert, IsSetGroup, IsDelete, IsBind, IsCopy
  <2>4. SharedInv' /\ GateInv' /\ CopyInv' /\ PointerInv'
    BY <2>1, <2>2 DEF SecretsInv, SharedInv, GateInv, Alone, OneApp, CopyInv, Past, PointerInv, Settled
  <2>5. VaultInv'
    BY <2>1, <2>2 DEF SecretsInv, VaultInv
  <2>6. HolderInv'
    BY <2>2 DEF SecretsInv, HolderInv, Fresh, Superseding, Superseded, Settled, Exempt
  <2>7. OwnerInv'
    BY <2>1, <2>2 DEF SecretsInv, OwnerInv, Owned, Exempt
  <2>8. GroupInv'
    BY <2>1, <2>2 DEF SecretsInv, GroupInv, OneEnginePerGroup, Rows
  <2>. QED BY <2>3, <2>4, <2>5, <2>6, <2>7, <2>8 DEF SecretsInv
<1>. QED BY <1>1, <1>2, <1>3, <1>4, <1>5, <1>6, <1>7, <1>8 DEF SecretsNext

(* What the invariant says of profiles and of credentials. *)
LEMMA SecretsInvMeans ==
    ASSUME SecretsInv
    PROVE  ProfilesAreSound /\ NothingIsLeftBehind
<1>1. /\ SecretsType /\ PointerInv /\ OwnerInv /\ GroupInv /\ CopyInv
  BY DEF SecretsInv
<1>2. \A c \in Rows : c \in SecretConns /\ sec[c] = profile[c].secret
  BY DEF Rows, sec
<1>3. PointerHasSecret
  BY <1>1, <1>2 DEF PointerHasSecret, PointerInv
<1>4. SecretHasOwner
  <2>. SUFFICES ASSUME NEW s \in vault \ unreclaimed
       PROVE  \/ Pointed(s)
              \/ \E r \in Requests : InFlight(r) /\ s \in Holds(r)
              \/ s \in Requests /\ req[s].pc = "done" /\ req[s].kind \in {"bind", "copy"}
    BY DEF SecretHasOwner
  <2>1. Owned(s) /\ s # NoSecret
    BY <1>1, SecretsAssumption DEF OwnerInv, SecretsType, Secrets
  <2>2. CASE \E c \in SecretConns : sec[c] = s
    BY <2>1, <2>2 DEF Pointed, Rows, sec
  <2>3. CASE \E r \in Requests : pcs[r] \notin Ended /\ (s = r \/ s = olds[r])
    <3>1. PICK r \in Requests : pcs[r] \notin Ended /\ (s = r \/ s = olds[r])
      BY <2>3
    <3>2. InFlight(r) /\ s \in Holds(r)
      BY <1>1, <2>1, <3>1, Flat DEF InFlight, Holds, olds
    <3>. QED BY <3>2
  <2>4. CASE Exempt(s)
    <3>1. s \in Requests /\ pcs[s] = "done" /\ kinds[s] \in {"bind", "copy"}
      BY <2>4 DEF Exempt
    <3>2. req[s].pc = "done" /\ req[s].kind = kinds[s]
      BY <1>1, <3>1, Flat DEF IsBind, IsCopy
    <3>. QED BY <3>1, <3>2
  <2>. QED BY <2>1, <2>2, <2>3, <2>4 DEF Owned
<1>5. FailedCopyLeavesNothing
  <2>1. \A k \in Requests : AtReq(k, "failed") /\ req[k].kind = "copy" => pcs[k] = "failed" /\ kinds[k] = "copy"
    <3>. SUFFICES ASSUME NEW k \in Requests, AtReq(k, "failed"), req[k].kind = "copy"
                  PROVE pcs[k] = "failed" /\ kinds[k] = "copy"
      OBVIOUS
    <3>1. pcs[k] = "failed" /\ kinds[k] # "none"
      BY <1>1, Flat DEF AtReq
    <3>. QED BY <3>1 DEF kinds
  <2>. QED BY <1>1, <2>1 DEF FailedCopyLeavesNothing, CopyInv
<1>. QED BY <1>1, <1>3, <1>4, <1>5 DEF ProfilesAreSound, NothingIsLeftBehind, GroupInv

(* Where one process serves the store, whatever failed, crashed or ran     *)
(* next to a request, a stored profile points to a credential that exists  *)
(* and agrees with its schema group on the engine (upsert,                 *)
(* set_schema_group, delete, bind_connection_credentials, copy_connection, *)
(* sync_remote_connections).                                               *)
THEOREM ProfilesStaySound ==
    ASSUME OneApp
    PROVE  SecretsSpec => []ProfilesAreSound
<1>1. SecretsInit => SecretsInv
  BY SecretsInitSound
<1>2. SecretsInv /\ [SecretsNext]_secretVars => SecretsInv'
  BY SecretsNextSound
<1>3. SecretsInv => ProfilesAreSound
  BY SecretsInvMeans
<1>. QED BY <1>1, <1>2, <1>3, PTL DEF SecretsSpec

(* Where one process serves the store, every credential in the vault is    *)
(* pointed to, held by a request in flight, or was given up by a failed    *)
(* deletion, a crash or a binding that lost a race; a failed copy took its *)
(* template back.                                                          *)
THEOREM NothingStaysBehind ==
    ASSUME OneApp
    PROVE  SecretsSpec => []NothingIsLeftBehind
<1>1. SecretsInit => SecretsInv
  BY SecretsInitSound
<1>2. SecretsInv /\ [SecretsNext]_secretVars => SecretsInv'
  BY SecretsNextSound
<1>3. SecretsInv => NothingIsLeftBehind
  BY SecretsInvMeans
<1>. QED BY <1>1, <1>2, <1>3, PTL DEF SecretsSpec

--------------------------------------------------------------------------------
(***************************************************************************)
(* PinnedConnections.  A revision stands for one content, for any number   *)
(* of connections, accounts, dashboards and operations that hold a pin.    *)
(*                                                                         *)
(* A pin and a cached catalog say the truth about the revisions they name  *)
(* for as long as they exist (TrueFor), because a local row only ever gets *)
(* a larger revision and a binding only ever gets a later time.            *)
(***************************************************************************)

(* The inductive invariant. *)

ConnShape(c, x) ==
    \/ x = NoRow
    \/ /\ x = [ws |-> x.ws, owner |-> x.owner, rev |-> x.rev, deleted |-> x.deleted,
               content |-> x.content]
       /\ c \in SharedIds => x.ws \in Teams
       /\ c \in LocalIds => x.rev \in Nat \ {0}

BindingShape(x) ==
    \/ x = NoRow
    \/ /\ x = [rev |-> x.rev, at |-> x.at, access |-> x.access, cred |-> x.cred]
       /\ x.at \in Nat /\ x.at <= clock

DashShape(x) ==
    \/ x = NoRow
    \/ /\ x = [ws |-> x.ws, conn |-> x.conn, rev |-> x.rev, deleted |-> x.deleted,
               purged |-> x.purged]
       /\ x.rev \in Nat \ {0} /\ x.conn \in Conns

FetchedShape(x) ==
    \/ x = NoRow
    \/ /\ x = [team |-> x.team, user |-> x.user, list |-> x.list]
       /\ x.team \in Teams /\ x.user \in Users /\ DOMAIN x.list \subseteq SharedIds

RowsInv ==
    /\ clock \in Nat
    /\ DOMAIN conn = Conns /\ \A c \in Conns : ConnShape(c, conn[c])
    /\ DOMAIN binding = SharedIds
    /\ \A c \in SharedIds : /\ DOMAIN binding[c] = Users
                            /\ \A u \in Users : BindingShape(binding[c][u])
    /\ FetchedShape(fetched)

(* What was read under these revisions is what they stand for: of a local  *)
(* row that is at the revision still, of a binding that was last written   *)
(* at that time.                                                           *)
TrueFor(c, a, rev, brev, bat, prof) ==
    \/ /\ c \in LocalIds
       /\ brev = 0 /\ bat = 0
       /\ conn[c] # NoRow /\ rev \in Nat /\ rev <= conn[c].rev
       /\ conn[c].rev = rev
            => prof = [content |-> conn[c].content, cred |-> "own", access |-> "local"]
    \/ /\ c \in SharedIds /\ a \in Users
       /\ bat \in Nat /\ bat <= clock
       /\ binding[c][a] # NoRow /\ binding[c][a].rev = brev /\ binding[c][a].at = bat
            => prof = [content |-> rev, cred |-> binding[c][a].cred,
                       access |-> binding[c][a].access]

IsPin(p) ==
    /\ p = [ws |-> p.ws, account |-> p.account, generation |-> p.generation, conn |-> p.conn,
            rev |-> p.rev, brev |-> p.brev, bat |-> p.bat, profile |-> p.profile]
    /\ p.conn \in SharedIds => p.ws \in Teams
    /\ TrueFor(p.conn, p.account, p.rev, p.brev, p.bat, p.profile)

(* The dashboard that was looked up with a pin, if any. *)
IsSight(k) == k = NoRow \/ k.id \in Dashboards

OpOk(x) ==
    \/ x = NoRow
    \/ /\ "pin" \in DOMAIN x
       /\ x = [pin |-> x.pin, read |-> x.read, dash |-> x.dash]
       /\ IsPin(x.pin) /\ IsSight(x.dash)
    \/ /\ "found" \in DOMAIN x
       /\ x = [found |-> x.found, rev |-> x.rev, scope |-> x.scope]
       /\ x.found \in Dashboards

PinsInv == DOMAIN pinOp = PinOps /\ \A o \in PinOps : OpOk(pinOp[o])

EntryOk(c, e) ==
    /\ e = [ws |-> e.ws, key |-> e.key, rev |-> e.rev, brev |-> e.brev, bat |-> e.bat,
            profile |-> e.profile]
    /\ TrueFor(c, e.key, e.rev, e.brev, e.bat, e.profile)

CacheInv == DOMAIN cache = Conns /\ \A c \in Conns : \A e \in cache[c] : EntryOk(c, e)

DashInv == DOMAIN dash = Dashboards /\ \A d \in Dashboards : DashShape(dash[d])

Events == [type : {"connection", "dashboard"}, id : LocalIds \cup Dashboards,
           operation : {"upsert", "delete"}, rev : Nat]

(* The events that name a connection or a dashboard. *)
Announced(type, id) == {i \in DOMAIN outbox : outbox[i].type = type /\ outbox[i].id = id}
AnnouncedRevs(type, id) == {outbox[i].rev : i \in Announced(type, id)}

ExactUpTo(type, id, n) ==
    /\ IsFiniteSet(Announced(type, id)) /\ Cardinality(Announced(type, id)) = n
    /\ AnnouncedRevs(type, id) = 1 .. n

RevOf(row) == IF row = NoRow THEN 0 ELSE row.rev

OutboxInv ==
    /\ outbox \in Seq(Events)
    /\ \A c \in LocalIds : ExactUpTo("connection", c, RevOf(conn[c]))
    /\ \A d \in Dashboards : ExactUpTo("dashboard", d, RevOf(dash[d]))

(* What the steps keep. *)
PinInv == RowsInv /\ PinsInv /\ CacheInv /\ DashInv /\ OutboxInv

--------------------------------------------------------------------------------
(* Pins and cached catalogs stay true. *)

(* What a step may do to the rows: a local row is left alone or gets a     *)
(* larger revision, a binding is left alone, deleted, or written at a      *)
(* later time.                                                             *)
RowsMove ==
    /\ clock' \in Nat /\ clock <= clock'
    /\ \A c \in LocalIds :
          \/ conn'[c] = conn[c]
          \/ conn'[c] # NoRow /\ (conn[c] # NoRow => conn'[c].rev > conn[c].rev)
    /\ \A c \in SharedIds : \A u \in Users :
          \/ binding'[c][u] = binding[c][u]
          \/ binding'[c][u] = NoRow
          \/ binding'[c][u].at > clock

(* No row of a table is the absent one. *)
LEMMA RowsArePresent ==
    /\ \A w, o, r, b, x : [ws |-> w, owner |-> o, rev |-> r, deleted |-> b, content |-> x] # NoRow
    /\ \A r, t, x, k : [rev |-> r, at |-> t, access |-> x, cred |-> k] # NoRow
    /\ \A w, c, r, b, p : [ws |-> w, conn |-> c, rev |-> r, deleted |-> b, purged |-> p] # NoRow
    /\ \A t, u, l : [team |-> t, user |-> u, list |-> l] # NoRow
    /\ \A p, r, k : [pin |-> p, read |-> r, dash |-> k] # NoRow
    /\ \A d, r, s : [found |-> d, rev |-> r, scope |-> s] # NoRow
    /\ \A d, r : [id |-> d, rev |-> r] # NoRow
  BY DEF NoRow

(* A row that is changed in place. *)
LEMMA EditedRows ==
    ASSUME NEW row,
           row = [ws |-> row.ws, owner |-> row.owner, rev |-> row.rev, deleted |-> row.deleted,
                  content |-> row.content],
           NEW n, NEW x
    PROVE  /\ [row EXCEPT !.rev = n, !.content = x]
                = [ws |-> row.ws, owner |-> row.owner, rev |-> n, deleted |-> row.deleted,
                   content |-> x]
           /\ [row EXCEPT !.rev = n, !.deleted = x]
                = [ws |-> row.ws, owner |-> row.owner, rev |-> n, deleted |-> x,
                   content |-> row.content]
           /\ [row EXCEPT !.deleted = x]
                = [ws |-> row.ws, owner |-> row.owner, rev |-> row.rev, deleted |-> x,
                   content |-> row.content]
<1> DEFINE Fields == {"ws", "owner", "rev", "deleted", "content"}
<1>1. DOMAIN row = Fields
  OBVIOUS
<1>2. [row EXCEPT !.rev = n, !.content = x]
        = [ws |-> row.ws, owner |-> row.owner, rev |-> n, deleted |-> row.deleted, content |-> x]
  <2> DEFINE m == [row EXCEPT !.rev = n, !.content = x]
  <2>1. DOMAIN m = Fields /\ m = [f \in DOMAIN m |-> m[f]]
    BY <1>1
  <2>2. m.ws = row.ws /\ m.owner = row.owner /\ m.rev = n /\ m.deleted = row.deleted /\ m.content = x
    BY <1>1
  <2> HIDE DEF m
  <2>3. m = [ws |-> row.ws, owner |-> row.owner, rev |-> n, deleted |-> row.deleted, content |-> x]
    BY <2>1, <2>2
  <2> QED
    BY <2>3 DEF m
<1>3. [row EXCEPT !.rev = n, !.deleted = x]
        = [ws |-> row.ws, owner |-> row.owner, rev |-> n, deleted |-> x, content |-> row.content]
  <2> DEFINE m == [row EXCEPT !.rev = n, !.deleted = x]
  <2>1. DOMAIN m = Fields /\ m = [f \in DOMAIN m |-> m[f]]
    BY <1>1
  <2>2. m.ws = row.ws /\ m.owner = row.owner /\ m.rev = n /\ m.deleted = x /\ m.content = row.content
    BY <1>1
  <2> HIDE DEF m
  <2>3. m = [ws |-> row.ws, owner |-> row.owner, rev |-> n, deleted |-> x, content |-> row.content]
    BY <2>1, <2>2
  <2> QED
    BY <2>3 DEF m
<1>4. [row EXCEPT !.deleted = x]
        = [ws |-> row.ws, owner |-> row.owner, rev |-> row.rev, deleted |-> x, content |-> row.content]
  <2> DEFINE m == [row EXCEPT !.deleted = x]
  <2>1. DOMAIN m = Fields /\ m = [f \in DOMAIN m |-> m[f]]
    BY <1>1
  <2>2. m.ws = row.ws /\ m.owner = row.owner /\ m.rev = row.rev /\ m.deleted = x /\ m.content = row.content
    BY <1>1
  <2> HIDE DEF m
  <2>3. m = [ws |-> row.ws, owner |-> row.owner, rev |-> row.rev, deleted |-> x, content |-> row.content]
    BY <2>1, <2>2
  <2> QED
    BY <2>3 DEF m
<1> QED
  BY <1>2, <1>3, <1>4

(* A revision of a local row is a number. *)
LEMMA LocalRevs ==
    ASSUME RowsInv, NEW c \in LocalIds, conn[c] # NoRow
    PROVE  conn[c].rev \in Nat \ {0}
  BY DEF RowsInv, ConnShape, Conns

(* What is true of the rows stays true when they move. *)
LEMMA TrueStays ==
    ASSUME RowsInv, RowsMove, RowsInv',
           NEW c, NEW a, NEW rev, NEW brev, NEW bat, NEW prof,
           TrueFor(c, a, rev, brev, bat, prof)
    PROVE  TrueFor(c, a, rev, brev, bat, prof)'
<1>1. CASE c \in LocalIds /\ c \notin SharedIds
  <2>1. conn[c] # NoRow /\ rev \in Nat /\ rev <= conn[c].rev /\ brev = 0 /\ bat = 0
    BY <1>1 DEF TrueFor
  <2>2. conn[c].rev \in Nat
    BY <1>1, <2>1, LocalRevs
  <2>3. CASE conn'[c] = conn[c]
    BY <1>1, <2>3 DEF TrueFor
  <2>4. CASE conn'[c] # NoRow /\ conn'[c].rev > conn[c].rev
    <3>1. conn'[c].rev \in Nat
      BY <1>1, <2>4 DEF RowsInv, ConnShape, Conns
    <3>2. rev <= conn'[c].rev /\ conn'[c].rev # rev
      BY <2>1, <2>2, <2>4, <3>1
    <3> QED
      BY <1>1, <2>1, <2>4, <3>2 DEF TrueFor
  <2> QED
    BY <1>1, <2>1, <2>3, <2>4 DEF RowsMove
<1>2. CASE c \in SharedIds /\ c \notin LocalIds
  <2>1. a \in Users /\ bat \in Nat /\ bat <= clock
    BY <1>2 DEF TrueFor
  <2>2. clock \in Nat /\ clock' \in Nat /\ bat <= clock'
    BY <2>1 DEF RowsInv, RowsMove
  <2>3. CASE binding'[c][a] = binding[c][a]
    BY <1>2, <2>1, <2>2, <2>3 DEF TrueFor
  <2>4. CASE binding'[c][a] = NoRow
    BY <1>2, <2>1, <2>2, <2>4 DEF TrueFor
  <2>5. CASE binding'[c][a].at > clock
    <3>1. binding'[c][a] # NoRow => binding'[c][a].at \in Nat
      BY <1>2, <2>1 DEF RowsInv, BindingShape
    <3>2. binding'[c][a] # NoRow => binding'[c][a].at # bat
      BY <2>1, <2>2, <2>5, <3>1
    <3> QED
      BY <1>2, <2>1, <2>2, <3>2 DEF TrueFor
  <2> QED
    BY <1>2, <2>1, <2>3, <2>4, <2>5 DEF RowsMove
<1> QED
  BY <1>1, <1>2, PinAssumption DEF TrueFor

(* So an operation's pin stays one. *)
LEMMA OpStays ==
    ASSUME RowsInv, RowsMove, RowsInv', NEW x, OpOk(x)
    PROVE  OpOk(x)'
<1>1. ASSUME NEW p, IsPin(p) PROVE IsPin(p)'
  BY <1>1, TrueStays DEF IsPin
<1> QED
  BY <1>1 DEF OpOk, IsSight

(* And a cached catalog. *)
LEMMA EntryStays ==
    ASSUME RowsInv, RowsMove, RowsInv', NEW c, NEW e, EntryOk(c, e)
    PROVE  EntryOk(c, e)'
  BY TrueStays DEF EntryOk

(* All of the pins, when no operation moves. *)
LEMMA PinsStay ==
    ASSUME RowsInv, RowsMove, RowsInv', PinsInv, pinOp' = pinOp
    PROVE  PinsInv'
<1>1. ASSUME NEW o \in PinOps PROVE OpOk(pinOp[o])'
  <2> PICK x : x = pinOp[o] OBVIOUS
  <2>1. OpOk(x)
    BY DEF PinsInv
  <2>2. OpOk(x)'
    BY <2>1, OpStays
  <2>3. x = pinOp'[o]
    OBVIOUS
  <2> QED
    BY <2>2, <2>3 DEF OpOk, IsPin, IsSight, TrueFor
<1> QED
  BY <1>1 DEF PinsInv

(* All of the catalogs, when none is written. *)
LEMMA CacheStays ==
    ASSUME RowsInv, RowsMove, RowsInv', CacheInv,
           DOMAIN cache' = Conns, \A c \in Conns : cache'[c] \subseteq cache[c]
    PROVE  CacheInv'
<1>1. ASSUME NEW c \in Conns, NEW e \in cache'[c] PROVE EntryOk(c, e)'
  <2> PICK x : x = e OBVIOUS
  <2>1. EntryOk(c, x)
    BY <1>1 DEF CacheInv
  <2>2. EntryOk(c, x)'
    BY <2>1, EntryStays
  <2> QED
    BY <2>2
<1> QED
  BY <1>1 DEF CacheInv

(* What is read of the rows now is true of them. *)
LEMMA MaterialIsTrue ==
    ASSUME RowsInv, NEW c \in Conns, Visible(c, workspace, account), HasMaterial(c, account)
    PROVE  IsPin(Material(c))
<1> DEFINE m == Material(c)
<1>1. /\ m = [ws |-> m.ws, account |-> m.account, generation |-> m.generation, conn |-> m.conn,
              rev |-> m.rev, brev |-> m.brev, bat |-> m.bat, profile |-> m.profile]
      /\ m.ws = workspace /\ m.account = account /\ m.conn = c /\ m.rev = conn[c].rev
      /\ m.brev = BindingRev(c, account) /\ m.bat = BindingAt(c, account)
      /\ m.profile = ProfileOf(c, account)
  BY DEF Material
<1>2. conn[c] # NoRow /\ conn[c].ws = workspace
  BY DEF Visible
<1>3. c \in SharedIds => workspace \in Teams
  BY <1>2 DEF RowsInv, ConnShape
<1>4. TrueFor(c, account, conn[c].rev, BindingRev(c, account), BindingAt(c, account),
              ProfileOf(c, account))
  <2>1. CASE c \in LocalIds
    <3>1. conn[c].rev \in Nat
      BY <2>1, <1>2, LocalRevs
    <3> QED
      BY <2>1, <3>1, <1>2 DEF TrueFor, BindingRev, BindingAt, ProfileOf
  <2>2. CASE c \in SharedIds /\ c \notin LocalIds
    <3>1. account \in Users /\ binding[c][account] # NoRow
      BY <2>2 DEF HasMaterial
    <3>2. binding[c][account].at \in Nat /\ binding[c][account].at <= clock
      BY <2>2, <3>1 DEF RowsInv, BindingShape
    <3> QED
      BY <2>2, <3>1, <3>2 DEF TrueFor, BindingRev, BindingAt, ProfileOf
  <2> QED
    BY <2>1, <2>2 DEF Conns
<1> QED
  BY <1>1, <1>3, <1>4 DEF IsPin

--------------------------------------------------------------------------------
(* What the invariant says. *)

(* A pin that compares equal holds what the rows hold. *)
LEMMA CurrentPin ==
    ASSUME RowsInv, NEW p, IsPin(p), is_pin_current_with_access(p, TRUE)
    PROVE  /\ p.conn \in Conns
           /\ p = Material(p.conn) /\ p.profile = ProfileOf(p.conn, account)
           /\ p.conn \in SharedIds => p.ws # Personal
<1>1. /\ p.ws = workspace /\ p.account = account /\ p.generation = generation
      /\ HasMaterial(p.conn, account)
      /\ conn[p.conn].rev = p.rev /\ BindingRev(p.conn, account) = p.brev
      /\ BindingAt(p.conn, account) = p.bat
  BY DEF is_pin_current_with_access
<1>2. TrueFor(p.conn, account, p.rev, p.brev, p.bat, p.profile)
  BY <1>1 DEF IsPin
<1>3. p.profile = ProfileOf(p.conn, account)
  <2>1. CASE p.conn \in LocalIds
    BY <2>1, <1>1, <1>2, PinAssumption DEF TrueFor, ProfileOf
  <2>2. CASE p.conn \in SharedIds /\ p.conn \notin LocalIds
    BY <2>2, <1>1, <1>2 DEF TrueFor, ProfileOf, BindingRev, BindingAt, HasMaterial
  <2> QED
    BY <2>1, <2>2, <1>2 DEF TrueFor
<1>4. p.conn \in Conns
  BY <1>2 DEF TrueFor, Conns
<1>5. p = [ws |-> p.ws, account |-> p.account, generation |-> p.generation, conn |-> p.conn,
           rev |-> p.rev, brev |-> p.brev, bat |-> p.bat, profile |-> p.profile]
  BY DEF IsPin
<1>6. p = Material(p.conn)
  BY <1>1, <1>3, <1>5 DEF Material
<1>7. p.conn \in SharedIds => p.ws # Personal
  BY PinAssumption DEF IsPin
<1> QED
  BY <1>3, <1>4, <1>6, <1>7

(* A catalog that is served is of the pin that asks for it. *)
LEMMA ServedCatalog ==
    ASSUME RowsInv, CacheInv, NEW p, IsPin(p), NEW e \in get_catalog_if_current(p)
    PROVE  e.profile = p.profile
<1>1. /\ is_pin_current_with_access(p, FALSE) /\ e \in cache[p.conn]
      /\ e.ws = p.ws /\ e.key = storage_key(p.ws, p.account)
      /\ e.rev = p.rev /\ e.brev = p.brev /\ e.bat = p.bat
  BY DEF get_catalog_if_current, CacheHits
<1>2. is_pin_current_with_access(p, TRUE)
  BY <1>1 DEF is_pin_current_with_access
<1>3. /\ p.conn \in Conns /\ p.profile = ProfileOf(p.conn, account)
      /\ p.conn \in SharedIds => p.ws # Personal
  BY <1>2, CurrentPin
<1>4. EntryOk(p.conn, e)
  BY <1>1, <1>3 DEF CacheInv
<1>5. /\ p.account = account /\ HasMaterial(p.conn, account)
      /\ conn[p.conn].rev = p.rev /\ BindingRev(p.conn, account) = p.brev
      /\ BindingAt(p.conn, account) = p.bat
  BY <1>2 DEF is_pin_current_with_access
<1>6. TrueFor(p.conn, e.key, p.rev, p.brev, p.bat, e.profile)
  BY <1>1, <1>4 DEF EntryOk
<1>7. CASE p.conn \in LocalIds
  BY <1>7, <1>3, <1>5, <1>6, PinAssumption DEF TrueFor, ProfileOf
<1>8. CASE p.conn \in SharedIds /\ p.conn \notin LocalIds
  <2>1. e.key = account
    BY <1>8, <1>1, <1>3, <1>5 DEF storage_key
  <2> QED
    BY <1>8, <2>1, <1>3, <1>5, <1>6 DEF TrueFor, ProfileOf, BindingRev, BindingAt, HasMaterial
<1> QED
  BY <1>7, <1>8, <1>3 DEF Conns

(* An operation that holds a pin. *)
LEMMA PinnedFacts ==
    ASSUME PinsInv, NEW o \in PinOps, Pinned(o)
    PROVE  /\ IsPin(Pin(o)) /\ IsSight(pinOp[o].dash)
           /\ pinOp[o] = [pin |-> Pin(o), read |-> pinOp[o].read, dash |-> pinOp[o].dash]
<1>1. OpOk(pinOp[o]) /\ pinOp[o] # NoRow /\ "pin" \in DOMAIN pinOp[o]
  BY DEF PinsInv, Pinned
<1> QED
  BY <1>1 DEF OpOk, Pin

(* The invariant is enough for what the runs check. *)
LEMMA PinInvMeans ==
    ASSUME PinInv
    PROVE  RevisionsAreTrue
<1>1. CurrentPinIsFaithful
  BY CurrentPin, PinnedFacts DEF CurrentPinIsFaithful, PinInv
<1>2. CatalogIsOfThePin
  BY ServedCatalog, PinnedFacts DEF CatalogIsOfThePin, PinInv
<1>3. OutboxIsExact
  BY DEF OutboxIsExact, PinInv, OutboxInv, ExactUpTo, Announced, AnnouncedRevs, RevOf
<1> QED
  BY <1>1, <1>2, <1>3 DEF RevisionsAreTrue

--------------------------------------------------------------------------------
(* The outbox. *)

(* Appending an event announces its revision, and nothing else. *)
LEMMA AppendAnnounces ==
    ASSUME outbox \in Seq(Events), NEW t, NEW j, NEW op, NEW n \in Nat,
           [type |-> t, id |-> j, operation |-> op, rev |-> n] \in Events,
           enqueue_outbox(t, j, op, n)
    PROVE  /\ outbox' \in Seq(Events)
           /\ Len(outbox) + 1 \notin DOMAIN outbox
           /\ Announced(t, j)' = Announced(t, j) \cup {Len(outbox) + 1}
           /\ AnnouncedRevs(t, j)' = AnnouncedRevs(t, j) \cup {n}
           /\ \A u, k : u # t \/ k # j => /\ Announced(u, k)' = Announced(u, k)
                                          /\ AnnouncedRevs(u, k)' = AnnouncedRevs(u, k)
<1> DEFINE e == [type |-> t, id |-> j, operation |-> op, rev |-> n]
<1> DEFINE z == Len(outbox) + 1
<1>1. outbox' = Append(outbox, e) /\ e \in Events
  BY DEF enqueue_outbox
<1> HIDE DEF e
<1>2. Len(outbox) \in Nat /\ DOMAIN outbox = 1 .. Len(outbox)
  OBVIOUS
<1>3. outbox' \in Seq(Events) /\ DOMAIN outbox' = 1 .. z
      /\ outbox'[z] = e /\ \A i \in DOMAIN outbox : outbox'[i] = outbox[i]
  BY <1>1, <1>2
<1>4. z \notin DOMAIN outbox /\ DOMAIN outbox' = DOMAIN outbox \cup {z}
  BY <1>2, <1>3
<1>5. e.type = t /\ e.id = j /\ e.rev = n
  BY DEF e
<1> HIDE DEF z
<1>6. Announced(t, j)' = Announced(t, j) \cup {z}
  BY <1>3, <1>4, <1>5 DEF Announced
<1>7. \A u, k : u # t \/ k # j => Announced(u, k)' = Announced(u, k)
  BY <1>3, <1>4, <1>5 DEF Announced
<1>8. \A u, k : Announced(u, k) \subseteq DOMAIN outbox
  BY DEF Announced
<1>9. AnnouncedRevs(t, j)' = AnnouncedRevs(t, j) \cup {n}
  BY <1>3, <1>5, <1>6, <1>8 DEF AnnouncedRevs
<1>10. \A u, k : u # t \/ k # j => AnnouncedRevs(u, k)' = AnnouncedRevs(u, k)
  BY <1>3, <1>7, <1>8 DEF AnnouncedRevs
<1> QED
  BY <1>3, <1>4, <1>6, <1>7, <1>9, <1>10 DEF z

(* The next revision is announced after all before it. *)
LEMMA NextIsExact ==
    ASSUME outbox \in Seq(Events), NEW t, NEW j, NEW op, NEW n \in Nat,
           [type |-> t, id |-> j, operation |-> op, rev |-> n + 1] \in Events,
           enqueue_outbox(t, j, op, n + 1), ExactUpTo(t, j, n)
    PROVE  ExactUpTo(t, j, n + 1)'
<1> DEFINE z == Len(outbox) + 1
<1>1. /\ z \notin DOMAIN outbox
      /\ Announced(t, j)' = Announced(t, j) \cup {z}
      /\ AnnouncedRevs(t, j)' = AnnouncedRevs(t, j) \cup {n + 1}
  BY AppendAnnounces
<1>2. z \notin Announced(t, j)
  BY <1>1 DEF Announced
<1>3. IsFiniteSet(Announced(t, j)) /\ Cardinality(Announced(t, j)) = n
      /\ AnnouncedRevs(t, j) = 1 .. n
  BY DEF ExactUpTo
<1> HIDE DEF z
<1>4. /\ IsFiniteSet(Announced(t, j) \cup {z})
      /\ Cardinality(Announced(t, j) \cup {z}) = n + 1
  BY <1>2, <1>3, FS_AddElement
<1>5. (1 .. n) \cup {n + 1} = 1 .. (n + 1)
  OBVIOUS
<1> QED
  BY <1>1, <1>3, <1>4, <1>5 DEF ExactUpTo

(* And the others are announced as before. *)
LEMMA OthersAreExact ==
    ASSUME outbox \in Seq(Events), NEW t, NEW j, NEW op, NEW n \in Nat,
           [type |-> t, id |-> j, operation |-> op, rev |-> n] \in Events,
           enqueue_outbox(t, j, op, n),
           NEW u, NEW k, NEW r, u # t \/ k # j, ExactUpTo(u, k, r)
    PROVE  ExactUpTo(u, k, r)'
<1>1. Announced(u, k)' = Announced(u, k) /\ AnnouncedRevs(u, k)' = AnnouncedRevs(u, k)
  BY AppendAnnounces
<1> QED
  BY <1>1 DEF ExactUpTo

(* Nothing is announced and no revision moves. *)
LEMMA OutboxStays ==
    ASSUME OutboxInv, outbox' = outbox,
           \A c \in LocalIds : RevOf(conn'[c]) = RevOf(conn[c]),
           \A d \in Dashboards : RevOf(dash'[d]) = RevOf(dash[d])
    PROVE  OutboxInv'
<1>1. ASSUME NEW t, NEW j, NEW n, ExactUpTo(t, j, n) PROVE ExactUpTo(t, j, n)'
  BY <1>1 DEF ExactUpTo, Announced, AnnouncedRevs
<1>2. ASSUME NEW c \in LocalIds PROVE ExactUpTo("connection", c, RevOf(conn[c]))'
  <2> PICK r : r = RevOf(conn[c]) OBVIOUS
  <2>1. ExactUpTo("connection", c, r)'
    BY <1>1 DEF OutboxInv
  <2> QED
    BY <2>1 DEF ExactUpTo
<1>3. ASSUME NEW d \in Dashboards PROVE ExactUpTo("dashboard", d, RevOf(dash[d]))'
  <2> PICK r : r = RevOf(dash[d]) OBVIOUS
  <2>1. ExactUpTo("dashboard", d, r)'
    BY <1>1 DEF OutboxInv
  <2> QED
    BY <2>1 DEF ExactUpTo
<1> QED
  BY <1>2, <1>3 DEF OutboxInv

(* A local connection gets its next revision. *)
LEMMA ConnectionIsAnnounced ==
    ASSUME OutboxInv, NEW c \in LocalIds, NEW op \in {"upsert", "delete"}, NEW n \in Nat,
           RevOf(conn[c]) = n, RevOf(conn'[c]) = n + 1, dash' = dash,
           \A x \in LocalIds \ {c} : conn'[x] = conn[x],
           enqueue_outbox("connection", c, op, n + 1)
    PROVE  OutboxInv'
<1>1. outbox \in Seq(Events) /\ ExactUpTo("connection", c, n)
  BY DEF OutboxInv
<1>2. [type |-> "connection", id |-> c, operation |-> op, rev |-> n + 1] \in Events
  BY DEF Events
<1>3. outbox' \in Seq(Events)
  BY <1>1, <1>2, AppendAnnounces
<1>4. ExactUpTo("connection", c, n + 1)'
  BY <1>1, <1>2, NextIsExact
<1>5. ASSUME NEW u, NEW k, NEW r, u # "connection" \/ k # c, ExactUpTo(u, k, r)
      PROVE  ExactUpTo(u, k, r)'
  BY <1>1, <1>2, <1>5, OthersAreExact
<1>6. ASSUME NEW x \in LocalIds PROVE ExactUpTo("connection", x, RevOf(conn[x]))'
  <2>1. CASE x = c
    BY <2>1, <1>4 DEF ExactUpTo
  <2>2. CASE x # c
    <3> PICK r : r = RevOf(conn[x]) OBVIOUS
    <3>1. ExactUpTo("connection", x, r)
      BY DEF OutboxInv
    <3>2. ExactUpTo("connection", x, r)'
      BY <3>1, <2>2, <1>5
    <3>3. r = RevOf(conn'[x])
      BY <2>2
    <3> QED
      BY <3>2, <3>3 DEF ExactUpTo
  <2> QED
    BY <2>1, <2>2
<1>7. ASSUME NEW d \in Dashboards PROVE ExactUpTo("dashboard", d, RevOf(dash[d]))'
  <2> PICK r : r = RevOf(dash[d]) OBVIOUS
  <2>1. ExactUpTo("dashboard", d, r)
    BY DEF OutboxInv
  <2>2. ExactUpTo("dashboard", d, r)'
    BY <2>1, <1>5
  <2> QED
    BY <2>2 DEF ExactUpTo
<1> QED
  BY <1>3, <1>6, <1>7 DEF OutboxInv

(* A dashboard gets its next revision. *)
LEMMA DashboardIsAnnounced ==
    ASSUME OutboxInv, NEW d \in Dashboards, NEW op \in {"upsert", "delete"}, NEW n \in Nat,
           RevOf(dash[d]) = n, RevOf(dash'[d]) = n + 1, conn' = conn,
           \A x \in Dashboards \ {d} : dash'[x] = dash[x],
           enqueue_outbox("dashboard", d, op, n + 1)
    PROVE  OutboxInv'
<1>1. outbox \in Seq(Events) /\ ExactUpTo("dashboard", d, n)
  BY DEF OutboxInv
<1>2. [type |-> "dashboard", id |-> d, operation |-> op, rev |-> n + 1] \in Events
  BY DEF Events
<1>3. outbox' \in Seq(Events)
  BY <1>1, <1>2, AppendAnnounces
<1>4. ExactUpTo("dashboard", d, n + 1)'
  BY <1>1, <1>2, NextIsExact
<1>5. ASSUME NEW u, NEW k, NEW r, u # "dashboard" \/ k # d, ExactUpTo(u, k, r)
      PROVE  ExactUpTo(u, k, r)'
  BY <1>1, <1>2, <1>5, OthersAreExact
<1>6. ASSUME NEW x \in Dashboards PROVE ExactUpTo("dashboard", x, RevOf(dash[x]))'
  <2>1. CASE x = d
    BY <2>1, <1>4 DEF ExactUpTo
  <2>2. CASE x # d
    <3> PICK r : r = RevOf(dash[x]) OBVIOUS
    <3>1. ExactUpTo("dashboard", x, r)
      BY DEF OutboxInv
    <3>2. ExactUpTo("dashboard", x, r)'
      BY <3>1, <2>2, <1>5
    <3>3. r = RevOf(dash'[x])
      BY <2>2
    <3> QED
      BY <3>2, <3>3 DEF ExactUpTo
  <2> QED
    BY <2>1, <2>2
<1>7. ASSUME NEW c \in LocalIds PROVE ExactUpTo("connection", c, RevOf(conn[c]))'
  <2> PICK r : r = RevOf(conn[c]) OBVIOUS
  <2>1. ExactUpTo("connection", c, r)
    BY DEF OutboxInv
  <2>2. ExactUpTo("connection", c, r)'
    BY <2>1, <1>5
  <2> QED
    BY <2>2 DEF ExactUpTo
<1> QED
  BY <1>3, <1>6, <1>7 DEF OutboxInv

--------------------------------------------------------------------------------
(* The steps. *)

(* A step that leaves connections and bindings alone. *)
LEMMA RowsStay ==
    ASSUME RowsInv, UNCHANGED connRows, FetchedShape(fetched')
    PROVE  RowsInv' /\ RowsMove
<1>1. conn' = conn /\ binding' = binding /\ clock' = clock
  BY DEF connRows
<1>2. RowsInv'
  BY <1>1 DEF RowsInv, ConnShape, BindingShape, FetchedShape
<1>3. RowsMove
  BY <1>1 DEF RowsMove, RowsInv
<1> QED
  BY <1>2, <1>3

(* A step that moves nothing the invariant is about. *)
LEMMA QuietPinStep ==
    ASSUME PinInv, UNCHANGED <<connRows, fetched, pinOp, cache, dash, outbox>>
    PROVE  PinInv'
<1>1. RowsInv' /\ RowsMove
  BY RowsStay DEF PinInv, RowsInv
<1>2. PinsInv'
  BY <1>1, PinsStay DEF PinInv
<1>3. CacheInv'
  BY <1>1, CacheStays DEF PinInv, CacheInv
<1>4. DashInv'
  BY DEF PinInv, DashInv, DashShape
<1>5. OutboxInv'
  BY OutboxStays DEF PinInv, connRows
<1> QED
  BY <1>1, <1>2, <1>3, <1>4, <1>5 DEF PinInv

(* A list of shared connections is fetched, or dropped. *)
LEMMA FetchStep ==
    ASSUME PinInv, FetchedShape(fetched'), UNCHANGED <<connRows, pinOp, cache, dash, outbox>>
    PROVE  PinInv'
<1>1. RowsInv' /\ RowsMove
  BY RowsStay DEF PinInv
<1>2. PinsInv'
  BY <1>1, PinsStay DEF PinInv
<1>3. CacheInv'
  BY <1>1, CacheStays DEF PinInv, CacheInv
<1>4. DashInv'
  BY DEF PinInv, DashInv, DashShape
<1>5. OutboxInv'
  BY OutboxStays DEF PinInv, connRows
<1> QED
  BY <1>1, <1>2, <1>3, <1>4, <1>5 DEF PinInv

(* One operation takes or gives back a pin. *)
LEMMA PinStep ==
    ASSUME PinInv, NEW o \in PinOps, NEW x, OpOk(x), pinOp' = [pinOp EXCEPT ![o] = x],
           UNCHANGED <<connRows, fetched, cache, dash, outbox>>
    PROVE  PinInv'
<1>1. RowsInv' /\ RowsMove
  BY RowsStay DEF PinInv, RowsInv
<1>2. PinsInv'
  <2>1. DOMAIN pinOp' = PinOps
    BY DEF PinInv, PinsInv
  <2>2. ASSUME NEW p \in PinOps PROVE OpOk(pinOp[p])'
    <3> PICK y : y = pinOp'[p] OBVIOUS
    <3>1. OpOk(y)
      BY DEF PinInv, PinsInv
    <3>2. OpOk(y)'
      BY <3>1, <1>1, OpStays DEF PinInv
    <3> QED
      BY <3>2 DEF OpOk, IsPin, IsSight, TrueFor
  <2> QED
    BY <2>1, <2>2 DEF PinsInv
<1>3. CacheInv'
  BY <1>1, CacheStays DEF PinInv, CacheInv
<1>4. DashInv'
  BY DEF PinInv, DashInv, DashShape
<1>5. OutboxInv'
  BY OutboxStays DEF PinInv, connRows
<1> QED
  BY <1>1, <1>2, <1>3, <1>4, <1>5 DEF PinInv

(* A local connection is written with its next revision. *)
LEMMA LocalWrite ==
    ASSUME PinInv, NEW c \in LocalIds, NEW op \in {"upsert", "delete"}, NEW n \in Nat,
           RevOf(conn[c]) = n, NEW w, NEW k, NEW b, NEW x,
           conn' = [conn EXCEPT ![c] = [ws |-> w, owner |-> k, rev |-> n + 1, deleted |-> b,
                                        content |-> x]],
           enqueue_outbox("connection", c, op, n + 1),
           UNCHANGED <<binding, clock, fetched, pinOp, cache, dash>>
    PROVE  PinInv'
<1> DEFINE row == [ws |-> w, owner |-> k, rev |-> n + 1, deleted |-> b, content |-> x]
<1>1. /\ DOMAIN conn' = Conns /\ conn'[c] = row
      /\ \A y \in Conns \ {c} : conn'[y] = conn[y]
  BY DEF PinInv, RowsInv, Conns
<1>2. /\ row # NoRow /\ row.rev = n + 1
      /\ row = [ws |-> row.ws, owner |-> row.owner, rev |-> row.rev, deleted |-> row.deleted,
                content |-> row.content]
  BY RowsArePresent
<1> HIDE DEF row
<1>3. c \notin SharedIds
  BY PinAssumption
<1>4. RowsInv'
  <2>1. ASSUME NEW y \in Conns PROVE ConnShape(y, conn[y])'
    <3>1. CASE y = c
      BY <3>1, <1>1, <1>2, <1>3 DEF ConnShape
    <3>2. CASE y # c
      BY <3>2, <1>1 DEF PinInv, RowsInv, ConnShape
    <3> QED
      BY <3>1, <3>2
  <2> QED
    BY <2>1, <1>1 DEF PinInv, RowsInv, BindingShape, FetchedShape
<1>5. RowsMove
  <2>1. conn[c] # NoRow => n = conn[c].rev
    BY DEF RevOf
  <2>2. ASSUME NEW y \in LocalIds
        PROVE  \/ conn'[y] = conn[y]
               \/ conn'[y] # NoRow /\ (conn[y] # NoRow => conn'[y].rev > conn[y].rev)
    BY <1>1, <1>2, <2>1 DEF Conns
  <2> QED
    BY <2>2 DEF RowsMove, PinInv, RowsInv
<1>6. PinsInv'
  BY <1>4, <1>5, PinsStay DEF PinInv
<1>7. CacheInv'
  BY <1>4, <1>5, CacheStays DEF PinInv, CacheInv
<1>8. DashInv'
  BY DEF PinInv, DashInv, DashShape
<1>9. OutboxInv'
  <2>1. RevOf(conn'[c]) = n + 1
    BY <1>1, <1>2 DEF RevOf
  <2>2. \A y \in LocalIds \ {c} : conn'[y] = conn[y]
    BY <1>1 DEF Conns
  <2> QED
    BY <2>1, <2>2, ConnectionIsAnnounced DEF PinInv
<1> QED
  BY <1>4, <1>6, <1>7, <1>8, <1>9 DEF PinInv

(* upsert_connection: a new row, or the next revision of one. *)
LEMMA UpsertRowKeeps ==
    ASSUME PinInv, NEW c \in LocalIds, NEW x, upsert_connection(c, x)
    PROVE  PinInv'
<1> DEFINE owner == IF workspace = Personal THEN NoUser ELSE account
<1> DEFINE n == RevOf(conn[c])
<1>1. n \in Nat /\ (IF conn[c] = NoRow THEN 1 ELSE conn[c].rev + 1) = n + 1
  BY LocalRevs DEF PinInv, RevOf
<1>2. /\ conn' = [conn EXCEPT ![c] = [ws |-> workspace, owner |-> owner, rev |-> n + 1,
                                      deleted |-> FALSE, content |-> x]]
      /\ enqueue_outbox("connection", c, "upsert", n + 1)
      /\ UNCHANGED <<binding, clock, fetched, pinOp, cache, dash>>
  BY <1>1 DEF upsert_connection
<1> HIDE DEF owner, n
<1>3. RevOf(conn[c]) = n
  BY DEF n
<1> QED
  BY <1>1, <1>2, <1>3, LocalWrite

(* set_connections_schema_group and delete_connection change a row. *)
LEMMA LocalEditKeeps ==
    ASSUME PinInv, NEW c \in LocalIds,
           \/ \E x \in Contents : set_connections_schema_group(c, x)
           \/ delete_connection(c)
    PROVE  PinInv'
<1> DEFINE row == conn[c]
<1>1. row # NoRow
  BY DEF set_connections_schema_group, delete_connection, Visible
<1>2. row = [ws |-> row.ws, owner |-> row.owner, rev |-> row.rev, deleted |-> row.deleted,
             content |-> row.content] /\ row.rev \in Nat
  BY <1>1, LocalRevs DEF PinInv, RowsInv, ConnShape, Conns
<1>3. PICK op \in {"upsert", "delete"}, b \in {row.deleted, TRUE}, x \in Contents \cup {row.content} :
         /\ conn' = [conn EXCEPT ![c] = [ws |-> row.ws, owner |-> row.owner, rev |-> row.rev + 1,
                                         deleted |-> b, content |-> x]]
         /\ enqueue_outbox("connection", c, op, row.rev + 1)
  <2>1. ASSUME NEW x \in Contents, set_connections_schema_group(c, x)
        PROVE  /\ conn' = [conn EXCEPT ![c] = [ws |-> row.ws, owner |-> row.owner,
                               rev |-> row.rev + 1, deleted |-> row.deleted, content |-> x]]
               /\ enqueue_outbox("connection", c, "upsert", row.rev + 1)
    <3>1. [row EXCEPT !.rev = row.rev + 1, !.content = x]
            = [ws |-> row.ws, owner |-> row.owner, rev |-> row.rev + 1, deleted |-> row.deleted,
               content |-> x]
      BY <1>2, EditedRows
    <3> QED
      BY <2>1, <3>1 DEF set_connections_schema_group, PinInv, RowsInv, Conns
  <2>2. ASSUME delete_connection(c)
        PROVE  /\ conn' = [conn EXCEPT ![c] = [ws |-> row.ws, owner |-> row.owner,
                               rev |-> row.rev + 1, deleted |-> TRUE, content |-> row.content]]
               /\ enqueue_outbox("connection", c, "delete", row.rev + 1)
    <3>1. [row EXCEPT !.rev = row.rev + 1, !.deleted = TRUE]
            = [ws |-> row.ws, owner |-> row.owner, rev |-> row.rev + 1, deleted |-> TRUE,
               content |-> row.content]
      BY <1>2, EditedRows
    <3> QED
      BY <2>2, <3>1 DEF delete_connection, PinInv, RowsInv, Conns
  <2> QED
    BY <2>1, <2>2
<1>4. UNCHANGED <<binding, clock, fetched, pinOp, cache, dash>>
  BY DEF set_connections_schema_group, delete_connection
<1>5. RevOf(conn[c]) = row.rev
  BY <1>1 DEF RevOf
<1> QED
  BY <1>2, <1>3, <1>4, <1>5, LocalWrite

(* remote_connections and SyncDeferred touch only the fetched list. *)
LEMMA FetchKeeps ==
    ASSUME PinInv,
           SyncDeferred \/ \E t \in Teams, u \in Users : remote_connections(t, u)
    PROVE  PinInv'
<1>1. CASE SyncDeferred
  BY <1>1, FetchStep DEF SyncDeferred, FetchedShape, artifacts
<1>2. ASSUME NEW t \in Teams, NEW u \in Users, remote_connections(t, u) PROVE PinInv'
  <2> DEFINE ids == {x \in SharedIds : template[x].team = t /\ template[x].access[u] # "none"}
  <2> DEFINE l == [c \in ids |-> [rev |-> template[c].rev, access |-> template[c].access[u]]]
  <2>1. fetched' = [team |-> t, user |-> u, list |-> l] /\ DOMAIN l \subseteq SharedIds
    BY <1>2 DEF remote_connections
  <2>2. UNCHANGED <<connRows, pinOp, cache, dash, outbox>>
    BY <1>2 DEF remote_connections, artifacts
  <2> HIDE DEF l
  <2>3. FetchedShape(fetched')
    BY <2>1 DEF FetchedShape
  <2> QED
    BY <2>2, <2>3, FetchStep
<1> QED
  BY <1>1, <1>2

(* A binding that is written in place. *)
LEMMA EditedBindings ==
    ASSUME NEW b, b = [rev |-> b.rev, at |-> b.at, access |-> b.access, cred |-> b.cred],
           NEW r, NEW t, NEW x
    PROVE  /\ [b EXCEPT !.rev = r, !.at = t, !.access = x]
                = [rev |-> r, at |-> t, access |-> x, cred |-> b.cred]
           /\ [b EXCEPT !.cred = x, !.rev = r, !.at = t]
                = [rev |-> r, at |-> t, access |-> b.access, cred |-> x]
<1> DEFINE Fields == {"rev", "at", "access", "cred"}
<1>1. DOMAIN b = Fields
  OBVIOUS
<1>2. [b EXCEPT !.rev = r, !.at = t, !.access = x]
        = [rev |-> r, at |-> t, access |-> x, cred |-> b.cred]
  <2> DEFINE m == [b EXCEPT !.rev = r, !.at = t, !.access = x]
  <2>1. DOMAIN m = Fields /\ m = [f \in DOMAIN m |-> m[f]]
    BY <1>1
  <2>2. m.rev = r /\ m.at = t /\ m.access = x /\ m.cred = b.cred
    BY <1>1
  <2> HIDE DEF m
  <2>3. m = [rev |-> r, at |-> t, access |-> x, cred |-> b.cred]
    BY <2>1, <2>2
  <2> QED
    BY <2>3 DEF m
<1>3. [b EXCEPT !.cred = x, !.rev = r, !.at = t]
        = [rev |-> r, at |-> t, access |-> b.access, cred |-> x]
  <2> DEFINE m == [b EXCEPT !.cred = x, !.rev = r, !.at = t]
  <2>1. DOMAIN m = Fields /\ m = [f \in DOMAIN m |-> m[f]]
    BY <1>1
  <2>2. m.rev = r /\ m.at = t /\ m.access = b.access /\ m.cred = x
    BY <1>1
  <2> HIDE DEF m
  <2>3. m = [rev |-> r, at |-> t, access |-> b.access, cred |-> x]
    BY <2>1, <2>2
  <2> QED
    BY <2>3 DEF m
<1> QED
  BY <1>2, <1>3

(* A binding row that was written at t. *)
WrittenAt(x, t) ==
    x = [rev |-> x.rev, at |-> x.at, access |-> x.access, cred |-> x.cred] /\ x.at = t

(* A synchronized binding is the one there was or is written now. *)
LEMMA SyncedIsNew ==
    ASSUME clock \in Nat, NEW b, BindingShape(b), NEW x
    PROVE  SyncedBinding(b, x) = b \/ WrittenAt(SyncedBinding(b, x), clock + 1)
<1>1. CASE b = NoRow
  BY <1>1 DEF SyncedBinding, WrittenAt
<1>2. CASE b # NoRow /\ b.access = x
  BY <1>2 DEF SyncedBinding
<1>3. CASE b # NoRow /\ b.access # x
  <2>1. b = [rev |-> b.rev, at |-> b.at, access |-> b.access, cred |-> b.cred]
    BY <1>3 DEF BindingShape
  <2> PICK r : r = b.rev + 1 OBVIOUS
  <2> PICK t : t = clock + 1 OBVIOUS
  <2>2. PICK s : s = [b EXCEPT !.rev = r, !.at = t, !.access = x]
    OBVIOUS
  <2>3. s = [rev |-> r, at |-> t, access |-> x, cred |-> b.cred]
    BY <2>1, <2>2, EditedBindings, Zenon
  <2>4. SyncedBinding(b, x) = s
    BY <1>3, <2>2 DEF SyncedBinding
  <2> QED
    BY <2>3, <2>4 DEF WrittenAt
<1> QED
  BY <1>1, <1>2, <1>3

(* Shared rows and bindings are written, the local ones are left alone. *)
LEMMA SharedWrite ==
    ASSUME PinInv, FetchedShape(fetched'), clock' \in Nat, clock <= clock',
           DOMAIN conn' = Conns, \A c \in LocalIds : conn'[c] = conn[c],
           \A c \in SharedIds : ConnShape(c, conn'[c]),
           DOMAIN binding' = SharedIds, \A c \in SharedIds : DOMAIN binding'[c] = Users,
           \A c \in SharedIds : \A u \in Users :
              \/ binding'[c][u] = binding[c][u]
              \/ binding'[c][u] = NoRow
              \/ WrittenAt(binding'[c][u], clock + 1) /\ clock' = clock + 1,
           DOMAIN cache' = Conns, \A c \in Conns : cache'[c] \subseteq cache[c],
           DashInv', \A d \in Dashboards : RevOf(dash'[d]) = RevOf(dash[d]),
           UNCHANGED <<pinOp, outbox>>
    PROVE  PinInv'
<1>1. RowsInv'
  <2>1. ASSUME NEW c \in Conns PROVE ConnShape(c, conn[c])'
    BY DEF ConnShape, PinInv, RowsInv, Conns
  <2>2. ASSUME NEW c \in SharedIds, NEW u \in Users PROVE BindingShape(binding[c][u])'
    <3>1. CASE binding'[c][u] = binding[c][u]
      <4>1. BindingShape(binding[c][u]) /\ clock \in Nat
        BY DEF PinInv, RowsInv
      <4> QED
        BY <4>1, <3>1 DEF BindingShape
    <3>2. CASE binding'[c][u] = NoRow
      BY <3>2 DEF BindingShape
    <3>3. CASE WrittenAt(binding'[c][u], clock + 1) /\ clock' = clock + 1
      BY <3>3 DEF BindingShape, WrittenAt
    <3> QED
      BY <3>1, <3>2, <3>3
  <2> QED
    BY <2>1, <2>2 DEF RowsInv, FetchedShape
<1>2. RowsMove
  <2>1. ASSUME NEW c \in SharedIds, NEW u \in Users
        PROVE  \/ binding'[c][u] = binding[c][u]
               \/ binding'[c][u] = NoRow
               \/ binding'[c][u].at > clock
    <3>1. clock \in Nat
      BY DEF PinInv, RowsInv
    <3>2. clock + 1 > clock
      BY <3>1
    <3>3. ASSUME WrittenAt(binding'[c][u], clock + 1) PROVE binding'[c][u].at > clock
      BY <3>2, <3>3 DEF WrittenAt
    <3> QED
      BY <3>3
  <2> QED
    BY <2>1 DEF RowsMove
<1>3. PinsInv'
  BY <1>1, <1>2, PinsStay DEF PinInv
<1>4. CacheInv'
  BY <1>1, <1>2, CacheStays DEF PinInv
<1>5. OutboxInv'
  BY OutboxStays DEF PinInv
<1> QED
  BY <1>1, <1>3, <1>4, <1>5 DEF PinInv

(* sync_remote_connections. *)
LEMMA SyncKeeps ==
    ASSUME PinInv, sync_remote_connections
    PROVE  PinInv'
<1> DEFINE t == fetched.team
<1> DEFINE u == fetched.user
<1> DEFINE list == fetched.list
<1>1. /\ fetched # NoRow /\ fetched' = NoRow
      /\ UNCHANGED <<pinOp, cache, dash, outbox>>
  BY DEF sync_remote_connections, artifacts
<1>2. t \in Teams /\ u \in Users /\ DOMAIN list \subseteq SharedIds
  BY <1>1 DEF PinInv, RowsInv, FetchedShape
<1>3. FetchedShape(fetched')
  BY <1>1 DEF FetchedShape
<1>4. CASE UNCHANGED connRows
  BY <1>1, <1>3, <1>4, FetchStep
<1>5. CASE ~UNCHANGED connRows
  <2>1. /\ clock' = clock + 1
        /\ conn' = [c \in Conns |->
              IF c \in DOMAIN list
              THEN [ws |-> t, owner |-> NoUser, rev |-> list[c].rev, deleted |-> FALSE,
                    content |-> "shared"]
              ELSE IF c \in SharedIds /\ conn[c] # NoRow /\ conn[c].ws = t
              THEN [conn[c] EXCEPT !.deleted = TRUE] ELSE conn[c]]
        /\ binding' = [c \in SharedIds |->
              IF c \in DOMAIN list
              THEN [binding[c] EXCEPT ![u] = SyncedBinding(@, list[c].access)]
              ELSE IF conn[c] # NoRow /\ conn[c].ws = t THEN [v \in Users |-> NoRow] ELSE binding[c]]
    BY <1>5 DEF sync_remote_connections
  <2> HIDE DEF t, u, list
  <2>2. clock \in Nat /\ clock' \in Nat /\ clock <= clock'
    BY <2>1 DEF PinInv, RowsInv
  <2>3. DOMAIN conn' = Conns
    BY <2>1
  <2>4. ASSUME NEW c \in LocalIds PROVE conn'[c] = conn[c]
    BY <2>1, <1>2, PinAssumption DEF Conns
  <2>5. ASSUME NEW c \in SharedIds PROVE ConnShape(c, conn'[c])
    <3>0. c \in Conns /\ c \notin LocalIds
      BY PinAssumption DEF Conns
    <3>1. CASE c \in DOMAIN list
      <4> DEFINE row == [ws |-> t, owner |-> NoUser, rev |-> list[c].rev, deleted |-> FALSE,
                         content |-> "shared"]
      <4>1. conn'[c] = row
        BY <3>0, <3>1, <2>1
      <4>2. row = [ws |-> row.ws, owner |-> row.owner, rev |-> row.rev, deleted |-> row.deleted,
                   content |-> row.content] /\ row.ws \in Teams
        BY <1>2
      <4> HIDE DEF row
      <4> QED
        BY <3>0, <4>1, <4>2 DEF ConnShape
    <3>2. CASE c \notin DOMAIN list /\ conn[c] # NoRow /\ conn[c].ws = t
      <4> PICK row : row = conn[c] OBVIOUS
      <4>1. row = [ws |-> row.ws, owner |-> row.owner, rev |-> row.rev, deleted |-> row.deleted,
                   content |-> row.content] /\ row.ws = t
        BY <3>0, <3>2 DEF PinInv, RowsInv, ConnShape
      <4>2. conn'[c] = [row EXCEPT !.deleted = TRUE]
        BY <3>0, <3>2, <2>1
      <4>3. conn'[c] = [ws |-> t, owner |-> row.owner, rev |-> row.rev, deleted |-> TRUE,
                        content |-> row.content]
        BY <4>1, <4>2, EditedRows
      <4> QED
        BY <3>0, <4>3, <1>2 DEF ConnShape
    <3>3. CASE c \notin DOMAIN list /\ ~(conn[c] # NoRow /\ conn[c].ws = t)
      <4>1. conn'[c] = conn[c]
        BY <3>0, <3>3, <2>1
      <4> QED
        BY <4>1, <3>0 DEF PinInv, RowsInv
    <3> QED
      BY <3>1, <3>2, <3>3
  <2>6. DOMAIN binding' = SharedIds
    BY <2>1
  <2>7. ASSUME NEW c \in SharedIds
        PROVE  /\ DOMAIN binding'[c] = Users
               /\ \A v \in Users : \/ binding'[c][v] = binding[c][v]
                                   \/ binding'[c][v] = NoRow
                                   \/ WrittenAt(binding'[c][v], clock + 1)
    <3>0. DOMAIN binding[c] = Users /\ \A v \in Users : BindingShape(binding[c][v])
      BY DEF PinInv, RowsInv
    <3>1. CASE c \in DOMAIN list
      <4> DEFINE s == SyncedBinding(binding[c][u], list[c].access)
      <4>1. binding'[c] = [binding[c] EXCEPT ![u] = s]
        BY <3>1, <2>1
      <4>2. s = binding[c][u] \/ WrittenAt(s, clock + 1)
        BY <3>0, <1>2, <2>2, SyncedIsNew
      <4> HIDE DEF s
      <4> QED
        BY <3>0, <4>1, <4>2, <1>2 DEF WrittenAt
    <3>2. CASE c \notin DOMAIN list /\ conn[c] # NoRow /\ conn[c].ws = t
      BY <3>2, <2>1
    <3>3. CASE c \notin DOMAIN list /\ ~(conn[c] # NoRow /\ conn[c].ws = t)
      BY <3>0, <3>3, <2>1
    <3> QED
      BY <3>1, <3>2, <3>3
  <2>8. DOMAIN cache' = Conns /\ \A c \in Conns : cache'[c] \subseteq cache[c]
    BY <1>1 DEF PinInv, CacheInv
  <2>9. DashInv'
    BY <1>1 DEF PinInv, DashInv, DashShape
  <2>10. \A d \in Dashboards : RevOf(dash'[d]) = RevOf(dash[d])
    BY <1>1
  <2> QED
    BY <1>1, <1>3, <2>1, <2>2, <2>3, <2>4, <2>5, <2>6, <2>7, <2>8, <2>9, <2>10, SharedWrite
<1> QED
  BY <1>4, <1>5

(* bind_connection_credentials writes one binding. *)
LEMMA BindKeeps ==
    ASSUME PinInv, NEW c \in SharedIds, NEW u \in Users, NEW x, bind_connection_credentials(c, u, x)
    PROVE  PinInv'
<1> PICK b : b = binding[c][u] OBVIOUS
<1> PICK r : r = b.rev + 1 OBVIOUS
<1> PICK t : t = clock + 1 OBVIOUS
<1>1. /\ b # NoRow /\ clock' = t
      /\ binding' = [binding EXCEPT ![c][u] = [b EXCEPT !.cred = x, !.rev = r, !.at = t]]
      /\ UNCHANGED <<conn, fetched, pinOp, cache, dash, outbox>>
  BY DEF bind_connection_credentials, artifacts
<1>2. b = [rev |-> b.rev, at |-> b.at, access |-> b.access, cred |-> b.cred]
  BY <1>1 DEF PinInv, RowsInv, BindingShape
<1>3. PICK s : s = [b EXCEPT !.cred = x, !.rev = r, !.at = t]
  OBVIOUS
<1>4. WrittenAt(s, t)
  BY <1>2, <1>3, EditedBindings DEF WrittenAt
<1>5. binding' = [binding EXCEPT ![c][u] = s]
  BY <1>1, <1>3
<1>6. /\ clock \in Nat /\ FetchedShape(fetched) /\ DOMAIN conn = Conns
      /\ \A y \in Conns : ConnShape(y, conn[y])
      /\ DOMAIN binding = SharedIds /\ \A y \in SharedIds : DOMAIN binding[y] = Users
  BY DEF PinInv, RowsInv
<1>7. clock' \in Nat /\ clock <= clock'
  BY <1>1, <1>6
<1>8. /\ DOMAIN binding' = SharedIds /\ \A y \in SharedIds : DOMAIN binding'[y] = Users
      /\ \A y \in SharedIds : \A v \in Users :
            binding'[y][v] = (IF y = c /\ v = u THEN s ELSE binding[y][v])
  BY <1>5, <1>6
<1>9. \A y \in SharedIds : \A v \in Users :
         \/ binding'[y][v] = binding[y][v]
         \/ binding'[y][v] = NoRow
         \/ WrittenAt(binding'[y][v], clock + 1) /\ clock' = clock + 1
  <2>1. ASSUME NEW y \in SharedIds, NEW v \in Users, y = c /\ v = u
        PROVE  WrittenAt(binding'[y][v], t)
    BY <2>1, <1>4, <1>8 DEF WrittenAt
  <2>2. ASSUME NEW y \in SharedIds, NEW v \in Users, ~(y = c /\ v = u)
        PROVE  binding'[y][v] = binding[y][v]
    BY <2>2, <1>8
  <2> QED
    BY <1>1, <2>1, <2>2
<1>10. FetchedShape(fetched')
  BY <1>1, <1>6 DEF FetchedShape
<1>11. /\ DOMAIN conn' = Conns /\ \A y \in LocalIds : conn'[y] = conn[y]
       /\ \A y \in SharedIds : ConnShape(y, conn'[y])
  BY <1>1, <1>6 DEF Conns, ConnShape
<1>12. DOMAIN cache' = Conns /\ \A y \in Conns : cache'[y] \subseteq cache[y]
  BY <1>1 DEF PinInv, CacheInv
<1>13. DashInv' /\ \A d \in Dashboards : RevOf(dash'[d]) = RevOf(dash[d])
  BY <1>1 DEF PinInv, DashInv, DashShape
<1> QED
  BY <1>1, <1>7, <1>8, <1>9, <1>10, <1>11, <1>12, <1>13, SharedWrite

(* A dashboard row that is changed in place. *)
LEMMA EditedDashboards ==
    ASSUME NEW row,
           row = [ws |-> row.ws, conn |-> row.conn, rev |-> row.rev, deleted |-> row.deleted,
                  purged |-> row.purged],
           NEW n
    PROVE  /\ [row EXCEPT !.purged = TRUE]
                = [ws |-> row.ws, conn |-> row.conn, rev |-> row.rev, deleted |-> row.deleted,
                   purged |-> TRUE]
           /\ [row EXCEPT !.rev = n, !.deleted = TRUE]
                = [ws |-> row.ws, conn |-> row.conn, rev |-> n, deleted |-> TRUE,
                   purged |-> row.purged]
<1> DEFINE Fields == {"ws", "conn", "rev", "deleted", "purged"}
<1>1. DOMAIN row = Fields
  OBVIOUS
<1>2. [row EXCEPT !.purged = TRUE]
        = [ws |-> row.ws, conn |-> row.conn, rev |-> row.rev, deleted |-> row.deleted, purged |-> TRUE]
  <2> DEFINE m == [row EXCEPT !.purged = TRUE]
  <2>1. DOMAIN m = Fields /\ m = [f \in DOMAIN m |-> m[f]]
    BY <1>1
  <2>2. m.ws = row.ws /\ m.conn = row.conn /\ m.rev = row.rev /\ m.deleted = row.deleted /\ m.purged = TRUE
    BY <1>1
  <2> HIDE DEF m
  <2>3. m = [ws |-> row.ws, conn |-> row.conn, rev |-> row.rev, deleted |-> row.deleted, purged |-> TRUE]
    BY <2>1, <2>2
  <2> QED
    BY <2>3 DEF m
<1>3. [row EXCEPT !.rev = n, !.deleted = TRUE]
        = [ws |-> row.ws, conn |-> row.conn, rev |-> n, deleted |-> TRUE, purged |-> row.purged]
  <2> DEFINE m == [row EXCEPT !.rev = n, !.deleted = TRUE]
  <2>1. DOMAIN m = Fields /\ m = [f \in DOMAIN m |-> m[f]]
    BY <1>1
  <2>2. m.ws = row.ws /\ m.conn = row.conn /\ m.rev = n /\ m.deleted = TRUE /\ m.purged = row.purged
    BY <1>1
  <2> HIDE DEF m
  <2>3. m = [ws |-> row.ws, conn |-> row.conn, rev |-> n, deleted |-> TRUE, purged |-> row.purged]
    BY <2>1, <2>2
  <2> QED
    BY <2>3 DEF m
<1> QED
  BY <1>2, <1>3

(* purge_remote_connection_cache deletes a row and what hangs on it. *)
LEMMA PurgeKeeps ==
    ASSUME PinInv, NEW c \in SharedIds, purge_remote_connection_cache(c)
    PROVE  PinInv'
<1>1. /\ conn' = [conn EXCEPT ![c] = NoRow]
      /\ binding' = [binding EXCEPT ![c] = [u \in Users |-> NoRow]]
      /\ cache' = [cache EXCEPT ![c] = {}]
      /\ dash' = [d \in Dashboards |-> IF dash[d] # NoRow /\ dash[d].conn = c
                                       THEN [dash[d] EXCEPT !.purged = TRUE] ELSE dash[d]]
      /\ UNCHANGED <<clock, fetched, pinOp, outbox>>
  BY DEF purge_remote_connection_cache
<1>2. /\ clock \in Nat /\ FetchedShape(fetched) /\ DOMAIN conn = Conns
      /\ \A y \in Conns : ConnShape(y, conn[y])
      /\ DOMAIN binding = SharedIds /\ \A y \in SharedIds : DOMAIN binding[y] = Users
      /\ c \notin LocalIds
  BY PinAssumption DEF PinInv, RowsInv
<1>3. clock' \in Nat /\ clock <= clock' /\ FetchedShape(fetched')
  BY <1>1, <1>2 DEF FetchedShape
<1>4. /\ DOMAIN conn' = Conns /\ \A y \in LocalIds : conn'[y] = conn[y]
      /\ \A y \in SharedIds : ConnShape(y, conn'[y])
  BY <1>1, <1>2 DEF Conns, ConnShape
<1>5. /\ DOMAIN binding' = SharedIds /\ \A y \in SharedIds : DOMAIN binding'[y] = Users
      /\ \A y \in SharedIds : \A v \in Users :
            binding'[y][v] = binding[y][v] \/ binding'[y][v] = NoRow
  BY <1>1, <1>2
<1>6. DOMAIN cache' = Conns /\ \A y \in Conns : cache'[y] \subseteq cache[y]
  BY <1>1 DEF PinInv, CacheInv, Conns
<1>7. ASSUME NEW d \in Dashboards
      PROVE  DashShape(dash'[d]) /\ RevOf(dash'[d]) = RevOf(dash[d])
  <2> PICK row : row = dash[d] OBVIOUS
  <2>1. DashShape(row)
    BY DEF PinInv, DashInv
  <2>2. CASE row # NoRow /\ row.conn = c
    <3>1. row = [ws |-> row.ws, conn |-> row.conn, rev |-> row.rev, deleted |-> row.deleted,
                 purged |-> row.purged] /\ row.rev \in Nat \ {0} /\ row.conn \in Conns
      BY <2>1, <2>2 DEF DashShape
    <3>2. dash'[d] = [row EXCEPT !.purged = TRUE]
      BY <1>1, <2>2
    <3>3. dash'[d] = [ws |-> row.ws, conn |-> row.conn, rev |-> row.rev, deleted |-> row.deleted,
                      purged |-> TRUE]
      BY <3>1, <3>2, EditedDashboards
    <3>4. DashShape(dash'[d])
      BY <3>1, <3>3 DEF DashShape
    <3>5. dash'[d] # NoRow /\ dash'[d].rev = row.rev
      BY <3>3, RowsArePresent
    <3> QED
      BY <2>2, <3>4, <3>5 DEF RevOf
  <2>3. CASE ~(row # NoRow /\ row.conn = c)
    BY <1>1, <2>1, <2>3
  <2> QED
    BY <2>2, <2>3
<1>8. DashInv' /\ \A d \in Dashboards : RevOf(dash'[d]) = RevOf(dash[d])
  <2>1. DOMAIN dash' = Dashboards
    BY <1>1
  <2> QED
    BY <1>7, <2>1 DEF DashInv, DashShape
<1>9. UNCHANGED <<pinOp, outbox>>
  BY <1>1
<1> QED
  BY <1>3, <1>4, <1>5, <1>6, <1>8, <1>9, SharedWrite

(* pin_connection_with_access, Unpin and find_dashboard. *)
LEMMA PinKeeps ==
    ASSUME PinInv, NEW o \in PinOps,
           \/ \E c \in Conns, r \in BOOLEAN : pin_connection_with_access(o, c, r)
           \/ Unpin(o)
           \/ \E d \in Dashboards : find_dashboard(o, d)
    PROVE  PinInv'
<1>1. ASSUME NEW c \in Conns, NEW r \in BOOLEAN, pin_connection_with_access(o, c, r)
      PROVE  PinInv'
  <2> PICK m : m = Material(c) OBVIOUS
  <2>1. IsPin(m)
    BY <1>1, MaterialIsTrue DEF pin_connection_with_access, PinInv
  <2> DEFINE x == [pin |-> m, read |-> r, dash |-> NoRow]
  <2>2. /\ x = [pin |-> x.pin, read |-> x.read, dash |-> x.dash] /\ "pin" \in DOMAIN x
        /\ x.pin = m /\ x.dash = NoRow
    OBVIOUS
  <2>3. pinOp' = [pinOp EXCEPT ![o] = x] /\ UNCHANGED <<connRows, fetched, cache, dash, outbox>>
    BY <1>1 DEF pin_connection_with_access, artifacts
  <2> HIDE DEF x
  <2>4. OpOk(x)
    BY <2>1, <2>2 DEF OpOk, IsSight
  <2> QED
    BY <2>3, <2>4, PinStep
<1>2. CASE Unpin(o)
  <2>1. OpOk(NoRow)
    BY DEF OpOk
  <2> QED
    BY <1>2, <2>1, PinStep DEF Unpin, artifacts
<1>3. ASSUME NEW d \in Dashboards, find_dashboard(o, d) PROVE PinInv'
  <2> DEFINE x == [found |-> d, rev |-> dash[d].rev, scope |-> scope]
  <2>1. /\ x = [found |-> x.found, rev |-> x.rev, scope |-> x.scope] /\ "found" \in DOMAIN x
        /\ x.found = d
    OBVIOUS
  <2>2. pinOp' = [pinOp EXCEPT ![o] = x] /\ UNCHANGED <<connRows, fetched, cache, dash, outbox>>
    BY <1>3 DEF find_dashboard, artifacts
  <2> HIDE DEF x
  <2>3. OpOk(x)
    BY <2>1 DEF OpOk
  <2> QED
    BY <2>2, <2>3, PinStep
<1> QED
  BY <1>1, <1>2, <1>3

(* pin_dashboard_for_view pins the connection of what it found, or stops. *)
LEMMA ViewKeeps ==
    ASSUME PinInv, NEW o \in PinOps, pin_dashboard_for_view(o)
    PROVE  PinInv'
<1> PICK d : d = pinOp[o].found OBVIOUS
<1> PICK c : c = dash[d].conn OBVIOUS
<1>1. /\ pinOp[o] # NoRow /\ "found" \in DOMAIN pinOp[o]
      /\ UNCHANGED <<connRows, fetched, cache, dash, outbox>>
  BY DEF pin_dashboard_for_view, artifacts
<1>2. d \in Dashboards
  BY <1>1 DEF PinInv, PinsInv, OpOk
<1>3. CASE /\ Visible(c, workspace, account) /\ HasMaterial(c, account) /\ Live(d)
           /\ pinOp' = [pinOp EXCEPT ![o] = [pin |-> Material(c), read |-> FALSE,
                                       dash |-> [id |-> d, rev |-> dash[d].rev]]]
  <2>1. c \in Conns
    BY <1>2, <1>3 DEF Live, PinInv, DashInv, DashShape
  <2> PICK m : m = Material(c) OBVIOUS
  <2> PICK k : k = [id |-> d, rev |-> dash[d].rev] OBVIOUS
  <2>2. IsPin(m)
    BY <1>3, <2>1, MaterialIsTrue DEF PinInv
  <2>3. IsSight(k)
    BY <1>2 DEF IsSight
  <2> DEFINE x == [pin |-> m, read |-> FALSE, dash |-> k]
  <2>4. /\ x = [pin |-> x.pin, read |-> x.read, dash |-> x.dash] /\ "pin" \in DOMAIN x
        /\ x.pin = m /\ x.dash = k
    OBVIOUS
  <2>5. pinOp' = [pinOp EXCEPT ![o] = x]
    BY <1>3
  <2> HIDE DEF x
  <2>6. OpOk(x)
    BY <2>2, <2>3, <2>4 DEF OpOk
  <2> QED
    BY <1>1, <2>5, <2>6, PinStep
<1>4. CASE pinOp' = [pinOp EXCEPT ![o] = NoRow]
  <2>1. OpOk(NoRow)
    BY DEF OpOk
  <2> QED
    BY <1>1, <1>4, <2>1, PinStep
<1> QED
  BY <1>3, <1>4 DEF pin_dashboard_for_view

(* A catalog is written or cleared. *)
LEMMA CacheStep ==
    ASSUME PinInv, NEW c \in Conns, NEW E, \A e \in E : EntryOk(c, e),
           cache' = [cache EXCEPT ![c] = E],
           UNCHANGED <<connRows, fetched, pinOp, dash, outbox>>
    PROVE  PinInv'
<1>1. RowsInv' /\ RowsMove
  BY RowsStay DEF PinInv, RowsInv
<1>2. PinsInv'
  BY <1>1, PinsStay DEF PinInv
<1>3. CacheInv'
  <2>1. DOMAIN cache' = Conns
    BY DEF PinInv, CacheInv
  <2>2. ASSUME NEW y \in Conns, NEW e \in cache'[y] PROVE EntryOk(y, e)'
    <3> PICK x : x = e OBVIOUS
    <3>1. EntryOk(y, x)
      BY <2>2 DEF PinInv, CacheInv
    <3>2. EntryOk(y, x)'
      BY <3>1, <1>1, EntryStays DEF PinInv
    <3> QED
      BY <3>2
  <2> QED
    BY <2>1, <2>2 DEF CacheInv
<1>4. DashInv'
  BY DEF PinInv, DashInv, DashShape
<1>5. OutboxInv'
  BY OutboxStays DEF PinInv, connRows
<1> QED
  BY <1>1, <1>2, <1>3, <1>4, <1>5 DEF PinInv

(* put_catalog_if_current and clear_schema_cache. *)
LEMMA CatalogKeeps ==
    ASSUME PinInv, NEW o \in PinOps, put_catalog_if_current(o) \/ clear_schema_cache(o)
    PROVE  PinInv'
<1> PICK pin : pin = Pin(o) OBVIOUS
<1> PICK key : key = storage_key(pin.ws, pin.account) OBVIOUS
<1> DEFINE rest == {e \in cache[pin.conn] : e.ws # pin.ws \/ e.key # key}
<1> DEFINE new == [ws |-> pin.ws, key |-> key, rev |-> pin.rev, brev |-> pin.brev,
                   bat |-> pin.bat, profile |-> pin.profile]
<1>1. Pinned(o) /\ UNCHANGED <<connRows, fetched, pinOp, dash, outbox>>
  BY DEF put_catalog_if_current, clear_schema_cache
<1>2. IsPin(pin)
  BY <1>1, PinnedFacts DEF PinInv
<1>3. pin.conn \in Conns
  BY <1>2 DEF IsPin, TrueFor, Conns
<1>4. \A e \in rest : EntryOk(pin.conn, e)
  BY <1>3 DEF PinInv, CacheInv
<1>5. EntryOk(pin.conn, new)
  <2>1. /\ new = [ws |-> new.ws, key |-> new.key, rev |-> new.rev, brev |-> new.brev,
                  bat |-> new.bat, profile |-> new.profile]
        /\ new.key = key /\ new.rev = pin.rev /\ new.brev = pin.brev /\ new.bat = pin.bat
        /\ new.profile = pin.profile
    OBVIOUS
  <2> HIDE DEF new
  <2>2. TrueFor(pin.conn, pin.account, pin.rev, pin.brev, pin.bat, pin.profile)
    BY <1>2 DEF IsPin
  <2>3. pin.conn \in SharedIds => key = pin.account
    BY <1>2, PinAssumption DEF IsPin, storage_key
  <2>4. TrueFor(pin.conn, key, pin.rev, pin.brev, pin.bat, pin.profile)
    BY <2>2, <2>3 DEF TrueFor
  <2> QED
    BY <2>1, <2>4 DEF EntryOk
<1>6. CASE put_catalog_if_current(o)
  <2>1. cache' = [cache EXCEPT ![pin.conn] = rest \cup {new}]
    BY <1>6 DEF put_catalog_if_current
  <2>2. \A e \in rest \cup {new} : EntryOk(pin.conn, e)
    BY <1>4, <1>5
  <2> HIDE DEF rest, new
  <2> QED
    BY <1>1, <1>3, <2>1, <2>2, CacheStep
<1>7. CASE clear_schema_cache(o)
  <2>1. cache' = [cache EXCEPT ![pin.conn] = rest]
    BY <1>7 DEF clear_schema_cache
  <2> HIDE DEF rest
  <2> QED
    BY <1>1, <1>3, <1>4, <2>1, CacheStep
<1> QED
  BY <1>6, <1>7

(* A dashboard is written with its next revision. *)
LEMMA DashboardWrite ==
    ASSUME PinInv, NEW d \in Dashboards, NEW op \in {"upsert", "delete"}, NEW n \in Nat,
           RevOf(dash[d]) = n, NEW w, NEW c \in Conns, NEW b, NEW p,
           dash' = [dash EXCEPT ![d] = [ws |-> w, conn |-> c, rev |-> n + 1, deleted |-> b,
                                        purged |-> p]],
           enqueue_outbox("dashboard", d, op, n + 1),
           UNCHANGED <<connRows, fetched, pinOp, cache>>
    PROVE  PinInv'
<1> DEFINE row == [ws |-> w, conn |-> c, rev |-> n + 1, deleted |-> b, purged |-> p]
<1>1. RowsInv' /\ RowsMove
  BY RowsStay DEF PinInv, RowsInv
<1>2. PinsInv'
  BY <1>1, PinsStay DEF PinInv
<1>3. CacheInv'
  BY <1>1, CacheStays DEF PinInv, CacheInv
<1>4. /\ DOMAIN dash' = Dashboards /\ dash'[d] = row
      /\ \A x \in Dashboards \ {d} : dash'[x] = dash[x]
  BY DEF PinInv, DashInv
<1>5. /\ row # NoRow /\ row.rev = n + 1 /\ row.conn = c
      /\ row = [ws |-> row.ws, conn |-> row.conn, rev |-> row.rev, deleted |-> row.deleted,
                purged |-> row.purged]
  BY RowsArePresent
<1> HIDE DEF row
<1>6. DashInv'
  <2>1. ASSUME NEW x \in Dashboards PROVE DashShape(dash'[x])
    <3>1. CASE x = d
      BY <3>1, <1>4, <1>5 DEF DashShape
    <3>2. CASE x # d
      BY <3>2, <1>4 DEF PinInv, DashInv
    <3> QED
      BY <3>1, <3>2
  <2> QED
    BY <2>1, <1>4 DEF DashInv, DashShape
<1>7. OutboxInv'
  <2>1. RevOf(dash'[d]) = n + 1
    BY <1>4, <1>5 DEF RevOf
  <2>2. conn' = conn
    BY DEF connRows
  <2> QED
    BY <1>4, <2>1, <2>2, DashboardIsAnnounced DEF PinInv
<1> QED
  BY <1>1, <1>2, <1>3, <1>6, <1>7 DEF PinInv

(* save_dashboard_if_current. *)
LEMMA SaveKeeps ==
    ASSUME PinInv, NEW o \in PinOps, NEW d \in Dashboards, save_dashboard_if_current(o, d)
    PROVE  PinInv'
<1> PICK w : w = Pin(o).ws OBVIOUS
<1> PICK c : c = Pin(o).conn OBVIOUS
<1>1. Pinned(o) /\ dash[d] = NoRow
  BY DEF save_dashboard_if_current
<1>2. IsPin(Pin(o))
  BY <1>1, PinnedFacts DEF PinInv
<1>3. c \in Conns
  BY <1>2 DEF IsPin, TrueFor, Conns
<1> PICK n \in Nat : n = 0 OBVIOUS
<1> PICK b \in BOOLEAN : b = FALSE OBVIOUS
<1>4. RevOf(dash[d]) = n /\ n + 1 = 1
  BY <1>1 DEF RevOf
<1>5. /\ dash' = [dash EXCEPT ![d] = [ws |-> w, conn |-> c, rev |-> n + 1, deleted |-> b,
                                      purged |-> b]]
      /\ enqueue_outbox("dashboard", d, "upsert", n + 1)
      /\ UNCHANGED <<connRows, fetched, pinOp, cache>>
  BY <1>4 DEF save_dashboard_if_current
<1> QED
  BY <1>3, <1>4, <1>5, DashboardWrite

(* delete_dashboard_if_current. *)
LEMMA DeleteDashboardKeeps ==
    ASSUME PinInv, NEW o \in PinOps, delete_dashboard_if_current(o)
    PROVE  PinInv'
<1> PICK d : d = pinOp[o].dash.id OBVIOUS
<1> PICK row : row = dash[d] OBVIOUS
<1>1. Pinned(o) /\ pinOp[o].dash # NoRow /\ row # NoRow
  BY DEF delete_dashboard_if_current, Live
<1>2. d \in Dashboards
  BY <1>1, PinnedFacts DEF PinInv, IsSight
<1>3. /\ row = [ws |-> row.ws, conn |-> row.conn, rev |-> row.rev, deleted |-> row.deleted,
                purged |-> row.purged]
      /\ row.rev \in Nat /\ row.conn \in Conns
  BY <1>1, <1>2 DEF PinInv, DashInv, DashShape
<1> PICK n \in Nat : n = row.rev BY <1>3
<1> PICK v : v = n + 1 OBVIOUS
<1>4. RevOf(dash[d]) = n
  BY <1>1 DEF RevOf
<1>5. PICK new : new = [row EXCEPT !.rev = v, !.deleted = TRUE]
  OBVIOUS
<1>6. /\ dash' = [dash EXCEPT ![d] = new]
      /\ enqueue_outbox("dashboard", d, "delete", n + 1)
      /\ UNCHANGED <<connRows, fetched, pinOp, cache>>
  BY <1>2, <1>5 DEF delete_dashboard_if_current, PinInv, DashInv
<1>7. new = [ws |-> row.ws, conn |-> row.conn, rev |-> v, deleted |-> TRUE, purged |-> row.purged]
  BY <1>3, <1>5, EditedDashboards
<1> PICK w, c, b, p : w = row.ws /\ c = row.conn /\ b = TRUE /\ p = row.purged OBVIOUS
<1>8. /\ c \in Conns
      /\ dash' = [dash EXCEPT ![d] = [ws |-> w, conn |-> c, rev |-> n + 1, deleted |-> b,
                                      purged |-> p]]
  BY <1>3, <1>6, <1>7
<1>9. PICK op \in {"upsert", "delete"} : enqueue_outbox("dashboard", d, op, n + 1)
  BY <1>6
<1>10. UNCHANGED <<connRows, fetched, pinOp, cache>>
  BY <1>6
<1> QED
  BY <1>2, <1>4, <1>8, <1>9, <1>10, DashboardWrite

--------------------------------------------------------------------------------
(* The specification. *)

(* The desktop starts in the invariant. *)
LEMMA PinInitSound ==
    ASSUME PinInit
    PROVE  PinInv
<1>1. RowsInv
  <2>1. ASSUME NEW c \in Conns PROVE ConnShape(c, conn[c])
    <3>1. CASE c \in LocalIds
      BY <3>1 DEF PinInit, ConnShape
    <3>2. CASE c \in SharedIds /\ c \notin LocalIds
      <4> PICK w : w = template[c].team OBVIOUS
      <4>1. w \in Teams
        BY <3>2 DEF PinInit
      <4>2. conn[c] = [ws |-> w, owner |-> NoUser, rev |-> 1, deleted |-> FALSE, content |-> "shared"]
        BY <3>2 DEF PinInit
      <4> QED
        BY <3>2, <4>1, <4>2 DEF ConnShape
    <3> QED
      BY <3>1, <3>2 DEF Conns
  <2>2. ASSUME NEW c \in SharedIds, NEW u \in Users PROVE BindingShape(binding[c][u])
    <3>1. binding[c][u] = [rev |-> 1, at |-> 0, access |-> "read", cred |-> "none"] /\ clock = 0
      BY DEF PinInit
    <3> QED
      BY <3>1 DEF BindingShape
  <2>3. /\ clock = 0 /\ DOMAIN conn = Conns /\ DOMAIN binding = SharedIds /\ fetched = NoRow
        /\ \A c \in SharedIds : DOMAIN binding[c] = Users
    BY DEF PinInit
  <2> QED
    BY <2>1, <2>2, <2>3 DEF RowsInv, FetchedShape
<1>2. PinsInv
  BY DEF PinInit, PinsInv, OpOk
<1>3. CacheInv
  BY DEF PinInit, CacheInv
<1>4. DashInv
  BY DEF PinInit, DashInv, DashShape
<1>5. OutboxInv
  <2>1. outbox = <<>> /\ \A c \in LocalIds : conn[c] = NoRow
    BY DEF PinInit, Conns
  <2>2. \A d \in Dashboards : dash[d] = NoRow
    BY DEF PinInit
  <2>3. ASSUME NEW t, NEW j PROVE ExactUpTo(t, j, 0)
    <3>1. Announced(t, j) = {} /\ AnnouncedRevs(t, j) = {}
      BY <2>1 DEF Announced, AnnouncedRevs
    <3>2. 1 .. 0 = {}
      OBVIOUS
    <3> QED
      BY <3>1, <3>2, FS_EmptySet DEF ExactUpTo
  <2>4. outbox \in Seq(Events)
    BY <2>1
  <2> QED
    BY <2>1, <2>2, <2>3, <2>4 DEF OutboxInv, RevOf
<1> QED
  BY <1>1, <1>2, <1>3, <1>4, <1>5 DEF PinInv

(* Every step keeps the invariant. *)
LEMMA PinNextSound ==
    ASSUME PinInv, [PinNext]_pinVars
    PROVE  PinInv'
<1>1. CASE \E c \in LocalIds : \/ \E x \in Contents : upsert_connection(c, x) \/ set_connections_schema_group(c, x)
                               \/ delete_connection(c)
  BY <1>1, UpsertRowKeeps, LocalEditKeeps
<1>2. CASE SyncDeferred \/ \E t \in Teams, u \in Users : remote_connections(t, u)
  BY <1>2, FetchKeeps
<1>3. CASE sync_remote_connections
  BY <1>3, SyncKeeps
<1>4. ASSUME NEW c \in SharedIds,
             \/ purge_remote_connection_cache(c)
             \/ ChangeTemplate(c)
             \/ \E u \in Users, x \in Creds : bind_connection_credentials(c, u, x)
      PROVE  PinInv'
  <2>1. CASE ChangeTemplate(c)
    BY <2>1, QuietPinStep DEF ChangeTemplate, artifacts
  <2> QED
    BY <1>4, <2>1, PurgeKeeps, BindKeeps
<1>5. ASSUME NEW o \in PinOps,
             \/ \E c \in Conns, r \in BOOLEAN : pin_connection_with_access(o, c, r)
             \/ Unpin(o)
             \/ insert_history_if_current(o) \/ put_catalog_if_current(o) \/ clear_schema_cache(o)
             \/ \E d \in Dashboards : save_dashboard_if_current(o, d) \/ find_dashboard(o, d)
             \/ pin_dashboard_for_view(o) \/ delete_dashboard_if_current(o)
      PROVE  PinInv'
  <2>1. CASE insert_history_if_current(o)
    BY <2>1, QuietPinStep DEF insert_history_if_current
  <2>2. CASE put_catalog_if_current(o) \/ clear_schema_cache(o)
    BY <2>2, CatalogKeeps
  <2>3. CASE \E d \in Dashboards : save_dashboard_if_current(o, d)
    BY <2>3, SaveKeeps
  <2>4. CASE delete_dashboard_if_current(o)
    BY <2>4, DeleteDashboardKeeps
  <2>5. CASE pin_dashboard_for_view(o)
    BY <2>5, ViewKeeps
  <2>6. CASE \/ \E c \in Conns, r \in BOOLEAN : pin_connection_with_access(o, c, r)
             \/ Unpin(o)
             \/ \E d \in Dashboards : find_dashboard(o, d)
    BY <2>6, PinKeeps
  <2> QED
    BY <1>5, <2>1, <2>2, <2>3, <2>4, <2>5, <2>6
<1>6. CASE ChangeScope \/ ChangeMembers
  BY <1>6, QuietPinStep DEF ChangeScope, ChangeMembers, artifacts
<1>7. CASE UNCHANGED pinVars
  BY <1>7, QuietPinStep DEF pinVars, artifacts
<1> QED
  BY <1>1, <1>2, <1>3, <1>4, <1>5, <1>6, <1>7 DEF PinNext

(* Only insert_history_if_current adds to the history, and only what the   *)
(* rows say of the pin at that moment.                                     *)
LEMMA HistoryStep ==
    ASSUME PinInv, PinNext, NEW h \in history' \ history
    PROVE  /\ h.ws = workspace /\ h.key = storage_key(workspace, account)
           /\ h.profile = ProfileOf(h.conn, account)
<1>1. history' # history /\ ~(history' \subseteq history)
  OBVIOUS
<1>2. PICK o \in PinOps : insert_history_if_current(o)
  <2>1. \A c \in LocalIds, x \in Contents :
           ~upsert_connection(c, x) /\ ~set_connections_schema_group(c, x)
    BY <1>1 DEF upsert_connection, set_connections_schema_group
  <2>2. \A c \in LocalIds : ~delete_connection(c)
    BY <1>1 DEF delete_connection
  <2>3. \A t \in Teams, u \in Users : ~remote_connections(t, u)
    BY <1>1 DEF remote_connections, artifacts
  <2>4. ~sync_remote_connections /\ ~SyncDeferred /\ ~ChangeScope /\ ~ChangeMembers
    BY <1>1 DEF sync_remote_connections, SyncDeferred, ChangeScope, ChangeMembers, artifacts
  <2>5. \A c \in SharedIds : ~purge_remote_connection_cache(c) /\ ~ChangeTemplate(c)
    BY <1>1 DEF purge_remote_connection_cache, ChangeTemplate, artifacts
  <2>6. \A c \in SharedIds, u \in Users, x \in Creds : ~bind_connection_credentials(c, u, x)
    BY <1>1 DEF bind_connection_credentials, artifacts
  <2>7. \A o \in PinOps, c \in Conns, r \in BOOLEAN : ~pin_connection_with_access(o, c, r)
    BY <1>1 DEF pin_connection_with_access, artifacts
  <2>8. \A o \in PinOps : /\ ~Unpin(o) /\ ~put_catalog_if_current(o) /\ ~clear_schema_cache(o)
                          /\ ~pin_dashboard_for_view(o) /\ ~delete_dashboard_if_current(o)
    BY <1>1 DEF Unpin, put_catalog_if_current, clear_schema_cache, pin_dashboard_for_view,
                delete_dashboard_if_current, artifacts
  <2>9. \A o \in PinOps, d \in Dashboards : ~save_dashboard_if_current(o, d) /\ ~find_dashboard(o, d)
    BY <1>1 DEF save_dashboard_if_current, find_dashboard, artifacts
  <2> QED
    BY <2>1, <2>2, <2>3, <2>4, <2>5, <2>6, <2>7, <2>8, <2>9 DEF PinNext
<1> PICK p : p = Pin(o) OBVIOUS
<1>3. Pinned(o) /\ is_pin_current_with_access(p, FALSE) /\ h = Run(o)
  BY <1>2 DEF insert_history_if_current
<1>4. is_pin_current_with_access(p, TRUE) /\ p.ws = workspace /\ p.account = account
  BY <1>3 DEF is_pin_current_with_access
<1>5. IsPin(p)
  BY <1>3, PinnedFacts DEF PinInv
<1>6. p.profile = ProfileOf(p.conn, account)
  BY <1>4, <1>5, CurrentPin DEF PinInv
<1>7. /\ h.ws = p.ws /\ h.key = storage_key(p.ws, p.account) /\ h.profile = p.profile
      /\ h.conn = p.conn
  BY <1>3 DEF Run
<1> QED
  BY <1>4, <1>6, <1>7

(* A pin or a cached catalog that compares equal is of what the rows hold, *)
(* and the outbox names every revision of a local connection and of a      *)
(* dashboard exactly once.                                                 *)
THEOREM RevisionsStayTrue == PinSpec => []RevisionsAreTrue
<1>1. PinInit => PinInv
  BY PinInitSound
<1>2. PinInv /\ [PinNext]_pinVars => PinInv'
  BY PinNextSound
<1>3. PinInv => RevisionsAreTrue
  BY PinInvMeans
<1> QED
  BY <1>1, <1>2, <1>3, PTL DEF PinSpec

(* An execution is recorded only under the scope and the profile that are  *)
(* active when it is recorded.                                             *)
THEOREM HistoryIsOfTheScope == PinSpec => HistoryStaysInScope
<1>1. PinInit => PinInv
  BY PinInitSound
<1>2. PinInv /\ [PinNext]_pinVars => PinInv'
  BY PinNextSound
<1>3. PinInv /\ [PinNext]_pinVars
        => [\A h \in history' \ history :
               /\ h.ws = workspace /\ h.key = storage_key(workspace, account)
               /\ h.profile = ProfileOf(h.conn, account)]_pinVars
  BY HistoryStep
<1> QED
  BY <1>1, <1>2, <1>3, PTL DEF PinSpec, HistoryStaysInScope
================================================================================
