------------------------- MODULE ConnectionRuntimeProofs -------------------------
(***************************************************************************)
(* The pool cache of ConnectionRuntime for every number of requests,       *)
(* mutations, slots and pools, every lifetime and every bound.             *)
(*                                                                         *)
(* What the runs check is not inductive.  That the last owner of a pool is *)
(* the one that closes it needs to be known who the owners are: a pool     *)
(* being opened belongs to one request and to no slot, a pool in use can   *)
(* be cached only in the slot its user found it in, and no pool is cached  *)
(* twice (PoolInv).  That one request opens at a time rests on the mutex   *)
(* of the slot, and on the slot staying mapped for as long as a request    *)
(* holds the gate (OpenInv, TaskSlot, GateInv).                            *)
(***************************************************************************)
EXTENDS ConnectionRuntime, TLAPS

OpeningPcs == {"opening", "opened", "publishing"}
SharingPcs == {"reusing", "handoff", "leased"}

(* The scope gate excludes: a mutation holds it alone. *)
GateInv == \A m \in Mutators, t \in Tasks : mutator[m] = "holding" => task[t].pc = "idle"

(* A slot serves one key. *)
SlotsInv ==
    /\ \A k \in CacheKey : slots[k] # NoSlot => slots[k] \in created
    /\ \A k, l \in CacheKey : slots[k] # NoSlot /\ slots[k] = slots[l] => k = l

(* A request's slot is the one mapped for its key. *)
TaskSlot(t) ==
    /\ task[t].pc \in {"idle", "pinned", "authorized"} => task[t].slot = NoSlot
    /\ task[t].pc \in SharingPcs \cup {"waiting"} => task[t].slot # NoSlot
    /\ task[t].slot # NoSlot => slots[Key(t)] = task[t].slot

TaskSlots == \A t \in Tasks : TaskSlot(t)

(* Whoever opens holds the mutex of an empty slot, alone. *)
OpenInv ==
    /\ \A t \in Tasks : Opens(t) => task[t].slot \in locked /\ entry[task[t].slot] = NoPool
    /\ \A t, u \in Tasks : Opens(t) /\ Opens(u) /\ task[t].slot = task[u].slot => t = u

(* A pool that somebody owns is open, and who can own it together. *)
PoolInv ==
    /\ \A t \in Tasks : task[t].pool # NoPool => lease[task[t].pool] = "held"
    /\ \A s \in Slots : entry[s] # NoPool => lease[entry[s]] = "held"
    /\ \A r, s \in Slots : entry[s] # NoPool /\ entry[r] = entry[s] => r = s
    /\ \A t \in Tasks : task[t].pc \in OpeningPcs =>
          /\ \A u \in Tasks : task[u].pool = task[t].pool => u = t
          /\ \A s \in Slots : entry[s] # task[t].pool
    /\ \A t \in Tasks, s \in Slots :
          task[t].pc \in SharingPcs /\ entry[s] = task[t].pool => s = task[t].slot

(* A request that lost its authority fails its next check. *)
AuthInv ==
    /\ \A t \in Tasks : task[t].pc # "idle" => task[t].pin <= scope
    /\ \A t \in lost : task[t].pc \in BeforeFinalCheck /\ (~granted \/ task[t].pin < scope)

(* In one process nobody holds, and no slot caches, another scope. *)
CurrentInv ==
    ~ForeignWriter => /\ CacheIsCurrent
                      /\ \A t \in Tasks : task[t].pc # "idle" => task[t].pin = scope

Pcs == BeforeFinalCheck \cup {"idle", "handoff", "publishing", "leased"}

Request == [pc: Pcs, pin: 0..MaxScope, access: Accesses,
            slot: Slots \cup {NoSlot}, pool: Pools \cup {NoPool}]

(* What TypeOK says of one request and of one entry. *)
Types ==
    /\ \A t \in Tasks :
          /\ task[t].pc \in Pcs
          /\ task[t].slot \in Slots \cup {NoSlot}
          /\ task[t].pool \in Pools \cup {NoPool}
          /\ task[t].pool = NoPool <=> task[t].pc \in {"idle", "pinned", "authorized", "waiting"}
          /\ task[t].pin \in Nat
          /\ Key(t) \in CacheKey
    /\ \A s \in Slots : entry[s] \in Pools \cup {NoPool}
    /\ \A k \in CacheKey : slots[k] \in Slots \cup {NoSlot}
    /\ scope \in Nat
    /\ lost \subseteq Tasks

Ownership == OpenInv /\ PoolInv /\ NoLeaseIsLeaked

ConnInv ==
    /\ TypeOK
    /\ GateInv
    /\ SlotsInv
    /\ TaskSlots
    /\ Ownership
    /\ AuthInv
    /\ CurrentInv

--------------------------------------------------------------------------------
(* Steps that several actions share. *)

(* The state of a request that is not in flight. *)
LEMMA IdleFacts ==
    /\ Idle.pc = "idle" /\ Idle.pin = 0 /\ Idle.access \in Accesses
    /\ Idle.slot = NoSlot /\ Idle.pool = NoPool
    /\ Idle \in [pc: {"idle"}, pin: 0..MaxScope, access: Accesses, slot: {NoSlot}, pool: {NoPool}]
BY ConnectionAssumption DEF Idle

(* Initially nothing is pinned, cached or leased (Init). *)
LEMMA ConnInit == Init => ConnInv
<1> SUFFICES ASSUME Init PROVE ConnInv
  OBVIOUS
<1> USE IdleFacts, ConnectionAssumption DEF Init
<1>1. TypeOK BY DEF TypeOK
<1>2. GateInv /\ SlotsInv /\ TaskSlots BY DEF GateInv, SlotsInv, TaskSlots, TaskSlot, SharingPcs, Key
<1>3. OpenInv BY DEF OpenInv, Opens
<1>4. PoolInv BY DEF PoolInv, OpeningPcs, SharingPcs
<1>5. NoLeaseIsLeaked BY DEF NoLeaseIsLeaked
<1>6. AuthInv /\ CurrentInv BY DEF AuthInv, CurrentInv, CacheIsCurrent
<1> QED BY <1>1, <1>2, <1>3, <1>4, <1>5, <1>6 DEF ConnInv, Ownership

(* The names for "no slot" and "no pool" are not slots or pools. *)
LEMMA Distinct == NoPool \notin Pools /\ NoSlot \notin Slots
BY ConnectionAssumption

(* The parts of the invariant. *)
LEMMA Parts ==
    ASSUME ConnInv
    PROVE  /\ GateInv /\ SlotsInv /\ TaskSlots /\ OpenInv /\ PoolInv /\ NoLeaseIsLeaked
           /\ AuthInv /\ CurrentInv
           /\ task \in [Tasks -> Request]
           /\ Types
<1>1. task \in [Tasks -> Request] BY DEF ConnInv, TypeOK, Request, Pcs
<1>2. \A t \in Tasks : task[t] \in Request BY <1>1
<1>3. \A t \in Tasks : task[t].pin \in Nat /\ Key(t) \in CacheKey
  BY <1>2, ConnectionAssumption DEF Key, CacheKey, Request
<1>4. scope \in Nat /\ lost \subseteq Tasks BY ConnectionAssumption DEF ConnInv, TypeOK
<1>5. Types
  <2>1. \A t \in Tasks : task[t].pool = NoPool <=> task[t].pc \in {"idle", "pinned", "authorized", "waiting"}
    BY DEF ConnInv, TypeOK
  <2>2. \A t \in Tasks : /\ task[t].pc \in Pcs
                         /\ task[t].slot \in Slots \cup {NoSlot}
                         /\ task[t].pool \in Pools \cup {NoPool}
    BY <1>2 DEF Request
  <2>3. /\ \A s \in Slots : entry[s] \in Pools \cup {NoPool}
        /\ \A k \in CacheKey : slots[k] \in Slots \cup {NoSlot}
    BY DEF ConnInv, TypeOK
  <2> QED BY <1>3, <1>4, <2>1, <2>2, <2>3 DEF Types
<1> QED BY <1>1, <1>5 DEF ConnInv, Ownership

(* Rewriting the state of a request keeps its type. *)
LEMMA Rewritten ==
    ASSUME NEW t \in Tasks, task \in [Tasks -> Request], NEW pc \in Pcs,
           NEW s \in Slots \cup {NoSlot}, NEW p \in Pools \cup {NoPool}
    PROVE  /\ [task EXCEPT ![t].pc = pc, ![t].slot = s] \in [Tasks -> Request]
           /\ [task EXCEPT ![t].pc = pc, ![t].pool = p] \in [Tasks -> Request]
BY DEF Request

(* The moves of a request that keep its pin, slot and pool. *)
Moves == {<<"pinned", "authorized">>, <<"opening", "opened">>, <<"reusing", "handoff">>,
          <<"opened", "publishing">>, <<"handoff", "leased">>}

(* A request that only moves on (the first authorization, driver::connect, *)
(* the check at the boundary of use, the hand-off) disturbs nobody; past   *)
(* the boundary only with its authority intact.                            *)
LEMMA MoveKeeps ==
    ASSUME ConnInv, NEW t \in Tasks, NEW pc, <<task[t].pc, pc>> \in Moves,
           pc \in {"handoff", "publishing"} => Authorized(t),
           Goto(t, pc), UNCHANGED <<authority, cache, leases, lost>>
    PROVE  ConnInv'
<1> USE DEF authority, cache, leases
<1>1. /\ task'[t].pc = pc /\ task'[t].pin = task[t].pin /\ task'[t].access = task[t].access
      /\ task'[t].slot = task[t].slot /\ task'[t].pool = task[t].pool
      /\ \A u \in Tasks : u # t => task'[u] = task[u]
  BY DEF Goto, ConnInv, TypeOK
<1>2. TypeOK'
  BY DEF ConnInv, TypeOK, Goto, Moves, BeforeFinalCheck
<1>3. GateInv' /\ SlotsInv' /\ TaskSlots'
  BY <1>1, Parts DEF GateInv, SlotsInv, TaskSlots, TaskSlot, SharingPcs, Key, Moves, Types, Pcs
<1>4. OpenInv'
  BY <1>1, Parts DEF OpenInv, Opens, Moves, Types
<1>5. PoolInv'
  BY <1>1, Parts DEF PoolInv, OpeningPcs, SharingPcs, Moves, Types, Pcs
<1>6. NoLeaseIsLeaked'
  BY <1>1, Parts DEF NoLeaseIsLeaked, Holders, Cached, Types
<1>7. AuthInv' /\ CurrentInv'
  BY <1>1, Parts DEF AuthInv, CurrentInv, CacheIsCurrent, Authorized, Moves, BeforeFinalCheck, Types, Pcs
<1> QED BY <1>2, <1>3, <1>4, <1>5, <1>6, <1>7 DEF ConnInv, Ownership

(* A request that ends before it has a pool (refused at the first          *)
(* authorization, refused a provider lease) leaves the cache as it is.     *)
LEMMA EndKeeps ==
    ASSUME ConnInv, NEW t \in Tasks, task[t].pool = NoPool,
           EndRequest(t), UNCHANGED <<authority, cache, leases>>
    PROVE  ConnInv'
<1> USE IdleFacts, Distinct DEF authority, cache, leases
<1>1. /\ task'[t] = Idle /\ lost' = lost \ {t}
      /\ \A u \in Tasks : u # t => task'[u] = task[u]
  BY DEF EndRequest, ConnInv, TypeOK
<1>2. TypeOK'
  BY DEF ConnInv, TypeOK, EndRequest
<1>3. GateInv' /\ SlotsInv' /\ TaskSlots'
  BY <1>1, Parts DEF GateInv, SlotsInv, TaskSlots, TaskSlot, SharingPcs, Key, Types, Pcs
<1>4. OpenInv'
  BY <1>1, Parts DEF OpenInv, Opens, Types
<1>5. PoolInv'
  BY <1>1, Parts DEF PoolInv, OpeningPcs, SharingPcs, Types, Pcs
<1>6. NoLeaseIsLeaked'
  BY <1>1, Parts DEF NoLeaseIsLeaked, Holders, Cached, Types
<1>7. AuthInv' /\ CurrentInv'
  BY <1>1, Parts DEF AuthInv, CurrentInv, CacheIsCurrent, Types
<1> QED BY <1>2, <1>3, <1>4, <1>5, <1>6, <1>7 DEF ConnInv, Ownership

(* Giving up on a pool that is being opened: its only owner closes it and  *)
(* the mutex of the slot is free again (retire_opened).                    *)
LEMMA AbandonKeeps ==
    ASSUME ConnInv, NEW t \in Tasks, task[t].pc \in OpeningPcs,
           Abandon(t), UNCHANGED <<authority, slots, entry, timers, created, retire_at>>
    PROVE  ConnInv'
<1> USE IdleFacts, Distinct DEF authority
<1>1. /\ task'[t] = Idle /\ lost' = lost \ {t}
      /\ \A u \in Tasks : u # t => task'[u] = task[u]
      /\ locked' = locked \ {task[t].slot}
  BY DEF Abandon, EndRequest, ConnInv, TypeOK
<1>2. \A p \in Pools : lease'[p] = IF p = task[t].pool THEN "releasing" ELSE lease[p]
  BY DEF Abandon, Dropped, Holders, ConnInv, Ownership, PoolInv, TypeOK
<1>3. lease' \in [Pools -> {"unused", "held", "releasing", "gone"}]
  BY DEF Abandon, Dropped, ConnInv, TypeOK
<1>4. TypeOK'
  BY <1>3 DEF ConnInv, TypeOK, EndRequest, Abandon
<1>5. GateInv' /\ SlotsInv' /\ TaskSlots'
  BY <1>1, Parts DEF GateInv, SlotsInv, TaskSlots, TaskSlot, SharingPcs, Key, Types, Pcs
<1>6. OpenInv'
  BY <1>1, Parts DEF OpenInv, Opens, OpeningPcs, Types, Pcs
<1>7. PoolInv'
  BY <1>1, <1>2, Parts DEF PoolInv, OpeningPcs, SharingPcs, Types, Pcs
<1>8. NoLeaseIsLeaked'
  BY <1>1, <1>2, Parts DEF NoLeaseIsLeaked, Holders, Cached, Types
<1>9. AuthInv' /\ CurrentInv'
  BY <1>1, Parts DEF AuthInv, CurrentInv, CacheIsCurrent, Types
<1> QED BY <1>4, <1>5, <1>6, <1>7, <1>8, <1>9 DEF ConnInv, Ownership

(* A request lets go of a pool it shares: the pool is closed only if it is *)
(* neither cached nor used by another request (Drop for CacheEntry).       *)
LEMMA LetGoKeeps ==
    ASSUME ConnInv, NEW t \in Tasks, task[t].pc \in SharingPcs,
           lease' = LetGo(t, task[t].pool), EndRequest(t), UNCHANGED <<authority, cache, retire_at>>
    PROVE  ConnInv'
<1> USE IdleFacts, Distinct DEF authority, cache
<1>1. /\ task'[t] = Idle /\ lost' = lost \ {t}
      /\ \A u \in Tasks : u # t => task'[u] = task[u]
  BY DEF EndRequest, ConnInv, TypeOK
<1>2. \A p \in Pools : lease'[p] = IF p = task[t].pool /\ ~Cached(p) /\ Holders(p) \subseteq {t}
                                   THEN "releasing" ELSE lease[p]
  BY DEF LetGo, Dropped, ConnInv, Ownership, PoolInv, TypeOK
<1>3. lease' \in [Pools -> {"unused", "held", "releasing", "gone"}]
  BY DEF LetGo, Dropped, ConnInv, TypeOK
<1>4. TypeOK'
  BY <1>3 DEF ConnInv, TypeOK, EndRequest
<1>5. GateInv' /\ SlotsInv' /\ TaskSlots'
  BY <1>1, Parts DEF GateInv, SlotsInv, TaskSlots, TaskSlot, SharingPcs, Key, Types, Pcs
<1>6. OpenInv'
  BY <1>1, Parts DEF OpenInv, Opens, Types
<1>7. PoolInv'
  BY <1>1, <1>2, Parts DEF PoolInv, OpeningPcs, SharingPcs, Holders, Cached, Types, Pcs
<1>8. NoLeaseIsLeaked'
  BY <1>1, <1>2, Parts DEF NoLeaseIsLeaked, Holders, Cached, Types
<1>9. AuthInv' /\ CurrentInv'
  BY <1>1, Parts DEF AuthInv, CurrentInv, CacheIsCurrent, Types
<1> QED BY <1>4, <1>5, <1>6, <1>7, <1>8, <1>9 DEF ConnInv, Ownership

(* A fresh provider lease: nobody can own its pool yet, and the request    *)
(* holds the mutex of its slot if it has one (open, test_fresh).           *)
LEMMA IssueKeeps ==
    ASSUME ConnInv, NEW t \in Tasks, NEW p \in Pools, NEW life \in Lifetimes, Issue(t, p, life),
           \/ CanLock(t) /\ entry[task[t].slot] = NoPool /\ locked' = locked \cup {task[t].slot}
           \/ task[t].pc = "authorized" /\ locked' = locked,
           UNCHANGED <<authority, slots, entry, timers, created>>
    PROVE  ConnInv'
<1> USE Distinct DEF authority
<1>1. /\ task'[t].pc = "opening" /\ task'[t].pin = task[t].pin /\ task'[t].access = task[t].access
      /\ task'[t].slot = task[t].slot /\ task'[t].pool = p
      /\ \A u \in Tasks : u # t => task'[u] = task[u]
      /\ lost' = lost
  BY DEF Issue, ConnInv, TypeOK
<1>2. lease[p] = "unused" /\ \A q \in Pools : lease'[q] = IF q = p THEN "held" ELSE lease[q]
  BY DEF Issue, ConnInv, TypeOK
<1>3. task[t].slot \in Slots \cup {NoSlot} /\ (CanLock(t) => task[t].slot # NoSlot)
  BY DEF ConnInv, TypeOK, TaskSlots, TaskSlot, CanLock
<1>4. TypeOK'
  <2>1. now + life \in Nat BY ConnectionAssumption DEF ConnInv, TypeOK
  <2>2. lease' \in [Pools -> {"unused", "held", "releasing", "gone"}] /\ retire_at' \in [Pools -> Nat]
    BY <2>1 DEF Issue, ConnInv, TypeOK
  <2>3. locked' \subseteq Slots BY <1>3 DEF ConnInv, TypeOK
  <2>4. task' \in [Tasks -> Request]
    BY Parts, Rewritten DEF Issue, Pcs, BeforeFinalCheck
  <2>5. \A u \in Tasks : task'[u].pool = NoPool <=>
                           task'[u].pc \in {"idle", "pinned", "authorized", "waiting"}
    BY <1>1 DEF ConnInv, TypeOK
  <2> QED BY <2>2, <2>3, <2>4, <2>5, <1>1 DEF ConnInv, TypeOK, Request, Pcs
<1>5. GateInv' /\ SlotsInv' /\ TaskSlots'
  BY <1>1, <1>3, Parts DEF GateInv, SlotsInv, TaskSlots, TaskSlot, SharingPcs, Key, CanLock, Types, Pcs
<1>6. OpenInv'
  BY <1>1, <1>3, Parts DEF OpenInv, Opens, CanLock, TaskSlots, TaskSlot, Types
<1>7. PoolInv'
  BY <1>1, <1>2, Parts DEF PoolInv, OpeningPcs, SharingPcs, Types, Pcs
<1>8. NoLeaseIsLeaked'
  BY <1>1, <1>2, Parts DEF NoLeaseIsLeaked, Holders, Cached, CanLock, Types
<1>9. AuthInv' /\ CurrentInv'
  BY <1>1, Parts DEF AuthInv, CurrentInv, CacheIsCurrent, BeforeFinalCheck, CanLock, Types, Pcs
<1> QED BY <1>4, <1>5, <1>6, <1>7, <1>8, <1>9 DEF ConnInv, Ownership

(* The entry of slot s leaves the cache. *)
Detach(s) ==
    /\ entry[s] # NoPool
    /\ entry' = [entry EXCEPT ![s] = NoPool]
    /\ lease' = Dropped({entry[s]}, {})
    /\ timers' \subseteq timers
    /\ UNCHANGED <<authority, task, slots, locked, created, retire_at, lost>>

(* The cache drops the entry of a slot nobody has locked: the pool is      *)
(* closed if no request uses it (an expired entry, schedule_expiry).       *)
LEMMA DetachKeeps ==
    ASSUME ConnInv, NEW s \in Slots, Detach(s)
    PROVE  ConnInv'
<1> USE Distinct DEF authority
<1>1. \A r \in Slots : entry'[r] = IF r = s THEN NoPool ELSE entry[r]
  BY DEF Detach, ConnInv, TypeOK
<1>2. \A p \in Pools : lease'[p] = IF p = entry[s] /\ (\A t \in Tasks : task[t].pool # p)
                                   THEN "releasing" ELSE lease[p]
  BY DEF Detach, Dropped, Holders, ConnInv, Ownership, PoolInv, TypeOK
<1>0. entry[s] # NoPool /\ UNCHANGED <<authority, task, slots, locked, created, retire_at, lost>>
  BY DEF Detach
<1>3. TypeOK'
  BY DEF Detach, ConnInv, TypeOK, Dropped
<1>4. GateInv' /\ SlotsInv' /\ TaskSlots'
  BY <1>0, Parts DEF GateInv, SlotsInv, TaskSlots, TaskSlot, SharingPcs, Key, Types, Pcs
<1>5. OpenInv'
  BY <1>0, <1>1, Parts DEF OpenInv, Opens, Types
<1>6. PoolInv'
  <2>1. \A t \in Tasks : task[t].pool # NoPool => lease'[task[t].pool] = "held"
    BY <1>0, <1>2, Parts DEF PoolInv, Types
  <2>2. \A r \in Slots : entry'[r] # NoPool => lease'[entry'[r]] = "held"
    BY <1>0, <1>1, <1>2, Parts DEF PoolInv, Types
  <2> QED BY <1>0, <1>1, <2>1, <2>2, Parts DEF PoolInv, OpeningPcs, SharingPcs, Types
<1>7. NoLeaseIsLeaked'
  <2> SUFFICES ASSUME NEW p \in Pools, lease'[p] = "held", \A t \in Tasks : task[t].pool # p
               PROVE  \E r \in Slots : entry'[r] = p
    BY <1>0 DEF NoLeaseIsLeaked, Holders, Cached
  <2>1. p # entry[s] /\ lease[p] = "held" BY <1>2
  <2>2. PICK r \in Slots : entry[r] = p
    BY <2>1 DEF ConnInv, Ownership, NoLeaseIsLeaked, Holders, Cached
  <2> QED BY <1>0, <1>1, <2>1, <2>2
<1>8. AuthInv' /\ CurrentInv'
  BY <1>0, <1>1, Parts DEF AuthInv, CurrentInv, CacheIsCurrent, Types
<1> QED BY <1>3, <1>4, <1>5, <1>6, <1>7, <1>8 DEF ConnInv, Ownership

--------------------------------------------------------------------------------
(* The actions of a request. *)

(* A request pins only while no mutation holds the gate (pin,              *)
(* begin_operation_scope).                                                 *)
LEMMA PinKeeps ==
    ASSUME ConnInv, NEW t \in Tasks, NEW a \in Accesses, Pin(t, a)
    PROVE  ConnInv'
<1> USE IdleFacts, Distinct DEF authority, cache, leases
<1>0. PICK r \in Request :
        /\ r.pc = "pinned" /\ r.pin = scope /\ r.access = a /\ r.slot = NoSlot /\ r.pool = NoPool
        /\ task' = [task EXCEPT ![t] = r]
  <2> DEFINE r == [Idle EXCEPT !.pc = "pinned", !.pin = scope, !.access = a]
  <2>1. scope \in 0..MaxScope BY DEF ConnInv, TypeOK
  <2>2. r \in Request BY <2>1 DEF Request, Pcs, BeforeFinalCheck
  <2>3. /\ r.pc = "pinned" /\ r.pin = scope /\ r.access = a /\ r.slot = NoSlot /\ r.pool = NoPool
    OBVIOUS
  <2>4. task' = [task EXCEPT ![t] = r] BY DEF Pin
  <2> HIDE DEF r
  <2> QED BY <2>2, <2>3, <2>4
<1>1. /\ task[t].pc = "idle" /\ task'[t] = r
      /\ \A u \in Tasks : u # t => task'[u] = task[u]
      /\ \A m \in Mutators : mutator[m] = "idle"
      /\ UNCHANGED <<authority, cache, leases, lost>>
  BY <1>0, Parts DEF Pin, GateAdmitsReader
<1>2. TypeOK'
  BY <1>0, <1>1 DEF ConnInv, TypeOK, Request, Pcs
<1>3. GateInv' /\ SlotsInv' /\ TaskSlots'
  BY <1>0, <1>1, Parts DEF GateInv, SlotsInv, TaskSlots, TaskSlot, SharingPcs, Key, Types, Pcs
<1>4. OpenInv'
  BY <1>0, <1>1, Parts DEF OpenInv, Opens, Types
<1>5. PoolInv'
  BY <1>0, <1>1, Parts DEF PoolInv, OpeningPcs, SharingPcs, Types, Pcs
<1>6. NoLeaseIsLeaked'
  BY <1>0, <1>1, Parts DEF NoLeaseIsLeaked, Holders, Cached, Types
<1>7. AuthInv' /\ CurrentInv'
  BY <1>0, <1>1, Parts DEF AuthInv, CurrentInv, CacheIsCurrent, BeforeFinalCheck, Types, Pcs
<1> QED BY <1>2, <1>3, <1>4, <1>5, <1>6, <1>7 DEF ConnInv, Ownership

(* A slot is found or made for the key of the request (connect). *)
LEMMA FindSlotKeeps ==
    ASSUME ConnInv, NEW t \in Tasks, FindSlot(t)
    PROVE  ConnInv'
<1> USE Distinct DEF authority, leases
<1>0. Key(t) \in CacheKey /\ task[t].pc = "authorized" /\ task[t].slot = NoSlot /\ task[t].pool = NoPool
  BY DEF ConnInv, TypeOK, Key, CacheKey, FindSlot, TaskSlots, TaskSlot
<1>1. PICK s \in Slots :
        /\ task' = [task EXCEPT ![t].pc = "waiting", ![t].slot = s]
        /\ \/ slots[Key(t)] = s /\ slots' = slots /\ created' = created
           \/ /\ s \notin created
              /\ created' = created \cup {s} /\ slots' = [slots EXCEPT ![Key(t)] = s]
  BY <1>0 DEF FindSlot, ConnInv, TypeOK
<1>2. /\ task'[t].pc = "waiting" /\ task'[t].pin = task[t].pin /\ task'[t].access = task[t].access
      /\ task'[t].slot = s /\ task'[t].pool = task[t].pool
      /\ \A u \in Tasks : u # t => task'[u] = task[u]
  BY <1>1 DEF ConnInv, TypeOK
<1>3. UNCHANGED <<authority, entry, locked, timers, leases, lost>> BY DEF FindSlot
<1>4. TypeOK'
  <2>1. slots' \in [CacheKey -> Slots \cup {NoSlot}] /\ created' \subseteq Slots
    BY <1>0, <1>1 DEF ConnInv, TypeOK
  <2>2. task' \in [Tasks -> Request]
    BY <1>1, Parts, Rewritten DEF Pcs, BeforeFinalCheck
  <2>3. \A u \in Tasks : task'[u].pool = NoPool <=>
                           task'[u].pc \in {"idle", "pinned", "authorized", "waiting"}
    BY <1>0, <1>2 DEF ConnInv, TypeOK
  <2> QED BY <1>3, <2>1, <2>2, <2>3 DEF ConnInv, TypeOK, Request, Pcs
<1>5. /\ slots'[Key(t)] = s
      /\ \A k \in CacheKey : k # Key(t) => slots'[k] = slots[k]
      /\ \A k \in CacheKey : slots[k] # NoSlot => slots'[k] = slots[k]
  BY <1>0, <1>1 DEF ConnInv, TypeOK, SlotsInv
<1>6. GateInv' BY <1>0, <1>2, <1>3, Parts DEF GateInv, Types
<1>7. SlotsInv' BY <1>0, <1>1, <1>5, Parts DEF SlotsInv, Types
<1>8. TaskSlots'
  <2> SUFFICES ASSUME NEW u \in Tasks PROVE TaskSlot(u)'
    BY DEF TaskSlots
  <2>1. Key(u) \in CacheKey /\ TaskSlot(u) BY DEF ConnInv, TypeOK, Key, CacheKey, TaskSlots
  <2>2. CASE u = t BY <2>2, <1>2, <1>5 DEF TaskSlot, Key, SharingPcs
  <2>3. CASE u # t BY <2>1, <2>3, <1>2, <1>5 DEF TaskSlot, Key, SharingPcs
  <2> QED BY <2>2, <2>3
<1>9. OpenInv'
  BY <1>2, <1>3, Parts DEF OpenInv, Opens, Types
<1>10. PoolInv'
  BY <1>0, <1>2, <1>3, Parts DEF PoolInv, OpeningPcs, SharingPcs, Types, Pcs
<1>11. NoLeaseIsLeaked'
  BY <1>2, <1>3, Parts DEF NoLeaseIsLeaked, Holders, Cached, Types
<1>12. AuthInv' BY <1>0, <1>2, <1>3, Parts DEF AuthInv, BeforeFinalCheck, Types, Pcs
<1>13. CurrentInv'
  <2> SUFFICES ASSUME ~ForeignWriter PROVE CurrentInv'
    BY DEF CurrentInv
  <2>1. Key(t)[1] = scope BY <1>0 DEF ConnInv, CurrentInv, Key
  <2> QED BY <1>0, <1>2, <1>3, <1>5, <2>1 DEF ConnInv, CurrentInv, CacheIsCurrent
<1> QED BY <1>4, <1>6, <1>7, <1>8, <1>9, <1>10, <1>11, <1>12, <1>13 DEF ConnInv, Ownership

(* A cached pool gets one more owner. *)
LEMMA ReuseKeeps ==
    ASSUME ConnInv, NEW t \in Tasks, Reuse(t)
    PROVE  ConnInv'
<1> USE Distinct DEF authority, cache, leases
<1> DEFINE p == entry[task[t].slot]
<1>0. task[t].pc = "waiting" /\ task[t].slot \in Slots /\ task[t].slot \notin locked /\ p \in Pools
  BY DEF ConnInv, TypeOK, TaskSlots, TaskSlot, Reuse, CanLock
<1>1. /\ task'[t].pc = "reusing" /\ task'[t].pin = task[t].pin /\ task'[t].access = task[t].access
      /\ task'[t].slot = task[t].slot /\ task'[t].pool = p
      /\ \A u \in Tasks : u # t => task'[u] = task[u]
      /\ UNCHANGED <<authority, cache, leases, lost>>
  BY DEF Reuse, ConnInv, TypeOK
<1>2. TypeOK'
  <2>1. task' \in [Tasks -> Request]
    BY <1>0, Parts, Rewritten DEF Reuse, Pcs, BeforeFinalCheck
  <2>2. \A u \in Tasks : task'[u].pool = NoPool <=>
                           task'[u].pc \in {"idle", "pinned", "authorized", "waiting"}
    BY <1>0, <1>1 DEF ConnInv, TypeOK
  <2> QED BY <1>1, <2>1, <2>2 DEF ConnInv, TypeOK, Request, Pcs
<1>3. GateInv' /\ SlotsInv' /\ TaskSlots'
  BY <1>0, <1>1, Parts DEF GateInv, SlotsInv, TaskSlots, TaskSlot, SharingPcs, Key, Types, Pcs
<1>4. OpenInv'
  BY <1>0, <1>1, Parts DEF OpenInv, Opens, Types
<1>5. PoolInv'
  BY <1>0, <1>1, Parts DEF PoolInv, OpeningPcs, SharingPcs, Types, Pcs
<1>6. NoLeaseIsLeaked'
  BY <1>0, <1>1, Parts DEF NoLeaseIsLeaked, Holders, Cached, Types
<1>7. AuthInv' /\ CurrentInv'
  BY <1>0, <1>1, Parts DEF AuthInv, CurrentInv, CacheIsCurrent, BeforeFinalCheck, Types, Pcs
<1> QED BY <1>2, <1>3, <1>4, <1>5, <1>6, <1>7 DEF ConnInv, Ownership

(* A reused pool that expired before the hand-off leaves the slot it was   *)
(* found in, the only one that can cache it.                               *)
HandBack(t) ==
    /\ task[t].pc = "handoff"
    /\ entry' = [entry EXCEPT ![task[t].slot] = IF @ = task[t].pool THEN NoPool ELSE @]
    /\ lease' = Dropped({task[t].pool}, {t})
    /\ task' = [task EXCEPT ![t].pc = "waiting", ![t].pool = NoPool]
    /\ UNCHANGED <<authority, slots, locked, timers, created, retire_at, lost>>

(* The loop of connect() starts again without the expired pool. *)
LEMMA HandBackKeeps ==
    ASSUME ConnInv, NEW t \in Tasks, HandBack(t)
    PROVE  ConnInv'
<1> USE Distinct DEF authority
<1>0. /\ task[t].pc = "handoff" /\ task[t].slot \in Slots /\ task[t].pool \in Pools
      /\ UNCHANGED <<authority, slots, locked, timers, created, retire_at, lost>>
  BY Parts DEF HandBack, Types, TaskSlots, TaskSlot, SharingPcs
<1>1. /\ task'[t].pc = "waiting" /\ task'[t].pin = task[t].pin /\ task'[t].access = task[t].access
      /\ task'[t].slot = task[t].slot /\ task'[t].pool = NoPool
      /\ \A u \in Tasks : u # t => task'[u] = task[u]
  BY Parts DEF HandBack, Request
<1>2. \A r \in Slots : entry'[r] = IF entry[r] = task[t].pool THEN NoPool ELSE entry[r]
  <2>1. \A r \in Slots : entry[r] = task[t].pool => r = task[t].slot
    BY <1>0, Parts DEF PoolInv, SharingPcs
  <2>2. entry \in [Slots -> Pools \cup {NoPool}] BY DEF ConnInv, TypeOK
  <2> QED BY <1>0, <2>1, <2>2 DEF HandBack
<1>3. \A p \in Pools : lease'[p] = IF p = task[t].pool /\ (\A u \in Tasks : u # t => task[u].pool # p)
                                   THEN "releasing" ELSE lease[p]
  <2>1. lease[task[t].pool] = "held" BY <1>0, Parts DEF PoolInv
  <2> QED BY <1>0, <2>1, Parts DEF HandBack, Dropped, Holders
<1>4. TypeOK'
  <2>1. task' \in [Tasks -> Request]
    BY Parts, Rewritten DEF HandBack, Pcs, BeforeFinalCheck
  <2>2. \A u \in Tasks : task'[u].pool = NoPool <=>
                           task'[u].pc \in {"idle", "pinned", "authorized", "waiting"}
    BY <1>0, <1>1, Parts DEF Types
  <2>3. entry' \in [Slots -> Pools \cup {NoPool}]
    <3>1. entry \in [Slots -> Pools \cup {NoPool}] BY DEF ConnInv, TypeOK
    <3> QED BY <1>0, <3>1 DEF HandBack
  <2>4. lease' \in [Pools -> {"unused", "held", "releasing", "gone"}]
    BY DEF HandBack, Dropped, ConnInv, TypeOK
  <2> QED BY <1>0, <2>1, <2>2, <2>3, <2>4 DEF ConnInv, TypeOK, Request, Pcs
<1>5. GateInv' /\ SlotsInv' /\ TaskSlots'
  BY <1>0, <1>1, Parts DEF GateInv, SlotsInv, TaskSlots, TaskSlot, SharingPcs, Key, Types
<1>6. OpenInv'
  BY <1>0, <1>1, <1>2, Parts DEF OpenInv, Opens, Types
<1>7. PoolInv'
  <2>1. \A u \in Tasks : task'[u].pool # NoPool => lease'[task'[u].pool] = "held"
    BY <1>0, <1>1, <1>3, Parts DEF PoolInv, Types
  <2>2. \A r \in Slots : entry'[r] # NoPool => lease'[entry'[r]] = "held"
    BY <1>0, <1>2, <1>3, Parts DEF PoolInv, Types
  <2>3. \A r, s \in Slots : entry'[s] # NoPool /\ entry'[r] = entry'[s] => r = s
    BY <1>0, <1>2, Parts DEF PoolInv, Types
  <2>4. \A u \in Tasks : task'[u].pc \in OpeningPcs =>
          /\ \A v \in Tasks : task'[v].pool = task'[u].pool => v = u
          /\ \A s \in Slots : entry'[s] # task'[u].pool
    BY <1>0, <1>1, <1>2, Parts DEF PoolInv, OpeningPcs, Types
  <2>5. \A u \in Tasks, s \in Slots :
          task'[u].pc \in SharingPcs /\ entry'[s] = task'[u].pool => s = task'[u].slot
    BY <1>0, <1>1, <1>2, Parts DEF PoolInv, SharingPcs, Types
  <2> QED BY <2>1, <2>2, <2>3, <2>4, <2>5 DEF PoolInv
<1>8. NoLeaseIsLeaked'
  <2> SUFFICES ASSUME NEW p \in Pools, lease'[p] = "held", \A u \in Tasks : task'[u].pool # p
               PROVE  \E r \in Slots : entry'[r] = p
    BY DEF NoLeaseIsLeaked, Holders, Cached
  <2>1. p # task[t].pool /\ lease[p] = "held" /\ \A u \in Tasks : task[u].pool # p
    BY <1>0, <1>1, <1>3
  <2>2. PICK r \in Slots : entry[r] = p
    BY <2>1, Parts DEF NoLeaseIsLeaked, Holders, Cached
  <2> QED BY <1>2, <2>1, <2>2
<1>9. AuthInv' /\ CurrentInv'
  BY <1>0, <1>1, <1>2, Parts DEF AuthInv, CurrentInv, CacheIsCurrent, BeforeFinalCheck, Types
<1> QED BY <1>4, <1>5, <1>6, <1>7, <1>8, <1>9 DEF ConnInv, Ownership

(* An opened pool gets into the slot its opener has locked. *)
PublishPool(t) ==
    /\ task[t].pc = "publishing" /\ task[t].slot # NoSlot
    /\ entry' = [entry EXCEPT ![task[t].slot] = task[t].pool]
    /\ timers' = timers \cup {<<task[t].slot, task[t].pool>>}
    /\ locked' = locked \ {task[t].slot}
    /\ Goto(t, "leased")
    /\ UNCHANGED <<authority, slots, created, lease, retire_at, lost>>

(* The published pool is the only one of its slot and its key. *)
LEMMA PublishKeeps ==
    ASSUME ConnInv, NEW t \in Tasks, PublishPool(t)
    PROVE  ConnInv'
<1> USE Distinct DEF authority
<1>0. /\ task[t].pc = "publishing" /\ task[t].slot \in Slots /\ task[t].pool \in Pools
      /\ locked' = locked \ {task[t].slot}
      /\ UNCHANGED <<authority, slots, created, lease, retire_at, lost>>
  BY Parts DEF PublishPool, Types
<1>1. /\ task'[t].pc = "leased" /\ task'[t].pin = task[t].pin /\ task'[t].access = task[t].access
      /\ task'[t].slot = task[t].slot /\ task'[t].pool = task[t].pool
      /\ \A u \in Tasks : u # t => task'[u] = task[u]
  BY Parts DEF PublishPool, Goto, Request
<1>2. \A r \in Slots : entry'[r] = IF r = task[t].slot THEN task[t].pool ELSE entry[r]
  BY <1>0 DEF PublishPool, ConnInv, TypeOK
<1>3. entry[task[t].slot] = NoPool /\ Opens(t) BY <1>0, Parts DEF OpenInv, Opens
<1>4. TypeOK'
  <2>1. task' \in [Tasks -> Request]
    BY Parts DEF PublishPool, Goto, Request, Pcs
  <2>2. \A u \in Tasks : task'[u].pool = NoPool <=>
                           task'[u].pc \in {"idle", "pinned", "authorized", "waiting"}
    BY <1>0, <1>1, Parts DEF Types
  <2>3. /\ entry' \in [Slots -> Pools \cup {NoPool}] /\ timers' \subseteq Slots \X Pools
    BY <1>0 DEF PublishPool, ConnInv, TypeOK
  <2> QED BY <1>0, <2>1, <2>2, <2>3 DEF ConnInv, TypeOK, Request, Pcs
<1>5. GateInv' /\ SlotsInv' /\ TaskSlots'
  BY <1>0, <1>1, Parts DEF GateInv, SlotsInv, TaskSlots, TaskSlot, SharingPcs, Key, Types
<1>6. OpenInv'
  BY <1>0, <1>1, <1>2, <1>3, Parts DEF OpenInv, Opens, Types
<1>7. PoolInv'
  <2>1. \A u \in Tasks : task'[u].pool # NoPool => lease'[task'[u].pool] = "held"
    BY <1>0, <1>1, Parts DEF PoolInv, Types
  <2>2. \A r \in Slots : entry'[r] # NoPool => lease'[entry'[r]] = "held"
    BY <1>0, <1>2, Parts DEF PoolInv, Types
  <2>3. \A r, s \in Slots : entry'[s] # NoPool /\ entry'[r] = entry'[s] => r = s
    BY <1>0, <1>2, Parts DEF PoolInv, OpeningPcs, Types
  <2>4. \A u \in Tasks : task'[u].pc \in OpeningPcs =>
          /\ \A v \in Tasks : task'[v].pool = task'[u].pool => v = u
          /\ \A s \in Slots : entry'[s] # task'[u].pool
    BY <1>0, <1>1, <1>2, Parts DEF PoolInv, OpeningPcs, Types
  <2>5. \A u \in Tasks, s \in Slots :
          task'[u].pc \in SharingPcs /\ entry'[s] = task'[u].pool => s = task'[u].slot
    BY <1>0, <1>1, <1>2, Parts DEF PoolInv, SharingPcs, OpeningPcs, Types
  <2> QED BY <2>1, <2>2, <2>3, <2>4, <2>5 DEF PoolInv
<1>8. NoLeaseIsLeaked'
  <2> SUFFICES ASSUME NEW p \in Pools, lease'[p] = "held", \A u \in Tasks : task'[u].pool # p
               PROVE  \E r \in Slots : entry'[r] = p
    BY DEF NoLeaseIsLeaked, Holders, Cached
  <2>1. p # task[t].pool /\ lease[p] = "held" /\ \A u \in Tasks : task[u].pool # p
    BY <1>0, <1>1
  <2>2. PICK r \in Slots : entry[r] = p
    BY <2>1, Parts DEF NoLeaseIsLeaked, Holders, Cached
  <2> QED BY <1>2, <1>3, <2>2
<1>9. AuthInv'
  BY <1>0, <1>1, Parts DEF AuthInv, BeforeFinalCheck, Types
<1>10. CurrentInv'
  <2> SUFFICES ASSUME ~ForeignWriter PROVE CurrentInv'
    BY DEF CurrentInv
  <2>1. Key(t)[1] = scope /\ Key(t) \in CacheKey BY <1>0, Parts DEF CurrentInv, Key, Types
  <2>2. \A k \in CacheKey : slots[k] = task[t].slot => k = Key(t)
    BY <1>0, <2>1, Parts DEF SlotsInv, TaskSlots, TaskSlot
  <2>3. CacheIsCurrent'
    BY <1>0, <1>2, <2>1, <2>2, Parts DEF CurrentInv, CacheIsCurrent, Types
  <2> QED BY <1>0, <1>1, <2>3, Parts DEF CurrentInv
<1> QED BY <1>4, <1>5, <1>6, <1>7, <1>8, <1>9, <1>10 DEF ConnInv, Ownership

--------------------------------------------------------------------------------
(* Mutations, timers and the outside world. *)

(* The gate is taken and queued for without touching a request. *)
LEMMA GateKeeps ==
    ASSUME ConnInv, NEW m \in Mutators, QueueMutation(m) \/ TakeGate(m)
    PROVE  ConnInv'
<1> USE DEF cache, leases
<1>0. UNCHANGED <<scope, granted, now, task, slots, entry, locked, timers, created, lease, retire_at, lost>>
  BY DEF QueueMutation, TakeGate
<1>1. TypeOK' BY <1>0 DEF ConnInv, TypeOK, QueueMutation, TakeGate
<1>2. GateInv'
  <2>1. mutator \in [Mutators -> {"idle", "queued", "holding"}] BY DEF ConnInv, TypeOK
  <2> QED BY <1>0, <2>1, Parts DEF GateInv, QueueMutation, TakeGate, GateAdmitsWriter, HoldsGate
<1>3. SlotsInv' /\ TaskSlots' BY <1>0, Parts DEF SlotsInv, TaskSlots, TaskSlot, Key
<1>4. OpenInv' /\ PoolInv' BY <1>0, Parts DEF OpenInv, Opens, PoolInv
<1>5. NoLeaseIsLeaked' BY <1>0, Parts DEF NoLeaseIsLeaked, Holders, Cached
<1>6. AuthInv' /\ CurrentInv' BY <1>0, Parts DEF AuthInv, CurrentInv, CacheIsCurrent
<1> QED BY <1>1, <1>2, <1>3, <1>4, <1>5, <1>6 DEF ConnInv, Ownership

(* A mutation holds the gate, so nobody uses the pools it detaches         *)
(* (activate_workspace, sync_remote_connections, retire_connections).      *)
LEMMA MutateKeeps ==
    ASSUME ConnInv, NEW m \in Mutators, Mutate(m)
    PROVE  ConnInv'
<1> USE Distinct
<1>0. /\ mutator[m] = "holding" /\ mutator' = [mutator EXCEPT ![m] = "idle"]
      /\ UNCHANGED <<granted, now, task, locked, timers, created, retire_at, lost>>
  BY DEF Mutate
<1>1. \A t \in Tasks : /\ task[t].pc = "idle" /\ task[t].slot = NoSlot /\ task[t].pool = NoPool
  BY <1>0, Parts DEF GateInv, TaskSlots, TaskSlot, Types
<1>2. GateInv'
  <2>1. mutator \in [Mutators -> {"idle", "queued", "holding"}] BY DEF ConnInv, TypeOK
  <2> QED BY <1>0, <1>1 DEF GateInv
<1>3. lost = {} BY <1>1, Parts DEF AuthInv, Types, BeforeFinalCheck
<1>4. CASE UNCHANGED <<scope, slots, entry, lease>>
  <2>1. TypeOK' BY <1>0, <1>4 DEF ConnInv, TypeOK
  <2>2. SlotsInv' /\ TaskSlots' BY <1>0, <1>4, Parts DEF SlotsInv, TaskSlots, TaskSlot, Key
  <2>3. OpenInv' /\ PoolInv' BY <1>0, <1>4, Parts DEF OpenInv, Opens, PoolInv
  <2>4. NoLeaseIsLeaked' BY <1>0, <1>4, Parts DEF NoLeaseIsLeaked, Holders, Cached
  <2>5. AuthInv' /\ CurrentInv' BY <1>0, <1>4, Parts DEF AuthInv, CurrentInv, CacheIsCurrent
  <2> QED BY <1>2, <2>1, <2>2, <2>3, <2>4, <2>5 DEF ConnInv, Ownership
<1>5. CASE /\ scope' \in {scope, scope + 1} /\ scope' <= MaxScope
           /\ slots' = [k \in CacheKey |-> NoSlot]
           /\ entry' = [s \in Slots |-> IF \E k \in CacheKey : slots[k] = s THEN NoPool ELSE entry[s]]
           /\ lease' = Dropped({p \in Pools : \E k \in CacheKey :
                                   slots[k] # NoSlot /\ entry[slots[k]] = p}, {})
  <2>a. scope' \in 0..MaxScope BY <1>5, ConnectionAssumption DEF ConnInv, TypeOK
  <2>b. \A k \in CacheKey : slots'[k] = NoSlot BY <1>5
  <2>c. \A s \in Slots : entry'[s] = IF \E k \in CacheKey : slots[k] = s THEN NoPool ELSE entry[s]
    BY <1>5
  <2>d. \A p \in Pools : lease'[p] = IF /\ lease[p] = "held"
                                        /\ \E k \in CacheKey : slots[k] # NoSlot /\ entry[slots[k]] = p
                                     THEN "releasing" ELSE lease[p]
    <3>1. \A p \in Pools : Holders(p) = {} BY <1>1 DEF Holders
    <3> QED BY <1>5, <3>1, Zenon DEF Dropped
  <2>1. TypeOK'
    <3>1. slots' \in [CacheKey -> Slots \cup {NoSlot}] BY <1>5
    <3>2. entry' \in [Slots -> Pools \cup {NoPool}] BY <1>5, Parts DEF Types
    <3>3. lease' \in [Pools -> {"unused", "held", "releasing", "gone"}]
      <4>1. lease \in [Pools -> {"unused", "held", "releasing", "gone"}] BY DEF ConnInv, TypeOK
      <4> QED BY <1>5, <4>1 DEF Dropped
    <3>4. mutator' \in [Mutators -> {"idle", "queued", "holding"}] BY <1>0 DEF ConnInv, TypeOK
    <3> QED BY <1>0, <2>a, <3>1, <3>2, <3>3, <3>4 DEF ConnInv, TypeOK
  <2>2. SlotsInv' /\ TaskSlots' BY <1>0, <1>1, <2>b DEF SlotsInv, TaskSlots, TaskSlot, SharingPcs
  <2>3. OpenInv' BY <1>0, <1>1 DEF OpenInv, Opens
  <2>4. PoolInv'
    <3>1. \A s \in Slots : entry'[s] # NoPool => lease'[entry'[s]] = "held"
      <4> SUFFICES ASSUME NEW s \in Slots, entry'[s] # NoPool PROVE lease'[entry'[s]] = "held"
        OBVIOUS
      <4>1. entry'[s] = entry[s] /\ (\A k \in CacheKey : slots[k] # s) /\ entry[s] \in Pools
        BY <2>c, Parts DEF Types
      <4>2. \A k \in CacheKey : slots[k] # NoSlot => entry[slots[k]] # entry[s]
        BY <4>1, Parts DEF PoolInv, Types
      <4> QED BY <4>1, <4>2, <2>d, Parts DEF PoolInv
    <3>2. \A r, s \in Slots : entry'[s] # NoPool /\ entry'[r] = entry'[s] => r = s
      BY <2>c, Parts DEF PoolInv
    <3> QED BY <1>0, <1>1, <3>1, <3>2 DEF PoolInv, OpeningPcs, SharingPcs
  <2>5. NoLeaseIsLeaked'
    <3> SUFFICES ASSUME NEW p \in Pools, lease'[p] = "held"
                 PROVE  \E s \in Slots : entry'[s] = p
      BY DEF NoLeaseIsLeaked, Cached
    <3>1. /\ lease[p] = "held"
          /\ ~ \E k \in CacheKey : slots[k] # NoSlot /\ entry[slots[k]] = p
      BY <2>d
    <3>2. PICK s \in Slots : entry[s] = p
      BY <1>1, <3>1, Parts DEF NoLeaseIsLeaked, Holders, Cached
    <3> QED BY <2>c, <3>1, <3>2
  <2>6. AuthInv' /\ CurrentInv'
    BY <1>0, <1>1, <1>3, <2>b DEF AuthInv, CurrentInv, CacheIsCurrent
  <2> QED BY <1>2, <2>1, <2>2, <2>3, <2>4, <2>5, <2>6 DEF ConnInv, Ownership
<1> QED BY <1>4, <1>5 DEF Mutate

(* Losing the grant, and the overtaking of a pin by another process, mark  *)
(* the requests whose final check is still to come.                        *)
LEMMA LoseKeeps ==
    ASSUME ConnInv, Revoke \/ ForeignChange
    PROVE  ConnInv'
<1> USE DEF cache, leases
<1>0. /\ UNCHANGED <<now, mutator, task, slots, entry, locked, timers, created, lease, retire_at>>
      /\ lost' = lost \cup {t \in Tasks : task[t].pc \in BeforeFinalCheck}
      /\ \/ scope' = scope /\ granted' = FALSE
         \/ ForeignWriter /\ scope' = scope + 1 /\ scope < MaxScope /\ granted' = granted
  BY DEF Revoke, ForeignChange, LoseAuthority
<1>1. TypeOK'
  <2>1. scope' \in 0..MaxScope BY <1>0, ConnectionAssumption DEF ConnInv, TypeOK
  <2>2. granted' \in BOOLEAN BY <1>0 DEF ConnInv, TypeOK
  <2> QED BY <1>0, <2>1, <2>2 DEF ConnInv, TypeOK
<1>2. GateInv' BY <1>0, Parts DEF GateInv
<1>3. SlotsInv' /\ TaskSlots' BY <1>0, Parts DEF SlotsInv, TaskSlots, TaskSlot, Key
<1>4. OpenInv' /\ PoolInv' BY <1>0, Parts DEF OpenInv, Opens, PoolInv
<1>5. NoLeaseIsLeaked' BY <1>0, Parts DEF NoLeaseIsLeaked, Holders, Cached
<1>6. AuthInv'
  <2>1. \A t \in Tasks : task[t].pc # "idle" => task[t].pin <= scope' /\ (~granted' \/ task[t].pin < scope')
    BY <1>0, Parts DEF AuthInv, Types
  <2> QED BY <1>0, <2>1, Parts DEF AuthInv, Types, BeforeFinalCheck
<1>7. CurrentInv' BY <1>0, Parts DEF CurrentInv, CacheIsCurrent
<1> QED BY <1>1, <1>2, <1>3, <1>4, <1>5, <1>6, <1>7 DEF ConnInv, Ownership

(* The release call and the clock concern no owner (release_managed_bounded). *)
LEMMA OutsideKeeps ==
    ASSUME ConnInv, Tick \/ \E p \in Pools : Release(p)
    PROVE  ConnInv'
<1> USE DEF cache, leases, authority
<1>0. UNCHANGED <<scope, granted, mutator, task, slots, entry, locked, timers, created, retire_at, lost>>
  BY DEF Tick, Release
<1>1. \A p \in Pools : lease'[p] # lease[p] => lease[p] = "releasing" /\ lease'[p] = "gone"
  BY DEF Tick, Release, ConnInv, TypeOK
<1>2. TypeOK'
  <2>1. now' \in 0..MaxTime BY ConnectionAssumption DEF Tick, Release, ConnInv, TypeOK
  <2>2. lease' \in [Pools -> {"unused", "held", "releasing", "gone"}]
    BY DEF Tick, Release, ConnInv, TypeOK
  <2> QED BY <1>0, <2>1, <2>2 DEF ConnInv, TypeOK
<1>3. GateInv' BY <1>0, Parts DEF GateInv
<1>4. SlotsInv' /\ TaskSlots' BY <1>0, Parts DEF SlotsInv, TaskSlots, TaskSlot, Key
<1>5. OpenInv' BY <1>0, Parts DEF OpenInv, Opens
<1>6. PoolInv' BY <1>0, <1>1, Parts DEF PoolInv, Types
<1>7. NoLeaseIsLeaked' BY <1>0, <1>1, Parts DEF NoLeaseIsLeaked, Holders, Cached
<1>8. AuthInv' /\ CurrentInv' BY <1>0, Parts DEF AuthInv, CurrentInv, CacheIsCurrent
<1> QED BY <1>2, <1>3, <1>4, <1>5, <1>6, <1>7, <1>8 DEF ConnInv, Ownership

--------------------------------------------------------------------------------
(* The steps of the specification. *)

(* Every step of a request keeps the invariant. *)
LEMMA TaskStepKeeps ==
    ASSUME ConnInv, NEW t \in Tasks, TaskStep(t)
    PROVE  ConnInv'
<1> USE DEF Moves
<1>1. CASE Authorize(t)
  <2>1. CASE Goto(t, "authorized") /\ UNCHANGED lost
    BY <1>1, <2>1, MoveKeeps DEF Authorize
  <2>2. CASE EndRequest(t) BY <1>1, <2>2, EndKeeps, Parts DEF Authorize, Types
  <2> QED BY <1>1, <2>1, <2>2 DEF Authorize
<1>2. CASE FindSlot(t) BY <1>2, FindSlotKeeps
<1>3. CASE Reuse(t) BY <1>3, ReuseKeeps
<1>4. CASE TakeExpired(t)
  <2>1. task[t].slot \in Slots BY <1>4, Parts DEF TakeExpired, CanLock, Types, TaskSlots, TaskSlot
  <2>2. Detach(task[t].slot) BY <1>4 DEF TakeExpired, Detach
  <2> QED BY <2>1, <2>2, DetachKeeps
<1>5. CASE Open(t)
  <2>1. CASE \E p \in Pools, life \in Lifetimes :
                Issue(t, p, life) /\ locked' = locked \cup {task[t].slot}
    BY <1>5, <2>1, IssueKeeps DEF Open
  <2>2. CASE EndRequest(t) /\ UNCHANGED <<leases, locked>>
    BY <1>5, <2>2, EndKeeps, Parts DEF Open, CanLock, Types, cache
  <2> QED BY <1>5, <2>1, <2>2 DEF Open
<1>6. CASE OpenForTest(t)
  <2>1. CASE \E p \in Pools, life \in Lifetimes : Issue(t, p, life)
    BY <1>6, <2>1, IssueKeeps DEF OpenForTest, cache
  <2>2. CASE EndRequest(t) /\ UNCHANGED leases
    BY <1>6, <2>2, EndKeeps, Parts DEF OpenForTest, Types
  <2> QED BY <1>6, <2>1, <2>2 DEF OpenForTest
<1>7. CASE Connect(t)
  <2>1. CASE Goto(t, "opened") /\ UNCHANGED <<lease, locked, lost>>
    BY <1>7, <2>1, MoveKeeps DEF Connect, cache, leases
  <2>2. CASE Abandon(t) BY <1>7, <2>2, AbandonKeeps DEF Connect, OpeningPcs
  <2> QED BY <1>7, <2>1, <2>2 DEF Connect
<1>8. CASE Reauthorize(t)
  <2>1. CASE task[t].pc = "reusing" /\ Authorized(t)
    BY <1>8, <2>1, MoveKeeps DEF Reauthorize, cache, leases
  <2>2. CASE task[t].pc = "reusing" /\ ~Authorized(t)
    BY <1>8, <2>2, LetGoKeeps DEF Reauthorize, cache, SharingPcs
  <2>3. CASE task[t].pc = "opened" /\ Authorized(t)
    BY <1>8, <2>3, MoveKeeps DEF Reauthorize, cache, leases
  <2>4. CASE task[t].pc = "opened" /\ ~Authorized(t)
    BY <1>8, <2>4, AbandonKeeps DEF Reauthorize, OpeningPcs
  <2> QED BY <1>8, <2>1, <2>2, <2>3, <2>4 DEF Reauthorize
<1>9. CASE HandOff(t)
  <2>1. CASE ~cache_entry_expired(task[t].pool)
    BY <1>9, <2>1, MoveKeeps DEF HandOff, cache, leases
  <2>2. CASE cache_entry_expired(task[t].pool)
    <3>1. HandBack(t) BY <1>9, <2>2 DEF HandOff, HandBack
    <3> QED BY <3>1, HandBackKeeps
  <2> QED BY <2>1, <2>2
<1>10. CASE Publish(t)
  <2>1. CASE task[t].slot # NoSlot /\ ~cache_entry_expired(task[t].pool)
    <3>1. PublishPool(t) BY <1>10, <2>1 DEF Publish, PublishPool
    <3> QED BY <3>1, PublishKeeps
  <2>2. CASE task[t].slot = NoSlot \/ cache_entry_expired(task[t].pool)
    BY <1>10, <2>2, AbandonKeeps DEF Publish, OpeningPcs
  <2> QED BY <2>1, <2>2
<1>11. CASE DropLease(t) BY <1>11, LetGoKeeps DEF DropLease, SharingPcs
<1> QED BY <1>1, <1>2, <1>3, <1>4, <1>5, <1>6, <1>7, <1>8, <1>9, <1>10, <1>11 DEF TaskStep

(* Every step keeps the invariant: the timer empties the slot only of its  *)
(* own generation (schedule_expiry).                                       *)
LEMMA ConnNext == ConnInv /\ [Next]_vars => ConnInv'
<1> SUFFICES ASSUME ConnInv, [Next]_vars PROVE ConnInv'
  OBVIOUS
<1>1. ASSUME NEW t \in Tasks, TaskStep(t) \/ \E a \in Accesses : Pin(t, a) PROVE ConnInv'
  BY <1>1, TaskStepKeeps, PinKeeps
<1>2. ASSUME NEW m \in Mutators, QueueMutation(m) \/ MutatorStep(m) PROVE ConnInv'
  BY <1>2, GateKeeps, MutateKeeps DEF MutatorStep
<1>3. ASSUME UNCHANGED <<scope, granted, now, mutator, task, slots, entry, locked, created, lease,
                         retire_at, lost>>, timers' \subseteq timers
      PROVE ConnInv'
  <2>1. TypeOK' BY <1>3 DEF ConnInv, TypeOK
  <2>2. GateInv' BY <1>3, Parts DEF GateInv
  <2>3. SlotsInv' /\ TaskSlots' BY <1>3, Parts DEF SlotsInv, TaskSlots, TaskSlot, Key
  <2>4. OpenInv' /\ PoolInv' BY <1>3, Parts DEF OpenInv, Opens, PoolInv
  <2>5. NoLeaseIsLeaked' BY <1>3, Parts DEF NoLeaseIsLeaked, Holders, Cached
  <2>6. AuthInv' /\ CurrentInv' BY <1>3, Parts DEF AuthInv, CurrentInv, CacheIsCurrent
  <2> QED BY <2>1, <2>2, <2>3, <2>4, <2>5, <2>6 DEF ConnInv, Ownership
<1>4. ASSUME NEW s \in Slots, NEW p \in Pools, FireTimer(s, p) PROVE ConnInv'
  <2>1. CASE entry[s] = p
    <3>1. Detach(s) BY <1>4, <2>1, Distinct DEF FireTimer, Detach
    <3> QED BY <3>1, DetachKeeps
  <2>2. CASE entry[s] # p BY <1>3, <1>4, <2>2 DEF FireTimer, authority
  <2> QED BY <2>1, <2>2
<1>5. CASE Revoke \/ ForeignChange BY <1>5, LoseKeeps
<1>6. CASE Tick \/ \E p \in Pools : Release(p) BY <1>6, OutsideKeeps
<1>7. CASE UNCHANGED vars BY <1>3, <1>7 DEF vars
<1> QED BY <1>1, <1>2, <1>4, <1>5, <1>6, <1>7 DEF Next

(* The invariant holds in every reachable state. *)
THEOREM ConnInvariance == Spec => []ConnInv
BY ConnInit, ConnNext, PTL DEF Spec

(* A pool in use is open and is the only one of its authority key, with    *)
(* any number of requests, mutations and timers (retire_entries, the slot  *)
(* mutex of connect).                                                      *)
THEOREM PoolsStaySound == Spec => []PoolsAreSound
<1>1. ConnInv => PoolsAreSound
  <2> SUFFICES ASSUME ConnInv PROVE PoolsAreSound
    OBVIOUS
  <2>1. UsedPoolIsOpen BY Parts DEF UsedPoolIsOpen, Using, PoolInv, Types
  <2>2. OnePoolPerKey BY Parts DEF OnePoolPerKey, OpenInv, Opens, TaskSlots, TaskSlot
  <2> QED BY <2>1, <2>2 DEF ConnInv, PoolsAreSound
<1> QED BY <1>1, ConnInvariance, PTL

(* No provider lease is forgotten: while it is held somebody owns its pool *)
(* and will release it (Drop for CacheEntry, retire_opened).               *)
THEOREM LeasesAreNotLeaked == Spec => []NoLeaseIsLeaked
<1>1. ConnInv => NoLeaseIsLeaked BY DEF ConnInv, Ownership
<1> QED BY <1>1, ConnInvariance, PTL

(* A request that was revoked or overtaken before its check at the         *)
(* boundary of use gets no pool (authorize_pin, is_pin_current).           *)
THEOREM RevokedStaysOut == Spec => []RevokedGetsNoPool
<1>1. ConnInv => RevokedGetsNoPool
  BY DEF ConnInv, AuthInv, RevokedGetsNoPool, BeforeFinalCheck
<1> QED BY <1>1, ConnInvariance, PTL

(* With one process on the store, no pool of an earlier scope is cached    *)
(* after a mutation; without that hypothesis it is false, because the gate *)
(* is not shared between processes.                                        *)
THEOREM CacheStaysCurrent == ASSUME ForeignWriter = FALSE PROVE Spec => []CacheIsCurrent
<1>1. ConnInv => CacheIsCurrent BY DEF ConnInv, CurrentInv
<1> QED BY <1>1, ConnInvariance, PTL

(* No step hands out a pool whose retirement time has come (the second     *)
(* look at the expiry after the authorization, and the one at publication). *)
THEOREM HandOffsAreFresh == Spec => NoExpiredHandOff
<1>1. ConnInv /\ [Next]_vars =>
        [\A t \in Tasks : task[t].pc # "leased" /\ task'[t].pc = "leased" =>
            retire_at[task'[t].pool] > now]_vars
  <2> SUFFICES ASSUME ConnInv, Next, NEW t \in Tasks, task[t].pc # "leased", task'[t].pc = "leased"
               PROVE  retire_at[task'[t].pool] > now
    OBVIOUS
  <2> USE IdleFacts
  <2>1. PICK u \in Tasks : TaskStep(u) \/ \E a \in Accesses : Pin(u, a)
    BY DEF Next, QueueMutation, MutatorStep, TakeGate, Mutate, FireTimer, Release, Revoke,
           ForeignChange, Tick, authority
  <2>2. u = t /\ (HandOff(t) \/ Publish(t))
    <3>1. CASE \E a \in Accesses : Pin(u, a) BY <3>1, Parts DEF Pin, Request
    <3>2. CASE Authorize(u) BY <3>2, Parts DEF Authorize, Goto, EndRequest, Request
    <3>3. CASE FindSlot(u) BY <3>3, Parts DEF FindSlot, Request
    <3>4. CASE Reuse(u) \/ TakeExpired(u) BY <3>4, Parts DEF Reuse, TakeExpired, Request
    <3>5. CASE Open(u) \/ OpenForTest(u) BY <3>5, Parts DEF Open, OpenForTest, Issue, EndRequest, Request
    <3>6. CASE Connect(u) BY <3>6, Parts DEF Connect, Abandon, Goto, EndRequest, Request
    <3>7. CASE Reauthorize(u) BY <3>7, Parts DEF Reauthorize, Abandon, Goto, EndRequest, Request
    <3>8. CASE DropLease(u) BY <3>8, Parts DEF DropLease, EndRequest, Request
    <3>9. CASE HandOff(u) BY <3>9, Parts DEF HandOff, Goto, Request
    <3>10. CASE Publish(u) BY <3>10, Parts DEF Publish, Abandon, Goto, EndRequest, Request
    <3> QED BY <2>1, <3>1, <3>2, <3>3, <3>4, <3>5, <3>6, <3>7, <3>8, <3>9, <3>10 DEF TaskStep
  <2>3. task'[t].pool = task[t].pool /\ ~cache_entry_expired(task[t].pool) /\ task[t].pool \in Pools
    <3>1. CASE HandOff(t) BY <3>1, Parts DEF HandOff, Goto, Request, Types
    <3>2. CASE Publish(t) BY <3>2, Parts DEF Publish, Abandon, Goto, EndRequest, Request, Types
    <3> QED BY <2>2, <3>1, <3>2
  <2>4. retire_at[task[t].pool] \in Nat /\ now \in Nat
    BY <2>3, ConnectionAssumption DEF ConnInv, TypeOK
  <2> QED BY <2>3, <2>4 DEF cache_entry_expired
<1> QED BY <1>1, ConnInvariance, PTL DEF Spec, NoExpiredHandOff
================================================================================
