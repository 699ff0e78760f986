---------------------------- MODULE ConnectionRuntime ----------------------------
(***************************************************************************)
(* The process-wide owner of database pools: src-tauri/src/connection/      *)
(* runtime.rs.  Requests pin the active scope under a shared gate, are      *)
(* authorized by the control plane, and reuse or open the pool of their     *)
(* authority key; mutations of the scope take the gate exclusively and      *)
(* detach every pool; a timer retires a pool before its provider credential *)
(* expires.                                                                 *)
(*                                                                          *)
(* The connection modelled is a managed one: opening a pool issues a        *)
(* provider lease that must be given back.  A pool from local credentials   *)
(* is the special case without lease and retirement time.  One action is    *)
(* one stretch between two awaits; Arc references are counted by who holds  *)
(* them.                                                                    *)
(***************************************************************************)
EXTENDS Integers, FiniteSets

CONSTANTS
    Tasks,        \* requests that can be in flight at once
    Mutators,     \* scope mutations that can be in flight at once
    Accesses,     \* ConnectionAccess
    Pools,        \* bound: pools ever opened, each with its provider lease
    Slots,        \* bound: cache slots ever created
    NoPool, NoSlot,
    Lifetimes,    \* valid_for of a provider lease, less the safety margin
    MaxScope,     \* bound on scope revisions
    MaxTime,      \* bound on the monotonic clock
    ForeignWriter \* may another process change the scope in the shared store?

ASSUME ConnectionAssumption ==
    /\ Accesses # {}
    /\ NoPool \notin Pools
    /\ NoSlot \notin Slots
    /\ Lifetimes \subseteq Nat \ {0}
    /\ MaxScope \in Nat
    /\ MaxTime \in Nat
    /\ ForeignWriter \in BOOLEAN

VARIABLES
    scope,     \* the revision of the active workspace, account and connection
    granted,   \* does the control plane grant access?
    task,      \* task[t]: a request: where it stands, its pin, slot and pool
    mutator,   \* mutator[m]: "idle", "queued" or "holding" the gate
    slots,     \* slots[k]: the slot mapped for authority key k
    entry,     \* entry[s]: the pool cached in slot s
    locked,    \* the slots whose mutex is held across an await
    lease,     \* lease[p]: the provider lease of pool p
    retire_at, \* retire_at[p]: when p leaves the cache
    timers,    \* the scheduled expiries: <<slot, pool>>
    created,   \* slots that were ever mapped
    now,
    lost       \* history: requests that lost their authority before the final check

vars == <<scope, granted, task, mutator, slots, entry, locked, lease, retire_at, timers,
          created, now, lost>>

CacheKey == (0..MaxScope) \X Accesses

Idle == [pc |-> "idle", pin |-> 0, access |-> CHOOSE a \in Accesses : TRUE,
         slot |-> NoSlot, pool |-> NoPool]

Key(t) == <<task[t].pin, task[t].access>>

(* cache_entry_expired. *)
cache_entry_expired(p) == retire_at[p] <= now

(* Pools a request holds: opened and not published, or an Arc clone. *)
Holders(p) == {t \in Tasks : task[t].pool = p}

Cached(p) == \E s \in Slots : entry[s] = p

(* authorize_pin and is_pin_current. *)
Authorized(t) == granted /\ task[t].pin = scope

--------------------------------------------------------------------------------
(* The scope gate: a fair RwLock, so a queued writer holds back readers. *)

HoldsGate(t) == task[t].pc # "idle"

GateAdmitsReader == \A m \in Mutators : mutator[m] = "idle"

GateAdmitsWriter == /\ \A t \in Tasks : ~HoldsGate(t)
                    /\ \A m \in Mutators : mutator[m] # "holding"

--------------------------------------------------------------------------------
(* Retirement. *)

(* Mutant: the pool is closed although somebody still uses it. *)
Dropped_mutant(ps, ts) ==
    [p \in Pools |-> IF p \in ps /\ lease[p] = "held" THEN "releasing" ELSE lease[p]]

(* retire_entries, retire_opened and Drop for CacheEntry: when the last     *)
(* owner of a pool in ps is gone the pool closes and its lease is handed    *)
(* to the release call; ts are the requests that let go in this step.  The  *)
(* caller removes the cache's own reference in the same step.               *)
Dropped(ps, ts) ==
    [p \in Pools |-> IF p \in ps /\ lease[p] = "held" /\ Holders(p) \subseteq ts
                     THEN "releasing" ELSE lease[p]]

(* Ending a request drops its pool reference and its scope guard. *)
EndRequest(t) == task' = [task EXCEPT ![t] = Idle] /\ lost' = lost \ {t}

(* A request that lets go of pool p, which may still be cached. *)
LetGo(t, p) == IF Cached(p) THEN lease ELSE Dropped({p}, {t})

Init ==
    /\ scope = 0
    /\ granted = TRUE
    /\ task = [t \in Tasks |-> Idle]
    /\ mutator = [m \in Mutators |-> "idle"]
    /\ slots = [k \in CacheKey |-> NoSlot]
    /\ entry = [s \in Slots |-> NoPool]
    /\ locked = {}
    /\ lease = [p \in Pools |-> "unused"]
    /\ retire_at = [p \in Pools |-> 0]
    /\ timers = {}
    /\ created = {}
    /\ now = 0
    /\ lost = {}

--------------------------------------------------------------------------------
(* A request. *)

cache == <<slots, entry, locked, timers, created>>
leases == <<lease, retire_at>>
authority == <<scope, granted, now, mutator>>

Goto(t, pc) == task' = [task EXCEPT ![t].pc = pc]

(* pin() or begin_operation_scope() and pin_connection: a read guard of the *)
(* gate, then the pin of the moment.                                        *)
Pin(t, a) ==
    /\ task[t].pc = "idle"
    /\ GateAdmitsReader
    /\ task' = [task EXCEPT ![t] = [Idle EXCEPT !.pc = "pinned", !.pin = scope, !.access = a]]
    /\ UNCHANGED <<authority, cache, leases, lost>>

(* Mutant: the operation scope takes the gate again to connect. *)
Authorize_mutant(t) ==
    /\ task[t].pc = "pinned"
    /\ GateAdmitsReader
    /\ IF Authorized(t) THEN Goto(t, "authorized") /\ UNCHANGED lost ELSE EndRequest(t)
    /\ UNCHANGED <<authority, cache, leases>>

(* The first authorization; no gate is taken again. *)
Authorize(t) ==
    /\ task[t].pc = "pinned"
    /\ IF Authorized(t) THEN Goto(t, "authorized") /\ UNCHANGED lost ELSE EndRequest(t)
    /\ UNCHANGED <<authority, cache, leases>>

(* connect(): the slot of the key, created if it is not mapped. *)
FindSlot(t) ==
    /\ task[t].pc = "authorized"
    /\ \/ /\ slots[Key(t)] # NoSlot
          /\ task' = [task EXCEPT ![t].pc = "waiting", ![t].slot = slots[Key(t)]]
          /\ UNCHANGED <<slots, created>>
       \/ \E s \in Slots \ created :
          /\ slots[Key(t)] = NoSlot
          /\ created' = created \cup {s}
          /\ slots' = [slots EXCEPT ![Key(t)] = s]
          /\ task' = [task EXCEPT ![t].pc = "waiting", ![t].slot = s]
    /\ UNCHANGED <<authority, entry, locked, timers, leases, lost>>

CanLock(t) == task[t].pc = "waiting" /\ task[t].slot \notin locked

(* An entry that has not expired is cloned and the mutex released. *)
Reuse(t) ==
    LET p == entry[task[t].slot]
    IN  /\ CanLock(t)
        /\ p # NoPool /\ ~cache_entry_expired(p)
        /\ task' = [task EXCEPT ![t].pc = "reusing", ![t].pool = p]
        /\ UNCHANGED <<authority, cache, leases, lost>>

(* An expired entry is taken out and retired; the loop starts again. *)
TakeExpired(t) ==
    LET p == entry[task[t].slot]
    IN  /\ CanLock(t)
        /\ p # NoPool /\ cache_entry_expired(p)
        /\ entry' = [entry EXCEPT ![task[t].slot] = NoPool]
        /\ lease' = Dropped({p}, {})
        /\ UNCHANGED <<authority, task, slots, locked, timers, created, retire_at, lost>>

(* issue_managed_connection_lease: a provider lease, and the retirement     *)
(* time anchored at its arrival.                                            *)
Issue(t, p, life) ==
    /\ lease[p] = "unused"
    /\ lease' = [lease EXCEPT ![p] = "held"]
    /\ retire_at' = [retire_at EXCEPT ![p] = now + life]
    /\ task' = [task EXCEPT ![t].pc = "opening", ![t].pool = p]
    /\ UNCHANGED lost

(* An empty slot: the mutex stays locked while the pool opens.  The issue   *)
(* may be refused.                                                          *)
Open(t) ==
    /\ CanLock(t)
    /\ entry[task[t].slot] = NoPool
    /\ \/ \E p \in Pools, life \in Lifetimes :
             Issue(t, p, life) /\ locked' = locked \cup {task[t].slot}
       \/ EndRequest(t) /\ UNCHANGED <<leases, locked>>
    /\ UNCHANGED <<authority, slots, entry, timers, created>>

(* test_fresh: an uncached pool, no slot and no mutex. *)
OpenForTest(t) ==
    /\ task[t].pc = "authorized"
    /\ \/ \E p \in Pools, life \in Lifetimes : Issue(t, p, life)
       \/ EndRequest(t) /\ UNCHANGED leases
    /\ UNCHANGED <<authority, cache>>

(* Giving up after the lease was issued: unlock, retire_opened. *)
Abandon(t) ==
    /\ lease' = Dropped({task[t].pool}, {t})
    /\ locked' = locked \ {task[t].slot}
    /\ EndRequest(t)

(* driver::connect. *)
Connect(t) ==
    /\ task[t].pc = "opening"
    /\ \/ Goto(t, "opened") /\ UNCHANGED <<lease, locked, lost>>
       \/ Abandon(t)
    /\ UNCHANGED <<authority, slots, entry, timers, created, retire_at>>

(* Mutant: a reused pool is handed out on the authorization made before the *)
(* wait.                                                                    *)
Reauthorize_mutant(t) ==
    /\ \/ task[t].pc = "reusing" /\ Goto(t, "handoff") /\ UNCHANGED <<lease, locked, lost>>
       \/ /\ task[t].pc = "opened"
          /\ IF Authorized(t) THEN Goto(t, "publishing") /\ UNCHANGED <<lease, locked, lost>>
             ELSE Abandon(t)
    /\ UNCHANGED <<authority, slots, entry, timers, created, retire_at>>

(* The authorization at the boundary of use: after a reused pool was found, *)
(* and again after a new one was opened.                                    *)
Reauthorize(t) ==
    /\ \/ /\ task[t].pc = "reusing"
          /\ IF Authorized(t) THEN Goto(t, "handoff") /\ UNCHANGED <<lease, lost>>
             ELSE lease' = LetGo(t, task[t].pool) /\ EndRequest(t)
          /\ UNCHANGED locked
       \/ /\ task[t].pc = "opened"
          /\ IF Authorized(t) THEN Goto(t, "publishing") /\ UNCHANGED <<lease, locked, lost>>
             ELSE Abandon(t)
    /\ UNCHANGED <<authority, slots, entry, timers, created, retire_at>>

(* Mutant: the reused entry's expiry is not looked at again. *)
HandOff_mutant(t) ==
    /\ task[t].pc = "handoff"
    /\ Goto(t, "leased") /\ UNCHANGED <<authority, cache, leases, lost>>

(* The reused entry is checked for expiry once more: it is handed out, or   *)
(* detached if it is still the one in the slot, and the loop starts again.  *)
HandOff(t) ==
    LET p == task[t].pool
        s == task[t].slot
    IN  /\ task[t].pc = "handoff"
        /\ \/ /\ ~cache_entry_expired(p)
              /\ Goto(t, "leased") /\ UNCHANGED <<entry, lease>>
           \/ /\ cache_entry_expired(p)
              /\ s \notin locked
              /\ entry' = [entry EXCEPT ![s] = IF @ = p THEN NoPool ELSE @]
              /\ lease' = Dropped({p}, {t})
              /\ task' = [task EXCEPT ![t].pc = "waiting", ![t].pool = NoPool]
        /\ UNCHANGED <<authority, slots, locked, timers, created, retire_at, lost>>

(* The opened pool is published with its expiry timer and handed out, or    *)
(* retired because it expired while it was opened; a test only retires it.  *)
Publish(t) ==
    LET p == task[t].pool
        s == task[t].slot
    IN  /\ task[t].pc = "publishing"
        /\ \/ /\ s # NoSlot /\ ~cache_entry_expired(p)
              /\ entry' = [entry EXCEPT ![s] = p]
              /\ timers' = timers \cup {<<s, p>>}
              /\ locked' = locked \ {s}
              /\ Goto(t, "leased") /\ UNCHANGED <<lease, lost>>
           \/ /\ s = NoSlot \/ cache_entry_expired(p)
              /\ Abandon(t) /\ UNCHANGED <<entry, timers>>
        /\ UNCHANGED <<authority, slots, created, retire_at>>

(* Mutant: a detached pool that its last user drops keeps its lease. *)
DropLease_mutant(t) ==
    /\ task[t].pc = "leased"
    /\ EndRequest(t)
    /\ UNCHANGED <<authority, cache, leases>>

(* The operation is over: the ConnectionLease drops. *)
DropLease(t) ==
    /\ task[t].pc = "leased"
    /\ lease' = LetGo(t, task[t].pool)
    /\ EndRequest(t)
    /\ UNCHANGED <<authority, cache, retire_at>>

--------------------------------------------------------------------------------
(* Timers, mutations and the outside world. *)

(* Mutant: the timer also unmaps the slot it has emptied. *)
FireTimer_mutant(s, p) ==
    /\ <<s, p>> \in timers
    /\ cache_entry_expired(p) /\ s \notin locked
    /\ timers' = timers \ {<<s, p>>}
    /\ IF entry[s] = p
       THEN /\ entry' = [entry EXCEPT ![s] = NoPool]
            /\ lease' = Dropped({p}, {})
            /\ slots' = [k \in CacheKey |-> IF slots[k] = s THEN NoSlot ELSE slots[k]]
       ELSE UNCHANGED <<slots, entry, lease>>
    /\ UNCHANGED <<authority, task, locked, created, retire_at, lost>>

(* Mutant: no timer is left to retire the pool. *)
FireTimer_lost(s, p) ==
    /\ <<s, p>> \in timers
    /\ timers' = timers \ {<<s, p>>}
    /\ UNCHANGED <<authority, task, slots, entry, locked, created, leases, lost>>

(* schedule_expiry: the slot is emptied only of the generation the timer    *)
(* was set for.                                                             *)
FireTimer(s, p) ==
    /\ <<s, p>> \in timers
    /\ cache_entry_expired(p) /\ s \notin locked
    /\ timers' = timers \ {<<s, p>>}
    /\ IF entry[s] = p
       THEN entry' = [entry EXCEPT ![s] = NoPool] /\ lease' = Dropped({p}, {})
       ELSE UNCHANGED <<entry, lease>>
    /\ UNCHANGED <<authority, task, slots, locked, created, retire_at, lost>>

QueueMutation(m) ==
    /\ mutator[m] = "idle"
    /\ mutator' = [mutator EXCEPT ![m] = "queued"]
    /\ UNCHANGED <<scope, granted, now, task, cache, leases, lost>>

TakeGate(m) ==
    /\ mutator[m] = "queued"
    /\ GateAdmitsWriter
    /\ mutator' = [mutator EXCEPT ![m] = "holding"]
    /\ UNCHANGED <<scope, granted, now, task, cache, leases, lost>>

(* Mutant: the mutation publishes its change and leaves the pools. *)
Mutate_mutant(m) ==
    /\ mutator[m] = "holding"
    /\ mutator' = [mutator EXCEPT ![m] = "idle"]
    /\ scope' \in {scope, scope + 1} /\ scope' <= MaxScope
    /\ UNCHANGED <<granted, now, task, cache, leases, lost>>

(* activate_workspace, activate_workspace_account, remove_workspace_account, *)
(* sync_account_workspaces, sync_remote_connections, retire_connections: the *)
(* store changes, every slot is unmapped and emptied, the gate is released,  *)
(* the pools retire.  A store error changes nothing.  A synchronisation may  *)
(* leave the revision as it is.                                              *)
Mutate(m) ==
    /\ mutator[m] = "holding"
    /\ mutator' = [mutator EXCEPT ![m] = "idle"]
    /\ \/ /\ scope' \in {scope, scope + 1} /\ scope' <= MaxScope
          /\ slots' = [k \in CacheKey |-> NoSlot]
          /\ entry' = [s \in Slots |-> IF \E k \in CacheKey : slots[k] = s THEN NoPool ELSE entry[s]]
          /\ lease' = Dropped({p \in Pools : \E k \in CacheKey :
                                  slots[k] # NoSlot /\ entry[slots[k]] = p}, {})
       \/ UNCHANGED <<scope, slots, entry, lease>>
    /\ UNCHANGED <<granted, now, task, locked, timers, created, retire_at, lost>>

BeforeFinalCheck == {"pinned", "authorized", "waiting", "reusing", "opening", "opened"}

LoseAuthority == lost' = lost \cup {t \in Tasks : task[t].pc \in BeforeFinalCheck}

(* The control plane revokes the grant. *)
Revoke ==
    /\ granted
    /\ granted' = FALSE
    /\ LoseAuthority
    /\ UNCHANGED <<scope, now, mutator, task, cache, leases>>

(* Another process of the application changes the scope in the shared store. *)
ForeignChange ==
    /\ ForeignWriter
    /\ scope < MaxScope
    /\ scope' = scope + 1
    /\ LoseAuthority
    /\ UNCHANGED <<granted, now, mutator, task, cache, leases>>

(* release_managed_bounded: confirmed, or on an error or a timeout left to  *)
(* the provider's own expiry; the process is done with it either way.       *)
Release(p) ==
    /\ lease[p] = "releasing"
    /\ lease' = [lease EXCEPT ![p] = "gone"]
    /\ UNCHANGED <<authority, task, cache, retire_at, lost>>

Tick == /\ now < MaxTime
        /\ now' = now + 1
        /\ UNCHANGED <<scope, granted, mutator, task, cache, leases, lost>>

TaskStep(t) ==
    \/ Authorize(t) \/ FindSlot(t) \/ Reuse(t) \/ TakeExpired(t) \/ Open(t) \/ OpenForTest(t)
    \/ Connect(t) \/ Reauthorize(t) \/ HandOff(t) \/ Publish(t) \/ DropLease(t)

MutatorStep(m) == TakeGate(m) \/ Mutate(m)

Next ==
    \/ \E t \in Tasks : TaskStep(t) \/ \E a \in Accesses : Pin(t, a)
    \/ \E m \in Mutators : QueueMutation(m) \/ MutatorStep(m)
    \/ \E s \in Slots, p \in Pools : FireTimer(s, p)
    \/ \E p \in Pools : Release(p)
    \/ Revoke \/ ForeignChange \/ Tick

Spec == Init /\ [][Next]_vars

(* Every task and timer is polled; remote calls return (they have timeouts), *)
(* a caller finishes with its pool, and the mutexes are fair queues.         *)
FairSpec ==
    /\ Spec
    /\ \A t \in Tasks : SF_vars(TaskStep(t))
    /\ \A m \in Mutators : WF_vars(MutatorStep(m))
    /\ \A s \in Slots, p \in Pools : SF_vars(FireTimer(s, p))
    /\ \A p \in Pools : WF_vars(Release(p))

--------------------------------------------------------------------------------
(* Properties. *)

(* The types of the gate, the requests, the cache and the provider leases;  *)
(* a request holds a pool exactly in the stages that have one, so that a    *)
(* loop in connect() starts without the entry of the previous round.        *)
TypeOK ==
    /\ scope \in 0..MaxScope
    /\ granted \in BOOLEAN
    /\ task \in [Tasks -> [pc: BeforeFinalCheck \cup {"idle", "handoff", "publishing", "leased"},
                           pin: 0..MaxScope, access: Accesses,
                           slot: Slots \cup {NoSlot}, pool: Pools \cup {NoPool}]]
    /\ \A t \in Tasks : task[t].pool = NoPool <=>
                          task[t].pc \in {"idle", "pinned", "authorized", "waiting"}
    /\ mutator \in [Mutators -> {"idle", "queued", "holding"}]
    /\ slots \in [CacheKey -> Slots \cup {NoSlot}]
    /\ entry \in [Slots -> Pools \cup {NoPool}]
    /\ locked \subseteq Slots
    /\ lease \in [Pools -> {"unused", "held", "releasing", "gone"}]
    /\ retire_at \in [Pools -> Nat]
    /\ timers \subseteq Slots \X Pools
    /\ created \subseteq Slots
    /\ now \in 0..MaxTime
    /\ lost \subseteq Tasks

Using == {"reusing", "handoff", "opened", "publishing", "leased"}

(* A pool that a request uses is never closed under it: expiry timers,      *)
(* mutations and other requests may detach it from the cache, but it is     *)
(* retired only by its last owner (retire_entries, Drop for CacheEntry).    *)
UsedPoolIsOpen == \A t \in Tasks : task[t].pc \in Using => lease[task[t].pool] = "held"

(* No provider lease is forgotten: as long as one is neither given back nor *)
(* on its way back, a request or the cache still owns its pool, so          *)
(* somebody is left to release it.                                          *)
NoLeaseIsLeaked ==
    \A p \in Pools : lease[p] = "held" => Holders(p) # {} \/ Cached(p)

(* A request never gets a pool whose safety margin has elapsed, also when   *)
(* the authorization between the cache hit and the hand-off outlives the    *)
(* retirement timer.                                                        *)
NoExpiredHandOff ==
    [][\A t \in Tasks : task[t].pc # "leased" /\ task'[t].pc = "leased" =>
          retire_at[task'[t].pool] > now]_vars

(* A request that was revoked, or whose pin was overtaken, before its       *)
(* check at the boundary of use never gets a pool, however long it waited   *)
(* for another request to open that pool.                                   *)
RevokedGetsNoPool == \A t \in lost : task[t].pc # "leased"

Opens(t) == task[t].pc \in {"opening", "opened", "publishing"} /\ task[t].slot # NoSlot

(* One authority key never has two pools at once: while a request opens the *)
(* pool of its key no other request opens one and none is cached.           *)
OnePoolPerKey ==
    \A t \in Tasks : Opens(t) =>
        /\ \A u \in Tasks : Opens(u) /\ Key(u) = Key(t) => u = t
        /\ slots[Key(t)] # NoSlot => entry[slots[Key(t)]] = NoPool

(* A pool is open as long as it is used and is the only one of its key,    *)
(* while timers, mutations and other requests retire and replace pools.    *)
PoolsAreSound ==
    /\ TypeOK
    /\ UsedPoolIsOpen
    /\ OnePoolPerKey

(* After a scope mutation no pool of the previous scope is left in the      *)
(* cache (needs one process: the gate does not reach another one).          *)
CacheIsCurrent ==
    \A k \in CacheKey : slots[k] # NoSlot /\ entry[slots[k]] # NoPool => k[1] = scope

(* Nobody waits for ever: every request that passed the gate ends, and      *)
(* every queued mutation gets the gate and ends, although both wait for     *)
(* each other through the gate and the slots.                               *)
EveryoneFinishes ==
    /\ \A t \in Tasks : (task[t].pc # "idle") ~> (task[t].pc = "idle")
    /\ \A m \in Mutators : (mutator[m] = "queued") ~> (mutator[m] = "idle")

(* Every provider lease whose time has come is given back or left to the    *)
(* provider's own expiry, also when no request ever comes again.            *)
ExpiredLeaseIsReturned ==
    \A p \in Pools : (lease[p] = "held" /\ cache_entry_expired(p))
                         ~> (lease[p] = "gone")
================================================================================
