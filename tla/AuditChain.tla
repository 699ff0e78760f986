------------------------------- MODULE AuditChain -------------------------------
(***************************************************************************)
(* The hash-chained audit log: src-tauri/src/audit/mod.rs and chain.rs.     *)
(* Appending is read-tail, then insert, on a pooled SQLite store, under a   *)
(* mutex that lives in the Store value of one process (store/mod.rs).       *)
(***************************************************************************)
EXTENDS Integers, Sequences

CONSTANTS
    Processes,       \* starts of the application on one app.db
    Writers,         \* audit::record calls that can be in flight at once
    Connections,
    Fields,          \* the audited fields of a row, canonically serialised
    Hashes, NoHash,  \* NoHash: prev_hash IS NULL
    compute_hash(_, _, _),  \* SHA-256 over prev_hash, connection and fields
    MaxRows,         \* bound on the rows of a connection
    MayOverlap       \* may a process start while another one is running?

ASSUME AuditAssumption ==
    /\ NoHash \notin Hashes
    /\ MaxRows \in Nat
    /\ MayOverlap \in BOOLEAN
    /\ \A p \in Hashes \cup {NoHash}, c \in Connections, f \in Fields :
          compute_hash(p, c, f) \in Hashes

VARIABLES
    live,       \* the running processes
    exited,     \* the processes that have exited
    log,        \* log[c]: the audit rows of connection c, by rowid
    writer      \* writer[w]: an audit::record call: its stage, arguments and tail

vars == <<live, exited, log, writer>>

Idle == [pc |-> "idle"]

Call == [pc: {"locked", "linked"}, proc: Processes, conn: Connections, fields: Fields,
         prev_hash: Hashes \cup {NoHash}]

Row == [fields: Fields, prev_hash: Hashes \cup {NoHash}, hash: Hashes]

Init ==
    /\ live = {}
    /\ exited = {}
    /\ log = [c \in Connections |-> <<>>]
    /\ writer = [w \in Writers |-> Idle]

(* The hash of the newest row of connection c. *)
tail_hash(c) == IF log[c] = <<>> THEN NoHash ELSE log[c][Len(log[c])].hash

(* Mutant: the tail is read without the lock. *)
Lock_mutant(w, p, c, f) ==
    /\ p \in live /\ writer[w] = Idle
    /\ writer' = [writer EXCEPT ![w] = [pc |-> "locked", proc |-> p, conn |-> c, fields |-> f,
                                        prev_hash |-> NoHash]]
    /\ UNCHANGED <<live, exited, log>>

(* record() takes the audit lock of its process. *)
Lock(w, p, c, f) ==
    /\ p \in live /\ writer[w] = Idle
    /\ \A v \in Writers : writer[v] # Idle => writer[v].proc # p
    /\ writer' = [writer EXCEPT ![w] = [pc |-> "locked", proc |-> p, conn |-> c, fields |-> f,
                                        prev_hash |-> NoHash]]
    /\ UNCHANGED <<live, exited, log>>

ReadTail(w) ==
    /\ writer[w].pc = "locked"
    /\ writer' = [writer EXCEPT ![w].pc = "linked", ![w].prev_hash = tail_hash(writer[w].conn)]
    /\ UNCHANGED <<live, exited, log>>

(* The INSERT, and the guard drops. *)
Insert(w) ==
    LET k == writer[w]
    IN  /\ k.pc = "linked"
        /\ Len(log[k.conn]) < MaxRows
        /\ log' = [log EXCEPT ![k.conn] =
                      Append(@, [fields |-> k.fields, prev_hash |-> k.prev_hash,
                                 hash |-> compute_hash(k.prev_hash, k.conn, k.fields)])]
        /\ writer' = [writer EXCEPT ![w] = Idle]
        /\ UNCHANGED <<live, exited>>

(* Either statement fails: record() returns the error and the guard drops. *)
Fail(w) ==
    /\ writer[w] # Idle
    /\ writer' = [writer EXCEPT ![w] = Idle]
    /\ UNCHANGED <<live, exited, log>>

Start(p) ==
    /\ p \notin live \cup exited
    /\ MayOverlap \/ live = {}
    /\ live' = live \cup {p}
    /\ UNCHANGED <<exited, log, writer>>

(* The process exits or is killed between any two steps of its calls. *)
Exit(p) ==
    /\ p \in live
    /\ live' = live \ {p}
    /\ exited' = exited \cup {p}
    /\ writer' = [w \in Writers |-> IF writer[w] # Idle /\ writer[w].proc = p
                                    THEN Idle ELSE writer[w]]
    /\ UNCHANGED log

Next ==
    \/ \E w \in Writers :
          \/ \E p \in Processes, c \in Connections, f \in Fields : Lock(w, p, c, f)
          \/ ReadTail(w) \/ Insert(w) \/ Fail(w)
    \/ \E p \in Processes : Start(p) \/ Exit(p)

Spec == Init /\ [][Next]_vars

--------------------------------------------------------------------------------
(* Properties. *)

(* The types of the log and of the calls in flight. *)
TypeOK ==
    /\ live \subseteq Processes
    /\ exited \subseteq Processes
    /\ log \in [Connections -> Seq(Row)]
    /\ writer \in [Writers -> Call \cup {Idle}]

(* verify_entries: every row continues the one before it and carries its    *)
(* own hash.                                                                *)
verify_entries(c) ==
    \A i \in DOMAIN log[c] :
        /\ log[c][i].prev_hash = IF i = 1 THEN NoHash ELSE log[c][i - 1].hash
        /\ log[c][i].hash = compute_hash(log[c][i].prev_hash, c, log[c][i].fields)

(* verify_chain reports no tampering of a log that only record() wrote,     *)
(* whatever calls run concurrently, fail, or are killed between the tail    *)
(* read and the insert.  It needs one process at a time: the lock is not    *)
(* shared between processes.                                                *)
ChainVerifies == \A c \in Connections : verify_entries(c)
================================================================================
