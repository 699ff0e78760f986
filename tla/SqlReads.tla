-------------------------------- MODULE SqlReads --------------------------------
(***************************************************************************)
(* How one SQL text reaches a target database: classification              *)
(* (safety/l1_parse.rs), the gate (safety/l4_gate.rs), the plan-only       *)
(* preview (safety/l3_preview.rs), and reads on the pooled sessions of the *)
(* read pool (connection/pool.rs), either as the desktop runs them         *)
(* (executor/read.rs) or inside a database-enforced read-only transaction  *)
(* as agents do (safety/l2_enforce.rs).                                    *)
(*                                                                         *)
(* Classification is a pre-filter: it looks at the outside of a statement  *)
(* and misses some that change data, and all that change the settings of   *)
(* the session they run on.  What the module is about is which changes the *)
(* layers together let through that no human approved, and what a read     *)
(* leaves behind in the session it borrowed.                               *)
(*                                                                         *)
(* The durable life of a proposal (claim, expiry, receipts) is the subject *)
(* of SqlExecution; here a request keeps only what it was proposed as.     *)
(***************************************************************************)
EXTENDS Integers, Sequences, FiniteSets

CONSTANTS
    Readers,   \* requests in flight
    Sessions,   \* sessions the read pool may hold (max_connections)
    MaxChanges, \* bound on changes of the target's data
    MaxEdits    \* bound on edits of the safety settings

ASSUME ReadsAssumption ==
    /\ Readers # {} /\ Sessions # {} /\ "nobody" \notin Readers
    /\ MaxChanges \in Nat /\ MaxEdits \in Nat

VARIABLES
    server,    \* engine and version of the target: fixed for a behaviour
    settings,  \* the connection's safety settings, environment and role
    edits,     \* edits of the settings so far
    session,   \* session[s]: a session of the read pool
    request,   \* request[r]: where request r stands
    effects    \* every change of the target's data, in order

readVars == <<server, settings, edits, session, request, effects>>

--------------------------------------------------------------------------------
(* L1: statements, classification, and what statements really do.          *)

(* A query is the leaves its CTEs, subqueries and set operations are made  *)
(* of, whether it selects into a table or locks rows, and what a function  *)
(* it calls does besides (which no parser can see): nothing, a change of   *)
(* the data, or a change of the session's own settings, as set_config of   *)
(* PostgreSQL or a stored function of MySQL that sets a session variable.  *)
Query(leaves, into, locks, calls) ==
    [form |-> "query", leaves |-> leaves, into |-> into, locks |-> locks, calls |-> calls]
Dml(verb, where) == [form |-> verb, where |-> where]
Explain(analyze, inner) == [form |-> "explain", analyze |-> analyze, inner |-> inner]

PlainSelect == Query({"select"}, FALSE, FALSE, "nothing")
Queries == {PlainSelect,
            Query({"select", "insert"}, FALSE, FALSE, "nothing"),
            Query({"select", "delete"}, FALSE, FALSE, "nothing"),
            Query({"select"}, TRUE, TRUE, "nothing"),
            Query({"select"}, FALSE, FALSE, "change"),
            Query({"select"}, FALSE, FALSE, "settings")}
Direct == {Dml("update", TRUE), Dml("delete", FALSE)}
Statements == Queries \cup Direct \cup {[form |-> "ddl"], [form |-> "grant"]}
                \cup {Explain(analyze, Dml("delete", FALSE)) : analyze \in BOOLEAN}

(* What a text parses to: statements in order, or nothing at all.          *)
Texts == {<<>>, <<PlainSelect, Dml("delete", FALSE)>>} \cup {<<s>> : s \in Statements}

(* Writable-CTE bodies are wrapped as Insert or Update; a Delete body is   *)
(* not among the variants the code matches.                                *)
query_has_dml(q) == \E leaf \in q.leaves : leaf \in {"insert", "update"}

(* classify_stmt recurses once: EXPLAIN ANALYZE has its inner statement's  *)
(* kind.                                                                   *)
KindOf(stmt) ==
    CASE stmt.form = "query" -> IF query_has_dml(stmt) \/ stmt.into \/ stmt.locks
                                THEN "write" ELSE "read"
      [] stmt.form = "explain" -> "read"
      [] stmt.form = "ddl" -> "ddl"
      [] stmt.form = "grant" -> "privilege"
      [] OTHER -> "write"

Inner(stmt) == IF stmt.form = "explain" /\ stmt.analyze THEN stmt.inner ELSE stmt

classify_stmt(stmt) == KindOf(Inner(stmt))

NoWhere(stmt) == stmt.form \in {"update", "delete"} /\ ~stmt.where

(* Nothing parseable and several statements are both high-risk writes.     *)
classify(text) ==
    IF Len(text) # 1
    THEN [kind |-> "write", risk |-> "high", count |-> IF text = <<>> THEN 1 ELSE Len(text),
          no_where |-> FALSE]
    ELSE LET kind == classify_stmt(text[1])
             every == NoWhere(Inner(text[1]))
         IN  [kind |-> kind, count |-> 1, no_where |-> every,
              risk |-> CASE kind = "read" -> "low"
                         [] kind = "write" /\ ~every -> "medium"
                         [] OTHER -> "high"]

(* Reference: does executing the statement change data on the target?      *)
(* A text nobody could parse may.                                          *)
Mutates(text) ==
    \/ Len(text) # 1
    \/ LET ran == Inner(text[1]) IN
       \/ ran.form \in {"insert", "update", "delete", "ddl", "grant", "other"}
       \/ ran.form = "query" /\ (ran.into \/ ran.calls = "change" \/ ran.leaves # {"select"})

(* Reference: does it turn the session's read-only default off?            *)
Resets(text) ==
    /\ Len(text) = 1
    /\ LET ran == Inner(text[1]) IN ran.form = "query" /\ ran.calls = "settings"

(* Reference: does it reach every row of a table?                          *)
ReachesAll(text) == Len(text) = 1 /\ NoWhere(Inner(text[1]))

(* What is kept of a stored text: what the code makes of it, each time it  *)
(* classifies it, and what it would do.                                    *)
StoredText(text) == [class |-> classify(text), mutates |-> Mutates(text), resets |-> Resets(text),
                     all |-> ReachesAll(text)]

--------------------------------------------------------------------------------
(* L4: the gate, and what a human must confirm.                            *)

(* decide: Block, or go on; auto_run_reads only tells the screen whether   *)
(* to run a read at once.                                                  *)
decide(c) ==
    IF c.count > 1 \/ c.kind = "privilege" THEN "block"
    ELSE IF c.kind = "read" THEN IF settings.auto_run THEN "auto_run" ELSE "require_approval"
    ELSE IF settings.allow_writes THEN "require_approval" ELSE "block"

operation_risk(c) == IF c.no_where /\ c.kind # "read" THEN "critical" ELSE c.risk

required_confirmation(kind, risk) ==
    IF kind = "read" THEN "none"
    ELSE IF risk = "critical" THEN "RUN CRITICAL"
    ELSE IF settings.prod THEN "PROD" ELSE "none"

(* capture_policy hashes the settings; the policy an agent's plan is bound *)
(* to leaves them out.                                                     *)
capture_policy == settings

MAX_AGENT_ROWS == 2

bounded_max_rows(requested) ==
    LET wanted == IF requested = 0 THEN settings.max_rows ELSE requested
    IN  IF wanted < MAX_AGENT_ROWS THEN wanted ELSE MAX_AGENT_ROWS

--------------------------------------------------------------------------------
(* The read pool.                                                          *)

Free == [pc |-> "idle"]

(* A request that was refused, failed, was cancelled or committed.         *)
Over == [pc |-> "ended"]

(* The rows of the target: one to begin with, and one more per change.     *)
TableRows == Len(effects) + 1

(* A transaction of a session, with the session's read-only default as it  *)
(* was when the transaction began: PostgreSQL's ROLLBACK restores that.    *)
Txn(at, readonly, before) == [at |-> at, readonly |-> readonly, snapshot |-> 0, before |-> before]
NoTxn == Txn("none", FALSE, "ro")
Closed == [open |-> FALSE]

(* Mutant: a server that knows neither variable is let through.            *)
after_connect_mutant == {"rw", "ro"}

(* after_connect makes every session of the pool read-only by default, or  *)
(* refuses it: MySQL tries the modern variable, then the legacy one, and   *)
(* gives up when the server knows neither.  SQLite opens the file so.      *)
after_connect == IF server.engine = "mysql" /\ server.readonly_var = "neither" THEN {}
                                                                               ELSE {"ro"}

IdleSession(s) == session[s].open /\ session[s].user = "nobody"

(* What the session itself refuses: SQLite by its file handle, the others  *)
(* by the transaction, or by the default when a statement is its own.  The *)
(* default is "ro" or "rw" as the pool connected the session, or "reset"   *)
(* once a statement turned it off; nothing of the pool ever looks again.   *)
RefusesWrites(s) ==
    \/ server.engine = "sqlite"
    \/ IF session[s].txn.at = "none" THEN session[s].default = "ro"
                                     ELSE session[s].txn.readonly

(* The pool hands out an idle session as it was left, or opens one.        *)
Borrow(s, user) ==
    \/ IdleSession(s) /\ session' = [session EXCEPT ![s].user = user]
    \/ /\ ~session[s].open
       /\ \A t \in Sessions : ~IdleSession(t)
       /\ \E default \in after_connect :
             session' = [session EXCEPT ![s] =
                 [open |-> TRUE, default |-> default, txn |-> NoTxn,
                  query_only |-> FALSE, user |-> user]]

Acquire(r, s, pc) ==
    /\ Borrow(s, r)
    /\ request' = [request EXCEPT ![r].pc = pc, ![r].session = s]

(* A pool whose sessions are all refused answers with an error.            *)
AcquireFails(r) ==
    /\ after_connect = {} /\ \A s \in Sessions : ~session[s].open
    /\ request' = [request EXCEPT ![r] = Over]
    /\ UNCHANGED session

SetTxn(s, txn) == session' = [session EXCEPT ![s].txn = txn]

--------------------------------------------------------------------------------
(* Proposals.                                                              *)

(* What is stored of a proposal by either door. *)
Proposal(pc, door, text, risk, rows) ==
    [pc |-> pc, sql |-> StoredText(text), kind |-> classify(text).kind, risk |-> risk, door |-> door,
     policy |-> capture_policy, approved |-> "no", rows |-> rows, session |-> "none", since |-> 0]

(* propose_sql: a statement the role or the gate refuses is never stored.  *)
(* The others are previewed first, on a session of the read pool: plan     *)
(* only, and not at all for schema and privilege changes.                  *)
propose_sql(r, text) ==
    LET c == classify(text)
    IN  /\ request[r] = Free
        /\ IF (c.kind # "read" /\ ~settings.can_write) \/ decide(c) = "block"
           THEN request' = [request EXCEPT ![r] = Over]
           ELSE request' = [request EXCEPT ![r] =
                    Proposal(IF c.kind = "ddl" THEN "proposed" ELSE "preview", "desktop", text,
                             operation_risk(c), 0)]
        /\ UNCHANGED <<server, settings, edits, session, effects>>

(* plan_agent_read takes single reads only, and freezes its own row cap.   *)
plan_agent_read(r, text, requested) ==
    LET c == classify(text)
    IN  /\ request[r] = Free
        /\ request' = [request EXCEPT ![r] =
               IF c.kind = "read" /\ c.count = 1
               THEN Proposal("preview", "agent", text, "low", bounded_max_rows(requested)) ELSE Over]
        /\ UNCHANGED <<server, settings, edits, session, effects>>

(* EXPLAIN is its own statement: it plans, changes nothing, leaves the     *)
(* session it borrowed as it was, and its failure is not an error of the   *)
(* proposal.  Only a pool that opens no session is.                        *)
preview(r) ==
    /\ request[r].pc = "preview"
    /\ \/ /\ \E s \in Sessions : Borrow(s, "nobody")
          /\ request' = [request EXCEPT ![r].pc = "proposed"]
       \/ AcquireFails(r)
    /\ UNCHANGED <<server, settings, edits, effects>>

(* approve_local: a mutation is approved by a human, with the phrase its   *)
(* risk asks for, while the policy is the one it was proposed under.       *)
approve_local(r) ==
    /\ request[r].pc = "proposed" /\ request[r].kind # "read" /\ request[r].approved = "no"
    /\ request[r].policy = capture_policy
    /\ request' = [request EXCEPT ![r].approved =
                      required_confirmation(request[r].kind, request[r].risk)]
    /\ UNCHANGED <<server, settings, edits, session, effects>>

--------------------------------------------------------------------------------
(* Runs.                                                                   *)

(* The gate is asked again, under the settings of the moment.  A desktop   *)
(* run that is refused answers Blocked before it claims anything, so the   *)
(* proposal stays as it was and may be run again.                          *)
run(r) ==
    LET q == request[r]
        c == q.sql.class
        refused == \/ q.door = "desktop" /\ q.policy # capture_policy
                   \/ c.kind # q.kind
                   \/ q.door = "desktop" /\ c.kind # "read" /\ ~settings.can_write
                   \/ q.door = "desktop" /\ decide(c) = "block"
    IN  /\ q.pc = "proposed" /\ (q.kind # "read" => q.approved # "no")
        /\ ~refused
        /\ request' = [request EXCEPT
               ![r].pc = IF q.kind = "read" THEN "acquire" ELSE "write",
               ![r].rows = IF q.door = "desktop" THEN settings.max_rows ELSE @]
        /\ UNCHANGED <<server, settings, edits, session, effects>>

(* A change: did it reach every row, was it production, who approved it,   *)
(* and under what was it made: the grant of a write, or the default of the *)
(* read session?                                                           *)
Effect(r, under) == [all |-> request[r].sql.all, prod |-> settings.prod,
                     approved |-> request[r].approved, door |-> request[r].door, under |-> under]

(* The change, when there is one that stays.                               *)
Lands(lands, effect) ==
    /\ lands => Len(effects) < MaxChanges
    /\ effects' = IF lands THEN Append(effects, effect) ELSE effects

(* run_write holds the grant: the change is that of an approved proposal.  *)
(* It may not come: the target refuses, a cancel or the timeout drops the  *)
(* transaction, or the answer of COMMIT is lost after it took effect.      *)
run_write(r) ==
    /\ request[r].pc = "write"
    /\ \E committed \in BOOLEAN : Lands(committed, Effect(r, "grant"))
    /\ request' = [request EXCEPT ![r] = Over]
    /\ UNCHANGED <<server, settings, edits, session>>

(* A desktop read runs the statement as it is; an agent's opens its        *)
(* transaction first.                                                      *)
StartRead(r) ==
    /\ request[r].pc = "acquire"
    /\ \/ \E s \in Sessions :
             Acquire(r, s, IF request[r].door = "desktop" THEN "execute"
                           ELSE CASE server.engine = "postgres" -> "begin"
                                  [] server.engine = "mysql" -> "start"
                                  [] server.engine = "sqlite" -> "pragma")
       \/ AcquireFails(r)
    /\ UNCHANGED <<server, settings, edits, effects>>

MoveTo(r, pc) == request' = [request EXCEPT ![r].pc = pc, ![r].since = TableRows]

(* PostgreSQL: BEGIN inside an open transaction is a warning, inside an    *)
(* aborted one an error; the two statements can be cut apart.              *)
Begin(r) ==
    LET s == request[r].session IN
    /\ request[r].pc = "begin"
    /\ IF session[s].txn.at = "aborted"
       THEN MoveTo(r, "rollback") /\ UNCHANGED session
       ELSE /\ MoveTo(r, "set_read_only")
            /\ SetTxn(s, IF session[s].txn.at = "open" THEN session[s].txn
                         ELSE Txn("open", session[s].default = "ro", session[s].default))
    /\ UNCHANGED <<server, settings, edits, effects>>

SetReadOnly(r) ==
    LET s == request[r].session IN
    /\ request[r].pc = "set_read_only"
    /\ MoveTo(r, "execute")
    /\ SetTxn(s, [session[s].txn EXCEPT !.readonly = TRUE])
    /\ UNCHANGED <<server, settings, edits, effects>>

(* Mutant: a transaction that is already open is used as it stands.        *)
StartTransaction_mutant(r) ==
    LET s == request[r].session IN
    /\ request[r].pc = "start"
    /\ MoveTo(r, "execute")
    /\ SetTxn(s, IF session[s].txn.at = "open" THEN session[s].txn
                 ELSE Txn("open", TRUE, session[s].default))
    /\ UNCHANGED <<server, settings, edits, effects>>

(* MySQL: START TRANSACTION READ ONLY ends whatever was open before.       *)
StartTransaction(r) ==
    LET s == request[r].session IN
    /\ request[r].pc = "start"
    /\ MoveTo(r, "execute")
    /\ SetTxn(s, Txn("open", TRUE, session[s].default))
    /\ UNCHANGED <<server, settings, edits, effects>>

(* SQLite: PRAGMA query_only, on top of the read-only file handle.         *)
QueryOnly(r) ==
    /\ request[r].pc = "pragma"
    /\ MoveTo(r, "execute")
    /\ session' = [session EXCEPT ![request[r].session].query_only = TRUE]
    /\ UNCHANGED <<server, settings, edits, effects>>

(* Mutant: a full page is reported as truncated.                           *)
stream_capped_mutant(available, max) ==
    [rows |-> IF available < max THEN available ELSE max, truncated |-> available >= max]

(* stream_capped pushes rows until the cap and looks one row further.      *)
stream_capped(available, max) ==
    [rows |-> IF available < max THEN available ELSE max, truncated |-> available > max]

(* The rows the statement sees, as of the snapshot a MySQL transaction     *)
(* keeps from its first read on.                                           *)
Seen(s) == IF server.engine = "mysql" /\ session[s].txn.at = "open" /\ session[s].txn.snapshot > 0
           THEN session[s].txn.snapshot
           ELSE TableRows

(* What the session does not let run. *)
Refused(r, s) == \/ session[s].txn.at = "aborted"
                 \/ request[r].sql.mutates /\ RefusesWrites(s)

(* The session after the statement ran, or failed, and whose it is then:   *)
(* PostgreSQL aborts a transaction and undoes a setting of a statement     *)
(* that failed, MySQL keeps what was set, and the snapshot it read from.   *)
AfterTxn(s, failed) ==
    IF session[s].txn.at # "open" THEN session[s].txn
    ELSE IF server.engine = "postgres"
    THEN [session[s].txn EXCEPT !.at = IF failed THEN "aborted" ELSE "open"]
    ELSE [session[s].txn EXCEPT !.snapshot = Seen(s)]

AfterDefault(r, s, failed) ==
    IF /\ request[r].sql.resets
       /\ server.engine = "mysql" \/ (server.engine = "postgres" /\ ~failed)
    THEN "reset" ELSE session[s].default

AfterStatement(r, s, failed, user) ==
    [session[s] EXCEPT !.txn = AfterTxn(s, failed), !.default = AfterDefault(r, s, failed), !.user = user]

(* Does the change of a statement stay?  One that failed, or that ran in a *)
(* transaction, is undone, for on the read pool nobody commits: only what  *)
(* no ROLLBACK undoes (a table without transactions, a sequence) is kept.  *)
Stays(r, s, failed, kept) ==
    /\ request[r].sql.mutates /\ ~Refused(r, s)
    /\ failed \/ session[s].txn.at = "open" => kept

(* The page of a statement that ran, and the request that has it. *)
Answer(r, s, pc) ==
    LET page == stream_capped(Seen(s), request[r].rows)
    IN  [pc |-> pc, door |-> request[r].door, session |-> s, max |-> request[r].rows, seen |-> Seen(s),
         since |-> request[r].since, rows |-> page.rows, truncated |-> page.truncated]

(* The statement executes, or fails.  A mutation the session refuses is an *)
(* error; an aborted transaction refuses everything.  The answer of a      *)
(* desktop read frees its session at once, an agent's rolls back first.    *)
execute(r) ==
    LET s == request[r].session
        desktop == request[r].door = "desktop"
    IN  /\ request[r].pc = "execute"
        /\ \E error, kept \in BOOLEAN :
              LET failed == error \/ Refused(r, s) IN
              /\ Lands(Stays(r, s, failed, kept), Effect(r, session[s].default))
              /\ session' = [session EXCEPT ![s] =
                     AfterStatement(r, s, failed, IF desktop THEN "nobody" ELSE r)]
              /\ request' = [request EXCEPT ![r] =
                     IF desktop THEN IF failed THEN Over ELSE Answer(r, s, "answered")
                     ELSE IF failed THEN [pc |-> "rollback", session |-> s] ELSE Answer(r, s, "rollback")]
        /\ UNCHANGED <<server, settings, edits>>

(* ROLLBACK, or PRAGMA query_only = OFF: it runs whether the statement was *)
(* answered or failed.  The session goes back to the pool.                 *)
Rollback(r) ==
    LET s == request[r].session IN
    /\ request[r].pc = "rollback"
    /\ session' = [session EXCEPT ![s] =
           [session[s] EXCEPT !.txn = NoTxn, !.query_only = FALSE, !.user = "nobody",
               !.default = IF server.engine = "postgres" THEN session[s].txn.before
                                                         ELSE session[s].default]]
    /\ request' = [request EXCEPT ![r] =
           IF "seen" \in DOMAIN request[r] THEN [request[r] EXCEPT !.pc = "answered"] ELSE Over]
    /\ UNCHANGED <<server, settings, edits, effects>>

(* guard_registered drops the whole future on a cancel or at its timeout,  *)
(* so nothing after the await it was at runs: the session goes back as it  *)
(* is.  A statement in flight is waited for, and may have run or failed.   *)
cancel_query(r) ==
    LET s == request[r].session IN
    /\ request[r].pc \in {"acquire", "begin", "set_read_only", "start", "pragma", "execute", "rollback"}
    /\ request' = [request EXCEPT ![r] = Over]
    /\ CASE request[r].pc = "acquire" -> UNCHANGED <<session, effects>>
         [] request[r].pc = "execute" ->
              \E error, kept \in BOOLEAN :
                 LET failed == error \/ Refused(r, s) IN
                 /\ Lands(Stays(r, s, failed, kept), Effect(r, session[s].default))
                 /\ session' = [session EXCEPT ![s] = AfterStatement(r, s, failed, "nobody")]
         [] OTHER -> session' = [session EXCEPT ![s].user = "nobody"] /\ UNCHANGED effects
    /\ UNCHANGED <<server, settings, edits>>

--------------------------------------------------------------------------------
(* Around the requests.                                                    *)

(* The safety settings are edited while proposals wait.                    *)
set_safety ==
    /\ edits < MaxEdits
    /\ edits' = edits + 1
    /\ \E field \in {"allow_writes", "can_write"} :
          settings' = [settings EXCEPT ![field] = ~@]
    /\ UNCHANGED <<server, session, request, effects>>

(* The screen or the agent drops what it was told, and a proposal nobody   *)
(* runs is cancelled or expires.                                           *)
Forget(r) ==
    /\ request[r].pc \in {"ended", "answered", "proposed"}
    /\ request' = [request EXCEPT ![r] = Free]
    /\ UNCHANGED <<server, settings, edits, session, effects>>

Servers == {[engine |-> "postgres", readonly_var |-> "n/a"], [engine |-> "sqlite", readonly_var |-> "n/a"],
            [engine |-> "mysql", readonly_var |-> "known"], [engine |-> "mysql", readonly_var |-> "neither"]}

ReadsInit ==
    /\ server \in Servers
    /\ settings \in [allow_writes : {TRUE}, can_write : {TRUE}, auto_run : {TRUE},
                     prod : BOOLEAN, max_rows : {1}]
    /\ edits = 0
    /\ session = [s \in Sessions |-> Closed]
    /\ request = [r \in Readers |-> Free]
    /\ effects = <<>>

Propose(r) == \E text \in Texts : propose_sql(r, text) \/ \E n \in {0, 3} : plan_agent_read(r, text, n)

RequestStep(r) ==
    \/ Propose(r) \/ preview(r) \/ approve_local(r)
    \/ run(r) \/ run_write(r) \/ StartRead(r)
    \/ Begin(r) \/ SetReadOnly(r) \/ StartTransaction(r) \/ QueryOnly(r)
    \/ execute(r) \/ Rollback(r) \/ cancel_query(r) \/ Forget(r)

ReadsNext == set_safety \/ \E r \in Readers : RequestStep(r)

ReadsSpec == ReadsInit /\ [][ReadsNext]_readVars

--------------------------------------------------------------------------------
(* Properties.                                                             *)

(* Whatever classification misses, nothing changes the target that a human *)
(* did not approve with the phrase its reach and its environment ask for:  *)
(* what slips past L1 is refused by the session (pool.rs, l2_enforce.rs),  *)
(* in whatever state an earlier reader left that session.  There is one    *)
(* way past it: a desktop read on a session whose read-only default an     *)
(* earlier statement turned off (pool.rs:140-145 sets it only at connect). *)
(* No read of an agent takes it, on that session or any other.             *)
ChangesWereApproved ==
    \A i \in 1..Len(effects) :
        \/ /\ effects[i].approved # "no"
           /\ effects[i].all => effects[i].approved = "RUN CRITICAL"
           /\ effects[i].prod => effects[i].approved # "none"
        \/ effects[i].door = "desktop" /\ effects[i].under = "reset"

(* An agent's read sees every change made before its transaction started,  *)
(* also on a session a cancelled read handed back with its transaction     *)
(* still open (l2_enforce.rs, START TRANSACTION and BEGIN).                *)
AgentReadsAreCurrent ==
    \A r \in Readers :
        request[r].pc = "answered" /\ request[r].door = "agent" => request[r].seen >= request[r].since

(* A page holds every row the read saw up to its cap, and is marked        *)
(* truncated exactly when rows were left out; an agent's page never        *)
(* exceeds the agent bound (read.rs stream_capped, bounded_max_rows).      *)
ReadPageIsExact ==
    \A r \in Readers :
        request[r].pc = "answered" =>
            /\ request[r].truncated <=> request[r].rows < request[r].seen
            /\ request[r].rows <= request[r].max
            /\ request[r].truncated => request[r].rows = request[r].max
            /\ request[r].door = "agent" => request[r].rows <= MAX_AGENT_ROWS

(* An answer shows the target: the rows up to the cap, said to be          *)
(* truncated exactly when they are, and for an agent the rows of its own   *)
(* transaction, not of one that an earlier reader left open.               *)
ReadsAreFaithful == AgentReadsAreCurrent /\ ReadPageIsExact

(* l2_enforce.rs says of its reads that ROLLBACK always fires afterwards,  *)
(* so that no transaction is leaked: an idle session has none open.        *)
NoLeakedTransaction == \A s \in Sessions : IdleSession(s) => session[s].txn = NoTxn

================================================================================
