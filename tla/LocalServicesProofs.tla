-------------------------- MODULE LocalServicesProofs --------------------------
(***************************************************************************)
(* The services of one desktop that keep no state in common: the audit     *)
(* log, the seconds of a managed lease, the installer of the command line  *)
(* and the SQL reads.                                                      *)
(***************************************************************************)
EXTENDS AuditChain, ManagedLease, CliInstall, SqlReads, FiniteSetTheorems, TLAPS

--------------------------------------------------------------------------------
(***************************************************************************)
(* AuditChain.  The audit log of one process at a time always verifies.    *)
(*                                                                         *)
(* The verifier's verdict alone is not inductive: an insert keeps it only  *)
(* if the tail the call has read is still the tail, which needs the lock   *)
(* (Exclusive), and the lock protects the log only if no other process     *)
(* appends to it (OneProcess, CallersAreLive).                             *)
(***************************************************************************)

OneProcess == \A p, q \in live : p = q

CallersAreLive == \A w \in Writers : writer[w] # Idle => writer[w].proc \in live

Exclusive ==
    \A v, w \in Writers :
        writer[v] # Idle /\ writer[w] # Idle /\ writer[v].proc = writer[w].proc => v = w

(* A call that has read the tail holds the current one. *)
TailIsCurrent ==
    \A w \in Writers : writer[w].pc = "linked" =>
        writer[w].prev_hash = tail_hash(writer[w].conn)

Inv == TypeOK /\ OneProcess /\ CallersAreLive /\ Exclusive /\ TailIsCurrent /\ ChainVerifies

(* A call that is not idle is a record of type Call. *)
LEMMA CallType ==
    ASSUME TypeOK, NEW w \in Writers, writer[w] # Idle
    PROVE  writer[w] \in Call
BY DEF TypeOK

(* The hash of the tail is a hash, or none. *)
LEMMA TailType ==
    ASSUME TypeOK, NEW c \in Connections
    PROVE  tail_hash(c) \in Hashes \cup {NoHash}
<1>1. log[c] \in Seq(Row)
  BY DEF TypeOK
<1>2. CASE log[c] = <<>>
  BY <1>2 DEF tail_hash
<1>3. CASE log[c] # <<>>
  <2>1. log[c][Len(log[c])] \in Row
    BY <1>1, <1>3
  <2> QED
    BY <2>1, <1>3 DEF tail_hash, Row
<1> QED
  BY <1>2, <1>3

(* Appending a row that continues the tail and carries its own hash keeps  *)
(* the verifier's verdict (verify_entries).                                *)
LEMMA AppendVerifies ==
    ASSUME NEW c \in Connections, NEW s \in Seq(Row), NEW r \in Row,
           NEW h, h = (IF s = <<>> THEN NoHash ELSE s[Len(s)].hash),
           r.prev_hash = h,
           r.hash = compute_hash(r.prev_hash, c, r.fields),
           \A i \in DOMAIN s :
              /\ s[i].prev_hash = IF i = 1 THEN NoHash ELSE s[i - 1].hash
              /\ s[i].hash = compute_hash(s[i].prev_hash, c, s[i].fields),
           NEW i \in DOMAIN Append(s, r)
    PROVE  /\ Append(s, r)[i].prev_hash = IF i = 1 THEN NoHash ELSE Append(s, r)[i - 1].hash
           /\ Append(s, r)[i].hash
                = compute_hash(Append(s, r)[i].prev_hash, c, Append(s, r)[i].fields)
<1>1. i \in 1..(Len(s) + 1) /\ Len(s) \in Nat
  OBVIOUS
<1>2. CASE i = Len(s) + 1
  <2>1. Append(s, r)[i] = r
    BY <1>2
  <2>2. CASE s = <<>>
    BY <2>1, <2>2, <1>2
  <2>3. CASE s # <<>>
    <3>1. Len(s) > 0 /\ i # 1 /\ i - 1 = Len(s)
      BY <1>1, <1>2, <2>3
    <3>2. Append(s, r)[i - 1] = s[Len(s)]
      BY <3>1
    <3> QED
      BY <2>1, <2>3, <3>1, <3>2
  <2> QED
    BY <2>2, <2>3
<1>3. CASE i # Len(s) + 1
  <2>1. i \in DOMAIN s /\ Append(s, r)[i] = s[i]
    BY <1>1, <1>3
  <2>2. i # 1 => Append(s, r)[i - 1] = s[i - 1]
    BY <1>1, <1>3
  <2> QED
    BY <2>1, <2>2
<1> QED
  BY <1>2, <1>3

LEMMA InitEstablishes == Init => Inv
BY DEF Init, Inv, TypeOK, OneProcess, CallersAreLive, Exclusive, TailIsCurrent,
       ChainVerifies, verify_entries, Idle

(* record() on one process at a time: every step keeps the invariant. *)
LEMMA StepPreserves ==
    ASSUME ~MayOverlap, Inv, [Next]_vars
    PROVE  Inv'
<1> USE DEF Inv
<1>1. CASE UNCHANGED vars
  BY <1>1 DEF vars, TypeOK, OneProcess, CallersAreLive, Exclusive, TailIsCurrent,
              ChainVerifies, verify_entries, tail_hash
<1>2. ASSUME NEW w \in Writers, NEW p \in Processes, NEW c \in Connections, NEW f \in Fields,
             Lock(w, p, c, f)
      PROVE  Inv'
  <2>1. TypeOK'
    BY <1>2 DEF Lock, TypeOK, Call
  <2>2. OneProcess' /\ CallersAreLive' /\ Exclusive'
    BY <1>2 DEF Lock, TypeOK, OneProcess, CallersAreLive, Exclusive, Idle
  <2>3. TailIsCurrent' /\ ChainVerifies'
    BY <1>2 DEF Lock, TypeOK, TailIsCurrent, tail_hash, ChainVerifies, verify_entries
  <2> QED
    BY <2>1, <2>2, <2>3
<1>3. ASSUME NEW w \in Writers, ReadTail(w)
      PROVE  Inv'
  <2>1. writer[w] \in Call /\ tail_hash(writer[w].conn) \in Hashes \cup {NoHash}
    BY <1>3, CallType, TailType DEF ReadTail, Idle, Call
  <2>2. TypeOK'
    BY <1>3, <2>1 DEF ReadTail, TypeOK, Call
  <2>3. OneProcess' /\ CallersAreLive' /\ Exclusive'
    BY <1>3, <2>1 DEF ReadTail, TypeOK, OneProcess, CallersAreLive, Exclusive, Idle, Call
  <2>4. TailIsCurrent' /\ ChainVerifies'
    BY <1>3, <2>1 DEF ReadTail, TypeOK, TailIsCurrent, tail_hash, ChainVerifies,
                      verify_entries, Call
  <2> QED
    BY <2>2, <2>3, <2>4
<1>4. ASSUME NEW w \in Writers, Insert(w)
      PROVE  Inv'
  <2> DEFINE k == writer[w]
             r == [fields |-> k.fields, prev_hash |-> k.prev_hash,
                   hash |-> compute_hash(k.prev_hash, k.conn, k.fields)]
  <2>1. k \in Call /\ writer[w] # Idle
    BY <1>4, CallType DEF Insert, Idle
  <2>2. r \in Row
    BY <2>1, AuditAssumption DEF Call, Row
  <2>3. log' = [log EXCEPT ![k.conn] = Append(log[k.conn], r)] /\ k.conn \in Connections
    BY <1>4, <2>1 DEF Insert, Call, TypeOK
  <2>4. TypeOK'
    BY <1>4, <2>2, <2>3 DEF Insert, TypeOK
  <2>5. OneProcess' /\ CallersAreLive' /\ Exclusive'
    BY <1>4 DEF Insert, TypeOK, OneProcess, CallersAreLive, Exclusive
  <2>6. \A v \in Writers : v # w => writer[v] = Idle
    BY <2>1 DEF OneProcess, CallersAreLive, Exclusive
  <2>7. \A v \in Writers : writer'[v] = Idle
    BY <1>4, <2>6 DEF Insert, TypeOK
  <2>8. TailIsCurrent'
    BY <2>7 DEF TailIsCurrent, Idle
  <2>9. ASSUME NEW c \in Connections
        PROVE  verify_entries(c)'
    <3>1. CASE c # k.conn
      BY <2>3, <3>1 DEF ChainVerifies, verify_entries, TypeOK
    <3>2. CASE c = k.conn
      <4>1. log[c] \in Seq(Row) /\ log'[c] = Append(log[c], r)
        BY <2>3, <3>2 DEF TypeOK
      <4>2. r.prev_hash = IF log[c] = <<>> THEN NoHash ELSE log[c][Len(log[c])].hash
        BY <1>4, <3>2 DEF TailIsCurrent, tail_hash, Insert
      <4>3. r.hash = compute_hash(r.prev_hash, c, r.fields)
        BY <3>2
      <4>4. \A i \in DOMAIN log[c] :
               /\ log[c][i].prev_hash = IF i = 1 THEN NoHash ELSE log[c][i - 1].hash
               /\ log[c][i].hash = compute_hash(log[c][i].prev_hash, c, log[c][i].fields)
        BY DEF ChainVerifies, verify_entries
      <4> HIDE DEF r
      <4>5. \A i \in DOMAIN Append(log[c], r) :
               /\ Append(log[c], r)[i].prev_hash
                    = IF i = 1 THEN NoHash ELSE Append(log[c], r)[i - 1].hash
               /\ Append(log[c], r)[i].hash
                    = compute_hash(Append(log[c], r)[i].prev_hash, c,
                                   Append(log[c], r)[i].fields)
        BY <2>2, <4>1, <4>2, <4>3, <4>4, AppendVerifies
      <4> QED
        BY <4>1, <4>5 DEF verify_entries
    <3> QED
      BY <3>1, <3>2
  <2> QED
    BY <2>4, <2>5, <2>8, <2>9 DEF ChainVerifies
<1>5. ASSUME NEW w \in Writers, Fail(w)
      PROVE  Inv'
  BY <1>5 DEF Fail, TypeOK, OneProcess, CallersAreLive, Exclusive, TailIsCurrent, tail_hash,
              ChainVerifies, verify_entries, Idle
<1>6. ASSUME NEW p \in Processes, Start(p)
      PROVE  Inv'
  BY <1>6 DEF Start, TypeOK, OneProcess, CallersAreLive, Exclusive, TailIsCurrent, tail_hash,
              ChainVerifies, verify_entries
<1>7. ASSUME NEW p \in Processes, Exit(p)
      PROVE  Inv'
  <2>1. \A w \in Writers : writer'[w] = Idle \/ writer'[w] = writer[w]
    BY <1>7 DEF Exit
  <2>2. TypeOK' /\ OneProcess' /\ Exclusive'
    BY <1>7, <2>1 DEF Exit, TypeOK, OneProcess, Exclusive
  <2>3. CallersAreLive'
    BY <1>7 DEF Exit, CallersAreLive
  <2>4. TailIsCurrent' /\ ChainVerifies'
    BY <1>7, <2>1 DEF Exit, TailIsCurrent, tail_hash, ChainVerifies, verify_entries, Idle
  <2> QED
    BY <2>2, <2>3, <2>4
<1> QED
  BY <1>1, <1>2, <1>3, <1>4, <1>5, <1>6, <1>7 DEF Next

(* An audit log that only record() writes, one process at a time, always   *)
(* passes verify_chain: no false tampering is ever reported.               *)
THEOREM AuditChainIsSound ==
    ASSUME ~MayOverlap
    PROVE  Spec => []ChainVerifies
<1>1. Inv /\ [Next]_vars => Inv'
  BY StepPreserves
<1>2. Inv => ChainVerifies
  BY DEF Inv
<1> QED
  BY <1>1, <1>2, InitEstablishes, PTL DEF Spec

--------------------------------------------------------------------------------
(***************************************************************************)
(* ManagedLease.  HandedOutAlive for every margin, every accepted range of *)
(* lifetimes and every lag that stays below both.                          *)
(*                                                                         *)
(* The invariant is not inductive: that a pool in use has a live           *)
(* credential follows from when it retires, and that from the lifetime the *)
(* answer was judged to have, in the second it was anchored in.            *)
(***************************************************************************)

Anchored == {"connect", "reauthorize", "publish", "using", "cached"}

(* What is known of a request: an answer about to be anchored has the      *)
(* least accepted life, an anchored pool retires before its credential     *)
(* dies, and one in use was handed out before it was due.                  *)
RequestIsSound(q) ==
    /\ managed[q].pc = "anchor" => MIN_VALID <= valid_seconds(q)
    /\ managed[q].pc \in Anchored => managed[q].retire_at < managed[q].expires
    /\ managed[q].pc = "using" => managed[q].at < managed[q].retire_at

LeaseInv == LeaseTypeOK /\ \A q \in LeaseRequests : RequestIsSound(q)

(* A pool's life is at least a second and ends before its credential, for  *)
(* every accepted lifetime and every lag the limits leave room for.        *)
LEMMA MarginIsEnough ==
    ASSUME NEW v \in Int, MIN_VALID <= v, NEW k \in Lags
    PROVE  valid_for(v) \in Nat /\ valid_for(v) < v - k
BY LeaseAssumption, LagAssumption DEF valid_for

(* Initially nothing is leased (LeaseInit). *)
LEMMA InitSound == LeaseInit => LeaseInv
BY LeaseAssumption DEF LeaseInit, LeaseInv, LeaseTypeOK, Unleased, RequestIsSound, Anchored

(* Steps that only move one request on, along pcs that ask for nothing new *)
(* (the answers of the control plane, connect, EndUse).                    *)
LEMMA MoveIsSound ==
    ASSUME LeaseInv, NEW q \in LeaseRequests,
           NEW pc \in {"issue", "connect", "reauthorize", "publish", "cached", "release", "over"},
           pc \in Anchored => managed[q].pc \in Anchored,
           To(q, pc), sessionToken' \in BOOLEAN, UNCHANGED <<tick, lag, sessionValid>>
    PROVE  LeaseInv'
<1>1. LeaseTypeOK' BY DEF LeaseInv, LeaseTypeOK, To
<1>2. ASSUME NEW r \in LeaseRequests PROVE RequestIsSound(r)'
  <2>1. CASE r = q
    BY <2>1 DEF LeaseInv, LeaseTypeOK, To, RequestIsSound, Anchored
  <2>2. CASE r # q
    BY <2>2 DEF LeaseInv, LeaseTypeOK, To, RequestIsSound, Anchored, valid_seconds
  <2> QED BY <2>1, <2>2
<1> QED BY <1>1, <1>2 DEF LeaseInv

(* Every step of a request keeps the invariant. *)
LEMMA StepIsSound ==
    ASSUME LeaseInv, NEW q \in LeaseRequests, LeaseStep(q)
    PROVE  LeaseInv'
<1> USE DEF LeaseInv
<1>1. CASE authorize_connection(q)
  <2>1. CASE managed[q].pc = "start" /\ (CallFails(q, "over") \/ \E pc \in {"over", "issue"} : CallAnswered(q, pc))
    BY <2>1, MoveIsSound DEF CallFails, CallAnswered, Anchored, LeaseTypeOK
  <2>2. CASE /\ managed[q].pc = "reauthorize"
             /\ CallFails(q, "release") \/ \E pc \in {"release", "publish"} : CallAnswered(q, pc)
    BY <2>2, MoveIsSound DEF CallFails, CallAnswered, Anchored, LeaseTypeOK
  <2>3. CASE /\ managed[q].pc = "cached"
             /\ CallFails(q, "cached") \/ \E pc \in {"cached", "publish"} : CallAnswered(q, pc)
    BY <2>3, MoveIsSound DEF CallFails, CallAnswered, Anchored, LeaseTypeOK
  <2> QED BY <1>1, <2>1, <2>2, <2>3 DEF authorize_connection
<1>2. CASE issue_managed_connection_lease(q)
  <2>1. CASE CallFails(q, "over") \/ CallAnswered(q, "over")
    BY <2>1, MoveIsSound DEF CallFails, CallAnswered, Anchored, LeaseTypeOK
  <2>2. CASE /\ \E v \in Lifetimes :
                   managed' = [managed EXCEPT ![q].pc = "response", ![q].expires = tick + v]
             /\ UNCHANGED <<tick, lag, sessionToken, sessionValid>>
    <3>a. PICK w \in Nat : managed' = [managed EXCEPT ![q].pc = "response", ![q].expires = w]
      <4>1. PICK v \in Lifetimes :
                managed' = [managed EXCEPT ![q].pc = "response", ![q].expires = tick + v]
        BY <2>2
      <4>2. tick + v \in Nat BY LeaseAssumption DEF LeaseTypeOK
      <4> QED BY <4>1, <4>2, Zenon
    <3>b. UNCHANGED <<tick, lag, sessionToken, sessionValid>> BY <2>2
    <3>1. LeaseTypeOK' BY <3>a, <3>b DEF LeaseTypeOK
    <3>2. \A r \in LeaseRequests : RequestIsSound(r)'
      BY <2>2, LeaseAssumption DEF LeaseTypeOK, RequestIsSound, Anchored, valid_seconds
    <3> QED BY <3>1, <3>2
  <2> QED BY <1>2, <2>1, <2>2 DEF issue_managed_connection_lease
<1>3. CASE ValidateLease(q)
  <2>1. CASE To(q, "over")
    BY <1>3, <2>1, MoveIsSound DEF ValidateLease, Anchored, LeaseTypeOK
  <2>2. CASE MIN_VALID <= valid_seconds(q) /\ To(q, "anchor")
    <3>1. LeaseTypeOK' BY <1>3, <2>2 DEF ValidateLease, To, LeaseTypeOK
    <3>2. \A r \in LeaseRequests : RequestIsSound(r)'
      BY <1>3, <2>2 DEF ValidateLease, To, LeaseTypeOK, RequestIsSound, Anchored, valid_seconds
    <3> QED BY <3>1, <3>2
  <2> QED BY <1>3, <2>1, <2>2 DEF ValidateLease
<1>4. CASE Anchor(q)
  <2> DEFINE v == valid_seconds(q)
  <2>1. v \in Int /\ MIN_VALID <= v /\ v - lag = managed[q].expires - tick
    BY <1>4, LeaseAssumption DEF Anchor, LeaseTypeOK, RequestIsSound, valid_seconds
  <2>2. valid_for(v) \in Nat /\ valid_for(v) < v - lag
    BY <2>1, MarginIsEnough DEF LeaseTypeOK
  <2> HIDE DEF v
  <2>3. managed' = [managed EXCEPT ![q].pc = "connect", ![q].retire_at = tick + valid_for(v)]
    BY <1>4 DEF Anchor, v
  <2>4. tick + valid_for(v) \in Nat /\ tick + valid_for(v) < managed[q].expires
    BY <2>1, <2>2 DEF LeaseTypeOK
  <2> DEFINE w == tick + valid_for(v)
  <2>a. w \in Nat /\ managed' = [managed EXCEPT ![q].pc = "connect", ![q].retire_at = w]
    BY <2>3, <2>4
  <2> HIDE DEF w
  <2>b. UNCHANGED <<tick, lag, sessionToken, sessionValid>> BY <1>4 DEF Anchor
  <2>5. LeaseTypeOK' BY <2>a, <2>b DEF LeaseTypeOK
  <2>6. ASSUME NEW r \in LeaseRequests PROVE RequestIsSound(r)'
    <3>1. CASE r = q
      BY <3>1, <2>3, <2>4 DEF LeaseTypeOK, RequestIsSound, Anchored
    <3>2. CASE r # q
      BY <1>4, <3>2, <2>3 DEF Anchor, LeaseTypeOK, RequestIsSound, Anchored, valid_seconds
    <3> QED BY <3>1, <3>2
  <2> QED BY <2>5, <2>6
<1>5. CASE connect(q)
  BY <1>5, MoveIsSound DEF connect, Anchored, LeaseTypeOK
<1>6. CASE HandOver(q)
  <2>1. CASE managed[q].retire_at <= tick
    BY <1>6, <2>1, MoveIsSound DEF HandOver, Anchored, LeaseTypeOK
  <2>2. CASE ~(managed[q].retire_at <= tick)
    <3>1. managed' = [managed EXCEPT ![q].pc = "using", ![q].at = tick]
      BY <1>6, <2>2 DEF HandOver
    <3>2. LeaseTypeOK' BY <1>6, <3>1 DEF HandOver, LeaseTypeOK
    <3>3. \A r \in LeaseRequests : RequestIsSound(r)'
      BY <1>6, <2>2, <3>1 DEF HandOver, LeaseTypeOK, RequestIsSound, Anchored, valid_seconds
    <3> QED BY <3>2, <3>3
  <2> QED BY <2>1, <2>2
<1>7. CASE EndUse(q)
  <2>1. LeaseTypeOK' BY <1>7 DEF EndUse, LeaseTypeOK
  <2>2. \A r \in LeaseRequests : RequestIsSound(r)'
    BY <1>7 DEF EndUse, LeaseTypeOK, RequestIsSound, Anchored, valid_seconds
  <2> QED BY <2>1, <2>2
<1>8. CASE release_managed_connection_lease(q)
  <2>1. CASE CallFails(q, "over") \/ CallAnswered(q, "over")
    BY <2>1, MoveIsSound DEF CallFails, CallAnswered, Anchored, LeaseTypeOK
  <2>2. CASE /\ managed' = [managed EXCEPT ![q] = [Unleased EXCEPT !.pc = "over"]]
             /\ UNCHANGED <<tick, lag, sessionToken, sessionValid>>
    <3>1. LeaseTypeOK' BY <2>2 DEF LeaseTypeOK, Unleased
    <3>2. \A r \in LeaseRequests : RequestIsSound(r)'
      BY <2>2 DEF LeaseTypeOK, RequestIsSound, Anchored, valid_seconds, Unleased
    <3> QED BY <3>1, <3>2
  <2> QED BY <1>8, <2>1, <2>2 DEF release_managed_connection_lease
<1>9. CASE Retire(q)
  BY <1>9, MoveIsSound DEF Retire, Anchored, LeaseTypeOK
<1> QED BY <1>1, <1>2, <1>3, <1>4, <1>5, <1>6, <1>7, <1>8, <1>9 DEF LeaseStep

(* The passing of time moves no request towards its anchor, and a session  *)
(* is nobody's lifetime.                                                   *)
LEMMA NextSound == LeaseInv /\ [LeaseNext]_leaseVars => LeaseInv'
<1> SUFFICES ASSUME LeaseInv, [LeaseNext]_leaseVars PROVE LeaseInv'
  OBVIOUS
<1> USE DEF LeaseInv
<1>1. CASE Second
  <2>1. LeaseTypeOK' BY <1>1 DEF Second, LeaseTypeOK
  <2>2. \A q \in LeaseRequests : RequestIsSound(q)'
    BY <1>1 DEF Second, LeaseTypeOK, RequestIsSound, Anchored
  <2> QED BY <2>1, <2>2
<1>2. CASE ChangeSession
  <2>1. LeaseTypeOK' BY <1>2 DEF ChangeSession, LeaseTypeOK
  <2>2. \A q \in LeaseRequests : RequestIsSound(q)'
    BY <1>2 DEF ChangeSession, RequestIsSound, Anchored, valid_seconds
  <2> QED BY <2>1, <2>2
<1>3. CASE \E q \in LeaseRequests : LeaseStep(q)
  BY <1>3, StepIsSound
<1>4. CASE UNCHANGED leaseVars
  BY <1>4 DEF leaseVars, LeaseTypeOK, RequestIsSound, Anchored, valid_seconds
<1> QED BY <1>1, <1>2, <1>3, <1>4 DEF LeaseNext

(* For every margin, range of lifetimes and lag below both: a managed pool *)
(* is never handed out with a credential the provider no longer accepts.   *)
THEOREM CredentialsOutliveTheirPools == LeaseSpec => []HandedOutAlive
<1>1. LeaseInv => HandedOutAlive
  BY DEF LeaseInv, LeaseTypeOK, RequestIsSound, Anchored, HandedOutAlive
<1> QED BY <1>1, InitSound, NextSound, PTL DEF LeaseSpec

--------------------------------------------------------------------------------
(***************************************************************************)
(* CliInstall.  Nobody finds a torn binary at a target, what the user put  *)
(* there is replaced only after a confirmation, and the shell profile      *)
(* holds the PATH block at most once and on a line of its own.             *)
(*                                                                         *)
(* Each is a promise about a file that is checked at one position of an    *)
(* installation and written at a later one: the invariant carries what was *)
(* checked, and what no other desktop can undo, from position to position  *)
(* (InstallOk).                                                            *)
(***************************************************************************)

InstallFields == {"pc", "replace", "path", "target", "version", "ended", "unseen"}

NoBegin(s) == \A k \in DOMAIN s : s[k] # "begin"

OneBegin(s) == \A i, j \in DOMAIN s : s[i] = "begin" /\ s[j] = "begin" => i = j

BeginsLine(s) == \A k \in DOMAIN s : s[k] = "begin" => k > 1 /\ s[k - 1] = "nl"

(* One desktop at a time changes the PATH: two would each find no block    *)
(* and both append theirs.                                                 *)
OnePathDesktop == \A d, e \in PathDesktops : d = e

(* Where the installation of desktop d stands, against the file at the     *)
(* global target and the shell profile.                                    *)
InstallOk(d, i, global, prof) ==
    \/ i = NotInstalling
    \/ /\ DOMAIN i = InstallFields /\ i.target \in Targets
       /\ i.pc \in {"in_app", "status", "open", "copy", "rename", "path", "newline", "block"}
       /\ i.path => d \in PathDesktops
       /\ i.pc = "in_app" => i.target = "in_app"
       /\ i.pc \in {"newline", "block"} => i.path /\ (OnePathDesktop => NoBegin(prof))
       /\ i.pc = "block" /\ OnePathDesktop => Len(prof) > 0 /\ prof[Len(prof)] = "nl"
       /\ i.target = "global" /\ i.pc \in {"open", "copy", "rename"} =>
             (global = UserFile => i.replace \/ global \in i.unseen)
       /\ i.target = "global" /\ i.pc \in {"copy", "rename"} => (global = Link => global \in i.unseen)

InstallInv ==
    /\ DOMAIN install = Desktops /\ DOMAIN file = Targets
    /\ \A t \in Targets : file[t] \in {Absent, UserFile, Link} \/ \E v : file[t] = Cli(v, TRUE)
    /\ shellProfile \in Seq({"nl", "user", "begin", "body", "end"})
    /\ OnePathDesktop => OneBegin(shellProfile) /\ BeginsLine(shellProfile)
    /\ \A d \in Desktops : InstallOk(d, install[d], file["global"], shellProfile)

(* The positions of a marker in a profile are finitely many. *)
LEMMA CountIsFinite ==
    ASSUME NEW S, NEW s \in Seq(S), NEW x
    PROVE  IsFiniteSet({k \in DOMAIN s : s[k] = x})
<1>1. DOMAIN s = 1..Len(s) /\ Len(s) \in Nat
  OBVIOUS
<1>2. IsFiniteSet(1..Len(s))
  BY <1>1, FS_Interval
<1>3. {k \in DOMAIN s : s[k] = x} \in SUBSET (1..Len(s))
  BY <1>1
<1>. QED BY <1>2, <1>3, FS_Subset

(* A count of zero means that there is none, one marker is counted once. *)
LEMMA CountMeaning ==
    ASSUME NEW S, NEW s \in Seq(S)
    PROVE  /\ Count(s, "begin") = 0 => NoBegin(s)
           /\ OneBegin(s) => Count(s, "begin") <= 1
<1> DEFINE K == {k \in DOMAIN s : s[k] = "begin"}
<1>1. IsFiniteSet(K) /\ Count(s, "begin") = Cardinality(K)
  BY CountIsFinite DEF Count
<1>2. Cardinality(K) = 0 => NoBegin(s)
  <2>1. Cardinality(K) = 0 => K = {}
    BY <1>1, FS_EmptySet
  <2>. QED BY <2>1 DEF NoBegin
<1>3. OneBegin(s) => Cardinality(K) <= 1
  <2> SUFFICES ASSUME OneBegin(s) PROVE Cardinality(K) <= 1
    OBVIOUS
  <2>1. CASE K = {}
    <3>1. Cardinality({}) = 0
      BY FS_EmptySet
    <3> HIDE DEF K
    <3>. QED BY <2>1, <3>1
  <2>2. ASSUME NEW k \in K PROVE Cardinality(K) <= 1
    <3>1. K = {k}
      BY <2>2 DEF OneBegin
    <3>2. Cardinality({k}) = 1
      BY FS_Singleton
    <3> HIDE DEF K
    <3>. QED BY <3>1, <3>2
  <2>. QED BY <2>1, <2>2
<1>. QED BY <1>1, <1>2, <1>3

LEMMA InstallFacts ==
    ASSUME InstallInv
    PROVE  /\ DOMAIN install = Desktops /\ DOMAIN file = Targets
           /\ shellProfile \in Seq({"nl", "user", "begin", "body", "end"})
           /\ DOMAIN shellProfile = 1..Len(shellProfile) /\ Len(shellProfile) \in Nat
           /\ OnePathDesktop => OneBegin(shellProfile) /\ BeginsLine(shellProfile)
           /\ \A d \in Desktops : InstallOk(d, install[d], file["global"], shellProfile)
BY DEF InstallInv

(* What an installation that stands somewhere is. *)
LEMMA InstallAt ==
    ASSUME InstallInv, NEW d \in Desktops, install[d].pc # "idle"
    PROVE  LET i == install[d] IN
           /\ DOMAIN i = InstallFields /\ i.target \in Targets
           /\ i.path => d \in PathDesktops
           /\ i.pc = "in_app" => i.target = "in_app"
           /\ i.pc \in {"newline", "block"} => i.path /\ (OnePathDesktop => NoBegin(shellProfile))
           /\ i.pc = "block" /\ OnePathDesktop => Len(shellProfile) > 0 /\ shellProfile[Len(shellProfile)] = "nl"
           /\ i.target = "global" /\ i.pc \in {"open", "copy", "rename"} =>
                 (file["global"] = UserFile => i.replace \/ file["global"] \in i.unseen)
           /\ i.target = "global" /\ i.pc \in {"copy", "rename"} =>
                 (file["global"] = Link => file["global"] \in i.unseen)
BY InstallFacts DEF InstallOk, NotInstalling

(* A step of one installation that touches neither file nor profile. *)
LEMMA InstallMoves ==
    ASSUME InstallInv, NEW d \in Desktops, file' = file, shellProfile' = shellProfile,
           DOMAIN install' = Desktops, \A e \in Desktops \ {d} : install'[e] = install[e],
           InstallOk(d, install'[d], file["global"], shellProfile)
    PROVE  InstallInv'
<1>1. \A e \in Desktops : InstallOk(e, install'[e], file'["global"], shellProfile')
  <2> SUFFICES ASSUME NEW e \in Desktops PROVE InstallOk(e, install'[e], file["global"], shellProfile)
    BY DEF InstallOk
  <2>1. CASE e = d
    BY <2>1
  <2>2. CASE e # d
    BY <2>2, InstallFacts DEF InstallOk
  <2>. QED BY <2>1, <2>2
<1>. QED BY <1>1 DEF InstallInv, OneBegin, BeginsLine

(* An installation that stops needs nothing. *)
LEMMA InstallStops ==
    ASSUME InstallInv, NEW d \in Desktops, file' = file, shellProfile' = shellProfile, Step(d, NotInstalling)
    PROVE  InstallInv'
<1>1. /\ DOMAIN install' = Desktops /\ \A e \in Desktops \ {d} : install'[e] = install[e]
      /\ install'[d] = NotInstalling
  BY InstallFacts DEF Step
<1>2. InstallOk(d, install'[d], file["global"], shellProfile)
  BY <1>1 DEF InstallOk
<1>. QED BY <1>1, <1>2, InstallMoves

LEMMA StartInstallStep ==
    ASSUME InstallInv, NEW d \in Desktops, NEW replace \in BOOLEAN, NEW path \in {FALSE, (d \in PathDesktops)},
           StartInstall(d, replace, path)
    PROVE  InstallInv'
<1> DEFINE i == [pc |-> "in_app", replace |-> replace, path |-> path, target |-> "in_app", version |-> 0, ended |-> TRUE, unseen |-> {}]
<1>1. /\ DOMAIN install' = Desktops /\ \A e \in Desktops \ {d} : install'[e] = install[e] /\ install'[d] = i
      /\ file' = file /\ shellProfile' = shellProfile /\ install'[d] = i
  BY InstallFacts DEF StartInstall, Step
<1>2. /\ DOMAIN i = InstallFields /\ i.target = "in_app" /\ i.pc = "in_app" /\ (i.path => d \in PathDesktops)
  BY DEF InstallFields
<1> HIDE DEF i
<1>3. InstallOk(d, install'[d], file["global"], shellProfile)
  BY <1>1, <1>2 DEF InstallOk, Targets
<1>. QED BY <1>1, <1>3, InstallMoves

LEMMA InAppStep ==
    ASSUME InstallInv, NEW d \in Desktops, in_app_cli_directory(d)
    PROVE  InstallInv'
<1>1. install[d].pc = "in_app" /\ file' = file /\ shellProfile' = shellProfile
  BY DEF in_app_cli_directory
<1>2. PICK p \in {"status", "open"} : install' = [install EXCEPT ![d].pc = p]
  BY DEF in_app_cli_directory, Goto
<1>3. /\ DOMAIN install' = Desktops /\ \A e \in Desktops \ {d} : install'[e] = install[e]
      /\ install'[d] = [install[d] EXCEPT !.pc = p]
  BY <1>2, InstallFacts
<1>4. /\ DOMAIN install[d] = InstallFields /\ install[d].target = "in_app"
      /\ install[d].path => d \in PathDesktops
  BY <1>1, InstallAt
<1>5. InstallOk(d, install'[d], file["global"], shellProfile)
  BY <1>3, <1>4 DEF InstallOk, InstallFields, Targets
<1>. QED BY <1>1, <1>3, <1>5, InstallMoves

LEMMA CheckTarget ==
    ASSUME InstallInv, NEW d \in Desktops, check_target(d)
    PROVE  InstallInv'
<1>1. install[d].pc = "status" /\ file' = file /\ shellProfile' = shellProfile
  BY DEF check_target
<1>2. CASE Step(d, NotInstalling)
  BY <1>1, <1>2, InstallStops
<1>3. CASE /\ ~(Conflict("global") /\ ~install[d].replace)
           /\ Step(d, [install[d] EXCEPT !.target = "global", !.path = @ /\ path_change_required,
                                         !.pc = IF Current("global") THEN "path" ELSE "open"])
  <2>1. PICK path \in BOOLEAN : path = (install[d].path /\ path_change_required)
    OBVIOUS
  <2>2. PICK p \in {"path", "open"} : p = IF Current("global") THEN "path" ELSE "open"
    OBVIOUS
  <2>3. install' = [install EXCEPT ![d] = [install[d] EXCEPT !.target = "global", !.path = path, !.pc = p]]
    BY <1>3, <2>1, <2>2 DEF Step
  <2>4. /\ DOMAIN install' = Desktops /\ \A e \in Desktops \ {d} : install'[e] = install[e]
        /\ install'[d] = [install[d] EXCEPT !.target = "global", !.path = path, !.pc = p]
    BY <2>3, InstallFacts
  <2>5. DOMAIN install[d] = InstallFields /\ (install[d].path => d \in PathDesktops)
    BY <1>1, InstallAt
  <2>6. file["global"] = UserFile => install[d].replace
    BY <1>3 DEF Conflict, Current, UserFile, Absent, Cli
  <2>7. InstallOk(d, install'[d], file["global"], shellProfile)
    BY <2>1, <2>2, <2>4, <2>5, <2>6 DEF InstallOk, InstallFields, Targets
  <2>. QED BY <1>1, <2>4, <2>7, InstallMoves
<1>. QED BY <1>2, <1>3 DEF check_target

LEMMA OpenSource ==
    ASSUME InstallInv, NEW d \in Desktops, open_source(d)
    PROVE  InstallInv'
<1>1. install[d].pc = "open" /\ file' = file /\ shellProfile' = shellProfile
  BY DEF open_source
<1>2. CASE Step(d, NotInstalling)
  BY <1>1, <1>2, InstallStops
<1>3. CASE /\ file[install[d].target] # Link
           /\ Step(d, [install[d] EXCEPT !.pc = "copy", !.version = bundled, !.unseen = @ \ {Link}])
  <2>1. /\ DOMAIN install' = Desktops /\ \A e \in Desktops \ {d} : install'[e] = install[e]
        /\ install'[d] = [install[d] EXCEPT !.pc = "copy", !.version = bundled, !.unseen = install[d].unseen \ {Link}]
    BY <1>3, InstallFacts DEF Step
  <2>2. /\ DOMAIN install[d] = InstallFields /\ (install[d].path => d \in PathDesktops) /\ install[d].target \in Targets
        /\ install[d].target = "global" =>
              (file["global"] = UserFile => install[d].replace \/ file["global"] \in install[d].unseen)
    BY <1>1, InstallAt
  <2>3. UserFile # Link
    BY DEF UserFile, Link
  <2>4. InstallOk(d, install'[d], file["global"], shellProfile)
    BY <1>3, <2>1, <2>2, <2>3 DEF InstallOk, InstallFields
  <2>. QED BY <1>1, <2>1, <2>4, InstallMoves
<1>. QED BY <1>2, <1>3 DEF open_source

LEMMA CopyStep ==
    ASSUME InstallInv, NEW d \in Desktops, copy(d)
    PROVE  InstallInv'
<1>1. /\ install[d].pc = "copy" /\ file' = file /\ shellProfile' = shellProfile
      /\ install' = [install EXCEPT ![d].pc = "rename"]
  BY DEF copy, Goto
<1>2. /\ DOMAIN install' = Desktops /\ \A e \in Desktops \ {d} : install'[e] = install[e]
      /\ install'[d] = [install[d] EXCEPT !.pc = "rename"]
  BY <1>1, InstallFacts
<1>3. /\ DOMAIN install[d] = InstallFields /\ (install[d].path => d \in PathDesktops) /\ install[d].target \in Targets
      /\ install[d].target = "global" =>
            /\ file["global"] = UserFile => install[d].replace \/ file["global"] \in install[d].unseen
            /\ file["global"] = Link => file["global"] \in install[d].unseen
  BY <1>1, InstallAt
<1>4. InstallOk(d, install'[d], file["global"], shellProfile)
  BY <1>2, <1>3 DEF InstallOk, InstallFields
<1>. QED BY <1>1, <1>2, <1>4, InstallMoves

(* A sidecar that is renamed into place disturbs no other installation. *)
LEMMA AtomicReplace ==
    ASSUME InstallInv, NEW d \in Desktops, atomic_replace(d)
    PROVE  InstallInv'
<1> DEFINE t == install[d].target
<1>1. /\ install[d].pc = "rename" /\ shellProfile' = shellProfile
      /\ file' = [file EXCEPT ![t] = Cli(install[d].version, TRUE)]
  BY DEF atomic_replace
<1>2. PICK p \in {"status", "path"} : p = IF t = "in_app" THEN "status" ELSE "path"
  OBVIOUS
<1>3. /\ DOMAIN install' = Desktops /\ \A e \in Desktops \ {d} : install'[e] = install[e]
      /\ install'[d] = [install[d] EXCEPT !.pc = p, !.version = 0, !.unseen = {}]
  <2>1. install' = [install EXCEPT ![d] = [install[d] EXCEPT !.pc = p, !.version = 0, !.unseen = {}]]
    BY <1>2 DEF atomic_replace, Step
  <2>. QED BY <2>1, InstallFacts
<1>4. DOMAIN install[d] = InstallFields /\ (install[d].path => d \in PathDesktops) /\ t \in Targets
  BY <1>1, InstallAt
<1>5. PICK f : f = Cli(install[d].version, TRUE)
  OBVIOUS
<1>6. f # UserFile /\ f # Link /\ \E v : f = Cli(v, TRUE)
  BY <1>5 DEF Cli, UserFile, Link
<1>7. /\ DOMAIN file' = Targets /\ file'["global"] \in {f, file["global"]}
      /\ \A u \in Targets : file'[u] = f \/ file'[u] = file[u]
  BY <1>1, <1>4, <1>5, InstallFacts DEF Targets
<1>8. \A u \in Targets : file'[u] \in {Absent, UserFile, Link} \/ \E v : file'[u] = Cli(v, TRUE)
  BY <1>6, <1>7 DEF InstallInv
<1>9. \A e \in Desktops : InstallOk(e, install'[e], file'["global"], shellProfile')
  <2> SUFFICES ASSUME NEW e \in Desktops PROVE InstallOk(e, install'[e], file'["global"], shellProfile')
    OBVIOUS
  <2>1. CASE e = d
    BY <1>3, <1>4, <2>1 DEF InstallOk, InstallFields
  <2>2. CASE e # d
    <3>1. InstallOk(e, install[e], file["global"], shellProfile)
      BY InstallFacts
    <3>. QED BY <1>1, <1>3, <1>6, <1>7, <2>2, <3>1 DEF InstallOk
  <2>. QED BY <2>1, <2>2
<1>. QED BY <1>1, <1>3, <1>7, <1>8, <1>9 DEF InstallInv, OneBegin, BeginsLine

LEMMA ConfigurePath ==
    ASSUME InstallInv, NEW d \in Desktops, configure_user_path(d)
    PROVE  InstallInv'
<1>1. install[d].pc = "path" /\ file' = file /\ shellProfile' = shellProfile
  BY DEF configure_user_path
<1>2. CASE Step(d, NotInstalling)
  BY <1>1, <1>2, InstallStops
<1>3. CASE /\ install[d].path /\ managed_path_block_state(shellProfile) = "missing"
           /\ Step(d, [install[d] EXCEPT !.pc = "newline", !.ended = EndsLine(shellProfile)])
  <2>1. PICK ended : ended = EndsLine(shellProfile)
    OBVIOUS
  <2>2. /\ DOMAIN install' = Desktops /\ \A e \in Desktops \ {d} : install'[e] = install[e]
        /\ install'[d] = [install[d] EXCEPT !.pc = "newline", !.ended = ended]
    BY <1>3, <2>1, InstallFacts DEF Step
  <2>3. Count(shellProfile, "begin") = 0
    BY <1>3 DEF managed_path_block_state
  <2>4. NoBegin(shellProfile)
    BY <2>3, InstallFacts, CountMeaning
  <2>5. DOMAIN install[d] = InstallFields /\ (install[d].path => d \in PathDesktops) /\ install[d].target \in Targets
    BY <1>1, InstallAt
  <2>6. InstallOk(d, install'[d], file["global"], shellProfile)
    BY <1>3, <2>2, <2>4, <2>5 DEF InstallOk, InstallFields
  <2>. QED BY <1>1, <2>2, <2>6, InstallMoves
<1>. QED BY <1>2, <1>3 DEF configure_user_path

Lines == {"nl", "user", "begin", "body", "end"}

(* Where the elements of a longer profile come from. *)
LEMMA ConcatParts ==
    ASSUME NEW S, NEW s \in Seq(S), NEW t \in Seq(S)
    PROVE  /\ s \o t \in Seq(S) /\ Len(s \o t) = Len(s) + Len(t)
           /\ DOMAIN (s \o t) = 1..(Len(s) + Len(t)) /\ DOMAIN s = 1..Len(s) /\ DOMAIN t = 1..Len(t)
           /\ Len(s) \in Nat /\ Len(t) \in Nat
           /\ \A k \in 1..Len(s) : (s \o t)[k] = s[k]
           /\ \A k \in (Len(s) + 1)..(Len(s) + Len(t)) : (s \o t)[k] = t[k - Len(s)]
OBVIOUS

(* Lines without the first marker leave a profile sound. *)
LEMMA LinesAppended ==
    ASSUME NEW s \in Seq(Lines), NEW t \in Seq(Lines), NoBegin(t)
    PROVE  /\ OneBegin(s) => OneBegin(s \o t)
           /\ BeginsLine(s) => BeginsLine(s \o t)
           /\ NoBegin(s) => NoBegin(s \o t)
<1>1. \A k \in DOMAIN (s \o t) : (s \o t)[k] = "begin" => k \in DOMAIN s /\ s[k] = "begin"
  <2> SUFFICES ASSUME NEW k \in DOMAIN (s \o t), (s \o t)[k] = "begin"
               PROVE  k \in DOMAIN s /\ s[k] = "begin"
    OBVIOUS
  <2>1. CASE k \in 1..Len(s)
    BY <2>1, ConcatParts
  <2>2. CASE k \in (Len(s) + 1)..(Len(s) + Len(t))
    <3>1. (s \o t)[k] = t[k - Len(s)] /\ k - Len(s) \in DOMAIN t
      BY <2>2, ConcatParts
    <3>. QED BY <3>1 DEF NoBegin
  <2>. QED BY <2>1, <2>2, ConcatParts
<1>2. OneBegin(s) => OneBegin(s \o t)
  BY <1>1 DEF OneBegin
<1>3. BeginsLine(s) => BeginsLine(s \o t)
  <2> SUFFICES ASSUME BeginsLine(s), NEW k \in DOMAIN (s \o t), (s \o t)[k] = "begin"
               PROVE  k > 1 /\ (s \o t)[k - 1] = "nl"
    BY DEF BeginsLine
  <2>1. k \in 1..Len(s) /\ k > 1 /\ s[k - 1] = "nl"
    BY <1>1, ConcatParts DEF BeginsLine
  <2>2. k - 1 \in 1..Len(s)
    BY <2>1, ConcatParts
  <2>. QED BY <2>1, <2>2, ConcatParts
<1>4. NoBegin(s) => NoBegin(s \o t)
  BY <1>1 DEF NoBegin
<1>. QED BY <1>2, <1>3, <1>4

(* A block, or the part of it a crash let through, at the end of a profile *)
(* that had none and ends its last line.                                   *)
LEMMA BlockAppended ==
    ASSUME NEW s \in Seq(Lines), NEW t \in Seq(Lines), NoBegin(s), Len(s) > 0, s[Len(s)] = "nl",
           \A k \in DOMAIN t : t[k] = "begin" => k = 1
    PROVE  OneBegin(s \o t) /\ BeginsLine(s \o t)
<1>1. \A k \in DOMAIN (s \o t) : (s \o t)[k] = "begin" => k = Len(s) + 1
  <2> SUFFICES ASSUME NEW k \in DOMAIN (s \o t), (s \o t)[k] = "begin"
               PROVE  k = Len(s) + 1
    OBVIOUS
  <2>1. CASE k \in 1..Len(s)
    BY <2>1, ConcatParts DEF NoBegin
  <2>2. CASE k \in (Len(s) + 1)..(Len(s) + Len(t))
    <3>1. (s \o t)[k] = t[k - Len(s)] /\ k - Len(s) \in DOMAIN t /\ Len(s) \in Nat /\ k \in Int
      BY <2>2, ConcatParts
    <3>2. k - Len(s) = 1
      BY <3>1
    <3>. QED BY <3>1, <3>2
  <2>. QED BY <2>1, <2>2, ConcatParts
<1>2. (s \o t)[Len(s)] = "nl" /\ Len(s) \in Nat
  BY ConcatParts
<1>3. OneBegin(s \o t)
  BY <1>1 DEF OneBegin
<1>4. BeginsLine(s \o t)
  BY <1>1, <1>2 DEF BeginsLine
<1>. QED BY <1>3, <1>4

(* Removing the body or the end of a block leaves the rest where it was    *)
(* against its line.                                                       *)
LEMMA LineRemoved ==
    ASSUME NEW s \in Seq(Lines), NEW k \in DOMAIN s, s[k] \in {"body", "end"}
    PROVE  /\ RemoveAt(s, k) \in Seq(Lines) /\ (OneBegin(s) => OneBegin(RemoveAt(s, k)))
           /\ BeginsLine(s) => BeginsLine(RemoveAt(s, k))
           /\ NoBegin(s) => NoBegin(RemoveAt(s, k))
<1> DEFINE r == RemoveAt(s, k)
           old(j) == IF j < k THEN j ELSE j + 1
<1>1. /\ Len(s) \in Nat /\ DOMAIN s = 1..Len(s) /\ k \in 1..Len(s)
  OBVIOUS
<1>2. PICK a, b : a = SubSeq(s, 1, k - 1) /\ b = SubSeq(s, k + 1, Len(s))
  OBVIOUS
<1>3. /\ a \in Seq(Lines) /\ Len(a) = k - 1 /\ \A j \in 1..(k - 1) : a[j] = s[j]
      /\ b \in Seq(Lines) /\ Len(b) = Len(s) - k /\ \A j \in 1..(Len(s) - k) : b[j] = s[j + k]
  <2>1. a \in Seq(Lines) /\ Len(a) = k - 1
    BY <1>1, <1>2
  <2>4. b \in Seq(Lines) /\ Len(b) = Len(s) - k
    BY <1>1, <1>2
  <2>2. \A j \in 1..(k - 1) : a[j] = s[j]
    BY <1>1, <1>2
  <2>3. \A j \in 1..(Len(s) - k) : b[j] = s[j + k]
    BY <1>1, <1>2
  <2>. QED BY <2>1, <2>2, <2>3, <2>4
<1>4. /\ r \in Seq(Lines) /\ Len(r) = Len(s) - 1 /\ DOMAIN r = 1..(Len(s) - 1)
      /\ \A j \in 1..(Len(s) - 1) : old(j) \in DOMAIN s /\ r[j] = s[old(j)]
  <2>1. r = a \o b
    BY <1>2 DEF RemoveAt
  <2> HIDE DEF r
  <2>2. /\ r \in Seq(Lines) /\ Len(r) = (k - 1) + (Len(s) - k) /\ DOMAIN r = 1..((k - 1) + (Len(s) - k))
        /\ \A j \in 1..(k - 1) : r[j] = a[j]
        /\ \A j \in ((k - 1) + 1)..((k - 1) + (Len(s) - k)) : r[j] = b[j - (k - 1)]
    <3>1. /\ a \o b \in Seq(Lines) /\ Len(a \o b) = Len(a) + Len(b)
          /\ DOMAIN (a \o b) = 1..(Len(a) + Len(b))
          /\ \A j \in 1..Len(a) : (a \o b)[j] = a[j]
          /\ \A j \in (Len(a) + 1)..(Len(a) + Len(b)) : (a \o b)[j] = b[j - Len(a)]
      <4>1. a \in Seq(Lines) /\ b \in Seq(Lines)
        BY <1>3
      <4>. QED BY <4>1, ConcatParts
    <3>. QED BY <1>3, <2>1, <3>1
  <2>3. (k - 1) + (Len(s) - k) = Len(s) - 1
    BY <1>1
  <2>4. ASSUME NEW j \in 1..(Len(s) - 1) PROVE old(j) \in DOMAIN s /\ r[j] = s[old(j)]
    <3>1. CASE j \in 1..(k - 1)
      BY <1>1, <1>3, <2>2, <3>1
    <3>2. CASE j \in k..(Len(s) - 1)
      <4>1. r[j] = b[j - (k - 1)]
        BY <1>1, <2>2, <3>2
      <4>2. j - (k - 1) \in 1..(Len(s) - k) /\ (j - (k - 1)) + k = j + 1 /\ j + 1 \in 1..Len(s) /\ ~(j < k)
        BY <1>1, <3>2
      <4>. QED BY <1>1, <1>3, <4>1, <4>2
    <3>. QED BY <1>1, <3>1, <3>2
  <2>. QED BY <2>2, <2>3, <2>4
<1> HIDE DEF r
<1>5. OneBegin(s) => OneBegin(r)
  <2> SUFFICES ASSUME OneBegin(s), NEW i \in DOMAIN r, NEW j \in DOMAIN r, r[i] = "begin", r[j] = "begin"
               PROVE  i = j
    BY DEF OneBegin
  <2>1. old(i) = old(j)
    BY <1>4 DEF OneBegin
  <2>. QED BY <1>1, <1>4, <2>1
<1>6. BeginsLine(s) => BeginsLine(r)
  <2> SUFFICES ASSUME BeginsLine(s), NEW j \in DOMAIN r, r[j] = "begin"
               PROVE  j > 1 /\ r[j - 1] = "nl"
    BY DEF BeginsLine
  <2>1. s[old(j)] = "begin" /\ old(j) > 1 /\ s[old(j) - 1] = "nl" /\ j \in 1..(Len(s) - 1)
    BY <1>4 DEF BeginsLine
  <2>2. CASE j < k
    <3>1. j > 1 /\ j - 1 \in 1..(Len(s) - 1) /\ old(j - 1) = old(j) - 1
      BY <1>1, <2>1, <2>2
    <3>. QED BY <1>4, <2>1, <3>1
  <2>3. CASE j = k
    BY <1>1, <2>1, <2>3
  <2>4. CASE j > k
    <3>1. j > 1 /\ j - 1 \in 1..(Len(s) - 1) /\ old(j - 1) = old(j) - 1
      BY <1>1, <2>1, <2>4
    <3>. QED BY <1>4, <2>1, <3>1
  <2>. QED BY <1>1, <2>1, <2>2, <2>3, <2>4
<1>7. NoBegin(s) => NoBegin(r)
  BY <1>4 DEF NoBegin
<1>. QED BY <1>4, <1>5, <1>6, <1>7 DEF r

(* A step that changes the profile: the desktop that may do so is the only *)
(* one whose position depends on it.                                       *)
LEMMA ProfileMoves ==
    ASSUME InstallInv, NEW d \in Desktops, install[d].pc \in {"newline", "block"}, file' = file,
           DOMAIN install' = Desktops, \A e \in Desktops \ {d} : install'[e] = install[e],
           shellProfile' \in Seq(Lines), OnePathDesktop => OneBegin(shellProfile') /\ BeginsLine(shellProfile'),
           InstallOk(d, install'[d], file["global"], shellProfile')
    PROVE  InstallInv'
<1>1. d \in PathDesktops
  BY InstallAt
<1>2. \A e \in Desktops : InstallOk(e, install'[e], file'["global"], shellProfile')
  <2> SUFFICES ASSUME NEW e \in Desktops PROVE InstallOk(e, install'[e], file'["global"], shellProfile')
    OBVIOUS
  <2>1. CASE e = d
    BY <2>1
  <2>2. CASE e # d
    <3>1. InstallOk(e, install[e], file["global"], shellProfile)
      BY InstallFacts
    <3>2. OnePathDesktop => e \notin PathDesktops
      BY <1>1, <2>2 DEF OnePathDesktop
    <3>. QED BY <2>2, <3>1, <3>2 DEF InstallOk
  <2>. QED BY <2>1, <2>2
<1>. QED BY <1>2 DEF InstallInv, Lines

LEMMA WriteNewline ==
    ASSUME InstallInv, NEW d \in Desktops, write_newline(d)
    PROVE  InstallInv'
<1>1. install[d].pc = "newline" /\ file' = file /\ install' = [install EXCEPT ![d].pc = "block"]
  BY DEF write_newline, Goto
<1>2. PICK t : t \in {<<"nl">>, <<"nl", "nl">>} /\ shellProfile' = shellProfile \o t
  BY DEF write_newline
<1>3. t \in Seq(Lines) /\ NoBegin(t) /\ Len(t) > 0 /\ t[Len(t)] = "nl" /\ Len(t) \in Nat
  <2>1. CASE t = <<"nl">>
    BY <2>1 DEF Lines, NoBegin
  <2>2. CASE t = <<"nl", "nl">>
    BY <2>2 DEF Lines, NoBegin
  <2>. QED BY <1>2, <2>1, <2>2
<1>4. /\ shellProfile \in Seq(Lines) /\ (OnePathDesktop => OneBegin(shellProfile) /\ BeginsLine(shellProfile))
      /\ Len(shellProfile) \in Nat
  BY InstallFacts DEF Lines
<1>5. /\ DOMAIN install[d] = InstallFields /\ install[d].target \in Targets /\ install[d].path
      /\ d \in PathDesktops /\ (OnePathDesktop => NoBegin(shellProfile))
  BY <1>1, InstallAt
<1>6. PICK p : p = shellProfile \o t
  OBVIOUS
<1>7. p \in Seq(Lines) /\ (OnePathDesktop => OneBegin(p) /\ BeginsLine(p) /\ NoBegin(p))
  BY <1>3, <1>4, <1>5, <1>6, ConcatParts, LinesAppended
<1>8. Len(p) > 0 /\ p[Len(p)] = "nl"
  <2>1. Len(p) = Len(shellProfile) + Len(t)
        /\ \A k \in (Len(shellProfile) + 1)..(Len(shellProfile) + Len(t)) : p[k] = t[k - Len(shellProfile)]
    BY <1>3, <1>4, <1>6, ConcatParts
  <2>2. Len(p) \in (Len(shellProfile) + 1)..(Len(shellProfile) + Len(t)) /\ Len(p) - Len(shellProfile) = Len(t)
    BY <1>3, <1>4, <2>1
  <2>. QED BY <1>3, <1>4, <2>1, <2>2
<1>9. /\ DOMAIN install' = Desktops /\ \A e \in Desktops \ {d} : install'[e] = install[e]
      /\ install'[d] = [install[d] EXCEPT !.pc = "block"]
  BY <1>1, InstallFacts
<1>10. InstallOk(d, install'[d], file["global"], p)
  BY <1>5, <1>7, <1>8, <1>9 DEF InstallOk, InstallFields
<1>11. p = shellProfile'
  BY <1>2, <1>6
<1>12. /\ shellProfile' \in Seq(Lines) /\ (OnePathDesktop => OneBegin(shellProfile') /\ BeginsLine(shellProfile'))
       /\ InstallOk(d, install'[d], file["global"], shellProfile')
  BY <1>7, <1>10, <1>11
<1>. QED BY <1>1, <1>9, <1>12, ProfileMoves

(* The block, whole or cut short by a crash, ends the installation. *)
LEMMA BlockWritten ==
    ASSUME InstallInv, NEW d \in Desktops, install[d].pc = "block", file' = file,
           Step(d, NotInstalling), NEW t \in Seq(Lines), \A k \in DOMAIN t : t[k] = "begin" => k = 1,
           shellProfile' = shellProfile \o t
    PROVE  InstallInv'
<1>1. /\ shellProfile \in Seq(Lines)
      /\ OnePathDesktop => /\ NoBegin(shellProfile) /\ Len(shellProfile) > 0
                           /\ shellProfile[Len(shellProfile)] = "nl"
  BY InstallFacts, InstallAt DEF Lines
<1>2. PICK p : p = shellProfile \o t
  OBVIOUS
<1>3. p \in Seq(Lines) /\ (OnePathDesktop => OneBegin(p) /\ BeginsLine(p))
  BY <1>1, <1>2, ConcatParts, BlockAppended
<1>4. /\ DOMAIN install' = Desktops /\ \A e \in Desktops \ {d} : install'[e] = install[e]
      /\ install'[d] = NotInstalling
  BY InstallFacts DEF Step
<1>5. shellProfile' \in Seq(Lines) /\ (OnePathDesktop => OneBegin(shellProfile') /\ BeginsLine(shellProfile'))
  BY <1>2, <1>3
<1>6. InstallOk(d, install'[d], file["global"], shellProfile')
  BY <1>4 DEF InstallOk
<1>. QED BY <1>4, <1>5, <1>6, ProfileMoves

LEMMA WriteBlock ==
    ASSUME InstallInv, NEW d \in Desktops, write_block(d)
    PROVE  InstallInv'
<1>1. install[d].pc = "block" /\ file' = file /\ Step(d, NotInstalling)
      /\ shellProfile' = shellProfile \o unix_path_block \o <<"nl">>
  BY DEF write_block
<1>2. PICK t : t = <<"begin", "body", "end", "nl">>
  OBVIOUS
<1>3. t \in Seq(Lines) /\ \A k \in DOMAIN t : t[k] = "begin" => k = 1
  BY <1>2 DEF Lines
<1>4. shellProfile \in Seq(Lines)
  BY InstallFacts DEF Lines
<1>5. shellProfile' = shellProfile \o t
  BY <1>1, <1>2, <1>4 DEF unix_path_block, Lines
<1>. QED BY <1>1, <1>3, <1>5, BlockWritten

LEMMA CrashStep ==
    ASSUME InstallInv, NEW d \in Desktops, Crash(d)
    PROVE  InstallInv'
<1>1. file' = file /\ Step(d, NotInstalling)
  BY DEF Crash
<1>2. CASE shellProfile' = shellProfile
  BY <1>1, <1>2, InstallStops
<1>3. CASE install[d].pc = "block" /\ \E n \in 0..Len(unix_path_block) :
              shellProfile' = shellProfile \o SubSeq(unix_path_block, 1, n)
  <2>1. Len(unix_path_block) = 3
    BY DEF unix_path_block
  <2>2. PICK n \in 0..3 : shellProfile' = shellProfile \o SubSeq(unix_path_block, 1, n)
    BY <1>3, <2>1
  <2>3. PICK t : t = SubSeq(unix_path_block, 1, n)
    OBVIOUS
  <2>4. t \in Seq(Lines) /\ Len(t) = n /\ \A k \in 1..n : t[k] = unix_path_block[k]
    BY <2>2, <2>3 DEF unix_path_block, Lines
  <2>5. \A k \in DOMAIN t : t[k] = "begin" => k = 1
    BY <2>2, <2>4 DEF unix_path_block
  <2>. QED BY <1>1, <1>3, <2>2, <2>3, <2>4, <2>5, BlockWritten
<1>. QED BY <1>2, <1>3 DEF Crash

(* The user adds a line of their own, or cuts the block. *)
LEMMA UserEditsStep ==
    ASSUME InstallInv, UserEdits
    PROVE  InstallInv'
<1>1. file' = file /\ install' = install /\ \A d \in Desktops : install[d].pc # "block"
  BY DEF UserEdits
<1>2. shellProfile \in Seq(Lines) /\ (OnePathDesktop => OneBegin(shellProfile) /\ BeginsLine(shellProfile))
  BY InstallFacts DEF Lines
<1>3. PICK p : p = shellProfile'
  OBVIOUS
<1>4. p \in Seq(Lines) /\ (OnePathDesktop => OneBegin(p) /\ BeginsLine(p)) /\ (NoBegin(shellProfile) => NoBegin(p))
  <2>1. CASE p = Append(shellProfile, "user")
    <3>1. PICK t : t = <<"user">>
      OBVIOUS
    <3>2. t \in Seq(Lines) /\ NoBegin(t)
      BY <3>1 DEF Lines, NoBegin
    <3>3. p = shellProfile \o t
      BY <1>2, <2>1, <3>1
    <3>. QED BY <1>2, <3>2, <3>3, ConcatParts, LinesAppended
  <2>2. ASSUME NEW k \in DOMAIN shellProfile, shellProfile[k] \in {"body", "end"}, p = RemoveAt(shellProfile, k)
        PROVE  p \in Seq(Lines) /\ (OnePathDesktop => OneBegin(p) /\ BeginsLine(p)) /\ (NoBegin(shellProfile) => NoBegin(p))
    BY <1>2, <2>2, LineRemoved
  <2>. QED BY <1>3, <2>1, <2>2 DEF UserEdits
<1>5. \A d \in Desktops : InstallOk(d, install'[d], file'["global"], p)
  <2> SUFFICES ASSUME NEW d \in Desktops PROVE InstallOk(d, install[d], file["global"], p)
    BY <1>1 DEF InstallOk
  <2>1. InstallOk(d, install[d], file["global"], shellProfile)
    BY InstallFacts
  <2>. QED BY <1>1, <1>4, <2>1 DEF InstallOk
<1>6. /\ shellProfile' \in Seq(Lines) /\ (OnePathDesktop => OneBegin(shellProfile') /\ BeginsLine(shellProfile'))
      /\ \A d \in Desktops : InstallOk(d, install'[d], file'["global"], shellProfile')
  BY <1>3, <1>4, <1>5
<1>. QED BY <1>1, <1>6 DEF InstallInv, Lines

(* What comes to the target is noted by every installation that has looked *)
(* there.                                                                  *)
LEMMA UserFilesStep ==
    ASSUME InstallInv, UserFiles
    PROVE  InstallInv'
<1>1. PICK f \in {Absent, UserFile, Link} :
        /\ file' = [file EXCEPT !["global"] = f] /\ shellProfile' = shellProfile
        /\ install' = [d \in Desktops |->
              IF Replacing(d) THEN [install[d] EXCEPT !.unseen = @ \cup ({f} \ {Absent})] ELSE install[d]]
  BY DEF UserFiles
<1>2. /\ DOMAIN file' = Targets /\ file'["global"] = f /\ DOMAIN install' = Desktops
      /\ \A t \in Targets : file'[t] = f \/ file'[t] = file[t]
  BY <1>1, InstallFacts DEF Targets
<1>3. \A t \in Targets : file'[t] \in {Absent, UserFile, Link} \/ \E v : file'[t] = Cli(v, TRUE)
  BY <1>2 DEF InstallInv
<1>4. UserFile # Link /\ UserFile # Absent /\ Link # Absent
  BY DEF UserFile, Link, Absent
<1>5. \A d \in Desktops : InstallOk(d, install'[d], f, shellProfile)
  <2> SUFFICES ASSUME NEW d \in Desktops PROVE InstallOk(d, install'[d], f, shellProfile)
    OBVIOUS
  <2>1. PICK u : u = {f} \ {Absent}
    OBVIOUS
  <2>2. (f = UserFile \/ f = Link) => f \in u
    BY <1>4, <2>1
  <2>3. InstallOk(d, install[d], file["global"], shellProfile)
    BY InstallFacts
  <2>4. CASE install[d] = NotInstalling
    <3>1. ~Replacing(d)
      BY <2>4 DEF Replacing, NotInstalling
    <3>. QED BY <1>1, <2>4, <3>1 DEF InstallOk
  <2>5. CASE install[d] # NotInstalling /\ Replacing(d)
    <3>1. install'[d] = [install[d] EXCEPT !.unseen = install[d].unseen \cup u]
      BY <1>1, <2>1, <2>5
    <3>. QED BY <2>2, <2>3, <2>5, <3>1 DEF InstallOk, InstallFields
  <2>6. CASE install[d] # NotInstalling /\ ~Replacing(d)
    <3>1. install'[d] = install[d]
      BY <1>1, <2>6
    <3>. QED BY <2>3, <2>6, <3>1 DEF InstallOk, Replacing
  <2>. QED BY <2>4, <2>5, <2>6
<1>6. \A d \in Desktops : InstallOk(d, install'[d], file'["global"], shellProfile')
  BY <1>1, <1>2, <1>5
<1>. QED BY <1>1, <1>2, <1>3, <1>6 DEF InstallInv, OneBegin, BeginsLine

LEMMA InstallInitially == InstallInit => InstallInv
<1> SUFFICES ASSUME InstallInit PROVE InstallInv
  OBVIOUS
<1>1. shellProfile = <<>> /\ DOMAIN shellProfile = {}
  BY DEF InstallInit
<1>2. shellProfile \in Seq({"nl", "user", "begin", "body", "end"}) /\ OneBegin(shellProfile) /\ BeginsLine(shellProfile)
  BY <1>1 DEF OneBegin, BeginsLine
<1>3. DOMAIN install = Desktops /\ DOMAIN file = Targets /\ \A t \in Targets : file[t] = Absent
  BY DEF InstallInit
<1>4. \A d \in Desktops : InstallOk(d, install[d], file["global"], shellProfile)
  BY DEF InstallInit, InstallOk
<1>. QED BY <1>2, <1>3, <1>4 DEF InstallInv

LEMMA InstallStutters ==
    ASSUME InstallInv, file' = file, shellProfile' = shellProfile, install' = install
    PROVE  InstallInv'
BY DEF InstallInv, InstallOk, OneBegin, BeginsLine, NoBegin

LEMMA InstallPreserved ==
    ASSUME InstallInv, [InstallNext]_installVars
    PROVE  InstallInv'
<1>1. CASE UNCHANGED installVars
  BY <1>1, InstallStutters DEF installVars
<1>2. CASE AppUpdate
  BY <1>2, InstallStutters DEF AppUpdate
<1>3. ASSUME NEW d \in Desktops, InstallStep(d)
      PROVE  InstallInv'
  <2>1. ASSUME NEW replace \in BOOLEAN, NEW path \in {FALSE, (d \in PathDesktops)}, StartInstall(d, replace, path)
        PROVE  InstallInv'
    BY <2>1, StartInstallStep
  <2>2. CASE copy_fails(d)
    BY <2>2, InstallStops DEF copy_fails
  <2>. QED BY <1>3, <2>1, <2>2, InAppStep, CheckTarget, OpenSource, CopyStep, AtomicReplace, ConfigurePath,
              WriteNewline, WriteBlock, CrashStep DEF InstallStep
<1>. QED BY <1>1, <1>2, <1>3, UserEditsStep, UserFilesStep DEF InstallNext

(* Only the last step of an installation that looked at the target changes *)
(* what is there.                                                          *)
LEMMA ReplacementIsConfirmed ==
    ASSUME InstallInv, [InstallNext]_installVars, NEW d \in Desktops,
           install[d].pc = "rename", install'[d].pc # "rename", file'["global"] # file["global"]
    PROVE  \/ file["global"] \in install[d].unseen
           \/ file["global"] # Link /\ (file["global"] = UserFile => install[d].replace)
<1>1. ~UNCHANGED installVars /\ ~AppUpdate /\ ~UserEdits
  BY DEF installVars, AppUpdate, UserEdits
<1>2. ~UserFiles
  <2> SUFFICES ASSUME UserFiles PROVE FALSE
    OBVIOUS
  <2>1. DOMAIN install[d] = InstallFields
    BY InstallAt
  <2>2. PICK u : install'[d] \in {install[d], [install[d] EXCEPT !.unseen = u]}
    BY DEF UserFiles
  <2>3. install'[d].pc = install[d].pc
    BY <2>1, <2>2 DEF InstallFields
  <2>. QED BY <2>3
<1>3. PICK e \in Desktops : InstallStep(e)
  BY <1>1, <1>2 DEF InstallNext
<1>4. atomic_replace(e)
  BY <1>3 DEF InstallStep, StartInstall, in_app_cli_directory, check_target, open_source, copy, copy_fails,
              configure_user_path, write_newline, write_block, Crash
<1>5. e = d
  <2>1. PICK i : install' = [install EXCEPT ![e] = i]
    BY <1>4 DEF atomic_replace, Step
  <2>. QED BY <2>1, InstallFacts
<1>6. file' = [file EXCEPT ![install[d].target] = Cli(install[d].version, TRUE)]
  BY <1>4, <1>5 DEF atomic_replace
<1>7. install[d].target = "global"
  BY <1>6, InstallFacts DEF Targets
<1>. QED BY <1>7, InstallAt

(* Every step keeps the invariant. *)
LEMMA InstallAlways == InstallSpec => []InstallInv
<1>1. InstallInv /\ [InstallNext]_installVars => InstallInv'
  BY InstallPreserved
<1>. QED BY <1>1, InstallInitially, PTL DEF InstallSpec

(* Whatever crashes, fails or overlaps, no target ever holds part of a     *)
(* sidecar, however many desktops install at once.                         *)
THEOREM TargetsStayWhole == InstallSpec => []TargetIsWhole
<1>1. InstallInv => TargetIsWhole
  BY DEF InstallInv, TargetIsWhole, Absent, UserFile, Link, Cli
<1>. QED BY <1>1, InstallAlways, PTL

(* A profile that one desktop at a time edits never gets a second block,   *)
(* nor one that runs into a line of the user; the targets stay whole.      *)
THEOREM InstallationStaysSound ==
    ASSUME OnePathDesktop
    PROVE  InstallSpec => []InstallationIsSound
<1>1. InstallInv => InstallationIsSound
  <2> SUFFICES ASSUME InstallInv PROVE InstallationIsSound
    OBVIOUS
  <2>1. TargetIsWhole
    BY DEF InstallInv, TargetIsWhole, Absent, UserFile, Link, Cli
  <2>2. ProfileStaysSound
    BY InstallFacts, CountMeaning DEF ProfileStaysSound, BeginsLine
  <2>. QED BY <2>1, <2>2 DEF InstallationIsSound
<1>. QED BY <1>1, InstallAlways, PTL

(* A file of the user at the global target is replaced only by an          *)
(* installation the user confirmed, and a link by none, except one that    *)
(* came there after the installation had looked.                           *)
THEOREM ReplacementsAreConfirmed == InstallSpec => OnlyConfirmedReplacement
<1>1. InstallInv /\ [InstallNext]_installVars =>
        [\A d \in Desktops :
          install[d].pc = "rename" /\ install'[d].pc # "rename" /\ file'["global"] # file["global"]
              => \/ file["global"] \in install[d].unseen
                 \/ file["global"] # Link /\ (file["global"] = UserFile => install[d].replace)]_installVars
  BY ReplacementIsConfirmed
<1>. QED BY <1>1, InstallAlways, PTL DEF InstallSpec, OnlyConfirmedReplacement

--------------------------------------------------------------------------------
(***************************************************************************)
(* SqlReads.  A change reaches the database only with the phrase its risk  *)
(* asks for, and a page a reader gets is of a snapshot no older than its   *)
(* request and says so when it was cut.                                    *)
(*                                                                         *)
(* At every position the invariant holds what the proposal was classified  *)
(* and approved as (IsProposal), which session is its own (Owns), and what *)
(* that session's transaction may see (ProposalStands).                    *)
(***************************************************************************)

Txns == [at : {"none", "open", "aborted"}, readonly : BOOLEAN, snapshot : Nat, before : {"ro", "reset"}]

(* A session that lets a transaction write is one whose default was reset. *)
OpenSessions ==
    {h \in [open : {TRUE}, default : {"ro", "reset"}, txn : Txns, query_only : BOOLEAN,
            user : Readers \cup {"nobody"}] :
       h.default = "ro" /\ h.txn.at # "none" => h.txn.readonly}

Changes == [all : BOOLEAN, prod : BOOLEAN, approved : {"no", "none", "PROD", "RUN CRITICAL"},
            door : {"desktop", "agent"}, under : {"grant", "ro", "reset"}]

(* What is asked of one change. *)
IsApproved(e) ==
    \/ /\ e.approved # "no"
       /\ e.all => e.approved = "RUN CRITICAL"
       /\ e.prod => e.approved # "none"
    \/ e.door = "desktop" /\ e.under = "reset"

ProposalFields == {"pc", "sql", "kind", "risk", "door", "policy", "approved", "rows", "session", "since"}

AnswerFields == {"pc", "door", "session", "max", "seen", "since", "rows", "truncated"}

(* The phrase a human confirms a change of this risk with. *)
Phrase(risk, prod) == IF risk = "critical" THEN "RUN CRITICAL" ELSE IF prod THEN "PROD" ELSE "none"

(* A proposal, wherever it stands. *)
IsProposal(q, prod) ==
    /\ DOMAIN q = ProposalFields
    /\ q.sql.all \in BOOLEAN /\ q.sql.mutates \in BOOLEAN /\ q.sql.resets \in BOOLEAN
    /\ q.door \in {"desktop", "agent"} /\ q.rows \in Nat /\ q.since \in Nat
    /\ q.door = "agent" => q.kind = "read" /\ q.rows <= MAX_AGENT_ROWS
    /\ q.sql.all /\ q.kind # "read" => q.risk = "critical"
    /\ q.approved = "no" \/ (q.kind # "read" /\ q.approved = Phrase(q.risk, prod))

Owns(r, s, sess) == s \in Sessions /\ sess[s] \in OpenSessions /\ sess[s].user = r

(* Where a proposal stands, and the session it has by then. *)
ProposalStands(r, q, sess, srv, n) ==
    \/ q.pc \in {"preview", "proposed", "acquire"}
    \/ q.pc = "write" /\ q.approved # "no"
    \/ q.pc = "begin" /\ srv.engine = "postgres" /\ Owns(r, q.session, sess)
    \/ /\ q.pc = "set_read_only" /\ srv.engine = "postgres" /\ Owns(r, q.session, sess)
       /\ sess[q.session].txn.at = "open"
    \/ q.pc \in {"start", "rollback"} /\ Owns(r, q.session, sess)
    \/ q.pc = "pragma" /\ srv.engine = "sqlite" /\ Owns(r, q.session, sess)
    \/ /\ q.pc = "execute" /\ Owns(r, q.session, sess)
       /\ q.door = "agent" =>
             /\ q.since <= n + 1
             /\ srv.engine = "mysql" => sess[q.session].txn.snapshot = 0
             /\ srv.engine = "sqlite"
                   \/ (sess[q.session].txn.at # "none" /\ sess[q.session].txn.readonly)

(* A page, on its way or delivered. *)
IsAnswer(r, q, sess) ==
    /\ DOMAIN q = AnswerFields
    /\ q.pc = "answered" \/ (q.pc = "rollback" /\ Owns(r, q.session, sess))
    /\ q.rows \in Nat /\ q.seen \in Nat /\ q.max \in Nat /\ q.since \in Nat
    /\ q.door = "agent" => q.seen >= q.since /\ q.rows <= MAX_AGENT_ROWS
    /\ q.truncated <=> q.rows < q.seen
    /\ q.rows <= q.max
    /\ q.truncated => q.rows = q.max

RequestOk(r, q, sess, srv, prod, n) ==
    \/ q = Free \/ q = Over
    \/ IsProposal(q, prod) /\ ProposalStands(r, q, sess, srv, n)
    \/ IsAnswer(r, q, sess)
    \/ DOMAIN q = {"pc", "session"} /\ q.pc = "rollback" /\ Owns(r, q.session, sess)

ReadsInv ==
    /\ server \in Servers
    /\ settings \in [allow_writes : BOOLEAN, can_write : BOOLEAN, auto_run : BOOLEAN,
                     prod : BOOLEAN, max_rows : Nat]
    /\ session \in [Sessions -> {Closed} \cup OpenSessions]
    /\ DOMAIN request = Readers
    /\ effects \in Seq(Changes)
    /\ \A r \in Readers :
          RequestOk(r, request[r], session, server, settings.prod, Len(effects))
    /\ ChangesWereApproved

(* What the invariant says of one request, one session and the settings. *)
LEMMA ReadsFacts ==
    ASSUME ReadsInv, NEW r \in Readers
    PROVE  /\ RequestOk(r, request[r], session, server, settings.prod, Len(effects))
           /\ server \in Servers /\ settings.prod \in BOOLEAN /\ settings.max_rows \in Nat
           /\ session \in [Sessions -> {Closed} \cup OpenSessions]
           /\ DOMAIN session = Sessions /\ DOMAIN request = Readers
           /\ effects \in Seq(Changes) /\ Len(effects) \in Nat
           /\ ChangesWereApproved
BY DEF ReadsInv

(* A request keeps its place while another one moves: nobody touches the   *)
(* session it holds, and the target only gains rows.                       *)
LEMMA RequestKeeps ==
    ASSUME NEW x \in Readers, ReadsInv, request'[x] = request[x],
           server' = server, settings'.prod = settings.prod,
           Len(effects') \in Nat, Len(effects') >= Len(effects),
           \A t \in Sessions : Owns(x, t, session) => session'[t] = session[t]
    PROVE  RequestOk(x, request[x], session, server, settings.prod, Len(effects))
              => RequestOk(x, request'[x], session', server', settings'.prod, Len(effects'))
<1> USE ReadsFacts
<1>1. ASSUME NEW t, Owns(x, t, session)
      PROVE  Owns(x, t, session') /\ session'[t] = session[t]
  BY <1>1 DEF Owns
<1>2. ASSUME IsProposal(request[x], settings.prod),
             ProposalStands(x, request[x], session, server, Len(effects))
      PROVE  IsProposal(request'[x], settings'.prod)
             /\ ProposalStands(x, request'[x], session', server', Len(effects'))
  <2>1. IsProposal(request'[x], settings'.prod)
    BY <1>2 DEF IsProposal
  <2>2. request[x].since \in Nat
    BY <1>2 DEF IsProposal
  <2>3. ProposalStands(x, request'[x], session', server', Len(effects'))
    BY <1>1, <1>2, <2>2 DEF ProposalStands
  <2>. QED BY <2>1, <2>3
<1>3. ASSUME IsAnswer(x, request[x], session)
      PROVE  IsAnswer(x, request'[x], session')
  BY <1>1, <1>3 DEF IsAnswer
<1>4. ASSUME DOMAIN request[x] = {"pc", "session"}, request[x].pc = "rollback",
             Owns(x, request[x].session, session)
      PROVE  DOMAIN request'[x] = {"pc", "session"} /\ request'[x].pc = "rollback"
             /\ Owns(x, request'[x].session, session')
  BY <1>1, <1>4
<1>. QED BY <1>2, <1>3, <1>4 DEF RequestOk

(* The step of one request: its own place, its session and the data it     *)
(* changed are all that is to be looked at.                                *)
LEMMA RequestMoves ==
    ASSUME ReadsInv, NEW r \in Readers,
           server' = server, settings' = settings,
           DOMAIN request' = Readers, \A x \in Readers \ {r} : request'[x] = request[x],
           session' \in [Sessions -> {Closed} \cup OpenSessions],
           \A x \in Readers \ {r} : \A t \in Sessions : Owns(x, t, session) => session'[t] = session[t],
           effects' \in Seq(Changes), Len(effects') >= Len(effects), ChangesWereApproved',
           RequestOk(r, request'[r], session', server', settings'.prod, Len(effects'))
    PROVE  ReadsInv'
<1>1. Len(effects') \in Nat
  OBVIOUS
<1>2. ASSUME NEW x \in Readers
      PROVE  RequestOk(x, request'[x], session', server', settings'.prod, Len(effects'))
  <2>1. CASE x = r
    BY <2>1
  <2>2. CASE x # r
    BY <1>1, <2>2, RequestKeeps, ReadsFacts
  <2>. QED BY <2>1, <2>2
<1>. QED BY <1>2 DEF ReadsInv

(* Data that did not change is as it was. *)
LEMMA DataStays ==
    ASSUME ReadsInv, effects' = effects
    PROVE  effects' \in Seq(Changes) /\ Len(effects') >= Len(effects) /\ ChangesWereApproved'
<1>1. effects \in Seq(Changes) /\ Len(effects) \in Nat /\ ChangesWereApproved
  BY DEF ReadsInv
<1>2. effects' \in Seq(Changes) /\ Len(effects') >= Len(effects)
  BY <1>1
<1>3. ChangesWereApproved'
  BY <1>1 DEF ChangesWereApproved
<1>. QED BY <1>2, <1>3

(* The same for a step that changes neither a session nor the data. *)
LEMMA RequestOnlyMoves ==
    ASSUME ReadsInv, NEW r \in Readers,
           UNCHANGED <<server, settings, session, effects>>,
           DOMAIN request' = Readers, \A x \in Readers \ {r} : request'[x] = request[x],
           RequestOk(r, request'[r], session', server', settings'.prod, Len(effects'))
    PROVE  ReadsInv'
<1>1. session' \in [Sessions -> {Closed} \cup OpenSessions]
  BY DEF ReadsInv
<1>. QED BY <1>1, DataStays, RequestMoves

(* A request that ends or is forgotten needs nothing. *)
LEMMA RequestEnds ==
    ASSUME ReadsInv, NEW r \in Readers,
           UNCHANGED <<server, settings, session, effects>>,
           NEW q \in {Free, Over}, request' = [request EXCEPT ![r] = q]
    PROVE  ReadsInv'
<1>1. DOMAIN request' = Readers /\ request'[r] = q /\ \A x \in Readers \ {r} : request'[x] = request[x]
  BY DEF ReadsInv
<1>2. RequestOk(r, request'[r], session', server', settings'.prod, Len(effects'))
  BY <1>1 DEF RequestOk
<1>. QED BY <1>1, <1>2, RequestOnlyMoves

--------------------------------------------------------------------------------
(* Proposals. *)

(* Classification and the reference agree on statements that reach every   *)
(* row.                                                                    *)
LEMMA ReachIsClassified ==
    ASSUME NEW text
    PROVE  /\ ReachesAll(text) \in BOOLEAN /\ Mutates(text) \in BOOLEAN /\ Resets(text) \in BOOLEAN
           /\ ReachesAll(text) => classify(text).no_where
BY DEF ReachesAll, Mutates, Resets, classify, NoWhere

(* A proposal as it is stored by either door. *)
LEMMA ProposalIsSound ==
    ASSUME NEW r, NEW pc \in {"preview", "proposed"}, NEW door \in {"desktop", "agent"}, NEW text, NEW risk,
           NEW rows \in Nat, NEW sess, NEW srv, NEW prod, NEW n,
           door = "agent" => classify(text).kind = "read" /\ rows <= MAX_AGENT_ROWS,
           classify(text).no_where /\ classify(text).kind # "read" => risk = "critical"
    PROVE  RequestOk(r, Proposal(pc, door, text, risk, rows), sess, srv, prod, n)
<1> DEFINE q == Proposal(pc, door, text, risk, rows)
<1>1. /\ DOMAIN q = ProposalFields /\ q.pc = pc /\ q.kind = classify(text).kind
      /\ q.sql.all = ReachesAll(text) /\ q.sql.mutates = Mutates(text) /\ q.sql.resets = Resets(text) /\ q.risk = risk
      /\ q.door = door /\ q.rows = rows /\ q.since = 0 /\ q.approved = "no"
  BY DEF Proposal, ProposalFields, StoredText
<1> HIDE DEF q
<1>2. IsProposal(q, prod)
  BY <1>1, ReachIsClassified DEF IsProposal
<1>3. ProposalStands(r, q, sess, srv, n)
  BY <1>1 DEF ProposalStands
<1>. QED BY <1>2, <1>3 DEF RequestOk, q

(* The agent's row cap is a number within the agent bound. *)
LEMMA CapIsBounded ==
    ASSUME ReadsInv, NEW n \in Nat
    PROVE  bounded_max_rows(n) \in Nat /\ bounded_max_rows(n) <= MAX_AGENT_ROWS
BY DEF ReadsInv, bounded_max_rows, MAX_AGENT_ROWS

LEMMA ProposeSql ==
    ASSUME ReadsInv, NEW r \in Readers, NEW text, propose_sql(r, text)
    PROVE  ReadsInv'
<1>1. CASE request' = [request EXCEPT ![r] = Over]
  BY <1>1, RequestEnds DEF propose_sql
<1>2. CASE request' = [request EXCEPT ![r] =
                Proposal(IF classify(text).kind = "ddl" THEN "proposed" ELSE "preview", "desktop", text,
                         operation_risk(classify(text)), 0)]
  <2>1. PICK pc \in {"preview", "proposed"} : pc = IF classify(text).kind = "ddl" THEN "proposed" ELSE "preview"
    OBVIOUS
  <2>2. PICK risk : risk = operation_risk(classify(text))
    OBVIOUS
  <2>3. classify(text).no_where /\ classify(text).kind # "read" => risk = "critical"
    BY <2>2 DEF operation_risk
  <2>4. RequestOk(r, Proposal(pc, "desktop", text, risk, 0), session, server, settings.prod, Len(effects))
    BY <2>3, ProposalIsSound
  <2>5. /\ DOMAIN request' = Readers /\ \A x \in Readers \ {r} : request'[x] = request[x]
        /\ request'[r] = Proposal(pc, "desktop", text, risk, 0)
    BY <1>2, <2>1, <2>2 DEF ReadsInv
  <2>6. UNCHANGED <<server, settings, session, effects>>
    BY DEF propose_sql
  <2>7. RequestOk(r, request'[r], session', server', settings'.prod, Len(effects'))
    BY <2>4, <2>5, <2>6
  <2>. QED BY <2>5, <2>6, <2>7, RequestOnlyMoves
<1>. QED BY <1>1, <1>2 DEF propose_sql

LEMMA PlanAgentRead ==
    ASSUME ReadsInv, NEW r \in Readers, NEW text, NEW n \in Nat, plan_agent_read(r, text, n)
    PROVE  ReadsInv'
<1>0. UNCHANGED <<server, settings, session, effects>>
  BY DEF plan_agent_read
<1>1. CASE request' = [request EXCEPT ![r] = Over]
  BY <1>0, <1>1, RequestEnds
<1>2. CASE classify(text).kind = "read" /\ classify(text).count = 1
           /\ request' = [request EXCEPT ![r] = Proposal("preview", "agent", text, "low", bounded_max_rows(n))]
  <2>1. PICK rows \in Nat : rows = bounded_max_rows(n) /\ rows <= MAX_AGENT_ROWS
    BY CapIsBounded
  <2>2. RequestOk(r, Proposal("preview", "agent", text, "low", rows), session, server, settings.prod, Len(effects))
    BY <1>2, <2>1, ProposalIsSound
  <2>3. /\ DOMAIN request' = Readers /\ \A x \in Readers \ {r} : request'[x] = request[x]
        /\ request'[r] = Proposal("preview", "agent", text, "low", rows)
    BY <1>2, <2>1 DEF ReadsInv
  <2>4. RequestOk(r, request'[r], session', server', settings'.prod, Len(effects'))
    BY <1>0, <2>2, <2>3
  <2>. QED BY <1>0, <2>3, <2>4, RequestOnlyMoves
<1>. QED BY <1>1, <1>2 DEF plan_agent_read

(* A pool session that somebody borrows: it is open and refuses writes,    *)
(* whether it was opened now or left by an earlier reader.                 *)
LEMMA BorrowedSession ==
    ASSUME ReadsInv, NEW s \in Sessions, NEW user \in Readers \cup {"nobody"}, Borrow(s, user)
    PROVE  /\ session' \in [Sessions -> {Closed} \cup OpenSessions]
           /\ session'[s] \in OpenSessions /\ session'[s].user = user
           /\ \A t \in Sessions \ {s} : session'[t] = session[t]
           /\ \A x \in Readers : ~Owns(x, s, session)
<1>0. session \in [Sessions -> {Closed} \cup OpenSessions] /\ "nobody" \notin Readers
  BY ReadsAssumption DEF ReadsInv
<1>1. CASE IdleSession(s) /\ session' = [session EXCEPT ![s].user = user]
  <2>1. session[s] \in OpenSessions
    BY <1>0, <1>1 DEF IdleSession, Closed
  <2>2. session'[s] = [session[s] EXCEPT !.user = user] /\ \A t \in Sessions \ {s} : session'[t] = session[t]
    BY <1>0, <1>1
  <2>3. session'[s] \in OpenSessions /\ session'[s].user = user
    BY <2>1, <2>2 DEF OpenSessions
  <2>4. \A x \in Readers : ~Owns(x, s, session)
    BY <1>0, <1>1 DEF IdleSession, Owns
  <2>5. session' \in [Sessions -> {Closed} \cup OpenSessions]
    BY <1>0, <1>1, <2>2, <2>3
  <2>. QED BY <2>2, <2>3, <2>4, <2>5
<1>2. CASE /\ ~session[s].open
           /\ \E default \in after_connect :
                session' = [session EXCEPT ![s] = [open |-> TRUE, default |-> default, txn |-> NoTxn,
                                                   query_only |-> FALSE, user |-> user]]
  <2>1. session' = [session EXCEPT ![s] = [open |-> TRUE, default |-> "ro", txn |-> NoTxn,
                                           query_only |-> FALSE, user |-> user]]
    BY <1>2 DEF after_connect
  <2>2. [open |-> TRUE, default |-> "ro", txn |-> NoTxn, query_only |-> FALSE, user |-> user] \in OpenSessions
    <3>1. NoTxn \in Txns /\ NoTxn.at = "none"
      BY DEF NoTxn, Txn, Txns
    <3>. QED BY <3>1 DEF OpenSessions
  <2>3. \A x \in Readers : ~Owns(x, s, session)
    BY <1>2 DEF Owns, OpenSessions
  <2>. QED BY <1>0, <2>1, <2>2, <2>3
<1>. QED BY <1>1, <1>2 DEF Borrow

(* What a request that stands at a position of a proposal is. *)
LEMMA StandsAt ==
    ASSUME ReadsInv, NEW r \in Readers,
           request[r].pc \in {"preview", "proposed", "acquire", "write", "begin", "set_read_only", "start",
                              "pragma", "execute"}
    PROVE  /\ IsProposal(request[r], settings.prod)
           /\ ProposalStands(r, request[r], session, server, Len(effects))
           /\ request[r].pc = "write" => request[r].approved # "no"
           /\ request[r].pc \in {"begin", "set_read_only"} => server.engine = "postgres"
           /\ request[r].pc = "pragma" => server.engine = "sqlite"
           /\ request[r].pc \in {"begin", "set_read_only", "start", "pragma", "execute"}
                 => Owns(r, request[r].session, session)
<1>1. RequestOk(r, request[r], session, server, settings.prod, Len(effects))
  BY ReadsFacts
<1>2. IsProposal(request[r], settings.prod) /\ ProposalStands(r, request[r], session, server, Len(effects))
  BY <1>1 DEF RequestOk, Free, Over, IsAnswer
<1>. QED BY <1>2 DEF ProposalStands

LEMMA AcquireRefused ==
    ASSUME ReadsInv, NEW r \in Readers, AcquireFails(r), UNCHANGED <<server, settings, effects>>
    PROVE  ReadsInv'
BY RequestEnds DEF AcquireFails

LEMMA Preview ==
    ASSUME ReadsInv, NEW r \in Readers, preview(r)
    PROVE  ReadsInv'
<1>0. UNCHANGED <<server, settings, effects>> /\ request[r].pc = "preview"
  BY DEF preview
<1>1. CASE AcquireFails(r)
  BY <1>0, <1>1, AcquireRefused
<1>2. ASSUME NEW s \in Sessions, Borrow(s, "nobody"), request' = [request EXCEPT ![r].pc = "proposed"]
      PROVE  ReadsInv'
  <2>1. /\ DOMAIN request' = Readers /\ \A x \in Readers \ {r} : request'[x] = request[x]
        /\ request'[r] = [request[r] EXCEPT !.pc = "proposed"]
    BY <1>2, ReadsFacts
  <2>2. IsProposal(request'[r], settings.prod) /\ request'[r].pc = "proposed"
    BY <1>0, <2>1, StandsAt DEF IsProposal, ProposalFields
  <2>3. RequestOk(r, request'[r], session', server', settings'.prod, Len(effects'))
    BY <1>0, <2>2 DEF RequestOk, ProposalStands
  <2>4. session' \in [Sessions -> {Closed} \cup OpenSessions]
    BY <1>2, BorrowedSession
  <2>5. \A x \in Readers \ {r} : \A t \in Sessions : Owns(x, t, session) => session'[t] = session[t]
    BY <1>2, BorrowedSession
  <2>6. effects' \in Seq(Changes) /\ Len(effects') >= Len(effects) /\ ChangesWereApproved'
    BY <1>0, DataStays
  <2>. QED BY <1>0, <2>1, <2>3, <2>4, <2>5, <2>6, RequestMoves
<1>. QED BY <1>1, <1>2 DEF preview

LEMMA ApproveLocal ==
    ASSUME ReadsInv, NEW r \in Readers, approve_local(r)
    PROVE  ReadsInv'
<1> DEFINE q == request[r]
           phrase == required_confirmation(request[r].kind, request[r].risk)
<1>0. UNCHANGED <<server, settings, session, effects>> /\ q.pc = "proposed" /\ q.kind # "read"
  BY DEF approve_local
<1>1. phrase = Phrase(q.risk, settings.prod)
  BY <1>0 DEF required_confirmation, Phrase
<1>2. IsProposal(q, settings.prod)
  BY <1>0, StandsAt
<1>3. /\ DOMAIN request' = Readers /\ \A x \in Readers \ {r} : request'[x] = request[x]
      /\ request'[r] = [q EXCEPT !.approved = phrase]
  BY ReadsFacts DEF approve_local
<1> HIDE DEF q, phrase
<1>4. IsProposal([q EXCEPT !.approved = phrase], settings.prod) /\ [q EXCEPT !.approved = phrase].pc = q.pc
  BY <1>0, <1>1, <1>2 DEF IsProposal, ProposalFields, Phrase
<1>5. RequestOk(r, request'[r], session', server', settings'.prod, Len(effects'))
  BY <1>0, <1>3, <1>4 DEF RequestOk, ProposalStands
<1>. QED BY <1>0, <1>3, <1>5, RequestOnlyMoves

LEMMA RunStep ==
    ASSUME ReadsInv, NEW r \in Readers, run(r)
    PROVE  ReadsInv'
<1>0. UNCHANGED <<server, settings, session, effects>> /\ request[r].pc = "proposed"
      /\ (request[r].kind # "read" => request[r].approved # "no")
  BY DEF run
<1>1. PICK p \in {"acquire", "write"} : p = IF request[r].kind = "read" THEN "acquire" ELSE "write"
  OBVIOUS
<1>2. PICK rows : rows = IF request[r].door = "desktop" THEN settings.max_rows ELSE request[r].rows
  OBVIOUS
<1>3. IsProposal(request[r], settings.prod)
  BY <1>0, StandsAt
<1>4. rows \in Nat /\ (request[r].door = "agent" => rows = request[r].rows)
  BY <1>2, <1>3, ReadsFacts DEF IsProposal
<1>5. /\ DOMAIN request' = Readers /\ \A x \in Readers \ {r} : request'[x] = request[x]
      /\ request'[r] = [request[r] EXCEPT !.pc = p, !.rows = rows]
  <2>1. request' = [request EXCEPT
               ![r].pc = IF request[r].kind = "read" THEN "acquire" ELSE "write",
               ![r].rows = IF request[r].door = "desktop" THEN settings.max_rows ELSE @]
    BY DEF run
  <2>2. DOMAIN request = Readers
    BY ReadsFacts
  <2>3. request'[r] = [request[r] EXCEPT !.pc = IF request[r].kind = "read" THEN "acquire" ELSE "write",
                         !.rows = IF request[r].door = "desktop" THEN settings.max_rows ELSE request[r].rows]
    BY <2>1, <2>2
  <2>. QED BY <1>1, <1>2, <2>1, <2>2, <2>3
<1>6. IsProposal(request'[r], settings.prod) /\ request'[r].pc = p /\ request'[r].approved = request[r].approved
  BY <1>3, <1>4, <1>5 DEF IsProposal, ProposalFields
<1>7. RequestOk(r, request'[r], session', server', settings'.prod, Len(effects'))
  BY <1>0, <1>1, <1>6 DEF RequestOk, ProposalStands
<1>. QED BY <1>0, <1>5, <1>7, RequestOnlyMoves

(* A sequence that grows by one element. *)
LEMMA AppendGrows ==
    ASSUME NEW S, NEW seq \in Seq(S), NEW e \in S
    PROVE  /\ Append(seq, e) \in Seq(S) /\ Len(Append(seq, e)) = Len(seq) + 1
           /\ \A i \in 1..Len(Append(seq, e)) :
                 Append(seq, e)[i] = e \/ (i \in 1..Len(seq) /\ Append(seq, e)[i] = seq[i])
OBVIOUS

(* A change that is one of those the property allows keeps it.             *)
LEMMA DataGrows ==
    ASSUME ReadsInv, NEW lands \in BOOLEAN, NEW e, Lands(lands, e), lands => e \in Changes /\ IsApproved(e)
    PROVE  effects' \in Seq(Changes) /\ Len(effects') >= Len(effects) /\ ChangesWereApproved'
<1>1. effects \in Seq(Changes) /\ ChangesWereApproved /\ Len(effects) \in Nat
  BY DEF ReadsInv
<1>2. CASE ~lands
  BY <1>2, DataStays DEF Lands
<1>3. CASE lands
  <2>1. effects' = Append(effects, e)
    BY <1>3 DEF Lands
  <2>2. effects' \in Seq(Changes) /\ Len(effects') = Len(effects) + 1
    BY <1>1, <1>3, <2>1, AppendGrows
  <2>3. \A i \in 1..Len(effects') : effects'[i] = e \/ (i \in 1..Len(effects) /\ effects'[i] = effects[i])
    BY <1>1, <1>3, <2>1, AppendGrows
  <2>4. ChangesWereApproved'
    <3>. SUFFICES ASSUME NEW i \in 1..Len(effects')
                  PROVE  IsApproved(effects'[i])
      BY DEF ChangesWereApproved, IsApproved
    <3>. QED BY <1>1, <1>3, <2>3 DEF ChangesWereApproved, IsApproved
  <2>. QED BY <1>1, <2>2, <2>4
<1>. QED BY <1>2, <1>3

LEMMA RunWrite ==
    ASSUME ReadsInv, NEW r \in Readers, run_write(r)
    PROVE  ReadsInv'
<1>0. /\ UNCHANGED <<server, settings, session>> /\ request[r].pc = "write"
      /\ request' = [request EXCEPT ![r] = Over]
  BY DEF run_write
<1>1. PICK committed \in BOOLEAN : Lands(committed, Effect(r, "grant"))
  BY DEF run_write
<1>2. IsProposal(request[r], settings.prod) /\ request[r].approved # "no"
  BY <1>0, StandsAt
<1>3. /\ DOMAIN request' = Readers /\ \A x \in Readers \ {r} : request'[x] = request[x]
      /\ request'[r] = Over
  BY <1>0, ReadsFacts
<1>4. settings.prod \in BOOLEAN
  BY ReadsFacts
<1>5. Effect(r, "grant") \in Changes /\ IsApproved(Effect(r, "grant"))
  BY <1>2, <1>4 DEF Effect, Changes, IsApproved, IsProposal, Phrase
<1>6. effects' \in Seq(Changes) /\ Len(effects') >= Len(effects) /\ ChangesWereApproved'
  BY <1>1, <1>5, DataGrows
<1>7. RequestOk(r, request'[r], session', server', settings'.prod, Len(effects'))
  BY <1>3 DEF RequestOk
<1>8. session' \in [Sessions -> {Closed} \cup OpenSessions]
  BY <1>0, ReadsFacts
<1>. QED BY <1>0, <1>3, <1>6, <1>7, <1>8, RequestMoves

(* A step of a request that holds a session, on that session alone. *)
LEMMA OwnerChanges ==
    ASSUME ReadsInv, NEW r \in Readers, UNCHANGED <<server, settings>>,
           NEW s, Owns(r, s, session),
           DOMAIN request' = Readers, \A x \in Readers \ {r} : request'[x] = request[x],
           DOMAIN session' = Sessions, session' = [t \in Sessions |-> session'[t]],
           session'[s] \in OpenSessions,
           \A t \in Sessions \ {s} : session'[t] = session[t],
           effects' \in Seq(Changes), Len(effects') >= Len(effects), ChangesWereApproved',
           RequestOk(r, request'[r], session', server', settings'.prod, Len(effects'))
    PROVE  ReadsInv'
<1>1. session \in [Sessions -> {Closed} \cup OpenSessions] /\ s \in Sessions
  BY ReadsFacts DEF Owns
<1>2. session' \in [Sessions -> {Closed} \cup OpenSessions]
  BY <1>1
<1>3. \A x \in Readers \ {r} : \A t \in Sessions : Owns(x, t, session) => session'[t] = session[t]
  BY DEF Owns
<1>. QED BY <1>2, <1>3, RequestMoves

(* And when it changes no data. *)
LEMMA OwnerMoves ==
    ASSUME ReadsInv, NEW r \in Readers, UNCHANGED <<server, settings, effects>>,
           NEW s, Owns(r, s, session),
           DOMAIN request' = Readers, \A x \in Readers \ {r} : request'[x] = request[x],
           DOMAIN session' = Sessions, session' = [t \in Sessions |-> session'[t]],
           session'[s] \in OpenSessions,
           \A t \in Sessions \ {s} : session'[t] = session[t],
           RequestOk(r, request'[r], session', server', settings'.prod, Len(effects'))
    PROVE  ReadsInv'
BY DataStays, OwnerChanges

LEMMA StartsRead ==
    ASSUME ReadsInv, NEW r \in Readers, StartRead(r)
    PROVE  ReadsInv'
<1>0. UNCHANGED <<server, settings, effects>> /\ request[r].pc = "acquire"
  BY DEF StartRead
<1>1. CASE AcquireFails(r)
  BY <1>0, <1>1, AcquireRefused
<1>2. ASSUME NEW s \in Sessions,
             Acquire(r, s, IF request[r].door = "desktop" THEN "execute"
                           ELSE CASE server.engine = "postgres" -> "begin"
                                  [] server.engine = "mysql" -> "start"
                                  [] server.engine = "sqlite" -> "pragma")
      PROVE  ReadsInv'
  <2>1. PICK p : p = IF request[r].door = "desktop" THEN "execute"
                     ELSE CASE server.engine = "postgres" -> "begin"
                            [] server.engine = "mysql" -> "start"
                            [] server.engine = "sqlite" -> "pragma"
    OBVIOUS
  <2>2. server.engine \in {"postgres", "mysql", "sqlite"}
    BY ReadsFacts DEF Servers
  <2>3. IsProposal(request[r], settings.prod)
    BY <1>0, StandsAt
  <2>4. \/ request[r].door = "desktop" /\ p = "execute"
        \/ request[r].door = "agent" /\ server.engine = "postgres" /\ p = "begin"
        \/ request[r].door = "agent" /\ server.engine = "mysql" /\ p = "start"
        \/ request[r].door = "agent" /\ server.engine = "sqlite" /\ p = "pragma"
    BY <2>1, <2>2, <2>3 DEF IsProposal
  <2>5. Borrow(s, r) /\ request' = [request EXCEPT ![r].pc = p, ![r].session = s]
    BY <1>2, <2>1 DEF Acquire
  <2>6. /\ DOMAIN request' = Readers /\ \A x \in Readers \ {r} : request'[x] = request[x]
        /\ request'[r] = [request[r] EXCEPT !.pc = p, !.session = s]
    BY <2>5, ReadsFacts
  <2>7. /\ IsProposal(request'[r], settings.prod) /\ request'[r].pc = p /\ request'[r].session = s
        /\ request'[r].door = request[r].door /\ request'[r].since = request[r].since
    BY <2>3, <2>6 DEF IsProposal, ProposalFields
  <2>8. /\ session' \in [Sessions -> {Closed} \cup OpenSessions] /\ Owns(r, s, session')
        /\ \A x \in Readers \ {r} : \A t \in Sessions : Owns(x, t, session) => session'[t] = session[t]
    BY <2>5, BorrowedSession DEF Owns
  <2>10. ProposalStands(r, request'[r], session', server', Len(effects'))
    BY <1>0, <2>4, <2>7, <2>8 DEF ProposalStands
  <2>11. RequestOk(r, request'[r], session', server', settings'.prod, Len(effects'))
    BY <1>0, <2>7, <2>10 DEF RequestOk
  <2>. QED BY <1>0, <2>6, <2>8, <2>11, DataStays, RequestMoves
<1>. QED BY <1>1, <1>2 DEF StartRead

(* A session whose transaction is replaced by one that refuses writes, or  *)
(* whose default was reset.                                                *)
LEMMA TxnReplaced ==
    ASSUME ReadsInv, NEW s \in Sessions, session[s] \in OpenSessions, SetTxn(s, session'[s].txn),
           session'[s].txn \in Txns,
           session[s].default = "ro" /\ session'[s].txn.at # "none" => session'[s].txn.readonly
    PROVE  /\ DOMAIN session' = Sessions /\ session' = [t \in Sessions |-> session'[t]]
           /\ session'[s] \in OpenSessions /\ session'[s].user = session[s].user
           /\ \A t \in Sessions \ {s} : session'[t] = session[t]
<1>1. session \in [Sessions -> {Closed} \cup OpenSessions]
  BY DEF ReadsInv
<1>2. PICK txn : txn = session'[s].txn
  OBVIOUS
<1>3. session' = [session EXCEPT ![s].txn = txn]
  BY <1>2 DEF SetTxn
<1>4. /\ DOMAIN session' = Sessions /\ session' = [t \in Sessions |-> session'[t]]
      /\ session'[s] = [session[s] EXCEPT !.txn = txn] /\ \A t \in Sessions \ {s} : session'[t] = session[t]
  BY <1>1, <1>3
<1>5. session'[s] \in OpenSessions /\ session'[s].user = session[s].user
  BY <1>2, <1>4 DEF OpenSessions
<1>. QED BY <1>4, <1>5

LEMMA BeginStep ==
    ASSUME ReadsInv, NEW r \in Readers, Begin(r)
    PROVE  ReadsInv'
<1> DEFINE s == request[r].session
<1>0. /\ UNCHANGED <<server, settings, effects>> /\ request[r].pc = "begin"
      /\ Len(effects) \in Nat /\ DOMAIN request = Readers
  BY ReadsFacts DEF Begin
<1>1. IsProposal(request[r], settings.prod) /\ server.engine = "postgres" /\ Owns(r, s, session)
  BY <1>0, StandsAt
<1>2. CASE MoveTo(r, "rollback") /\ UNCHANGED session
  <2>1. /\ DOMAIN request' = Readers /\ \A x \in Readers \ {r} : request'[x] = request[x]
        /\ request'[r] = [request[r] EXCEPT !.pc = "rollback", !.since = Len(effects) + 1]
    BY <1>0, <1>2 DEF MoveTo, TableRows
  <2>2. IsProposal(request'[r], settings.prod) /\ request'[r].pc = "rollback" /\ request'[r].session = s
    BY <1>0, <1>1, <2>1 DEF IsProposal, ProposalFields
  <2>3. RequestOk(r, request'[r], session', server', settings'.prod, Len(effects'))
    BY <1>0, <1>1, <1>2, <2>2 DEF RequestOk, ProposalStands
  <2>. QED BY <1>0, <1>2, <2>1, <2>3, RequestOnlyMoves
<1>3. CASE /\ MoveTo(r, "set_read_only")
           /\ SetTxn(s, IF session[s].txn.at = "open" THEN session[s].txn
                        ELSE Txn("open", session[s].default = "ro", session[s].default))
  <2>1. /\ DOMAIN request' = Readers /\ \A x \in Readers \ {r} : request'[x] = request[x]
        /\ request'[r] = [request[r] EXCEPT !.pc = "set_read_only", !.since = Len(effects) + 1]
    BY <1>0, <1>3 DEF MoveTo, TableRows
  <2>2. IsProposal(request'[r], settings.prod) /\ request'[r].pc = "set_read_only" /\ request'[r].session = s
    BY <1>0, <1>1, <2>1 DEF IsProposal, ProposalFields
  <2>3. PICK txn : txn = IF session[s].txn.at = "open" THEN session[s].txn
                         ELSE Txn("open", session[s].default = "ro", session[s].default)
    OBVIOUS
  <2>4. txn \in Txns /\ (session[s].default = "ro" => txn.readonly) /\ txn.at = "open"
    <3>1. session[s].txn \in Txns /\ session[s].default \in {"ro", "reset"}
          /\ (session[s].default = "ro" /\ session[s].txn.at # "none" => session[s].txn.readonly)
      BY <1>1 DEF Owns, OpenSessions
    <3>2. /\ Txn("open", session[s].default = "ro", session[s].default) \in Txns
          /\ Txn("open", session[s].default = "ro", session[s].default).at = "open"
          /\ Txn("open", session[s].default = "ro", session[s].default).readonly = (session[s].default = "ro")
      BY <3>1 DEF Txn, Txns
    <3>. QED BY <2>3, <3>1, <3>2
  <2>5. session' = [session EXCEPT ![s].txn = txn] /\ session'[s].txn = txn
    BY <1>1, <1>3, <2>3, ReadsFacts DEF SetTxn, Owns, OpenSessions
  <2>6. SetTxn(s, session'[s].txn)
    BY <2>5 DEF SetTxn
  <2>7. /\ DOMAIN session' = Sessions /\ session' = [t \in Sessions |-> session'[t]]
        /\ session'[s] \in OpenSessions /\ session'[s].user = session[s].user
        /\ \A t \in Sessions \ {s} : session'[t] = session[t]
    BY <1>1, <2>4, <2>5, <2>6, TxnReplaced DEF Owns
  <2>8. RequestOk(r, request'[r], session', server', settings'.prod, Len(effects'))
    BY <1>0, <1>1, <2>2, <2>4, <2>5, <2>7 DEF RequestOk, ProposalStands, Owns
  <2>. QED BY <1>0, <1>1, <2>1, <2>7, <2>8, OwnerMoves
<1>. QED BY <1>2, <1>3 DEF Begin

(* The statements that open or set up a transaction lead to the statement  *)
(* itself, which will see the target as it is now.                         *)
LEMMA ReadyToExecute ==
    ASSUME ReadsInv, NEW r \in Readers, UNCHANGED <<server, settings, effects>>,
           request[r].pc \in {"set_read_only", "start", "pragma"}, MoveTo(r, "execute"),
           DOMAIN session' = Sessions, session' = [t \in Sessions |-> session'[t]],
           session'[request[r].session] \in OpenSessions, session'[request[r].session].user = r,
           \A t \in Sessions \ {request[r].session} : session'[t] = session[t],
           server.engine = "mysql" => session'[request[r].session].txn.snapshot = 0,
           server.engine # "sqlite" => /\ session'[request[r].session].txn.at # "none"
                                       /\ session'[request[r].session].txn.readonly
    PROVE  ReadsInv'
<1> DEFINE s == request[r].session
<1>0. Len(effects) \in Nat /\ DOMAIN request = Readers
  BY ReadsFacts
<1>1. IsProposal(request[r], settings.prod) /\ Owns(r, s, session)
  BY StandsAt
<1>2. /\ DOMAIN request' = Readers /\ \A x \in Readers \ {r} : request'[x] = request[x]
      /\ request'[r] = [request[r] EXCEPT !.pc = "execute", !.since = Len(effects) + 1]
  BY <1>0 DEF MoveTo, TableRows
<1>3. /\ IsProposal(request'[r], settings.prod) /\ request'[r].pc = "execute" /\ request'[r].session = s
      /\ request'[r].since = Len(effects) + 1
  BY <1>0, <1>1, <1>2 DEF IsProposal, ProposalFields
<1>4. RequestOk(r, request'[r], session', server', settings'.prod, Len(effects'))
  BY <1>0, <1>1, <1>3 DEF RequestOk, ProposalStands, Owns
<1>. QED BY <1>1, <1>2, <1>4, OwnerMoves

LEMMA SetReadOnlyStep ==
    ASSUME ReadsInv, NEW r \in Readers, SetReadOnly(r)
    PROVE  ReadsInv'
<1> DEFINE s == request[r].session
<1>0. /\ UNCHANGED <<server, settings, effects>> /\ request[r].pc = "set_read_only" /\ MoveTo(r, "execute")
      /\ SetTxn(s, [session[s].txn EXCEPT !.readonly = TRUE])
  BY DEF SetReadOnly
<1>1. server.engine = "postgres" /\ Owns(r, s, session) /\ session[s].txn.at = "open"
  BY <1>0, StandsAt DEF ProposalStands
<1>2. PICK txn : txn = [session[s].txn EXCEPT !.readonly = TRUE]
  OBVIOUS
<1>3. txn \in Txns /\ txn.at = "open" /\ txn.readonly
  BY <1>1, <1>2 DEF Owns, OpenSessions, Txns
<1>4. session' = [session EXCEPT ![s].txn = txn] /\ session'[s].txn = txn
  BY <1>0, <1>1, <1>2, ReadsFacts DEF SetTxn, Owns, OpenSessions
<1>5. SetTxn(s, session'[s].txn)
  BY <1>4 DEF SetTxn
<1>6. /\ DOMAIN session' = Sessions /\ session' = [t \in Sessions |-> session'[t]]
      /\ session'[s] \in OpenSessions /\ session'[s].user = r
      /\ \A t \in Sessions \ {s} : session'[t] = session[t]
  BY <1>1, <1>3, <1>4, <1>5, TxnReplaced DEF Owns
<1>. QED BY <1>0, <1>1, <1>3, <1>4, <1>6, ReadyToExecute

LEMMA StartTransactionStep ==
    ASSUME ReadsInv, NEW r \in Readers, StartTransaction(r)
    PROVE  ReadsInv'
<1> DEFINE s == request[r].session
<1>0. /\ UNCHANGED <<server, settings, effects>> /\ request[r].pc = "start" /\ MoveTo(r, "execute")
      /\ SetTxn(s, Txn("open", TRUE, session[s].default))
  BY DEF StartTransaction
<1>1. Owns(r, s, session)
  BY <1>0, StandsAt
<1>2. PICK txn : txn = Txn("open", TRUE, session[s].default)
  OBVIOUS
<1>3. txn \in Txns /\ txn.at = "open" /\ txn.readonly /\ txn.snapshot = 0
  BY <1>1, <1>2 DEF Owns, OpenSessions, Txn, Txns
<1>4. session' = [session EXCEPT ![s].txn = txn] /\ session'[s].txn = txn
  BY <1>0, <1>1, <1>2, ReadsFacts DEF SetTxn, Owns, OpenSessions
<1>5. SetTxn(s, session'[s].txn)
  BY <1>4 DEF SetTxn
<1>6. /\ DOMAIN session' = Sessions /\ session' = [t \in Sessions |-> session'[t]]
      /\ session'[s] \in OpenSessions /\ session'[s].user = r
      /\ \A t \in Sessions \ {s} : session'[t] = session[t]
  BY <1>1, <1>3, <1>4, <1>5, TxnReplaced DEF Owns
<1>. QED BY <1>0, <1>3, <1>4, <1>6, ReadyToExecute

LEMMA QueryOnlyStep ==
    ASSUME ReadsInv, NEW r \in Readers, QueryOnly(r)
    PROVE  ReadsInv'
<1> DEFINE s == request[r].session
<1>0. /\ UNCHANGED <<server, settings, effects>> /\ request[r].pc = "pragma" /\ MoveTo(r, "execute")
      /\ session' = [session EXCEPT ![s].query_only = TRUE]
  BY DEF QueryOnly
<1>1. server.engine = "sqlite" /\ Owns(r, s, session)
  BY <1>0, StandsAt
<1>2. session \in [Sessions -> {Closed} \cup OpenSessions]
  BY ReadsFacts
<1>3. /\ DOMAIN session' = Sessions /\ session' = [t \in Sessions |-> session'[t]]
      /\ session'[s] = [session[s] EXCEPT !.query_only = TRUE]
      /\ \A t \in Sessions \ {s} : session'[t] = session[t]
  BY <1>0, <1>1, <1>2 DEF Owns
<1>4. session'[s] \in OpenSessions /\ session'[s].user = r
  BY <1>1, <1>3 DEF Owns, OpenSessions
<1>. QED BY <1>0, <1>1, <1>3, <1>4, ReadyToExecute

(* A session lets a statement write only when its default was reset, and   *)
(* then not that of an agent.                                              *)
LEMMA SessionRefuses ==
    ASSUME NEW s, session[s] \in OpenSessions, ~RefusesWrites(s)
    PROVE  /\ session[s].default = "reset" /\ server.engine # "sqlite"
           /\ ~(session[s].txn.at # "none" /\ session[s].txn.readonly)
BY DEF RefusesWrites, OpenSessions

(* What a statement sees, and the session after it. *)
LEMMA StatementIsSafe ==
    ASSUME NEW r, NEW s, session[s] \in OpenSessions, NEW failed \in BOOLEAN, Len(effects) \in Nat,
           NEW user \in Readers \cup {"nobody"}
    PROVE  /\ Seen(s) \in Nat
           /\ (server.engine = "mysql" => session[s].txn.snapshot = 0) => Seen(s) = Len(effects) + 1
           /\ AfterStatement(r, s, failed, user) \in OpenSessions
           /\ AfterStatement(r, s, failed, user).user = user
<1>1. /\ session[s].txn \in Txns /\ session[s].default \in {"ro", "reset"}
      /\ session[s].default = "ro" /\ session[s].txn.at # "none" => session[s].txn.readonly
  BY DEF OpenSessions
<1>2. /\ Seen(s) \in Nat
      /\ (server.engine = "mysql" => session[s].txn.snapshot = 0) => Seen(s) = Len(effects) + 1
  BY <1>1 DEF Seen, TableRows, Txns
<1>3. PICK at \in {"aborted", "open"} : at = IF failed THEN "aborted" ELSE "open"
  OBVIOUS
<1>4. AfterTxn(s, failed) \in {session[s].txn, [session[s].txn EXCEPT !.at = at],
                              [session[s].txn EXCEPT !.snapshot = Seen(s)]}
      /\ (AfterTxn(s, failed) # session[s].txn => session[s].txn.at = "open")
  BY <1>3 DEF AfterTxn
<1>5. PICK txn : txn = AfterTxn(s, failed)
  OBVIOUS
<1>6. txn \in Txns /\ (txn.at # "none" => session[s].txn.at # "none" /\ txn.readonly = session[s].txn.readonly)
  BY <1>1, <1>2, <1>3, <1>4, <1>5 DEF Txns
<1>7. PICK default \in {"ro", "reset"} :
         default = AfterDefault(r, s, failed) /\ (default = "ro" => session[s].default = "ro")
  BY <1>1 DEF AfterDefault
<1>8. AfterStatement(r, s, failed, user) = [session[s] EXCEPT !.txn = txn, !.default = default, !.user = user]
  BY <1>5, <1>7 DEF AfterStatement
<1>9. PICK h : h = session[s]
  OBVIOUS
<1>10. /\ [h EXCEPT !.txn = txn, !.default = default, !.user = user] \in OpenSessions
       /\ [h EXCEPT !.txn = txn, !.default = default, !.user = user].user = user
  <2>1. h \in OpenSessions
    BY <1>9
  <2>2. default = "ro" /\ txn.at # "none" => txn.readonly
    BY <1>1, <1>6, <1>7
  <2>. QED BY <1>6, <2>1, <2>2 DEF OpenSessions
<1>. QED BY <1>2, <1>8, <1>9, <1>10

(* What a read changes, it changes as a desktop read on a session whose    *)
(* default was reset.                                                      *)
LEMMA ReadsChangeLittle ==
    ASSUME ReadsInv, NEW r \in Readers, request[r].pc = "execute",
           NEW s, s = request[r].session, NEW failed \in BOOLEAN, NEW kept \in BOOLEAN,
           Lands(Stays(r, s, failed, kept), Effect(r, session[s].default))
    PROVE  effects' \in Seq(Changes) /\ Len(effects') >= Len(effects) /\ ChangesWereApproved'
<1>1. /\ IsProposal(request[r], settings.prod) /\ Owns(r, s, session)
      /\ request[r].door = "agent" =>
            server.engine = "sqlite" \/ (session[s].txn.at # "none" /\ session[s].txn.readonly)
  BY StandsAt DEF ProposalStands
<1>2. settings.prod \in BOOLEAN
  BY ReadsFacts
<1>3. PICK lands \in BOOLEAN : lands = Stays(r, s, failed, kept)
  BY <1>1 DEF Stays, IsProposal
<1>4. ASSUME lands
      PROVE  Effect(r, session[s].default) \in Changes /\ IsApproved(Effect(r, session[s].default))
  <2>1. ~RefusesWrites(s)
    BY <1>3, <1>4 DEF Stays, Refused
  <2>2. session[s].default = "reset" /\ request[r].door = "desktop"
    BY <1>1, <2>1, SessionRefuses DEF Owns, IsProposal
  <2>3. request[r].approved \in {"no", "none", "PROD", "RUN CRITICAL"} /\ request[r].sql.all \in BOOLEAN
    BY <1>1 DEF IsProposal, Phrase
  <2>. QED BY <1>2, <2>2, <2>3 DEF Effect, Changes, IsApproved
<1>. QED BY <1>3, <1>4, DataGrows

(* The page of a statement is exact and current. *)
LEMMA AnswerIsSound ==
    ASSUME NEW r, NEW s, NEW pc, NEW sess, NEW prod, IsProposal(request[r], prod), Seen(s) \in Nat,
           request[r].door = "agent" => request[r].since <= Seen(s),
           pc = "answered" \/ (pc = "rollback" /\ Owns(r, s, sess))
    PROVE  IsAnswer(r, Answer(r, s, pc), sess)
<1> DEFINE a == Answer(r, s, pc)
<1>1. /\ request[r].rows \in Nat /\ request[r].since \in Nat
      /\ request[r].door = "agent" => request[r].rows <= MAX_AGENT_ROWS
  BY DEF IsProposal
<1>2. PICK rows : rows = IF Seen(s) < request[r].rows THEN Seen(s) ELSE request[r].rows
  OBVIOUS
<1>3. /\ DOMAIN a = AnswerFields /\ a.pc = pc /\ a.door = request[r].door /\ a.session = s
      /\ a.max = request[r].rows /\ a.seen = Seen(s) /\ a.since = request[r].since
      /\ a.rows = rows /\ (a.truncated <=> Seen(s) > request[r].rows)
  BY <1>2 DEF Answer, AnswerFields, stream_capped
<1> HIDE DEF a
<1>4. /\ rows \in Nat /\ rows <= request[r].rows /\ (Seen(s) > request[r].rows <=> rows < Seen(s))
      /\ Seen(s) > request[r].rows => rows = request[r].rows
      /\ request[r].door = "agent" => rows <= MAX_AGENT_ROWS
  BY <1>1, <1>2 DEF MAX_AGENT_ROWS
<1>5. IsAnswer(r, a, sess)
  BY <1>1, <1>3, <1>4 DEF IsAnswer
<1>. QED BY <1>5 DEF a

LEMMA ExecuteStep ==
    ASSUME ReadsInv, NEW r \in Readers, execute(r)
    PROVE  ReadsInv'
<1> DEFINE s == request[r].session
           desktop == request[r].door = "desktop"
<1>0. UNCHANGED <<server, settings>> /\ request[r].pc = "execute" /\ Len(effects) \in Nat
  BY ReadsFacts DEF execute
<1>1. /\ IsProposal(request[r], settings.prod) /\ Owns(r, s, session)
      /\ request[r].door = "agent" => /\ request[r].since <= Len(effects) + 1
                                      /\ server.engine = "mysql" => session[s].txn.snapshot = 0
  BY <1>0, StandsAt DEF ProposalStands
<1>2. session[s] \in OpenSessions /\ s \in Sessions
  BY <1>1 DEF Owns
<1>3. PICK error \in BOOLEAN, kept \in BOOLEAN :
         LET failed == error \/ Refused(r, s) IN
         /\ Lands(Stays(r, s, failed, kept), Effect(r, session[s].default))
         /\ session' = [session EXCEPT ![s] =
                AfterStatement(r, s, failed, IF desktop THEN "nobody" ELSE r)]
         /\ request' = [request EXCEPT ![r] =
                IF desktop THEN IF failed THEN Over ELSE Answer(r, s, "answered")
                ELSE IF failed THEN [pc |-> "rollback", session |-> s] ELSE Answer(r, s, "rollback")]
  BY DEF execute
<1>4. PICK f \in BOOLEAN : f = (error \/ Refused(r, s))
  BY <1>1 DEF Refused, IsProposal
<1>5. PICK user : user = IF desktop THEN "nobody" ELSE r
  OBVIOUS
<1>6. user \in Readers \cup {"nobody"} /\ (~desktop => user = r)
  BY <1>5
<1>7. PICK after : after = AfterStatement(r, s, f, user)
  OBVIOUS
<1>8. after \in OpenSessions /\ after.user = user /\ Seen(s) \in Nat
      /\ (request[r].door = "agent" => request[r].since <= Seen(s))
  <2>1. /\ Seen(s) \in Nat
        /\ (server.engine = "mysql" => session[s].txn.snapshot = 0) => Seen(s) = Len(effects) + 1
        /\ after \in OpenSessions /\ after.user = user
    BY <1>0, <1>2, <1>6, <1>7, StatementIsSafe
  <2>. QED BY <1>1, <2>1
<1>9. session' = [session EXCEPT ![s] = after]
  BY <1>3, <1>4, <1>5, <1>7
<1>10. session \in [Sessions -> {Closed} \cup OpenSessions] /\ DOMAIN request = Readers
  BY ReadsFacts
<1>11. /\ DOMAIN session' = Sessions /\ session' = [t \in Sessions |-> session'[t]]
       /\ \A t \in Sessions \ {s} : session'[t] = session[t]
       /\ session'[s] = after
  BY <1>2, <1>9, <1>10
<1>12. session'[s] \in OpenSessions /\ (~desktop => Owns(r, s, session'))
  BY <1>2, <1>6, <1>8, <1>11 DEF Owns
<1>15. effects' \in Seq(Changes) /\ Len(effects') >= Len(effects) /\ ChangesWereApproved'
  BY <1>0, <1>3, <1>4, ReadsChangeLittle
<1>13. /\ DOMAIN request' = Readers /\ \A x \in Readers \ {r} : request'[x] = request[x]
       /\ request'[r] = IF desktop THEN IF f THEN Over ELSE Answer(r, s, "answered")
                        ELSE IF f THEN [pc |-> "rollback", session |-> s] ELSE Answer(r, s, "rollback")
  BY <1>3, <1>4, <1>10
<1> HIDE DEF s, desktop
<1>14. RequestOk(r, request'[r], session', server', settings'.prod, Len(effects'))
  <2>1. CASE request'[r] = Over
    BY <2>1 DEF RequestOk
  <2>2. CASE request'[r] = [pc |-> "rollback", session |-> s] /\ ~desktop
    BY <1>12, <2>2 DEF RequestOk
  <2>3. CASE request'[r] = Answer(r, s, "answered")
    <3>1. PICK sess : sess = session'
      OBVIOUS
    <3>2. IsAnswer(r, Answer(r, s, "answered"), sess)
      BY <1>1, <1>8, AnswerIsSound
    <3>. QED BY <2>3, <3>1, <3>2 DEF RequestOk
  <2>4. CASE request'[r] = Answer(r, s, "rollback") /\ ~desktop
    <3>1. PICK sess : sess = session'
      OBVIOUS
    <3>2. Owns(r, s, sess)
      BY <1>12, <2>4, <3>1 DEF Owns
    <3>3. IsAnswer(r, Answer(r, s, "rollback"), sess)
      BY <1>1, <1>8, <3>2, AnswerIsSound
    <3>. QED BY <2>4, <3>1, <3>3 DEF RequestOk
  <2>. QED BY <1>13, <2>1, <2>2, <2>3, <2>4
<1>. QED BY <1>0, <1>1, <1>11, <1>12, <1>13, <1>14, <1>15, OwnerChanges

LEMMA RollbackStep ==
    ASSUME ReadsInv, NEW r \in Readers, Rollback(r)
    PROVE  ReadsInv'
<1> DEFINE s == request[r].session
<1>0. UNCHANGED <<server, settings, effects>> /\ request[r].pc = "rollback"
      /\ RequestOk(r, request[r], session, server, settings.prod, Len(effects))
      /\ session \in [Sessions -> {Closed} \cup OpenSessions] /\ DOMAIN request = Readers
  BY ReadsFacts DEF Rollback
<1>1. Owns(r, s, session) /\ ("seen" \in DOMAIN request[r] => IsAnswer(r, request[r], session))
  <2>1. request[r] # Free /\ request[r] # Over
    BY <1>0 DEF Free, Over
  <2>2. ASSUME IsProposal(request[r], settings.prod),
               ProposalStands(r, request[r], session, server, Len(effects))
        PROVE  Owns(r, s, session) /\ ~("seen" \in DOMAIN request[r])
    <3>1. Owns(r, s, session)
      BY <1>0, <2>2 DEF ProposalStands
    <3>2. DOMAIN request[r] = ProposalFields
      BY <2>2 DEF IsProposal
    <3>. QED BY <3>1, <3>2 DEF ProposalFields
  <2>3. ASSUME IsAnswer(r, request[r], session)
        PROVE  Owns(r, s, session)
    BY <1>0, <2>3 DEF IsAnswer
  <2>. QED BY <1>0, <2>1, <2>2, <2>3 DEF RequestOk
<1>2. PICK default : default = IF server.engine = "postgres" THEN session[s].txn.before
                                                           ELSE session[s].default
  OBVIOUS
<1>3. /\ DOMAIN session' = Sessions /\ session' = [t \in Sessions |-> session'[t]]
      /\ \A t \in Sessions \ {s} : session'[t] = session[t]
      /\ session'[s] = [session[s] EXCEPT !.txn = NoTxn, !.query_only = FALSE, !.user = "nobody",
                                          !.default = default]
  <2>1. session' = [session EXCEPT ![s] =
           [session[s] EXCEPT !.txn = NoTxn, !.query_only = FALSE, !.user = "nobody", !.default = default]]
    BY <1>2 DEF Rollback
  <2>. QED BY <1>0, <1>1, <2>1 DEF Owns
<1>4. session'[s] \in OpenSessions
  <2>1. NoTxn \in Txns /\ NoTxn.at = "none"
    BY DEF NoTxn, Txn, Txns
  <2>2. PICK h : h = session[s]
    OBVIOUS
  <2>3. [h EXCEPT !.txn = NoTxn, !.query_only = FALSE, !.user = "nobody", !.default = default] \in OpenSessions
    <3>1. h \in OpenSessions
      BY <1>1, <2>2 DEF Owns
    <3>2. default \in {"ro", "reset"}
      BY <1>2, <2>2, <3>1 DEF OpenSessions, Txns
    <3>. QED BY <2>1, <3>1, <3>2 DEF OpenSessions
  <2>. QED BY <1>3, <2>2, <2>3
<1>5. /\ DOMAIN request' = Readers /\ \A x \in Readers \ {r} : request'[x] = request[x]
      /\ request'[r] = IF "seen" \in DOMAIN request[r] THEN [request[r] EXCEPT !.pc = "answered"] ELSE Over
  BY <1>0 DEF Rollback
<1>6. RequestOk(r, request'[r], session', server', settings'.prod, Len(effects'))
  <2>1. CASE request'[r] = Over
    BY <2>1 DEF RequestOk
  <2>2. CASE "seen" \in DOMAIN request[r] /\ request'[r] = [request[r] EXCEPT !.pc = "answered"]
    <3>1. IsAnswer(r, request'[r], session')
      BY <1>1, <2>2 DEF IsAnswer, AnswerFields
    <3>. QED BY <3>1 DEF RequestOk
  <2>. QED BY <1>5, <2>1, <2>2
<1>. QED BY <1>0, <1>1, <1>3, <1>4, <1>5, <1>6, OwnerMoves

LEMMA CancelStep ==
    ASSUME ReadsInv, NEW r \in Readers, cancel_query(r)
    PROVE  ReadsInv'
<1> DEFINE s == request[r].session
<1>0. UNCHANGED <<server, settings>> /\ request' = [request EXCEPT ![r] = Over]
      /\ RequestOk(r, request[r], session, server, settings.prod, Len(effects)) /\ Len(effects) \in Nat
      /\ session \in [Sessions -> {Closed} \cup OpenSessions] /\ DOMAIN request = Readers
  BY ReadsFacts DEF cancel_query
<1>1. CASE request[r].pc = "acquire"
  BY <1>0, <1>1, RequestEnds DEF cancel_query
<1>2. CASE request[r].pc # "acquire"
  <2>1. request[r].pc \in {"begin", "set_read_only", "start", "pragma", "execute", "rollback"}
    BY <1>2 DEF cancel_query
  <2>2. Owns(r, s, session)
    BY <1>0, <2>1 DEF RequestOk, Free, Over, ProposalStands, IsAnswer
  <2>3. session[s] \in OpenSessions /\ s \in Sessions
    BY <2>2 DEF Owns
  <2>4. PICK after : /\ after \in OpenSessions /\ session' = [session EXCEPT ![s] = after]
                     /\ effects' \in Seq(Changes) /\ Len(effects') >= Len(effects) /\ ChangesWereApproved'
    <3>1. CASE request[r].pc = "execute"
      <4>1. PICK error \in BOOLEAN, kept \in BOOLEAN :
               LET failed == error \/ Refused(r, s) IN
               /\ Lands(Stays(r, s, failed, kept), Effect(r, session[s].default))
               /\ session' = [session EXCEPT ![s] = AfterStatement(r, s, failed, "nobody")]
        BY <3>1 DEF cancel_query
      <4>2. IsProposal(request[r], settings.prod)
        BY <3>1, StandsAt
      <4>3. PICK f \in BOOLEAN : f = (error \/ Refused(r, s))
        BY <4>2 DEF Refused, IsProposal
      <4>4. AfterStatement(r, s, f, "nobody") \in OpenSessions
        BY <1>0, <2>3, StatementIsSafe
      <4>5. effects' \in Seq(Changes) /\ Len(effects') >= Len(effects) /\ ChangesWereApproved'
        BY <3>1, <4>1, <4>3, ReadsChangeLittle
      <4>. QED BY <4>1, <4>3, <4>4, <4>5
    <3>2. CASE request[r].pc # "execute"
      <4>1. session' = [session EXCEPT ![s].user = "nobody"] /\ effects' = effects
        BY <1>2, <3>2 DEF cancel_query
      <4>2. session' = [session EXCEPT ![s] = [session[s] EXCEPT !.user = "nobody"]]
        BY <1>0, <2>3, <4>1
      <4>3. [session[s] EXCEPT !.user = "nobody"] \in OpenSessions
        BY <2>3 DEF OpenSessions
      <4>. QED BY <4>1, <4>2, <4>3, DataStays
    <3>. QED BY <3>1, <3>2
  <2>5. /\ DOMAIN session' = Sessions /\ session' = [t \in Sessions |-> session'[t]]
        /\ \A t \in Sessions \ {s} : session'[t] = session[t]
        /\ session'[s] = after
    BY <1>0, <2>3, <2>4
  <2>6. /\ DOMAIN request' = Readers /\ \A x \in Readers \ {r} : request'[x] = request[x]
        /\ request'[r] = Over
    BY <1>0
  <2>7. RequestOk(r, request'[r], session', server', settings'.prod, Len(effects'))
    BY <2>6 DEF RequestOk
  <2>. QED BY <1>0, <2>2, <2>4, <2>5, <2>6, <2>7, OwnerChanges
<1>. QED BY <1>1, <1>2

(* The settings change while requests wait; the environment does not. *)
LEMMA SafetyEdited ==
    ASSUME ReadsInv, set_safety
    PROVE  ReadsInv'
<1>1. PICK field \in {"allow_writes", "can_write"} : settings' = [settings EXCEPT ![field] = ~@]
  BY DEF set_safety
<1>2. settings \in [allow_writes : BOOLEAN, can_write : BOOLEAN, auto_run : BOOLEAN,
                    prod : BOOLEAN, max_rows : Nat]
  BY DEF ReadsInv
<1>3. /\ settings' \in [allow_writes : BOOLEAN, can_write : BOOLEAN, auto_run : BOOLEAN,
                        prod : BOOLEAN, max_rows : Nat]
      /\ settings'.prod = settings.prod
  BY <1>1, <1>2
<1>4. server' = server /\ session' = session /\ request' = request /\ effects' = effects
  BY DEF set_safety
<1>5. \A r \in Readers : RequestOk(r, request[r], session, server, settings.prod, Len(effects))
  BY DEF ReadsInv
<1>6. \A r \in Readers : RequestOk(r, request'[r], session', server', settings'.prod, Len(effects'))
  BY <1>3, <1>4, <1>5 DEF RequestOk, IsProposal
<1>7. ChangesWereApproved' /\ effects' \in Seq(Changes)
  BY <1>4, DataStays
<1>. QED BY <1>3, <1>4, <1>6, <1>7 DEF ReadsInv

LEMMA ReadsInitially == ReadsInit => ReadsInv
<1> SUFFICES ASSUME ReadsInit PROVE ReadsInv
  OBVIOUS
<1>1. session \in [Sessions -> {Closed} \cup OpenSessions] /\ DOMAIN request = Readers
      /\ server \in Servers /\ effects \in Seq(Changes) /\ Len(effects) = 0
  BY DEF ReadsInit
<1>2. settings \in [allow_writes : BOOLEAN, can_write : BOOLEAN, auto_run : BOOLEAN,
                    prod : BOOLEAN, max_rows : Nat]
  <2>1. settings \in [allow_writes : {TRUE}, can_write : {TRUE}, auto_run : {TRUE},
                      prod : BOOLEAN, max_rows : {1}]
    BY DEF ReadsInit
  <2>2. {TRUE} \subseteq BOOLEAN /\ {1} \subseteq Nat
    OBVIOUS
  <2>. QED BY <2>1, <2>2
<1>3. \A r \in Readers : RequestOk(r, request[r], session, server, settings.prod, Len(effects))
  BY DEF ReadsInit, RequestOk
<1>4. ChangesWereApproved
  <2>1. 1..Len(effects) = {}
    BY <1>1
  <2>. QED BY <2>1 DEF ChangesWereApproved
<1>. QED BY <1>1, <1>2, <1>3, <1>4 DEF ReadsInv

(* Every step keeps the invariant. *)
LEMMA ReadsPreserved == ReadsInv /\ [ReadsNext]_readVars => ReadsInv'
<1> SUFFICES ASSUME ReadsInv, [ReadsNext]_readVars PROVE ReadsInv'
  OBVIOUS
<1>1. CASE UNCHANGED readVars
  BY <1>1 DEF readVars, ReadsInv, ChangesWereApproved
<1>2. CASE set_safety
  BY <1>2, SafetyEdited
<1>3. ASSUME NEW r \in Readers, RequestStep(r)
      PROVE  ReadsInv'
  <2>1. CASE Propose(r)
    <3>1. PICK text \in Texts : propose_sql(r, text) \/ \E n \in {0, 3} : plan_agent_read(r, text, n)
      BY <2>1 DEF Propose
    <3>. QED BY <3>1, ProposeSql, PlanAgentRead
  <2>2. CASE Forget(r)
    BY <2>2, RequestEnds DEF Forget
  <2>. QED BY <1>3, <2>1, <2>2, Preview, ApproveLocal, RunStep, RunWrite, StartsRead, BeginStep,
              SetReadOnlyStep, StartTransactionStep, QueryOnlyStep, ExecuteStep, RollbackStep, CancelStep
           DEF RequestStep
<1>. QED BY <1>1, <1>2, <1>3 DEF ReadsNext

(* The invariant is enough for what the runs check. *)
LEMMA ReadsInvMeans ==
    ASSUME ReadsInv
    PROVE  ChangesWereApproved /\ ReadsAreFaithful
<1>1. ASSUME NEW r \in Readers, request[r].pc = "answered"
      PROVE  IsAnswer(r, request[r], session)
  BY <1>1, ReadsFacts DEF RequestOk, Free, Over, ProposalStands
<1>2. AgentReadsAreCurrent
  BY <1>1 DEF AgentReadsAreCurrent, IsAnswer
<1>3. ReadPageIsExact
  BY <1>1 DEF ReadPageIsExact, IsAnswer
<1>. QED BY <1>2, <1>3 DEF ReadsAreFaithful, ReadsInv

(* Whatever classification misses, however readers are cut off and in      *)
(* whatever state they leave the sessions of the pool, nothing changes the *)
(* target without the confirmation it asks for, except a desktop read on a *)
(* session whose read-only default an earlier statement turned off.        *)
THEOREM ChangesStayApproved == ReadsSpec => []ChangesWereApproved
  BY ReadsInvMeans, ReadsInitially, ReadsPreserved, PTL DEF ReadsSpec

(* Every page shows what its reader was entitled to see: the rows up to    *)
(* the cap, said to be truncated exactly when they are, and for an agent   *)
(* those of its own transaction.                                           *)
THEOREM ReadsStayFaithful == ReadsSpec => []ReadsAreFaithful
  BY ReadsInvMeans, ReadsInitially, ReadsPreserved, PTL DEF ReadsSpec
================================================================================
