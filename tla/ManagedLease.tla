------------------------------ MODULE ManagedLease ------------------------------
(***************************************************************************)
(* The life of one provider-issued database credential, in seconds         *)
(* (workspace_auth.rs authorize_connection, issue_managed_connection_lease *)
(* and release_managed_connection_lease; connection/runtime.rs             *)
(* connect_authorized and the hand-off of ConnectionContext::connect).     *)
(*                                                                         *)
(* Three clocks meet: the provider's, by which the credential dies; the    *)
(* wall clock of the machine, which lags behind it and by which the        *)
(* response is judged; and the monotonic clock that retires the pool.      *)
(* ConnectionRuntime has the cache around this, with lifetimes in the      *)
(* abstract; here is why a margin of that size is enough.                  *)
(***************************************************************************)
EXTENDS Integers

CONSTANTS
    LeaseRequests,  \* requests that open a managed pool each
    RETIRE_MARGIN,  \* a pool retires this long before its credential (30)
    MIN_VALID,      \* the shortest life that is accepted (30)
    MAX_VALID,      \* the longest (20 minutes)
    Lifetimes,      \* what the provider may answer
    Lags,           \* how far the wall clock may lag, or lead if negative
    MaxTick         \* bound on the provider's clock

ASSUME LeaseAssumption ==
    /\ RETIRE_MARGIN \in Nat /\ MIN_VALID \in Nat /\ MAX_VALID \in Nat
    /\ Lifetimes \subseteq Nat /\ Lags \subseteq Int /\ MaxTick \in Nat

(* The lag that the two limits of the code leave room for. *)
ASSUME LagAssumption == \A k \in Lags : k < RETIRE_MARGIN /\ k + 1 < MIN_VALID

VARIABLES
    tick,          \* the provider's clock; a monotonic clock runs alike
    lag,           \* how far the machine's wall clock lags behind it
    sessionToken,  \* is the account's session in the credential store?
    sessionValid,  \* does the control plane accept it?
    managed        \* managed[q]: where request q stands

leaseVars == <<tick, lag, sessionToken, sessionValid, managed>>

Unleased == [pc |-> "start", expires |-> 0, retire_at |-> 0, at |-> 0]

LeaseInit ==
    /\ tick = 0 /\ lag \in Lags
    /\ sessionToken = TRUE /\ sessionValid = TRUE
    /\ managed = [q \in LeaseRequests |-> Unleased]

To(q, pc) == managed' = [managed EXCEPT ![q].pc = pc]

--------------------------------------------------------------------------------
(* Calls to the control plane: without a token none is made, and an answer *)
(* 401 deletes the token.                                                  *)

Unauthorized == sessionToken /\ ~sessionValid

CallFails(q, pc) ==
    /\ ~sessionToken \/ Unauthorized
    /\ sessionToken' = FALSE
    /\ To(q, pc)
    /\ UNCHANGED <<tick, lag, sessionValid>>

CallAnswered(q, pc) ==
    /\ sessionToken /\ sessionValid
    /\ To(q, pc)
    /\ UNCHANGED <<tick, lag, sessionToken, sessionValid>>

(* authorize_connection, before the lease, again when the pool is open and *)
(* for each use of a cached pool that is not due: refused, answered with   *)
(* another authority than was asked for, or given.                         *)
authorize_connection(q) ==
    \/ managed[q].pc = "start" /\ (CallFails(q, "over") \/ \E pc \in {"over", "issue"} : CallAnswered(q, pc))
    \/ /\ managed[q].pc = "reauthorize"
       /\ CallFails(q, "release") \/ \E pc \in {"release", "publish"} : CallAnswered(q, pc)
    \/ /\ managed[q].pc = "cached" /\ tick < managed[q].retire_at
       /\ CallFails(q, "cached") \/ \E pc \in {"cached", "publish"} : CallAnswered(q, pc)

(* issue_managed_connection_lease: the provider makes the credential, ...  *)
issue_managed_connection_lease(q) ==
    /\ managed[q].pc = "issue"
    /\ \/ CallFails(q, "over")
       \/ CallAnswered(q, "over")
       \/ /\ sessionToken /\ sessionValid
          /\ \E v \in Lifetimes :
                managed' = [managed EXCEPT ![q].pc = "response", ![q].expires = tick + v]
          /\ UNCHANGED <<tick, lag, sessionToken, sessionValid>>

valid_seconds(q) == managed[q].expires - (tick - lag)

(* ... and its answer is judged by the machine's clock.  What is refused   *)
(* stays with the provider until it expires.                               *)
ValidateLease(q) ==
    /\ managed[q].pc = "response"
    /\ \/ To(q, "over")
       \/ /\ MIN_VALID <= valid_seconds(q) /\ valid_seconds(q) <= MAX_VALID
          /\ To(q, "anchor")
    /\ UNCHANGED <<tick, lag, sessionToken, sessionValid>>

(* Mutant: the pool lives as long as its credential. *)
valid_for_mutant(v) == v

(* saturating_sub(margin).max(1 second) *)
valid_for(v) == IF v - RETIRE_MARGIN > 1 THEN v - RETIRE_MARGIN ELSE 1

(* connect_authorized fixes the retirement at once, before the handshake.  *)
(* The lease is anchored within the second in which it was judged.         *)
Anchor(q) ==
    /\ managed[q].pc = "anchor"
    /\ managed' = [managed EXCEPT ![q].pc = "connect", ![q].retire_at = tick + valid_for(valid_seconds(q))]
    /\ UNCHANGED <<tick, lag, sessionToken, sessionValid>>

connect(q) ==
    /\ managed[q].pc = "connect"
    /\ To(q, "reauthorize") \/ To(q, "release")
    /\ UNCHANGED <<tick, lag, sessionToken, sessionValid>>

--------------------------------------------------------------------------------
(* The pool.                                                               *)

(* A pool that is due by then, fresh or cached, is given back, not handed  *)
(* out: the authorization before may have taken long.                      *)
HandOver(q) ==
    /\ managed[q].pc = "publish"
    /\ IF managed[q].retire_at <= tick THEN To(q, "release")
       ELSE managed' = [managed EXCEPT ![q].pc = "using", ![q].at = tick]
    /\ UNCHANGED <<tick, lag, sessionToken, sessionValid>>

EndUse(q) ==
    /\ managed[q].pc = "using"
    /\ managed' = [managed EXCEPT ![q].pc = "cached", ![q].at = 0]
    /\ UNCHANGED <<tick, lag, sessionToken, sessionValid>>

(* A cached pool that is due is retired by the next request or its timer.  *)
Retire(q) ==
    /\ managed[q].pc = "cached" /\ managed[q].retire_at <= tick
    /\ To(q, "release")
    /\ UNCHANGED <<tick, lag, sessionToken, sessionValid>>

(* release_managed_connection_lease, bounded in time: without a token it   *)
(* is skipped, and an error is only logged.                                *)
release_managed_connection_lease(q) ==
    /\ managed[q].pc = "release"
    /\ \/ CallFails(q, "over")
       \/ CallAnswered(q, "over")
       \/ /\ sessionToken /\ sessionValid
          /\ managed' = [managed EXCEPT ![q] = [Unleased EXCEPT !.pc = "over"]]
          /\ UNCHANGED <<tick, lag, sessionToken, sessionValid>>

--------------------------------------------------------------------------------
(* The surroundings.                                                       *)

(* Time passes, though not within the step from a judged answer to its     *)
(* anchor, where nothing is awaited.                                       *)
Second ==
    /\ tick < MaxTick
    /\ \A q \in LeaseRequests : managed[q].pc # "anchor"
    /\ tick' = tick + 1
    /\ UNCHANGED <<lag, sessionToken, sessionValid, managed>>

(* The session is revoked, or the account signs in again.                  *)
ChangeSession ==
    /\ \/ sessionValid /\ sessionValid' = FALSE /\ UNCHANGED sessionToken
       \/ ~sessionToken /\ sessionValid' = TRUE /\ sessionToken' = TRUE
    /\ UNCHANGED <<tick, lag, managed>>

LeaseStep(q) ==
    \/ authorize_connection(q) \/ issue_managed_connection_lease(q) \/ ValidateLease(q)
    \/ Anchor(q) \/ connect(q) \/ HandOver(q) \/ EndUse(q) \/ Retire(q)
    \/ release_managed_connection_lease(q)

LeaseNext == Second \/ ChangeSession \/ \E q \in LeaseRequests : LeaseStep(q)

LeaseSpec == LeaseInit /\ [][LeaseNext]_leaseVars

--------------------------------------------------------------------------------
(* Properties.                                                             *)

(* The types of the clocks, the session and the requests. *)
LeaseTypeOK ==
    /\ tick \in Nat /\ lag \in Lags
    /\ sessionToken \in BOOLEAN /\ sessionValid \in BOOLEAN
    /\ managed \in [LeaseRequests ->
          [pc : {"start", "issue", "response", "anchor", "connect", "reauthorize", "publish",
                 "using", "cached", "release", "over"},
           expires : Nat, retire_at : Nat, at : Nat]]

(* However long the answer, the handshake and the second authorization     *)
(* take, and with every lag the margin was made for, a pool that is handed *)
(* out has a credential the provider still accepts, also one accepted with *)
(* the shortest life, whose retirement is clamped to a second              *)
(* (connect_authorized, ConnectionContext::connect).                       *)
HandedOutAlive ==
    \A q \in LeaseRequests : managed[q].pc = "using" => managed[q].at < managed[q].expires

================================================================================
