--------------------------- MODULE MCLocalServices ---------------------------
(***************************************************************************)
(* The services of one desktop that keep no variable in common, checked    *)
(* in one run: a behaviour picks one of them at the start and the others   *)
(* stand still.  The reachable states are those of the eight               *)
(* specifications, side by side.                                           *)
(***************************************************************************)
EXTENDS SqlReads, SqlText, CliInstall, ConnectionSecrets, PinnedConnections, AuditChain,
    ManagedLease, DashboardService

VARIABLE active  \* the service that moves

localVars == <<active, readVars, job, installVars, secretVars, pinVars, vars, leaseVars, dashVars>>

(* A toy digest over 0..30 in place of SHA-256. *)
MCHash(p, c, f) ==
    (7 * (IF p = NoHash THEN 1 ELSE p) + (IF f = "f1" THEN 3 ELSE 5)
       + (IF c = "c1" THEN 11 ELSE 13)) % 31

MCHashes == 0..30

MCLags == -1..1

(* One process serves all requests. *)
MCAppOf == [r \in Requests |-> "app"]

(* The local connection that does not exist at the start, by symmetry. *)
NewLocal == CHOOSE c \in Locals : TRUE

(* A service that stands still does so in one of its initial states. *)
MCLocalInit ==
    /\ active \in {"reads", "text", "install", "secrets", "pins", "audit", "lease", "boards"}
    /\ ReadsInit /\ (active # "reads" => server.engine = "sqlite" /\ ~settings.prod)
    /\ IF active = "text" THEN TextInit ELSE job = Split("mysql", <<>>)
    /\ InstallInit
    /\ SecretsInit /\ (active # "secrets" => vault = {})
    /\ profile[NewLocal] = NoProfile
    /\ PinInit /\ (active # "pins" => workspace = Personal /\ account = NoUser)
    /\ Init
    /\ LeaseInit /\ (active # "lease" => lag = 0)
    /\ DashInit

MCLocalNext ==
    \/ /\ active = "reads" /\ ReadsNext
       /\ UNCHANGED <<active, job, installVars, secretVars, pinVars, vars, leaseVars, dashVars>>
    \/ /\ active = "text" /\ TextNext
       /\ UNCHANGED <<active, readVars, installVars, secretVars, pinVars, vars, leaseVars, dashVars>>
    \/ /\ active = "install" /\ InstallNext
       /\ UNCHANGED <<active, readVars, job, secretVars, pinVars, vars, leaseVars, dashVars>>
    \/ /\ active = "secrets" /\ SecretsNext
       /\ UNCHANGED <<active, readVars, job, installVars, pinVars, vars, leaseVars, dashVars>>
    \/ /\ active = "pins" /\ PinNext
       /\ UNCHANGED <<active, readVars, job, installVars, secretVars, vars, leaseVars, dashVars>>
    \/ /\ active = "audit" /\ Next
       /\ UNCHANGED <<active, readVars, job, installVars, secretVars, pinVars, leaseVars, dashVars>>
    \/ /\ active = "lease" /\ LeaseNext
       /\ UNCHANGED <<active, readVars, job, installVars, secretVars, pinVars, vars, dashVars>>
    \/ /\ active = "boards" /\ DashNext
       /\ UNCHANGED <<active, readVars, job, installVars, secretVars, pinVars, vars, leaseVars>>

MCLocalSpec == MCLocalInit /\ [][MCLocalNext]_localVars

(* Bounds on what meets in one behaviour: an update of the app and a       *)
(* profile with more than a line in it do not; a file that the user puts   *)
(* at the target under an installation's hands meets neither; nor do a     *)
(* crash and two local connections meet; an edit of the settings meets     *)
(* neither a production target, nor another engine than PostgreSQL, nor a  *)
(* session whose default was set off.                                      *)
MCLocalBound ==
    /\ active = "install" /\ bundled > 1 => Len(shellProfile) <= 1
    /\ active = "install" /\ (\E d \in Desktops : Replacing(d) /\ install[d].unseen # {}) =>
          bundled = 1 /\ shellProfile = <<>>
    /\ active = "secrets" /\ secretCrashes > 0 => \E c \in Locals : profile[c] = NoProfile
    /\ active = "reads" /\ edits > 0 =>
          /\ ~settings.prod /\ server.engine = "postgres"
          /\ \A s \in Sessions : session[s].open => session[s].default # "reset"
================================================================================
