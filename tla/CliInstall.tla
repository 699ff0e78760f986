------------------------------- MODULE CliInstall -------------------------------
(***************************************************************************)
(* Installing the bundled CLI (src-tauri/src/cli_install.rs): a copy of    *)
(* the sidecar is kept for the in-app terminal, and on request another is  *)
(* put into the user's bin directory and a managed block is appended to    *)
(* the shell profile.  Both belong to the user as much as to the program:  *)
(* the user edits them, other desktops install at the same time, and a     *)
(* crash can come between any two system calls.                            *)
(***************************************************************************)
EXTENDS Integers, Sequences, FiniteSets, SequencesExt

CONSTANTS
    Desktops,      \* desktop processes that may install at the same time
    PathDesktops,  \* those whose user also asks for the PATH change
    MaxVersion,    \* bound on app updates: each ships another sidecar
    MAX_PROFILE_BYTES \* a longer profile is neither read nor edited

ASSUME InstallAssumption ==
    /\ PathDesktops \subseteq Desktops
    /\ MaxVersion \in Nat \ {0} /\ MAX_PROFILE_BYTES \in Nat

VARIABLES
    bundled,  \* the version of the sidecar shipped with the app
    file,     \* file[t]: what is at the in-app and at the global target
    shellProfile,  \* the shell profile: a sequence of lines, markers, line ends
    install   \* install[d]: where the installation of desktop d stands, and
              \* what the user put at the target since it looked there

installVars == <<bundled, file, shellProfile, install>>

Targets == {"in_app", "global"}

Absent == [kind |-> "none"]
UserFile == [kind |-> "user"]
Link == [kind |-> "link"]
Cli(v, whole) == [kind |-> "cli", version |-> v, whole |-> whole]

NotInstalling == [pc |-> "idle"]

--------------------------------------------------------------------------------
(* The managed block.                                                      *)

unix_path_block == <<"begin", "body", "end">>

Count(s, x) == Cardinality({k \in DOMAIN s : s[k] = x})

HasBlock(s) == \E k \in 1..(Len(s) - 2) : SubSeq(s, k, k + 2) = unix_path_block

(* Mutant: a damaged block is taken for a missing one and written again.   *)
managed_path_block_state_mutant(contents) ==
    IF Count(contents, "begin") = 1 /\ Count(contents, "end") = 1 /\ HasBlock(contents)
    THEN "current" ELSE "missing"

managed_path_block_state(contents) ==
    CASE Count(contents, "begin") = 0 /\ Count(contents, "end") = 0 -> "missing"
      [] Count(contents, "begin") = 1 /\ Count(contents, "end") = 1 /\ HasBlock(contents) -> "current"
      [] OTHER -> "modified"

(* A desktop's own PATH does not hold the directory: what counts is the    *)
(* block in the profile.                                                   *)
path_change_required ==
    Len(shellProfile) > MAX_PROFILE_BYTES \/ managed_path_block_state(shellProfile) # "current"

--------------------------------------------------------------------------------
(* Binaries.                                                               *)

(* status_for: another file, another version or a link is a conflict.      *)
Current(t) == file[t] = Cli(bundled, TRUE)
Conflict(t) == file[t] # Absent /\ ~Current(t)

Step(d, i) == install' = [install EXCEPT ![d] = i]
Goto(d, pc) == install' = [install EXCEPT ![d].pc = pc]

(* install: the in-app copy is brought up to date first.                   *)
StartInstall(d, replace_existing, update_path) ==
    /\ install[d] = NotInstalling
    /\ Step(d, [pc |-> "in_app", replace |-> replace_existing, path |-> update_path,
                target |-> "in_app", version |-> 0, ended |-> TRUE, unseen |-> {}])
    /\ UNCHANGED <<bundled, file, shellProfile>>

in_app_cli_directory(d) ==
    /\ install[d].pc = "in_app"
    /\ IF Current("in_app") THEN Goto(d, "status") ELSE Goto(d, "open")
    /\ UNCHANGED <<bundled, file, shellProfile>>

(* Mutant: a foreign file is overwritten without asking.                   *)
check_target_mutant(d) ==
    /\ install[d].pc = "status"
    /\ Step(d, [install[d] EXCEPT !.target = "global", !.path = @ /\ path_change_required,
                                  !.pc = IF Current("global") THEN "path" ELSE "open"])
    /\ UNCHANGED <<bundled, file, shellProfile>>

(* A conflict is resolved only by an explicit confirmation.                *)
check_target(d) ==
    /\ install[d].pc = "status"
    /\ IF Conflict("global") /\ ~install[d].replace
       THEN Step(d, NotInstalling)
       ELSE Step(d, [install[d] EXCEPT !.target = "global", !.path = @ /\ path_change_required,
                                       !.pc = IF Current("global") THEN "path" ELSE "open"])
    /\ UNCHANGED <<bundled, file, shellProfile>>

(* install_binary: a link is never replaced; the sidecar is opened and     *)
(* copied into a temporary file of its own, made durable and executable,   *)
(* and renamed over the target.                                            *)
open_source(d) ==
    /\ install[d].pc = "open"
    /\ IF file[install[d].target] = Link
       THEN Step(d, NotInstalling)
       ELSE Step(d, [install[d] EXCEPT !.pc = "copy", !.version = bundled, !.unseen = @ \ {Link}])
    /\ UNCHANGED <<bundled, file, shellProfile>>

(* Mutant: the sidecar is copied straight onto the target.                 *)
copy_mutant(d) ==
    /\ install[d].pc = "copy"
    /\ Goto(d, "rename")
    /\ file' = [file EXCEPT ![install[d].target] = Cli(install[d].version, FALSE)]
    /\ UNCHANGED <<bundled, shellProfile>>

copy(d) ==
    /\ install[d].pc = "copy"
    /\ Goto(d, "rename")
    /\ UNCHANGED <<bundled, file, shellProfile>>

(* A full disk or a revoked permission: the temporary file is removed.     *)
copy_fails(d) ==
    /\ install[d].pc \in {"copy", "rename"}
    /\ Step(d, NotInstalling)
    /\ UNCHANGED <<bundled, file, shellProfile>>

atomic_replace(d) ==
    /\ install[d].pc = "rename"
    /\ file' = [file EXCEPT ![install[d].target] = Cli(install[d].version, TRUE)]
    /\ Step(d, [install[d] EXCEPT !.pc = IF install[d].target = "in_app" THEN "status" ELSE "path",
                                  !.version = 0, !.unseen = {}])
    /\ UNCHANGED <<bundled, shellProfile>>

--------------------------------------------------------------------------------
(* The profile.                                                            *)

EndsLine(s) == s = <<>> \/ s[Len(s)] = "nl"

(* configure_user_path reads the profile and leaves it alone unless it is  *)
(* of a sane size and holds no managed block at all.                       *)
configure_user_path(d) ==
    /\ install[d].pc = "path"
    /\ IF /\ install[d].path
          /\ Len(shellProfile) <= MAX_PROFILE_BYTES
          /\ managed_path_block_state(shellProfile) = "missing"
       THEN Step(d, [install[d] EXCEPT !.pc = "newline", !.ended = EndsLine(shellProfile)])
       ELSE Step(d, NotInstalling)
    /\ UNCHANGED <<bundled, file, shellProfile>>

(* Appending: a line end if the profile had none, an empty line, the       *)
(* block, and a line end, each a write of its own.                         *)
write_newline(d) ==
    /\ install[d].pc = "newline"
    /\ shellProfile' = shellProfile \o (IF install[d].ended THEN <<"nl">> ELSE <<"nl", "nl">>)
    /\ Goto(d, "block")
    /\ UNCHANGED <<bundled, file>>

write_block(d) ==
    /\ install[d].pc = "block"
    /\ shellProfile' = shellProfile \o unix_path_block \o <<"nl">>
    /\ Step(d, NotInstalling)
    /\ UNCHANGED <<bundled, file>>

--------------------------------------------------------------------------------
(* The surroundings.                                                       *)

(* A crash cuts the block short at any point; a temporary file is left.    *)
Crash(d) ==
    /\ install[d] # NotInstalling
    /\ Step(d, NotInstalling)
    /\ IF install[d].pc = "block"
       THEN \E n \in 0..Len(unix_path_block) : shellProfile' = shellProfile \o SubSeq(unix_path_block, 1, n)
       ELSE UNCHANGED shellProfile
    /\ UNCHANGED <<bundled, file>>

(* The user adds lines, not ending the last one (lines added to such a     *)
(* line are one), and edits the block, though not in the instant between   *)
(* two writes of an installation.                                          *)
UserEdits ==
    /\ Len(shellProfile) < MAX_PROFILE_BYTES
    /\ \A d \in Desktops : install[d].pc # "block"
    /\ \/ ~IsSuffix(<<"user">>, shellProfile) /\ shellProfile' = Append(shellProfile, "user")
       \/ \E k \in DOMAIN shellProfile : shellProfile[k] \in {"body", "end"} /\ shellProfile' = RemoveAt(shellProfile, k)
    /\ UNCHANGED <<bundled, file, install>>

(* An installation that has looked at the global target and has not        *)
(* replaced it yet.                                                        *)
Replacing(d) == install[d].pc \in {"open", "copy", "rename"} /\ install[d].target = "global"

(* The user puts a file or a link at the global target, or removes it, at  *)
(* any time; an installation that has looked there does not look again.    *)
UserFiles ==
    /\ \E f \in {Absent, UserFile, Link} :
          /\ file' = [file EXCEPT !["global"] = f]
          /\ install' = [d \in Desktops |->
                IF Replacing(d) THEN [install[d] EXCEPT !.unseen = @ \cup ({f} \ {Absent})] ELSE install[d]]
    /\ UNCHANGED <<bundled, shellProfile>>

AppUpdate ==
    /\ bundled < MaxVersion
    /\ bundled' = bundled + 1
    /\ UNCHANGED <<file, shellProfile, install>>

InstallInit ==
    /\ bundled = 1
    /\ file = [t \in Targets |-> Absent]
    /\ shellProfile = <<>>
    /\ install = [d \in Desktops |-> NotInstalling]

InstallStep(d) ==
    \/ \E replace_existing \in BOOLEAN, update_path \in {FALSE, (d \in PathDesktops)} :
          StartInstall(d, replace_existing, update_path)
    \/ in_app_cli_directory(d) \/ check_target(d) \/ open_source(d)
    \/ copy(d) \/ copy_fails(d) \/ atomic_replace(d)
    \/ configure_user_path(d) \/ write_newline(d) \/ write_block(d) \/ Crash(d)

InstallNext == UserEdits \/ UserFiles \/ AppUpdate \/ \E d \in Desktops : InstallStep(d)

InstallSpec == InstallInit /\ [][InstallNext]_installVars

--------------------------------------------------------------------------------
(* Properties.                                                             *)

(* Whatever crashes, fails or overlaps, a target never holds part of a     *)
(* sidecar: a terminal that starts `dopedb` starts a whole one             *)
(* (install_binary, atomic_replace).                                       *)
TargetIsWhole == \A t \in Targets : file[t].kind = "cli" => file[t].whole

(* A file of the user is replaced only by an installation whose user       *)
(* confirmed it, and a link by none at all (install, install_binary),      *)
(* unless it came to the target after the installation had looked for it:  *)
(* atomic_replace does not look again.                                     *)
OnlyConfirmedReplacement ==
    [][\A d \in Desktops :
          install[d].pc = "rename" /\ install'[d].pc # "rename" /\ file'["global"] # file["global"]
              => \/ file["global"] \in install[d].unseen
                 \/ file["global"] # Link /\ (file["global"] = UserFile => install[d].replace)]_installVars

(* However often an installation is repeated after crashes and edits, the  *)
(* profile never gets a second managed block, and the block never runs     *)
(* into a line of the user (configure_user_path).                          *)
ProfileStaysSound ==
    /\ Count(shellProfile, "begin") <= 1
    /\ \A k \in DOMAIN shellProfile : shellProfile[k] = "begin" => k > 1 /\ shellProfile[k - 1] = "nl"

(* A terminal can always be opened after whatever crashed or overlapped:   *)
(* what it starts is a whole sidecar, and its profile holds one block of   *)
(* its own at most.                                                        *)
InstallationIsSound == TargetIsWhole /\ ProfileStaysSound

================================================================================
