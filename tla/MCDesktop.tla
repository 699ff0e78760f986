------------------------------- MODULE MCDesktop -------------------------------
(***************************************************************************)
(* Runs of the script, document and monitoring services, and chat turns,   *)
(* checked in one run: they keep no variable in common, so a behaviour     *)
(* picks one at the start and the other stands still.                      *)
(***************************************************************************)
EXTENDS DesktopServices, AgentChat

VARIABLE active  \* the part that moves

desktopVars == <<active, vars, chatVars>>

MCScripts == {<<"read", "read">>, <<"write", "ddl">>, <<"ddl", "write">>, <<"privilege">>,
              <<"implicit", "write">>, <<"commit", "write">>}

MCQueries == {[shape |-> "find", limit |-> l, class |-> "read"] : l \in {NoLimit, 0, 1, 3}}
             \cup {[shape |-> "aggregate", limit |-> NoLimit, class |-> c] : c \in {"read", "write"}}
             \cup {[shape |-> "count", limit |-> NoLimit, class |-> "read"]}

(* A part that stands still does so in one of its initial states; the      *)
(* scopes are interchangeable, so a chat starts in one of them.            *)
MCDesktopInit ==
    /\ active \in {"services", "chat"}
    /\ Init /\ (active # "services" => engine = "mongodb" /\ policy.max_rows = 1
                                       /\ ~policy.can_write /\ ~policy.allow_writes)
    /\ ChatInit /\ chatScope.active = "personal"

Services == active = "services" /\ UNCHANGED <<active, chatVars>>
Chat == active = "chat" /\ UNCHANGED <<active, vars>>

MCDesktopNext == (Services /\ Next) \/ (Chat /\ ChatNext)

(* The fairness of the parts: that of a run, and that of a turn. *)
MCDesktopSpec ==
    /\ MCDesktopInit /\ [][MCDesktopNext]_desktopVars
    /\ \A w \in Workers : WF_desktopVars(Services /\ BoundedStep(w))
    /\ \A k \in Turns : WF_desktopVars(Chat /\ TurnStep(k))

(* Every run and every turn ends: whatever the local store and the agent's *)
(* process do and whether or not the target answers, no request of the     *)
(* desktop is left waiting, but for an agent's document query.             *)
EverythingEnds == RunsEnd /\ TurnsEnd
================================================================================
