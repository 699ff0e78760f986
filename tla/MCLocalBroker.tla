----------------------------- MODULE MCLocalBroker ------------------------------
EXTENDS LocalBroker, TLC

CONSTANTS d1, d2, r1, r2

AnyRequest ==
    {[cmd |-> c, selector |-> "current", valid |-> TRUE, wait |-> TRUE] : c \in CommandName}
    \cup {[cmd |-> c, selector |-> s, valid |-> TRUE, wait |-> FALSE] :
            c \in {"query.plan"}, s \in {"other", "name"}}
    \cup {[cmd |-> c, selector |-> "current", valid |-> FALSE, wait |-> FALSE] :
            c \in {"query.plan", "operation.wait"}}
    \cup {[cmd |-> "app.open", selector |-> "current", valid |-> TRUE, wait |-> FALSE]}

CatalogRequest == {[cmd |-> "catalog.show", selector |-> "current", valid |-> TRUE, wait |-> FALSE]}

(* Reachable states to start from.  Commands that need a session meet one  *)
(* desktop, from its start.  Two desktops meet for app.open --wait: d1     *)
(* serves, or it crashed and left its files.  Nothing is issued where no   *)
(* session is used, nothing edited where no pin is.                        *)
Off(compatible) == [life |-> "off", broker |-> "off", exit |-> "none", compatible |-> compatible, left |-> FALSE]
Crashed == [life |-> "gone", broker |-> "off", exit |-> "none", compatible |-> TRUE,
            left |-> FALSE]
Serving == [life |-> "up", broker |-> "serving", exit |-> "none", compatible |-> TRUE,
            left |-> FALSE]

MCBrokerInit ==
    /\ session = [d \in Desktops |-> NoSession]
    /\ mutation = [d \in Desktops |-> "none"]
    /\ handler = [r \in Calls |-> NoHandler]
    /\ effect = [r \in Calls |-> FALSE]
    /\ call \in [Calls -> [pc: {"idle"}, request: Requests]]
    /\ LET q == call[r1].request
           public == q.cmd \in PublicCommands
           unedited == public \/ q.cmd \in OperationCommands \/ ~q.valid
           two == q.cmd = "app.open" /\ q.wait
       IN  /\ \/ two /\ \E d \in {Crashed, Serving} : desktop = (d1 :> d @@ d2 :> Off(TRUE))
              \/ ~two /\ \E c \in {TRUE, q.cmd # "status"} :
                    desktop = (d1 :> Off(c) @@ d2 :> Crashed)
           /\ discovery = (IF two THEN d1 ELSE NoRuntime)
           /\ sockets = (IF two THEN {d1} ELSE {})
           /\ connRevision = [number |-> IF unedited THEN MaxBrokerRevision ELSE 0, by |-> NoRuntime]
           /\ issued = [d \in Desktops |-> IF public THEN MaxIssued ELSE 0]

MCBrokerSpec == MCBrokerInit /\ [][BrokerNext]_brokerVars /\ BrokerFairness

=================================================================================
