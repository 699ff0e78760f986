------------------------------- MODULE AgentChat --------------------------------
(***************************************************************************)
(* Agent chat: one turn of a chat thread runs a command line agent as a    *)
(* child process, streams its text to the window and keeps a transcript    *)
(* (agent/mod.rs, agent/claude.rs, agent/codex.rs, the chat tables of      *)
(* store/mod.rs, services/agent_service.rs, the exit hook of lib.rs).      *)
(* A text is the number of its chunks.                                     *)
(***************************************************************************)
EXTENDS Naturals, Sequences

CONSTANTS
    Threads, Turns, Scopes,
    MaxChunks,       \* bound on the chunks of one turn
    MaxScopeSwitches \* bound on switches of the active scope

ASSUME ChatAssumption ==
    /\ Scopes # {} /\ MaxChunks \in Nat /\ MaxScopeSwitches \in Nat
    /\ Scopes \cap {"none", "deleted"} = {}
    /\ "no turn" \notin Turns

VARIABLES
    thread,      \* thread[t]: the row of a thread, or NoThread
    transcript,  \* transcript[t]: its messages, by creation
    turn,        \* turn[k]: where turn k stands
    turnLock,    \* the holder of ChatSlot.turn_lock
    activeTurn,  \* ChatSlot.active_turn
    signal,      \* signal[k]: the cancellation slot of k
    child,       \* child[k]: the process of k
    shown,       \* shown[k]: chunks whose event reached the window, and whose event failed
    chatScope,   \* the active scope, and how often it changed
    app          \* the application and its exit hook

chatVars == <<thread, transcript, turn, turnLock, activeTurn, signal, child, shown, chatScope, app>>

NoThread == [scope |-> "none"]
NoTurn == "no turn"
NoCliSession == "no session"
IdleTurn == [pc |-> "idle"]
NothingShown == [received |-> 0, failed |-> 0]

(* The chunks of a turn so far. *)
Streamed(s) == s.received + s.failed

ChatInit ==
    /\ thread = [t \in Threads |-> NoThread]
    /\ transcript = [t \in Threads |-> <<>>]
    /\ turn = [k \in Turns |-> IdleTurn]
    /\ turnLock = NoTurn /\ activeTurn = NoTurn
    /\ signal = [k \in Turns |-> "absent"]
    /\ child = [k \in Turns |-> "none"]
    /\ shown = [k \in Turns |-> NothingShown]
    /\ chatScope \in [active: Scopes, switches: {0}]
    /\ app = "up"

Running == app # "gone"

(* get_chat_thread: a thread of the active scope. *)
get_chat_thread(t) == thread[t] # NoThread /\ thread[t].scope = chatScope.active

--------------------------------------------------------------------------------
(* Threads and the scope they belong to. *)

create_chat_thread(t) ==
    /\ Running /\ thread[t] = NoThread /\ transcript[t] = <<>>
    /\ thread' = [thread EXCEPT ![t] = [scope |-> chatScope.active, session |-> NoCliSession,
                                        titled |-> FALSE]]
    /\ UNCHANGED <<transcript, turn, turnLock, activeTurn, signal, child, shown, chatScope, app>>

(* The messages go with their thread; its id is never used again. *)
delete_chat_thread(t) ==
    /\ Running /\ get_chat_thread(t)
    /\ thread' = [thread EXCEPT ![t].scope = "deleted"]
    /\ transcript' = [transcript EXCEPT ![t] = <<>>]
    /\ UNCHANGED <<turn, turnLock, activeTurn, signal, child, shown, chatScope, app>>

SwitchScope ==
    /\ Running /\ chatScope.switches < MaxScopeSwitches
    /\ \E s \in Scopes \ {chatScope.active} :
          chatScope' = [active |-> s, switches |-> chatScope.switches + 1]
    /\ UNCHANGED <<thread, transcript, turn, turnLock, activeTurn, signal, child, shown, app>>

--------------------------------------------------------------------------------
(* One turn. *)

AtTurn(k, pc) == Running /\ turn[k].pc = pc
ToTurn(k, pc) == turn' = [turn EXCEPT ![k].pc = pc]

(* The guards of send_turn are dropped on every path out of it. *)
LeaveTurn(k, pc) ==
    /\ ToTurn(k, pc)
    /\ turnLock' = NoTurn /\ activeTurn' = NoTurn

send_turn(k, t) ==
    /\ Running /\ turn[k] = IdleTurn /\ thread[t] # NoThread
    /\ turn' = [turn EXCEPT ![k] = [pc |-> "queued", thread |-> t, resume |-> NoCliSession,
                                    session |-> NoCliSession, text |-> 0, error |-> FALSE]]
    /\ UNCHANGED <<thread, transcript, turnLock, activeTurn, signal, child, shown, chatScope, app>>

(* Mutant: a second turn does not wait for the first. *)
TakeTurnLock_mutant(k) ==
    /\ AtTurn(k, "queued")
    /\ turnLock' = k /\ activeTurn' = k
    /\ ToTurn(k, "load")
    /\ UNCHANGED <<thread, transcript, signal, child, shown, chatScope, app>>

TakeTurnLock(k) ==
    /\ AtTurn(k, "queued") /\ turnLock = NoTurn
    /\ turnLock' = k /\ activeTurn' = k
    /\ ToTurn(k, "load")
    /\ UNCHANGED <<thread, transcript, signal, child, shown, chatScope, app>>

(* The thread is read; one that is gone or in another scope, or a store    *)
(* that does not answer, ends the turn.                                    *)
LoadThread(k) ==
    LET t == turn[k].thread
    IN  /\ AtTurn(k, "load")
        /\ \/ /\ get_chat_thread(t)
              /\ turn' = [turn EXCEPT ![k].pc = "insert", ![k].resume = thread[t].session,
                                      ![k].session = thread[t].session]
              /\ UNCHANGED <<turnLock, activeTurn>>
           \/ LeaveTurn(k, "refused")
        /\ UNCHANGED <<thread, transcript, signal, child, shown, chatScope, app>>

(* insert_chat_message_with_id looks the thread up again first; the store  *)
(* may fail.                                                               *)
Message(k, role) == [turn |-> k, role |-> role, text |-> turn[k].text, error |-> turn[k].error]

insert_chat_message_with_id(k, role) ==
    transcript' = [transcript EXCEPT ![turn[k].thread] = Append(@, Message(k, role))]

InsertUserMessage(k) ==
    /\ AtTurn(k, "insert")
    /\ \/ /\ get_chat_thread(turn[k].thread)
          /\ insert_chat_message_with_id(k, "user")
          /\ ToTurn(k, "prepare") /\ UNCHANGED <<turnLock, activeTurn>>
       \/ LeaveTurn(k, "refused") /\ UNCHANGED transcript
    /\ UNCHANGED <<thread, signal, child, shown, chatScope, app>>

(* The context block, on the first turn of a thread, and the command of    *)
(* the provider; a missing binary or an unwritable configuration ends in   *)
(* an error like any other.  There is no cancellation slot yet.            *)
PrepareCommand(k) ==
    /\ AtTurn(k, "prepare")
    /\ \/ ToTurn(k, "spawn")
       \/ turn' = [turn EXCEPT ![k].pc = "persist", ![k].error = TRUE]
    /\ UNCHANGED <<thread, transcript, turnLock, activeTurn, signal, child, shown, chatScope, app>>

(* cancel::guard registers the slot, then the child is spawned. *)
SpawnChild(k) ==
    /\ AtTurn(k, "spawn")
    /\ \/ /\ child' = [child EXCEPT ![k] = "running"]
          /\ signal' = [signal EXCEPT ![k] = "armed"]
          /\ ToTurn(k, "streaming")
       \/ /\ turn' = [turn EXCEPT ![k].pc = "persist", ![k].error = TRUE]
          /\ UNCHANGED <<child, signal>>
    /\ UNCHANGED <<thread, transcript, turnLock, activeTurn, shown, chatScope, app>>

(* emit_event: a failure is logged and nothing else. *)
EmitEvent(k) ==
    /\ Streamed(shown[k]) < MaxChunks
    /\ \/ shown' = [shown EXCEPT ![k].received = @ + 1]
       \/ shown' = [shown EXCEPT ![k].failed = @ + 1]

(* Mutant: a chunk is shown and not kept. *)
ReadLine_mutant(k) ==
    /\ AtTurn(k, "streaming") /\ child[k] = "running"
    /\ \/ EmitEvent(k) /\ UNCHANGED turn
       \/ turn[k].session # k /\ turn' = [turn EXCEPT ![k].session = k] /\ UNCHANGED shown
       \/ ~turn[k].error /\ turn' = [turn EXCEPT ![k].error = TRUE] /\ UNCHANGED shown
    /\ UNCHANGED <<thread, transcript, turnLock, activeTurn, signal, child, chatScope, app>>

(* parse_line on one line of output: text, a session id, or a failure; any *)
(* other line is dropped.                                                  *)
ReadLine(k) ==
    /\ AtTurn(k, "streaming") /\ child[k] = "running"
    /\ \/ EmitEvent(k) /\ turn' = [turn EXCEPT ![k].text = @ + 1]
       \/ turn[k].session # k /\ turn' = [turn EXCEPT ![k].session = k] /\ UNCHANGED shown
       \/ ~turn[k].error /\ turn' = [turn EXCEPT ![k].error = TRUE] /\ UNCHANGED shown
    /\ UNCHANGED <<thread, transcript, turnLock, activeTurn, signal, child, chatScope, app>>

(* The child ends by itself; its status and the tail of its standard error *)
(* may turn the turn into a failed one.                                    *)
ChildExits(k) ==
    /\ Running /\ child[k] = "running"
    /\ child' = [child EXCEPT ![k] = "exited"]
    /\ IF AtTurn(k, "streaming")
       THEN /\ \E failed \in {turn[k].error, TRUE} :
                  turn' = [turn EXCEPT ![k].pc = "persist", ![k].error = failed]
            /\ signal' = [signal EXCEPT ![k] = "absent"]
       ELSE UNCHANGED <<turn, signal>>
    /\ UNCHANGED <<thread, transcript, turnLock, activeTurn, shown, chatScope, app>>

(* cancel(turn_id), from the window or the exit hook: heard only by a      *)
(* registered slot.                                                        *)
cancel(k) == signal' = [signal EXCEPT ![k] = IF @ = "armed" THEN "signalled" ELSE @]

CancelTurn(k) ==
    /\ Running /\ signal[k] = "armed" /\ cancel(k)
    /\ UNCHANGED <<thread, transcript, turn, turnLock, activeTurn, child, shown, chatScope, app>>

(* Mutant: the turn has no time limit. *)
InterruptTurn_mutant(k) ==
    /\ AtTurn(k, "streaming") /\ signal[k] = "signalled"
    /\ turn' = [turn EXCEPT ![k].pc = "persist", ![k].error = TRUE]
    /\ child' = [child EXCEPT ![k] = "killed"]
    /\ signal' = [signal EXCEPT ![k] = "absent"]
    /\ UNCHANGED <<thread, transcript, turnLock, activeTurn, shown, chatScope, app>>

(* The guard drops the run on a signal or after CHAT_TURN_TIMEOUT: the     *)
(* child is killed on drop and what was captured stays in TurnProgress.    *)
InterruptTurn(k) ==
    /\ AtTurn(k, "streaming") /\ signal[k] \in {"armed", "signalled"}
    /\ turn' = [turn EXCEPT ![k].pc = "persist", ![k].error = TRUE]
    /\ child' = [child EXCEPT ![k] = "killed"]
    /\ signal' = [signal EXCEPT ![k] = "absent"]
    /\ UNCHANGED <<thread, transcript, turnLock, activeTurn, shown, chatScope, app>>

(* The answer, best effort: lost when the thread is not found any more or  *)
(* the store fails.                                                        *)
PersistAnswer(k) ==
    /\ AtTurn(k, "persist")
    /\ \/ /\ get_chat_thread(turn[k].thread)
          /\ insert_chat_message_with_id(k, "assistant")
       \/ UNCHANGED transcript
    /\ ToTurn(k, "finish")
    /\ UNCHANGED <<thread, turnLock, activeTurn, signal, child, shown, chatScope, app>>

(* The session to resume, and the title if there is none yet, when the     *)
(* store takes them; then chat_done.                                       *)
finish_chat_turn(k) ==
    LET t == turn[k].thread
    IN  /\ AtTurn(k, "finish")
        /\ \/ /\ get_chat_thread(t)
              /\ thread' = [thread EXCEPT ![t].session = turn[k].session, ![t].titled = TRUE]
           \/ UNCHANGED thread
        /\ LeaveTurn(k, "done")
        /\ UNCHANGED <<transcript, signal, child, shown, chatScope, app>>

--------------------------------------------------------------------------------
(* The exit hook: a turn that is active now is cancelled and waited for,   *)
(* at most five seconds; then the process ends, and no destructor runs.    *)
Exit ==
    /\ app = "up"
    /\ IF activeTurn = NoTurn THEN app' = "gone" /\ UNCHANGED signal
       ELSE app' = "waiting" /\ cancel(activeTurn)
    /\ UNCHANGED <<thread, transcript, turn, turnLock, activeTurn, child, shown, chatScope>>

(* The wait polls active_turn and is taken to be long enough for a turn    *)
(* that heard its signal to drop its child.                                *)
wait_idle ==
    /\ app = "waiting"
    /\ activeTurn = NoTurn \/ \A k \in Turns : signal[k] # "signalled"
    /\ app' = "gone"
    /\ UNCHANGED <<thread, transcript, turn, turnLock, activeTurn, signal, child, shown, chatScope>>

TurnStep(k) ==
    \/ TakeTurnLock(k) \/ LoadThread(k) \/ InsertUserMessage(k) \/ PrepareCommand(k)
    \/ SpawnChild(k) \/ InterruptTurn(k) \/ PersistAnswer(k) \/ finish_chat_turn(k)

ChatNext ==
    \/ \E t \in Threads : create_chat_thread(t) \/ delete_chat_thread(t)
    \/ \E k \in Turns :
          \/ \E t \in Threads : send_turn(k, t)
          \/ TurnStep(k) \/ ReadLine(k) \/ ChildExits(k) \/ CancelTurn(k)
    \/ SwitchScope \/ Exit \/ wait_idle

ChatSpec == ChatInit /\ [][ChatNext]_chatVars

(* Fairness: the task of a turn runs and its time limit passes.  Nothing   *)
(* is assumed of the child.                                                *)
ChatFairness == \A k \in Turns : WF_chatVars(TurnStep(k))

FairChatSpec == ChatSpec /\ ChatFairness

--------------------------------------------------------------------------------
(* Properties. *)

(* The transcript of a thread never mixes two turns: an answer follows the *)
(* message it answers, whatever turns were started, cancelled or refused   *)
(* meanwhile (send_turn, turn_lock).                                       *)
TurnsDoNotMix ==
    \A t \in Threads : \A i \in DOMAIN transcript[t] :
        LET m == transcript[t][i]
        IN  m.role = "assistant" =>
               i > 1 /\ transcript[t][i - 1].role = "user" /\ transcript[t][i - 1].turn = m.turn

(* A stored answer has every chunk the window has shown, and besides only  *)
(* chunks whose event failed, also for a turn that was cancelled, timed    *)
(* out or failed half way (TurnProgress, emit_event).                      *)
TranscriptIsWhatWasShown ==
    \A t \in Threads : \A i \in DOMAIN transcript[t] :
        LET m == transcript[t][i]
        IN  m.role = "assistant" => m.text = Streamed(shown[m.turn])

(* The stored thread is the conversation that took place: each answer      *)
(* under its own message, and with the text its turn has streamed.         *)
TranscriptIsFaithful == TurnsDoNotMix /\ TranscriptIsWhatWasShown

(* Every turn ends while the application runs, whatever its child does,    *)
(* and with it those that wait for the lock.                               *)
TurnsEnd ==
    \A k \in Turns : turn[k].pc = "queued" ~> turn[k].pc \in {"done", "refused"} \/ ~Running
================================================================================
