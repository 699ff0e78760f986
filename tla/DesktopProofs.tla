----------------------------- MODULE DesktopProofs ------------------------------
(***************************************************************************)
(* Proofs about the services of the desktop: scripts, document reads and   *)
(* role changes (DesktopServices), chat turns (AgentChat) and dashboards   *)
(* (DashboardService), each for any number of requests and rows.           *)
(***************************************************************************)
EXTENDS DesktopServices, AgentChat, DashboardService, TLAPS

--------------------------------------------------------------------------------
(* Chat: what a turn relies on while it holds the lock. *)

Inside == {"load", "insert", "prepare", "spawn", "streaming", "persist", "finish"}
Asked == {"prepare", "spawn", "streaming", "persist"}

ChatMessages == [turn: Turns, role: {"user", "assistant"}, text: Nat, error: BOOLEAN]

ThreadRows == [scope: Scopes \cup {"deleted"}, session: Turns \cup {NoCliSession}, titled: BOOLEAN]

TurnRows ==
    [pc: Inside \cup {"queued", "refused", "done"}, thread: Threads,
     resume: Turns \cup {NoCliSession}, session: Turns \cup {NoCliSession},
     text: Nat, error: BOOLEAN]

ShownRows == [received: Nat, failed: Nat]

ChatTypes ==
    /\ thread \in [Threads -> ThreadRows \cup {NoThread}]
    /\ transcript \in [Threads -> Seq(ChatMessages)]
    /\ turn \in [Turns -> TurnRows \cup {IdleTurn}]
    /\ shown \in [Turns -> ShownRows]
    /\ chatScope.active \in Scopes

(* A turn between its first look at the thread and its end has the lock.   *)
LockIsHeld == \A k \in Turns : turn[k].pc \in Inside => turnLock = k

(* What a turn has captured is what it has streamed. *)
CaptureIsShown ==
    \A k \in Turns : IF turn[k] = IdleTurn THEN shown[k] = NothingShown ELSE turn[k].text = Streamed(shown[k])

(* The thread of a turn exists or was deleted; between the message and its *)
(* answer the message is the last of the thread.                           *)
MessageIsLast ==
    \A k \in Turns : turn[k] # IdleTurn =>
        LET t == turn[k].thread
        IN  /\ thread[t] # NoThread
            /\ turn[k].pc \in Asked /\ thread[t].scope # "deleted" =>
                  LET last == transcript[t][Len(transcript[t])]
                  IN  transcript[t] # <<>> /\ last.role = "user" /\ last.turn = k

(* A stored answer is of a turn that shows nothing more. *)
AnswersAreFinal ==
    \A t \in Threads : \A i \in DOMAIN transcript[t] :
        LET m == transcript[t][i]
        IN  m.role = "assistant" => turn[m.turn].pc \in {"finish", "done"} /\ m.text = Streamed(shown[m.turn])

ChatInv == ChatTypes /\ LockIsHeld /\ CaptureIsShown /\ MessageIsLast /\ AnswersAreFinal /\ TurnsDoNotMix

LEMMA Nothing ==
    /\ IdleTurn.pc = "idle" /\ IdleTurn \notin TurnRows
    /\ NoThread.scope = "none" /\ NoThread \notin ThreadRows
    /\ \A s \in ThreadRows : s.scope # "none"
    /\ NoTurn \notin Turns /\ \A s \in Scopes : s # "none" /\ s # "deleted"
BY ChatAssumption DEF IdleTurn, NoThread, NoTurn, TurnRows, ThreadRows, Inside

LEMMA StoredMessages ==
    ASSUME ChatTypes, NEW t \in Threads
    PROVE  /\ transcript[t] \in Seq(ChatMessages)
           /\ \A i \in DOMAIN transcript[t] :
                 transcript[t][i] \in ChatMessages /\ transcript[t][i].turn \in Turns
<1>1. transcript[t] \in Seq(ChatMessages) BY DEF ChatTypes
<1>2. ASSUME NEW i \in DOMAIN transcript[t] PROVE transcript[t][i] \in ChatMessages
  BY <1>1, <1>2
<1> QED BY <1>1, <1>2 DEF ChatMessages

LEMMA ChatStarts == ChatInit => ChatInv
<1> SUFFICES ASSUME ChatInit PROVE ChatInv
  OBVIOUS
<1> USE Nothing
<1>1. ChatTypes BY DEF ChatInit, ChatTypes, ShownRows, NothingShown
<1>2. LockIsHeld BY DEF ChatInit, LockIsHeld, Inside
<1>3. CaptureIsShown BY DEF ChatInit, CaptureIsShown
<1>4. MessageIsLast BY DEF ChatInit, MessageIsLast
<1>5. AnswersAreFinal BY DEF ChatInit, AnswersAreFinal
<1>6. TurnsDoNotMix BY DEF ChatInit, TurnsDoNotMix
<1> QED BY <1>1, <1>2, <1>3, <1>4, <1>5, <1>6 DEF ChatInv

(* The row of a turn that was sent, and of its thread. *)
LEMMA TurnFacts ==
    ASSUME ChatInv, NEW k \in Turns, turn[k].pc # "idle"
    PROVE  /\ turn[k] # IdleTurn /\ turn[k] \in TurnRows
           /\ thread[turn[k].thread] \in ThreadRows
           /\ turn[k].text = Streamed(shown[k])
<1> USE Nothing
<1>1. turn[k] # IdleTurn /\ turn[k] \in TurnRows BY DEF ChatInv, ChatTypes
<1>2. turn[k].thread \in Threads /\ thread[turn[k].thread] # NoThread
  BY <1>1 DEF ChatInv, MessageIsLast, TurnRows
<1>3. turn[k].text = Streamed(shown[k]) BY <1>1 DEF ChatInv, CaptureIsShown
<1> QED BY <1>1, <1>2, <1>3 DEF ChatInv, ChatTypes

(* A step of one turn that leaves the transcripts alone. *)
LEMMA TurnMoves ==
    ASSUME ChatInv, NEW k \in Turns, turn[k].pc # "idle",
           NEW r \in TurnRows, turn' = [turn EXCEPT ![k] = r], r.thread = turn[k].thread,
           thread' \in [Threads -> ThreadRows \cup {NoThread}],
           \A t \in Threads : thread'[t].scope = thread[t].scope,
           transcript' = transcript, chatScope' = chatScope,
           shown' \in [Turns -> ShownRows], r.text = Streamed(shown'[k]),
           \A j \in Turns \ {k} : shown'[j] = shown[j],
           turn[k].pc \in {"finish", "done"} => r.pc \in {"finish", "done"} /\ shown'[k] = shown[k],
           r.pc \in Inside => turnLock' = k,
           \A j \in Turns \ {k} : turn[j].pc \in Inside => turnLock' = j,
           r.pc \in Asked => turn[k].pc \in Asked
    PROVE  ChatInv'
<1>a. ASSUME NEW t \in Threads, thread[t] # NoThread PROVE thread'[t] # NoThread
  <2>1. thread[t] \in ThreadRows BY <1>a DEF ChatInv, ChatTypes
  <2>2. thread[t].scope # "none" /\ NoThread.scope = "none" BY <2>1, Nothing
  <2>3. thread'[t].scope = thread[t].scope OBVIOUS
  <2> QED BY <2>2, <2>3
<1> USE TurnFacts, Nothing
<1>1. ChatTypes' BY DEF ChatInv, ChatTypes
<1>2. LockIsHeld' BY DEF ChatInv, ChatTypes, LockIsHeld
<1>3. CaptureIsShown' BY DEF ChatInv, ChatTypes, CaptureIsShown, TurnRows
<1>4. MessageIsLast'
  <2> SUFFICES ASSUME NEW j \in Turns, turn'[j] # IdleTurn
               PROVE  LET t == turn[j].thread
                      IN  /\ turn'[j].thread = t /\ turn[j] # IdleTurn /\ t \in Threads
                          /\ thread'[t] # NoThread
                          /\ turn'[j].pc \in Asked => turn[j].pc \in Asked
    BY DEF ChatInv, MessageIsLast
  <2>1. turn[j] # IdleTurn /\ turn[j] \in TurnRows BY DEF ChatInv, ChatTypes
  <2>2. turn[j].thread \in Threads /\ thread[turn[j].thread] # NoThread
    BY <2>1 DEF ChatInv, MessageIsLast, TurnRows
  <2> QED BY <2>1, <2>2, <1>a DEF ChatInv, ChatTypes
<1>b. \A t \in Threads : \A i \in DOMAIN transcript[t] : transcript[t][i].turn \in Turns
  BY StoredMessages DEF ChatInv
<1>5. AnswersAreFinal' BY <1>b DEF ChatInv, ChatTypes, AnswersAreFinal
<1>6. TurnsDoNotMix' BY DEF ChatInv, TurnsDoNotMix
<1> QED BY <1>1, <1>2, <1>3, <1>4, <1>5, <1>6 DEF ChatInv

(* How a turn's row changes: its position, with an error, or with a        *)
(* session.                                                                *)
LEMMA RowMoves ==
    ASSUME NEW r \in TurnRows, NEW pc \in Inside \cup {"queued", "refused", "done"},
           NEW e \in BOOLEAN, NEW s \in Turns \cup {NoCliSession}
    PROVE  /\ [r EXCEPT !.pc = pc] \in TurnRows
           /\ [r EXCEPT !.pc = pc, !.error = e] \in TurnRows
           /\ [r EXCEPT !.error = e] \in TurnRows
           /\ [r EXCEPT !.session = s] \in TurnRows
           /\ [r EXCEPT !.pc = pc, !.resume = s, !.session = s] \in TurnRows
           /\ [r EXCEPT !.text = @ + 1] \in TurnRows
<1>1. [r EXCEPT !.pc = pc] \in TurnRows BY DEF TurnRows
<1>2. [r EXCEPT !.pc = pc, !.error = e] \in TurnRows BY DEF TurnRows
<1>3. [r EXCEPT !.error = e] \in TurnRows BY DEF TurnRows
<1>4. [r EXCEPT !.session = s] \in TurnRows BY DEF TurnRows
<1>5. [r EXCEPT !.pc = pc, !.resume = s, !.session = s] \in TurnRows BY DEF TurnRows
<1>6. [r EXCEPT !.text = @ + 1] \in TurnRows BY DEF TurnRows
<1> QED BY <1>1, <1>2, <1>3, <1>4, <1>5, <1>6

LEMMA RowKeeps ==
    ASSUME NEW r \in TurnRows, NEW pc, NEW e, NEW s
    PROVE  /\ LET q == [r EXCEPT !.pc = pc]
              IN  q.pc = pc /\ q.thread = r.thread /\ q.text = r.text
           /\ LET q == [r EXCEPT !.pc = pc, !.error = e]
              IN  q.pc = pc /\ q.thread = r.thread /\ q.text = r.text
           /\ LET q == [r EXCEPT !.error = e]
              IN  q.pc = r.pc /\ q.thread = r.thread /\ q.text = r.text
           /\ LET q == [r EXCEPT !.session = s]
              IN  q.pc = r.pc /\ q.thread = r.thread /\ q.text = r.text
           /\ LET q == [r EXCEPT !.pc = pc, !.resume = s, !.session = s]
              IN  q.pc = pc /\ q.thread = r.thread /\ q.text = r.text
           /\ LET q == [r EXCEPT !.text = @ + 1]
              IN  q.pc = r.pc /\ q.thread = r.thread /\ q.text = r.text + 1
BY DEF TurnRows

(* What every step but the sending of a turn may do to the rows. *)
Quiet == thread' = thread /\ transcript' = transcript /\ shown' = shown /\ chatScope' = chatScope

(* A turn goes to another position and keeps or gives back the lock. *)
LEMMA TurnAdvances ==
    ASSUME ChatInv, Quiet, NEW k \in Turns, turn[k].pc # "idle",
           NEW r \in TurnRows, turn' = [turn EXCEPT ![k] = r],
           r.thread = turn[k].thread, r.text = turn[k].text,
           turn[k].pc \notin {"finish", "done"} \/ r.pc \in {"finish", "done"},
           r.pc \in Asked => turn[k].pc \in Asked,
           \/ turnLock' = turnLock /\ (r.pc \in Inside => turn[k].pc \in Inside)
           \/ turn[k].pc \in Inside /\ r.pc \notin Inside
           \/ turnLock = NoTurn /\ turnLock' = k
    PROVE  ChatInv'
<1> USE Nothing, TurnFacts DEF Quiet
<1>1. /\ thread' \in [Threads -> ThreadRows \cup {NoThread}]
      /\ shown' \in [Turns -> ShownRows]
  BY DEF ChatInv, ChatTypes
<1>2. r.text = Streamed(shown'[k]) OBVIOUS
<1>3. \A j \in Turns : turn[j].pc \in Inside => turnLock = j BY DEF ChatInv, LockIsHeld
<1>4. r.pc \in Inside => turnLock' = k BY <1>3
<1>5. \A j \in Turns \ {k} : turn[j].pc \in Inside => turnLock' = j BY <1>3
<1> HIDE DEF Quiet
<1> QED BY <1>1, <1>2, <1>4, <1>5, TurnMoves DEF Quiet

(* The same, with the row as the actions write it. *)
LEMMA TurnGoes ==
    ASSUME ChatInv, Quiet, NEW k \in Turns, turn[k].pc # "idle",
           NEW pc \in Inside \cup {"refused", "done"}, NEW e \in BOOLEAN,
           NEW s \in Turns \cup {NoCliSession},
           \/ turn' = [turn EXCEPT ![k].pc = pc]
           \/ turn' = [turn EXCEPT ![k].pc = pc, ![k].error = e]
           \/ turn' = [turn EXCEPT ![k].pc = pc, ![k].resume = s, ![k].session = s],
           turn[k].pc \notin {"finish", "done"} \/ pc \in {"finish", "done"},
           pc \in Asked => turn[k].pc \in Asked,
           \/ turnLock' = turnLock /\ (pc \in Inside => turn[k].pc \in Inside)
           \/ turn[k].pc \in Inside /\ pc \notin Inside
           \/ turnLock = NoTurn /\ turnLock' = k
    PROVE  ChatInv'
<1>0. turn[k] \in TurnRows BY TurnFacts
<1>1. PICK r \in TurnRows : /\ turn' = [turn EXCEPT ![k] = r]
                            /\ r.pc = pc /\ r.thread = turn[k].thread /\ r.text = turn[k].text
  <2>1. CASE turn' = [turn EXCEPT ![k].pc = pc]
    <3> DEFINE r == [turn[k] EXCEPT !.pc = pc]
    <3>1. r \in TurnRows BY <1>0, RowMoves
    <3>2. r.pc = pc /\ r.thread = turn[k].thread /\ r.text = turn[k].text BY <1>0, RowKeeps
    <3>3. turn' = [turn EXCEPT ![k] = r] BY <2>1
    <3> QED BY <3>1, <3>2, <3>3
  <2>2. CASE turn' = [turn EXCEPT ![k].pc = pc, ![k].error = e]
    <3> DEFINE r == [turn[k] EXCEPT !.pc = pc, !.error = e]
    <3>1. r \in TurnRows BY <1>0, RowMoves
    <3>2. r.pc = pc /\ r.thread = turn[k].thread /\ r.text = turn[k].text BY <1>0, RowKeeps
    <3>3. turn' = [turn EXCEPT ![k] = r] BY <2>2 DEF ChatInv, ChatTypes
    <3> QED BY <3>1, <3>2, <3>3
  <2>3. CASE turn' = [turn EXCEPT ![k].pc = pc, ![k].resume = s, ![k].session = s]
    <3> DEFINE r == [turn[k] EXCEPT !.pc = pc, !.resume = s, !.session = s]
    <3>1. r \in TurnRows BY <1>0, RowMoves
    <3>2. r.pc = pc /\ r.thread = turn[k].thread /\ r.text = turn[k].text BY <1>0, RowKeeps
    <3>3. turn' = [turn EXCEPT ![k] = r] BY <2>3 DEF ChatInv, ChatTypes
    <3> QED BY <3>1, <3>2, <3>3
  <2> QED BY <2>1, <2>2, <2>3
<1> QED BY <1>1, TurnAdvances

LEMMA ChatSteps ==
    ASSUME ChatInv, NEW k \in Turns,
           TakeTurnLock(k) \/ LoadThread(k) \/ PrepareCommand(k) \/ SpawnChild(k) \/ InterruptTurn(k)
    PROVE  ChatInv'
<1> USE DEF AtTurn, ToTurn, Inside, Asked
<1>0. turn[k].pc # "idle" /\ Quiet
  BY DEF TakeTurnLock, LoadThread, PrepareCommand, SpawnChild, InterruptTurn, Quiet
<1>1. thread[turn[k].thread].session \in Turns \cup {NoCliSession}
  BY <1>0, TurnFacts DEF ThreadRows
<1>2. TRUE \in BOOLEAN /\ NoCliSession \in Turns \cup {NoCliSession} OBVIOUS
<1>3. CASE TakeTurnLock(k)
  <2>1. /\ turn' = [turn EXCEPT ![k].pc = "load"] /\ turnLock = NoTurn /\ turnLock' = k
        /\ turn[k].pc \notin {"finish", "done"}
    BY <1>3 DEF TakeTurnLock
  <2>2. "load" \in Inside \cup {"refused", "done"} /\ "load" \notin Asked OBVIOUS
  <2> HIDE DEF Inside, Asked
  <2> QED BY <1>0, <1>2, <2>1, <2>2, TurnGoes
<1>4. CASE LoadThread(k)
  <2>0. turn[k].pc = "load" BY <1>4 DEF LoadThread
  <2>1. CASE turnLock' = turnLock /\ \E s \in Turns \cup {NoCliSession} :
            turn' = [turn EXCEPT ![k].pc = "insert", ![k].resume = s, ![k].session = s]
    <3>1. PICK s \in Turns \cup {NoCliSession} :
            turn' = [turn EXCEPT ![k].pc = "insert", ![k].resume = s, ![k].session = s]
      BY <2>1
    <3>2. turnLock' = turnLock BY <2>1
    <3>3. "insert" \in Inside \cup {"refused", "done"} /\ "insert" \notin Asked /\ "load" \in Inside OBVIOUS
    <3> HIDE DEF Inside, Asked
    <3> QED BY <1>0, <1>2, <2>0, <3>1, <3>2, <3>3, TurnGoes
  <2>2. CASE turn' = [turn EXCEPT ![k].pc = "refused"]
    <3>1. turn' = [turn EXCEPT ![k].pc = "refused"] BY <2>2
    <3>2. "refused" \notin Inside \cup Asked /\ "load" \in Inside OBVIOUS
    <3> HIDE DEF Inside, Asked
    <3> QED BY <1>0, <1>2, <2>0, <3>1, <3>2, TurnGoes
  <2> QED BY <1>1, <1>4, <2>1, <2>2 DEF LoadThread, LeaveTurn
<1>5. CASE PrepareCommand(k) BY <1>0, <1>2, <1>5, TurnGoes DEF PrepareCommand
<1>6. CASE SpawnChild(k) BY <1>0, <1>2, <1>6, TurnGoes DEF SpawnChild
<1>7. CASE InterruptTurn(k) BY <1>0, <1>2, <1>7, TurnGoes DEF InterruptTurn
<1> QED BY <1>3, <1>4, <1>5, <1>6, <1>7

LEMMA ReadLineKeeps ==
    ASSUME ChatInv, NEW k \in Turns, ReadLine(k)
    PROVE  ChatInv'
<1>0. turn[k].pc = "streaming" BY DEF ReadLine, AtTurn
<1>1. turn[k] \in TurnRows /\ turn[k].text = Streamed(shown[k]) /\ shown[k] \in ShownRows
  BY <1>0, TurnFacts DEF ChatInv, ChatTypes
<1>2. "streaming" \in Inside /\ "streaming" \in Asked BY DEF Inside, Asked
<1>3. \A j \in Turns : turn[j].pc \in Inside => turnLock = j BY DEF ChatInv, LockIsHeld
<1>4. TRUE \in BOOLEAN OBVIOUS
<1>5. PICK r \in TurnRows : /\ turn' = [turn EXCEPT ![k] = r]
                            /\ r.pc = turn[k].pc /\ r.thread = turn[k].thread
                            /\ r.text = Streamed(shown'[k]) /\ shown' \in [Turns -> ShownRows]
                            /\ \A j \in Turns \ {k} : shown'[j] = shown[j]
  <2>1. CASE EmitEvent(k) /\ turn' = [turn EXCEPT ![k].text = @ + 1]
    <3> DEFINE r == [turn[k] EXCEPT !.text = @ + 1]
    <3>1. r \in TurnRows BY <1>1, RowMoves
    <3>2. r.pc = turn[k].pc /\ r.thread = turn[k].thread /\ r.text = turn[k].text + 1 BY <1>1, RowKeeps
    <3>3. turn' = [turn EXCEPT ![k] = r] BY <2>1
    <3>4. PICK q \in ShownRows : /\ shown' = [shown EXCEPT ![k] = q]
                                 /\ q.received + q.failed = shown[k].received + shown[k].failed + 1
      <4> DEFINE q == [shown[k] EXCEPT !.received = @ + 1]
                 p == [shown[k] EXCEPT !.failed = @ + 1]
      <4>1. q \in ShownRows /\ q.received + q.failed = shown[k].received + shown[k].failed + 1
        BY <1>1 DEF ShownRows
      <4>2. p \in ShownRows /\ p.received + p.failed = shown[k].received + shown[k].failed + 1
        BY <1>1 DEF ShownRows
      <4>3. shown' = [shown EXCEPT ![k] = q] \/ shown' = [shown EXCEPT ![k] = p]
        BY <2>1 DEF EmitEvent, ChatInv, ChatTypes
      <4> HIDE DEF p, q
      <4> QED BY <4>1, <4>2, <4>3
    <3>5. shown' \in [Turns -> ShownRows] /\ shown'[k] = q /\ \A j \in Turns \ {k} : shown'[j] = shown[j]
      BY <3>4 DEF ChatInv, ChatTypes
    <3>6. Streamed(shown'[k]) = Streamed(shown[k]) + 1 BY <3>4, <3>5 DEF Streamed
    <3> HIDE DEF r
    <3> QED BY <1>1, <3>1, <3>2, <3>3, <3>5, <3>6
  <2>2. CASE turn' = [turn EXCEPT ![k].session = k] /\ shown' = shown
    <3> DEFINE r == [turn[k] EXCEPT !.session = k]
    <3>1. r \in TurnRows BY <1>1, RowMoves
    <3>2. r.pc = turn[k].pc /\ r.thread = turn[k].thread /\ r.text = turn[k].text BY <1>1, RowKeeps
    <3>3. turn' = [turn EXCEPT ![k] = r] BY <2>2
    <3>4. shown' \in [Turns -> ShownRows] BY <2>2 DEF ChatInv, ChatTypes
    <3> HIDE DEF r
    <3> QED BY <1>1, <2>2, <3>1, <3>2, <3>3, <3>4
  <2>3. CASE turn' = [turn EXCEPT ![k].error = TRUE] /\ shown' = shown
    <3> DEFINE r == [turn[k] EXCEPT !.error = TRUE]
    <3>1. r \in TurnRows BY <1>1, <1>4, RowMoves
    <3>2. r.pc = turn[k].pc /\ r.thread = turn[k].thread /\ r.text = turn[k].text BY <1>1, RowKeeps
    <3>3. turn' = [turn EXCEPT ![k] = r] BY <2>3
    <3>4. shown' \in [Turns -> ShownRows] BY <2>3 DEF ChatInv, ChatTypes
    <3> HIDE DEF r
    <3> QED BY <1>1, <2>3, <3>1, <3>2, <3>3, <3>4
  <2> QED BY <2>1, <2>2, <2>3 DEF ReadLine
<1>6. /\ thread' \in [Threads -> ThreadRows \cup {NoThread}]
      /\ \A t \in Threads : thread'[t].scope = thread[t].scope
      /\ transcript' = transcript /\ chatScope' = chatScope /\ turnLock' = turnLock
  BY DEF ReadLine, ChatInv, ChatTypes
<1> QED BY <1>0, <1>2, <1>3, <1>5, <1>6, TurnMoves

LEMMA ChildExitKeeps ==
    ASSUME ChatInv, NEW k \in Turns, ChildExits(k)
    PROVE  ChatInv'
<1>0. Quiet /\ turnLock' = turnLock BY DEF ChildExits, Quiet
<1>1. CASE AtTurn(k, "streaming")
  <2>0. turn[k].pc = "streaming" BY <1>1 DEF AtTurn
  <2>1. turn[k].error \in BOOLEAN BY <2>0, TurnFacts DEF TurnRows
  <2>2. PICK e \in BOOLEAN : turn' = [turn EXCEPT ![k].pc = "persist", ![k].error = e]
    BY <1>1, <2>1 DEF ChildExits
  <2>3. {"streaming", "persist"} \subseteq Inside \cap Asked BY DEF Inside, Asked
  <2>4. NoCliSession \in Turns \cup {NoCliSession} OBVIOUS
  <2> QED BY <1>0, <2>0, <2>2, <2>3, <2>4, TurnGoes
<1>2. CASE ~AtTurn(k, "streaming")
  BY <1>0, <1>2 DEF ChildExits, Quiet, ChatInv, ChatTypes, LockIsHeld, CaptureIsShown, MessageIsLast,
                    AnswersAreFinal, TurnsDoNotMix
<1> QED BY <1>1, <1>2

LEMMA FinishKeeps ==
    ASSUME ChatInv, NEW k \in Turns, finish_chat_turn(k)
    PROVE  ChatInv'
<1>0. turn[k].pc = "finish" BY DEF finish_chat_turn, AtTurn
<1>1. turn[k] \in TurnRows /\ thread[turn[k].thread] \in ThreadRows /\ turn[k].text = Streamed(shown[k])
  BY <1>0, TurnFacts
<1> DEFINE r == [turn[k] EXCEPT !.pc = "done"]
<1>2. r \in TurnRows BY <1>1, RowMoves
<1>3. r.pc = "done" /\ r.thread = turn[k].thread /\ r.text = turn[k].text BY <1>1, RowKeeps
<1>4. turn' = [turn EXCEPT ![k] = r] BY DEF finish_chat_turn, LeaveTurn, ToTurn
<1>5. shown' = shown /\ transcript' = transcript /\ chatScope' = chatScope /\ shown' \in [Turns -> ShownRows]
  BY DEF finish_chat_turn, ChatInv, ChatTypes
<1>6. "done" \notin Inside \cup Asked /\ "finish" \in Inside BY DEF Inside, Asked
<1>7. \A j \in Turns \ {k} : turn[j].pc \notin Inside BY <1>0, <1>6 DEF ChatInv, LockIsHeld
<1>8. /\ thread' \in [Threads -> ThreadRows \cup {NoThread}]
      /\ \A t \in Threads : thread'[t].scope = thread[t].scope
  <2>1. turn[k].thread \in Threads /\ turn[k].session \in Turns \cup {NoCliSession} BY <1>1 DEF TurnRows
  <2>2. PICK t \in Threads : t = turn[k].thread BY <2>1
  <2>3. PICK s \in Turns \cup {NoCliSession} : s = turn[k].session BY <2>1
  <2>4. CASE thread' = [thread EXCEPT ![t].session = s, ![t].titled = TRUE]
    <3> DEFINE q == [thread[t] EXCEPT !.session = s, !.titled = TRUE]
    <3>1. q \in ThreadRows BY <1>1, <2>2 DEF ThreadRows
    <3>2. q.scope = thread[t].scope BY <1>1, <2>2 DEF ThreadRows
    <3>3. thread' = [thread EXCEPT ![t] = q] BY <2>4 DEF ChatInv, ChatTypes
    <3> HIDE DEF q
    <3> QED BY <3>1, <3>2, <3>3 DEF ChatInv, ChatTypes
  <2>5. CASE thread' = thread BY <2>5 DEF ChatInv, ChatTypes
  <2> QED BY <2>2, <2>3, <2>4, <2>5 DEF finish_chat_turn
<1> HIDE DEF r
<1> QED BY <1>0, <1>1, <1>2, <1>3, <1>4, <1>5, <1>6, <1>7, <1>8, TurnMoves

(* A message is put at the end of the thread of a turn. *)
LEMMA Appended ==
    ASSUME ChatInv, NEW k \in Turns, turn[k].pc # "idle", NEW m \in ChatMessages,
           transcript' = [transcript EXCEPT ![turn[k].thread] = Append(@, m)]
    PROVE  LET t == turn[k].thread
               n == Len(transcript[t])
           IN  /\ transcript' \in [Threads -> Seq(ChatMessages)]
               /\ t \in Threads /\ n \in Nat /\ DOMAIN transcript[t] = 1..n
               /\ DOMAIN transcript'[t] = 1..(n + 1) /\ Len(transcript'[t]) = n + 1
               /\ transcript'[t] # <<>>
               /\ transcript'[t][n + 1] = m
               /\ \A i \in 1..n : transcript'[t][i] = transcript[t][i]
               /\ \A u \in Threads \ {t} : transcript'[u] = transcript[u]
<1>1. turn[k].thread \in Threads BY TurnFacts DEF TurnRows
<1>2. PICK t \in Threads : t = turn[k].thread BY <1>1
<1>3. PICK s \in Seq(ChatMessages) : s = transcript[t] BY StoredMessages DEF ChatInv
<1>4. transcript' = [transcript EXCEPT ![t] = Append(s, m)] BY <1>2, <1>3
<1>5. /\ Append(s, m) \in Seq(ChatMessages) /\ Len(s) \in Nat /\ DOMAIN s = 1..Len(s)
      /\ Len(Append(s, m)) = Len(s) + 1 /\ DOMAIN Append(s, m) = 1..(Len(s) + 1)
      /\ Append(s, m)[Len(s) + 1] = m /\ \A i \in 1..Len(s) : Append(s, m)[i] = s[i]
      /\ Append(s, m) # <<>>
  OBVIOUS
<1>6. transcript \in [Threads -> Seq(ChatMessages)] BY DEF ChatInv, ChatTypes
<1>7. /\ transcript'[t] = Append(s, m) /\ \A u \in Threads \ {t} : transcript'[u] = transcript[u]
      /\ transcript' \in [Threads -> Seq(ChatMessages)]
  BY <1>4, <1>5, <1>6
<1> QED BY <1>2, <1>3, <1>5, <1>7

(* The row of a turn that has added its message goes on. *)
LEMMA AppendMoves ==
    ASSUME ChatInv, NEW k \in Turns, turn[k].pc \in Inside, NEW pc \in Inside,
           turn' = [turn EXCEPT ![k].pc = pc], turnLock' = turnLock,
           thread' = thread, shown' = shown, chatScope' = chatScope
    PROVE  /\ turn' \in [Turns -> TurnRows \cup {IdleTurn}]
           /\ turn'[k].pc = pc /\ turn'[k].thread = turn[k].thread
           /\ \A j \in Turns \ {k} : turn'[j] = turn[j] /\ turn'[j].pc \notin Inside
           /\ LockIsHeld' /\ CaptureIsShown'
<1> USE Nothing
<1>0. turn[k].pc # "idle" BY DEF Inside
<1>1. turn[k] \in TurnRows /\ turn[k].text = Streamed(shown[k]) BY <1>0, TurnFacts
<1> DEFINE r == [turn[k] EXCEPT !.pc = pc]
<1>2. r \in TurnRows BY <1>1, RowMoves
<1>3. r.pc = pc /\ r.thread = turn[k].thread /\ r.text = turn[k].text BY <1>1, RowKeeps
<1>4. turn' = [turn EXCEPT ![k] = r] OBVIOUS
<1> HIDE DEF r
<1>5. turn \in [Turns -> TurnRows \cup {IdleTurn}] BY DEF ChatInv, ChatTypes
<1>6. turn' \in [Turns -> TurnRows \cup {IdleTurn}] BY <1>2, <1>4, <1>5
<1>7. turn'[k] = r /\ \A j \in Turns \ {k} : turn'[j] = turn[j] BY <1>4, <1>5
<1>8. \A j \in Turns \ {k} : turn[j].pc \notin Inside BY DEF ChatInv, LockIsHeld
<1>9. LockIsHeld' BY <1>3, <1>7, <1>8 DEF ChatInv, LockIsHeld
<1>10. CaptureIsShown' BY <1>1, <1>2, <1>3, <1>7 DEF ChatInv, CaptureIsShown
<1> QED BY <1>3, <1>6, <1>7, <1>8, <1>9, <1>10

LEMMA InsertKeeps ==
    ASSUME ChatInv, NEW k \in Turns, InsertUserMessage(k)
    PROVE  ChatInv'
<1> USE Nothing
<1>0. turn[k].pc = "insert" /\ turn[k].pc # "idle" BY DEF InsertUserMessage, AtTurn
<1>1. turn[k] \in TurnRows /\ thread[turn[k].thread] \in ThreadRows BY <1>0, TurnFacts
<1>a. "insert" \in Inside /\ "prepare" \in Inside /\ Asked \subseteq Inside /\ "insert" \notin Asked
  BY DEF Inside, Asked
<1>2. CASE insert_chat_message_with_id(k, "user") /\ ToTurn(k, "prepare") /\ turnLock' = turnLock
  <2> DEFINE m == Message(k, "user")
             t == turn[k].thread
             n == Len(transcript[t])
  <2>1. m \in ChatMessages /\ m.role = "user" /\ m.turn = k
    BY <1>1 DEF Message, ChatMessages, TurnRows
  <2>2. /\ transcript' = [transcript EXCEPT ![t] = Append(@, m)]
        /\ turn' = [turn EXCEPT ![k].pc = "prepare"] /\ turnLock' = turnLock
        /\ thread' = thread /\ shown' = shown /\ chatScope' = chatScope
    BY <1>2 DEF InsertUserMessage, insert_chat_message_with_id, ToTurn
  <2> HIDE DEF m
  <2>3. /\ transcript' \in [Threads -> Seq(ChatMessages)]
        /\ t \in Threads /\ n \in Nat /\ DOMAIN transcript[t] = 1..n
        /\ DOMAIN transcript'[t] = 1..(n + 1) /\ Len(transcript'[t]) = n + 1
        /\ transcript'[t] # <<>>
        /\ transcript'[t][n + 1] = m
        /\ \A i \in 1..n : transcript'[t][i] = transcript[t][i]
        /\ \A u \in Threads \ {t} : transcript'[u] = transcript[u]
    BY <1>0, <2>1, <2>2, Appended
  <2>4. /\ turn' \in [Turns -> TurnRows \cup {IdleTurn}]
        /\ turn'[k].pc = "prepare" /\ turn'[k].thread = t
        /\ \A j \in Turns \ {k} : turn'[j] = turn[j] /\ turn'[j].pc \notin Inside
        /\ LockIsHeld' /\ CaptureIsShown'
    BY <1>0, <1>a, <2>2, AppendMoves
  <2> HIDE DEF t, n
  <2>5. ChatTypes' BY <2>2, <2>3, <2>4 DEF ChatInv, ChatTypes
  <2>6. MessageIsLast'
    <3>1. ASSUME NEW j \in Turns, turn'[j] # IdleTurn, j # k
          PROVE  thread'[turn'[j].thread] # NoThread /\ turn'[j].pc \notin Asked
      BY <3>1, <1>a, <2>2, <2>4 DEF ChatInv, MessageIsLast
    <3>2. thread'[turn'[k].thread] # NoThread BY <1>1, <2>2, <2>4 DEF t
    <3>3. transcript'[t][Len(transcript'[t])].role = "user" /\ transcript'[t][Len(transcript'[t])].turn = k
      BY <2>1, <2>3
    <3> QED BY <3>1, <3>2, <3>3, <2>3, <2>4 DEF MessageIsLast
  <2>7. \A u \in Threads : \A i \in DOMAIN transcript[u] : transcript[u][i].turn \in Turns
    BY StoredMessages DEF ChatInv
  <2>8. ASSUME NEW j \in Turns, turn[j].pc \in {"finish", "done"}
        PROVE  turn'[j].pc = turn[j].pc
    BY <1>0, <2>4, <2>8
  <2>9. AnswersAreFinal'
    <3> SUFFICES ASSUME NEW u \in Threads, NEW i \in DOMAIN transcript'[u],
                        transcript'[u][i].role = "assistant"
                 PROVE  i \in DOMAIN transcript[u] /\ transcript'[u][i] = transcript[u][i]
      BY <2>2, <2>7, <2>8 DEF ChatInv, AnswersAreFinal
    <3>1. CASE u = t BY <3>1, <2>1, <2>3
    <3>2. CASE u # t BY <3>2, <2>3
    <3> QED BY <3>1, <3>2
  <2>10. TurnsDoNotMix'
    <3> SUFFICES ASSUME NEW u \in Threads, NEW i \in DOMAIN transcript'[u],
                        transcript'[u][i].role = "assistant"
                 PROVE  /\ i > 1 /\ transcript'[u][i - 1].role = "user"
                        /\ transcript'[u][i - 1].turn = transcript'[u][i].turn
      BY DEF TurnsDoNotMix
    <3>1. CASE u = t
      <4>1. i \in 1..n /\ transcript'[t][i] = transcript[t][i] BY <3>1, <2>1, <2>3
      <4>2. i > 1 /\ transcript[t][i - 1].role = "user" /\ transcript[t][i - 1].turn = transcript[t][i].turn
        <5>1. t \in Threads /\ i \in DOMAIN transcript[t] /\ transcript[t][i].role = "assistant"
          BY <3>1, <4>1, <2>3
        <5> QED BY <5>1 DEF ChatInv, TurnsDoNotMix
      <4>3. i - 1 \in 1..n BY <4>1, <4>2, <2>3
      <4> QED BY <3>1, <4>1, <4>2, <4>3, <2>3
    <3>2. CASE u # t BY <3>2, <2>3 DEF ChatInv, TurnsDoNotMix
    <3> QED BY <3>1, <3>2
  <2> QED BY <2>4, <2>5, <2>6, <2>9, <2>10 DEF ChatInv
<1>3. CASE LeaveTurn(k, "refused") /\ transcript' = transcript
  <2>1. Quiet /\ turn' = [turn EXCEPT ![k].pc = "refused"]
    BY <1>3 DEF InsertUserMessage, LeaveTurn, ToTurn, Quiet
  <2>2. "refused" \notin Inside \cup Asked /\ TRUE \in BOOLEAN /\ NoCliSession \in Turns \cup {NoCliSession}
    BY DEF Inside, Asked
  <2> QED BY <1>0, <1>a, <2>1, <2>2, TurnGoes
<1> QED BY <1>2, <1>3 DEF InsertUserMessage

LEMMA PersistKeeps ==
    ASSUME ChatInv, NEW k \in Turns, PersistAnswer(k)
    PROVE  ChatInv'
<1> USE Nothing
<1>0. turn[k].pc = "persist" /\ turn[k].pc # "idle" BY DEF PersistAnswer, AtTurn
<1>1. turn[k] \in TurnRows /\ turn[k].text = Streamed(shown[k]) /\ thread[turn[k].thread] \in ThreadRows
  BY <1>0, TurnFacts
<1>a. "persist" \in Inside /\ "finish" \in Inside /\ Asked \subseteq Inside
      /\ "persist" \in Asked /\ "finish" \notin Asked
  BY DEF Inside, Asked
<1>2. CASE get_chat_thread(turn[k].thread) /\ insert_chat_message_with_id(k, "assistant")
  <2> DEFINE m == Message(k, "assistant")
             t == turn[k].thread
             n == Len(transcript[t])
  <2>1. m \in ChatMessages /\ m.turn = k /\ m.text = Streamed(shown[k])
    BY <1>1 DEF Message, ChatMessages, TurnRows
  <2>2. /\ transcript' = [transcript EXCEPT ![t] = Append(@, m)]
        /\ turn' = [turn EXCEPT ![k].pc = "finish"] /\ turnLock' = turnLock
        /\ thread' = thread /\ shown' = shown /\ chatScope' = chatScope
    BY <1>2 DEF PersistAnswer, insert_chat_message_with_id, ToTurn
  <2> HIDE DEF m
  <2>3. /\ transcript' \in [Threads -> Seq(ChatMessages)]
        /\ t \in Threads /\ n \in Nat /\ DOMAIN transcript[t] = 1..n
        /\ DOMAIN transcript'[t] = 1..(n + 1) /\ Len(transcript'[t]) = n + 1
        /\ transcript'[t] # <<>>
        /\ transcript'[t][n + 1] = m
        /\ \A i \in 1..n : transcript'[t][i] = transcript[t][i]
        /\ \A u \in Threads \ {t} : transcript'[u] = transcript[u]
    BY <1>0, <2>1, <2>2, Appended
  <2>4. /\ turn' \in [Turns -> TurnRows \cup {IdleTurn}]
        /\ turn'[k].pc = "finish" /\ turn'[k].thread = t
        /\ \A j \in Turns \ {k} : turn'[j] = turn[j] /\ turn'[j].pc \notin Inside
        /\ LockIsHeld' /\ CaptureIsShown'
    BY <1>0, <1>a, <2>2, AppendMoves
  <2>l. n > 0 /\ transcript[t][n].role = "user" /\ transcript[t][n].turn = k
    <3>1. thread[t].scope # "deleted"
      BY <1>2 DEF get_chat_thread, ChatInv, ChatTypes
    <3>2. turn[k] # IdleTurn BY <1>0
    <3>3. transcript[t] # <<>> /\ transcript[t][n].role = "user" /\ transcript[t][n].turn = k
      BY <1>0, <1>a, <3>1, <3>2 DEF ChatInv, MessageIsLast
    <3>4. PICK s \in Seq(ChatMessages) : s = transcript[t] BY <2>3, StoredMessages DEF ChatInv
    <3> QED BY <3>3, <3>4
  <2> HIDE DEF t, n
  <2>5. ChatTypes' BY <2>2, <2>3, <2>4 DEF ChatInv, ChatTypes
  <2>6. MessageIsLast'
    <3>1. ASSUME NEW j \in Turns, turn'[j] # IdleTurn, j # k
          PROVE  thread'[turn'[j].thread] # NoThread /\ turn'[j].pc \notin Asked
      BY <3>1, <1>a, <2>2, <2>4 DEF ChatInv, MessageIsLast
    <3>2. thread'[turn'[k].thread] # NoThread /\ turn'[k].pc \notin Asked
      BY <1>1, <1>a, <2>2, <2>4 DEF t
    <3> QED BY <3>1, <3>2 DEF MessageIsLast
  <2>7. \A u \in Threads : \A i \in DOMAIN transcript[u] : transcript[u][i].turn \in Turns
    BY StoredMessages DEF ChatInv
  <2>8. ASSUME NEW j \in Turns, turn[j].pc \in {"finish", "done"}
        PROVE  turn'[j].pc = turn[j].pc
    BY <1>0, <2>4, <2>8
  <2>9. AnswersAreFinal'
    <3> SUFFICES ASSUME NEW u \in Threads, NEW i \in DOMAIN transcript'[u],
                        transcript'[u][i].role = "assistant"
                 PROVE  /\ turn'[transcript'[u][i].turn].pc \in {"finish", "done"}
                        /\ transcript'[u][i].text = Streamed(shown'[transcript'[u][i].turn])
      BY DEF AnswersAreFinal
    <3>1. CASE i \in DOMAIN transcript[u] /\ transcript'[u][i] = transcript[u][i]
      BY <3>1, <2>2, <2>7, <2>8 DEF ChatInv, AnswersAreFinal
    <3>2. CASE transcript'[u][i] = m BY <3>2, <2>1, <2>2, <2>4
    <3> QED BY <3>1, <3>2, <2>3
  <2>10. TurnsDoNotMix'
    <3> SUFFICES ASSUME NEW u \in Threads, NEW i \in DOMAIN transcript'[u],
                        transcript'[u][i].role = "assistant"
                 PROVE  /\ i > 1 /\ transcript'[u][i - 1].role = "user"
                        /\ transcript'[u][i - 1].turn = transcript'[u][i].turn
      BY DEF TurnsDoNotMix
    <3>1. CASE u = t /\ i # n + 1
      <4>1. i \in 1..n /\ transcript'[t][i] = transcript[t][i] BY <3>1, <2>3
      <4>2. i > 1 /\ transcript[t][i - 1].role = "user" /\ transcript[t][i - 1].turn = transcript[t][i].turn
        <5>1. t \in Threads /\ i \in DOMAIN transcript[t] /\ transcript[t][i].role = "assistant"
          BY <3>1, <4>1, <2>3
        <5> QED BY <5>1 DEF ChatInv, TurnsDoNotMix
      <4>3. i - 1 \in 1..n BY <4>1, <4>2, <2>3
      <4> QED BY <3>1, <4>1, <4>2, <4>3, <2>3
    <3>2. CASE u = t /\ i = n + 1
      <4>1. n \in 1..n /\ i - 1 = n /\ i > 1 BY <3>2, <2>l, <2>3
      <4> QED BY <3>2, <4>1, <2>l, <2>1, <2>3
    <3>3. CASE u # t BY <3>3, <2>3 DEF ChatInv, TurnsDoNotMix
    <3> QED BY <3>1, <3>2, <3>3
  <2> QED BY <2>4, <2>5, <2>6, <2>9, <2>10 DEF ChatInv
<1>3. CASE transcript' = transcript
  <2>1. Quiet /\ turn' = [turn EXCEPT ![k].pc = "finish"] /\ turnLock' = turnLock
    BY <1>3 DEF PersistAnswer, ToTurn, Quiet
  <2>2. TRUE \in BOOLEAN /\ NoCliSession \in Turns \cup {NoCliSession} OBVIOUS
  <2> QED BY <1>0, <1>a, <2>1, <2>2, TurnGoes
<1> QED BY <1>2, <1>3 DEF PersistAnswer

(* Threads come and go, and turns are sent. *)
LEMMA ThreadsKeep ==
    ASSUME ChatInv, NEW t \in Threads, create_chat_thread(t) \/ delete_chat_thread(t)
    PROVE  ChatInv'
<1> USE Nothing
<1>1. PICK r \in ThreadRows :
        /\ thread' = [thread EXCEPT ![t] = r]
        /\ \/ thread[t] = NoThread /\ transcript' = transcript
           \/ r.scope = "deleted" /\ transcript' = [transcript EXCEPT ![t] = <<>>]
  <2>1. CASE create_chat_thread(t)
    <3>1. FALSE \in BOOLEAN OBVIOUS
    <3>2. PICK b \in BOOLEAN : b = FALSE BY <3>1
    <3> DEFINE r == [scope |-> chatScope.active, session |-> NoCliSession, titled |-> b]
    <3>3. r \in ThreadRows BY DEF ThreadRows, ChatInv, ChatTypes
    <3>4. thread' = [thread EXCEPT ![t] = r] BY <2>1, <3>2 DEF create_chat_thread
    <3>5. thread[t] = NoThread /\ transcript' = transcript BY <2>1 DEF create_chat_thread
    <3> HIDE DEF r
    <3> QED BY <3>3, <3>4, <3>5
  <2>2. CASE delete_chat_thread(t)
    <3> DEFINE r == [thread[t] EXCEPT !.scope = "deleted"]
    <3>1. thread[t] \in ThreadRows BY <2>2 DEF delete_chat_thread, get_chat_thread, ChatInv, ChatTypes
    <3>2. r \in ThreadRows /\ r.scope = "deleted" BY <3>1 DEF ThreadRows
    <3>3. thread' = [thread EXCEPT ![t] = r] /\ transcript' = [transcript EXCEPT ![t] = <<>>]
      BY <2>2 DEF delete_chat_thread
    <3> HIDE DEF r
    <3> QED BY <3>2, <3>3
  <2> QED BY <2>1, <2>2
<1>2. turn' = turn /\ turnLock' = turnLock /\ shown' = shown /\ chatScope' = chatScope
  BY DEF create_chat_thread, delete_chat_thread
<1>3. thread \in [Threads -> ThreadRows \cup {NoThread}] /\ transcript \in [Threads -> Seq(ChatMessages)]
  BY DEF ChatInv, ChatTypes
<1>4. /\ thread'[t] \in ThreadRows /\ \A u \in Threads \ {t} : thread'[u] = thread[u]
      /\ thread' \in [Threads -> ThreadRows \cup {NoThread}]
  BY <1>1, <1>3
<1>5. /\ \A u \in Threads : transcript'[u] = transcript[u] \/ (u = t /\ transcript'[u] = <<>>)
      /\ transcript' \in [Threads -> Seq(ChatMessages)]
  <2>0. << >> \in Seq(ChatMessages) OBVIOUS
  <2>1. PICK e \in Seq(ChatMessages) : e = << >> BY <2>0, Zenon
  <2>2. CASE transcript' = transcript BY <1>3, <2>2
  <2>3. CASE transcript' = [transcript EXCEPT ![t] = e] BY <1>3, <2>1, <2>3
  <2> QED BY <1>1, <2>1, <2>2, <2>3
<1>6. ChatTypes' BY <1>2, <1>4, <1>5 DEF ChatInv, ChatTypes
<1>7. LockIsHeld' /\ CaptureIsShown' BY <1>2 DEF ChatInv, LockIsHeld, CaptureIsShown
<1>8. MessageIsLast'
  <2> SUFFICES ASSUME NEW k \in Turns, turn[k] # IdleTurn
               PROVE  LET u == turn[k].thread
                      IN  /\ thread'[u] # NoThread
                          /\ turn[k].pc \in Asked /\ thread'[u].scope # "deleted" =>
                               LET last == transcript'[u][Len(transcript'[u])]
                               IN  transcript'[u] # <<>> /\ last.role = "user" /\ last.turn = k
    BY <1>2 DEF MessageIsLast
  <2>1. turn[k] \in TurnRows /\ turn[k].thread \in Threads BY DEF ChatInv, ChatTypes, TurnRows
  <2>2. PICK u \in Threads : u = turn[k].thread BY <2>1
  <2>3. /\ thread[u] # NoThread
        /\ turn[k].pc \in Asked /\ thread[u].scope # "deleted" =>
              LET last == transcript[u][Len(transcript[u])]
              IN  transcript[u] # <<>> /\ last.role = "user" /\ last.turn = k
    BY <2>2 DEF ChatInv, MessageIsLast
  <2>4. CASE u = t BY <1>1, <1>4, <2>2, <2>3, <2>4
  <2>5. CASE u # t BY <1>4, <1>5, <2>2, <2>3, <2>5
  <2> QED BY <2>4, <2>5
<1>9. AnswersAreFinal' BY <1>2, <1>5 DEF ChatInv, AnswersAreFinal
<1>10. TurnsDoNotMix' BY <1>5 DEF ChatInv, TurnsDoNotMix
<1> QED BY <1>6, <1>7, <1>8, <1>9, <1>10 DEF ChatInv

LEMMA SendKeeps ==
    ASSUME ChatInv, NEW k \in Turns, NEW t \in Threads, send_turn(k, t)
    PROVE  ChatInv'
<1> USE Nothing
<1>1. PICK b \in BOOLEAN : b = FALSE OBVIOUS
<1> DEFINE r == [pc |-> "queued", thread |-> t, resume |-> NoCliSession, session |-> NoCliSession,
                 text |-> 0, error |-> b]
<1>2. r \in TurnRows /\ r.pc = "queued" /\ r.thread = t /\ r.text = 0 BY DEF TurnRows
<1>b. Streamed(NothingShown) = 0 BY DEF Streamed, NothingShown
<1>3. /\ turn' = [turn EXCEPT ![k] = r] /\ turn[k] = IdleTurn /\ thread[t] # NoThread
      /\ thread' = thread /\ transcript' = transcript /\ turnLock' = turnLock
      /\ shown' = shown /\ chatScope' = chatScope
  BY <1>1 DEF send_turn
<1> HIDE DEF r
<1>4. turn'[k] = r /\ (\A j \in Turns \ {k} : turn'[j] = turn[j])
      /\ turn' \in [Turns -> TurnRows \cup {IdleTurn}]
  BY <1>2, <1>3 DEF ChatInv, ChatTypes
<1>5. ChatTypes' BY <1>3, <1>4 DEF ChatInv, ChatTypes
<1>a. "queued" \notin Inside \cup Asked BY DEF Inside, Asked
<1>6. LockIsHeld' BY <1>2, <1>3, <1>4, <1>a DEF ChatInv, LockIsHeld
<1>7. CaptureIsShown' BY <1>2, <1>3, <1>4, <1>b DEF ChatInv, CaptureIsShown
<1>8. MessageIsLast' BY <1>2, <1>3, <1>4, <1>a DEF ChatInv, MessageIsLast
<1>9. \A u \in Threads : \A i \in DOMAIN transcript[u] : transcript[u][i].turn \in Turns
  BY StoredMessages DEF ChatInv
<1>10. AnswersAreFinal' BY <1>3, <1>4, <1>9 DEF ChatInv, AnswersAreFinal
<1>11. TurnsDoNotMix' BY <1>3 DEF ChatInv, TurnsDoNotMix
<1> QED BY <1>5, <1>6, <1>7, <1>8, <1>10, <1>11 DEF ChatInv

(* Steps that touch no row. *)
LEMMA AroundKeeps ==
    ASSUME ChatInv, thread' = thread, transcript' = transcript, turn' = turn,
           turnLock' = turnLock, shown' = shown, chatScope'.active \in Scopes
    PROVE  ChatInv'
BY DEF ChatInv, ChatTypes, LockIsHeld, CaptureIsShown, MessageIsLast, AnswersAreFinal, TurnsDoNotMix

LEMMA ChatContinues == ChatInv /\ [ChatNext]_chatVars => ChatInv'
<1> SUFFICES ASSUME ChatInv, [ChatNext]_chatVars PROVE ChatInv'
  OBVIOUS
<1>0. chatScope.active \in Scopes BY DEF ChatInv, ChatTypes
<1>1. ASSUME NEW t \in Threads, create_chat_thread(t) \/ delete_chat_thread(t) PROVE ChatInv'
  BY <1>1, ThreadsKeep
<1>2. ASSUME NEW k \in Turns, NEW t \in Threads, send_turn(k, t) PROVE ChatInv' BY <1>2, SendKeeps
<1>3. ASSUME NEW k \in Turns, TurnStep(k) PROVE ChatInv'
  BY <1>3, ChatSteps, InsertKeeps, PersistKeeps, FinishKeeps DEF TurnStep
<1>4. ASSUME NEW k \in Turns, ReadLine(k) \/ ChildExits(k) PROVE ChatInv'
  BY <1>4, ReadLineKeeps, ChildExitKeeps
<1>5. ASSUME NEW k \in Turns, CancelTurn(k) PROVE ChatInv' BY <1>0, <1>5, AroundKeeps DEF CancelTurn
<1>6. CASE SwitchScope
  <2>1. PICK s \in Scopes : chatScope' = [active |-> s, switches |-> chatScope.switches + 1]
    BY <1>6 DEF SwitchScope
  <2>2. chatScope'.active \in Scopes BY <2>1
  <2> QED BY <1>6, <2>2, AroundKeeps DEF SwitchScope
<1>7. CASE Exit \/ wait_idle BY <1>0, <1>7, AroundKeeps DEF Exit, wait_idle
<1>8. CASE UNCHANGED chatVars BY <1>0, <1>8, AroundKeeps DEF chatVars
<1> QED BY <1>1, <1>2, <1>3, <1>4, <1>5, <1>6, <1>7, <1>8 DEF ChatNext

(* The invariant of the chat: the lock, what it protects, and what is      *)
(* stored.                                                                 *)
THEOREM ChatInvariance == ChatSpec => []ChatInv
BY ChatStarts, ChatContinues, PTL DEF ChatSpec

(* Each stored answer follows its own message and has what its turn has    *)
(* streamed: every chunk the window was shown, and besides only chunks     *)
(* whose event failed, with any number of threads and turns that are sent, *)
(* queued, cancelled, refused, timed out or deleted under way (send_turn). *)
THEOREM TranscriptsStayFaithful == ChatSpec => []TranscriptIsFaithful
<1>1. ChatInv => TranscriptIsFaithful
  BY DEF ChatInv, AnswersAreFinal, TranscriptIsFaithful, TranscriptIsWhatWasShown
<1> QED BY <1>1, ChatInvariance, PTL

--------------------------------------------------------------------------------
(* Dashboards: what a request carries from its checks to its use. *)

Judged == {"validate", "connect", "target"}

DashShapes ==
    /\ dashReq = [r \in DashRequests |-> dashReq[r]] /\ board = [d \in BoardIds |-> board[d]]
    /\ \A r \in DashRequests : LET q == dashReq[r] IN
          q.pc \in Judged => q = [pc |-> q.pc, sql |-> q.sql, pin |-> q.pin]
    /\ \A d \in BoardIds : LET b == board[d] IN
          b # NoBoard => b = [sql |-> b.sql, by |-> b.by, user |-> b.user, deleted |-> b.deleted]

(* An agent's successful run of a text by an account is in the history. *)
HasRun(sql, user) ==
    \E row \in runRows : /\ row.sql = sql /\ row.user = user
                         /\ row.origin = "agent" /\ row.status = "ok"

(* A statement that may be sent was judged for the engine of the pin, and  *)
(* what an agent is about to save was found again under the pin.           *)
DashRequestsOK ==
    \A r \in DashRequests : LET q == dashReq[r] IN
        /\ q.pc \in {"connect", "target"} => classify_for(q.sql, q.pin.target.engine) = "read"
        /\ q.pc = "save" /\ q.by = "agent" => HasRun(q.sql, q.pin.selection.user)

DashInv == DashShapes /\ DashRequestsOK /\ AgentDashboardHasItsRun

LEMMA DashStarts == DashInit => DashInv
<1> SUFFICES ASSUME DashInit PROVE DashInv
  OBVIOUS
<1>1. IdleReq.pc = "idle" BY DEF IdleReq
<1>2. /\ dashReq = [r \in DashRequests |-> IdleReq]
      /\ board = [d \in BoardIds |-> NoBoard] BY DEF DashInit
<1>3. DashShapes BY <1>1, <1>2 DEF DashShapes, Judged
<1>4. DashRequestsOK BY <1>1, <1>2 DEF DashRequestsOK
<1>5. AgentDashboardHasItsRun BY <1>2 DEF AgentDashboardHasItsRun
<1> QED BY <1>3, <1>4, <1>5 DEF DashInv

(* A step of one request that leaves the dashboards alone. *)
LEMMA DashMoves ==
    ASSUME DashInv, NEW r \in DashRequests, NEW q, DashGoto(r, q), board' = board, runRows \subseteq runRows',
           q.pc \in Judged => q = [pc |-> q.pc, sql |-> q.sql, pin |-> q.pin],
           q.pc \in {"connect", "target"} => classify_for(q.sql, q.pin.target.engine) = "read",
           q.pc = "save" /\ q.by = "agent" => HasRun(q.sql, q.pin.selection.user)
    PROVE  DashInv'
<1>1. /\ dashReq' = [p \in DashRequests |-> dashReq'[p]]
      /\ dashReq'[r] = q /\ \A p \in DashRequests \ {r} : dashReq'[p] = dashReq[p]
  BY DEF DashInv, DashShapes, DashGoto
<1>2. DashShapes' BY <1>1 DEF DashInv, DashShapes
<1>3. DashRequestsOK' BY <1>1 DEF DashInv, DashRequestsOK, HasRun
<1>4. AgentDashboardHasItsRun' BY DEF DashInv, AgentDashboardHasItsRun
<1> QED BY <1>2, <1>3, <1>4 DEF DashInv

LEMMA DashEnds ==
    ASSUME DashInv, NEW r \in DashRequests, DashEnd(r), board' = board, runRows \subseteq runRows'
    PROVE  DashInv'
<1>1. IdleReq.pc = "idle" BY DEF IdleReq
<1> QED BY <1>1, DashMoves DEF DashEnd, Judged

LEMMA DashRuns ==
    ASSUME DashInv, NEW r \in DashRequests,
           \/ \E d \in BoardIds : get_dashboard(r, d)
           \/ pin_connection(r) \/ validate_stored(r) \/ connect_dashboard(r) \/ run_read_only(r)
           \/ record_dashboard_run(r)
    PROVE  DashInv'
<1> USE DEF AtDash, Judged
<1> DEFINE p == dashReq[r]
<1>0. p.pc \in Judged => p = [pc |-> p.pc, sql |-> p.sql, pin |-> p.pin] BY DEF DashInv, DashShapes
<1>1. ASSUME NEW d \in BoardIds, get_dashboard(r, d) PROVE DashInv'
  <2> DEFINE q == [pc |-> "pin", sql |-> board[d].sql]
  <2>1. q.pc = "pin" /\ DashGoto(r, q) BY <1>1 DEF get_dashboard
  <2> HIDE DEF q
  <2> QED BY <1>1, <2>1, DashMoves DEF get_dashboard
<1>2. CASE pin_connection(r)
  <2> DEFINE q == [pc |-> "validate", sql |-> dashReq[r].sql, pin |-> PinNow]
  <2>1. q.pc = "validate" /\ q = [pc |-> q.pc, sql |-> q.sql, pin |-> q.pin] OBVIOUS
  <2>2. (DashGoto(r, q) \/ DashEnd(r)) /\ board' = board /\ runRows' = runRows BY <1>2 DEF pin_connection
  <2> HIDE DEF q
  <2> QED BY <2>1, <2>2, DashMoves, DashEnds
<1>r. ASSUME NEW status, NEW kind, RunRecord(r, status, kind), board' = board, runRows' = runRows
      PROVE  DashInv'
  <2> DEFINE q == [pc |-> "record", sql |-> p.sql, pin |-> p.pin, status |-> status, kind |-> kind]
  <2>1. q.pc = "record" /\ DashGoto(r, q) BY <1>r DEF RunRecord
  <2> HIDE DEF q
  <2> QED BY <1>r, <2>1, DashMoves
<1>3. CASE validate_stored(r)
  <2> DEFINE q == [p EXCEPT !.pc = "connect"]
             kind == classify_for(p.sql, p.pin.target.engine)
  <2>0. p = [pc |-> p.pc, sql |-> p.sql, pin |-> p.pin] BY <1>0, <1>3 DEF validate_stored
  <2>1. q.pc = "connect" /\ q = [pc |-> q.pc, sql |-> q.sql, pin |-> q.pin] /\ q.sql = p.sql /\ q.pin = p.pin
    BY <2>0
  <2>2. /\ board' = board /\ runRows' = runRows
        /\ RunRecord(r, "blocked", kind) \/ (DashGoto(r, q) /\ kind = "read")
    BY <1>3 DEF validate_stored, validate_draft
  <2>3. CASE RunRecord(r, "blocked", kind) BY <1>r, <2>2, <2>3
  <2>4. CASE DashGoto(r, q) /\ kind = "read"
    <3>1. classify_for(q.sql, q.pin.target.engine) = "read" BY <2>1, <2>4
    <3> HIDE DEF q
    <3> QED BY <2>1, <2>2, <2>4, <3>1, DashMoves
  <2> QED BY <2>2, <2>3, <2>4
<1>4. CASE connect_dashboard(r)
  <2> DEFINE q == [p EXCEPT !.pc = "target"]
  <2>0. p = [pc |-> p.pc, sql |-> p.sql, pin |-> p.pin] /\ classify_for(p.sql, p.pin.target.engine) = "read"
    BY <1>0, <1>4 DEF connect_dashboard, DashInv, DashRequestsOK
  <2>1. q.pc = "target" /\ q = [pc |-> q.pc, sql |-> q.sql, pin |-> q.pin] /\ q.sql = p.sql /\ q.pin = p.pin
    BY <2>0
  <2>2. /\ board' = board /\ runRows' = runRows
        /\ DashEnd(r) \/ RunRecord(r, "error", "read") \/ DashGoto(r, q)
    BY <1>4 DEF connect_dashboard
  <2>3. CASE DashGoto(r, q)
    <3>1. classify_for(q.sql, q.pin.target.engine) = "read" BY <2>0, <2>1
    <3> HIDE DEF q
    <3> QED BY <2>1, <2>2, <2>3, <3>1, DashMoves
  <2> QED BY <1>r, <2>2, <2>3, DashEnds
<1>5. CASE run_read_only(r) BY <1>r, <1>5 DEF run_read_only
<1>6. CASE record_dashboard_run(r)
  <2>1. runRows \subseteq runRows' /\ board' = board /\ DashEnd(r) BY <1>6 DEF record_dashboard_run
  <2> QED BY <2>1, DashEnds
<1> QED BY <1>1, <1>2, <1>3, <1>4, <1>5, <1>6

LEMMA DashSaves ==
    ASSUME DashInv, NEW r \in DashRequests,
           \/ \E d \in BoardIds : save_dashboard(r, d)
           \/ \E sql \in BoardTexts : save(r, sql)
           \/ \E row \in runRows : resolve_history_for_dashboard_prepare(r, row)
           \/ pin_dashboard_connection(r) \/ get_history_if_current(r)
    PROVE  DashInv'
<1> USE DEF AtDash, Judged
<1>1. ASSUME NEW sql \in BoardTexts, save(r, sql) PROVE DashInv'
  <2> DEFINE q == [pc |-> "save", sql |-> sql, pin |-> PinNow, by |-> "desktop"]
  <2>1. q.pc = "save" /\ q.by = "desktop" /\ DashGoto(r, q) BY <1>1 DEF save
  <2> HIDE DEF q
  <2> QED BY <1>1, <2>1, DashMoves DEF save
<1>2. ASSUME NEW row \in runRows, resolve_history_for_dashboard_prepare(r, row) PROVE DashInv'
  <2> DEFINE q == [pc |-> "resolved", row |-> row, selection |-> selection]
  <2>1. q.pc = "resolved" /\ DashGoto(r, q) BY <1>2 DEF resolve_history_for_dashboard_prepare
  <2> HIDE DEF q
  <2> QED BY <1>2, <2>1, DashMoves DEF resolve_history_for_dashboard_prepare
<1>3. CASE pin_dashboard_connection(r)
  <2> DEFINE q == [pc |-> "reread", row |-> dashReq[r].row, selection |-> dashReq[r].selection, pin |-> PinNow]
  <2>1. q.pc = "reread" OBVIOUS
  <2>2. (DashGoto(r, q) \/ DashEnd(r)) /\ board' = board /\ runRows' = runRows
    BY <1>3 DEF pin_dashboard_connection
  <2> HIDE DEF q
  <2> QED BY <2>1, <2>2, DashMoves, DashEnds
<1>4. CASE get_history_if_current(r)
  <2> DEFINE p == dashReq[r]
             q == [pc |-> "save", sql |-> p.row.sql, pin |-> p.pin, by |-> "agent"]
  <2>1. q.pc = "save" /\ q.sql = p.row.sql /\ q.pin = p.pin OBVIOUS
  <2>2. /\ board' = board /\ runRows' = runRows
        /\ \/ DashEnd(r)
           \/ DashGoto(r, q) /\ HasRun(p.row.sql, p.pin.selection.user)
    BY <1>4 DEF get_history_if_current, is_eligible_agent_run, HasRun
  <2>3. CASE DashGoto(r, q) /\ HasRun(p.row.sql, p.pin.selection.user)
    <3>1. HasRun(q.sql, q.pin.selection.user) BY <2>1, <2>3
    <3> HIDE DEF q
    <3> QED BY <2>1, <2>2, <2>3, <3>1, DashMoves
  <2> QED BY <2>2, <2>3, DashEnds
<1>5. ASSUME NEW d \in BoardIds, save_dashboard(r, d) PROVE DashInv'
  <2> DEFINE p == dashReq[r]
             b == [sql |-> p.sql, by |-> p.by, user |-> p.pin.selection.user, deleted |-> FALSE]
  <2>0. DashEnd(r) /\ runRows' = runRows /\ p.pc = "save" /\ (board' = board \/ board' = [board EXCEPT ![d] = b])
    BY <1>5 DEF save_dashboard
  <2>1. CASE board' = board BY <2>0, <2>1, DashEnds
  <2>2. CASE board' = [board EXCEPT ![d] = b]
    <3>1. /\ b = [sql |-> b.sql, by |-> b.by, user |-> b.user, deleted |-> b.deleted]
          /\ b.sql = p.sql /\ b.by = p.by /\ b.user = p.pin.selection.user
      OBVIOUS
    <3> HIDE DEF b
    <3>2. /\ board' = [e \in BoardIds |-> board'[e]]
          /\ board'[d] = b /\ \A e \in BoardIds \ {d} : board'[e] = board[e]
      BY <2>2 DEF DashInv, DashShapes
    <3>3. b.by = "agent" => HasRun(b.sql, b.user) BY <2>0, <3>1 DEF DashInv, DashRequestsOK
    <3>4. IdleReq.pc = "idle" BY DEF IdleReq
    <3>5. /\ dashReq' = [e \in DashRequests |-> dashReq'[e]]
          /\ dashReq'[r] = IdleReq /\ \A e \in DashRequests \ {r} : dashReq'[e] = dashReq[e]
      BY <2>0 DEF DashInv, DashShapes, DashGoto, DashEnd
    <3>6. DashShapes' BY <3>1, <3>2, <3>4, <3>5 DEF DashInv, DashShapes
    <3>7. DashRequestsOK' BY <2>0, <3>4, <3>5 DEF DashInv, DashRequestsOK, HasRun
    <3>8. AgentDashboardHasItsRun' BY <2>0, <3>2, <3>3 DEF DashInv, AgentDashboardHasItsRun, HasRun
    <3> QED BY <3>6, <3>7, <3>8 DEF DashInv
  <2> QED BY <2>0, <2>1, <2>2
<1> QED BY <1>1, <1>2, <1>3, <1>4, <1>5

LEMMA DashContinues == DashInv /\ [DashNext]_dashVars => DashInv'
<1> SUFFICES ASSUME DashInv, [DashNext]_dashVars PROVE DashInv'
  OBVIOUS
<1>1. CASE dashReq' = dashReq /\ board' = board /\ runRows \subseteq runRows'
  <2>1. DashShapes' BY <1>1 DEF DashInv, DashShapes
  <2>2. DashRequestsOK' BY <1>1 DEF DashInv, DashRequestsOK, HasRun
  <2>3. AgentDashboardHasItsRun' BY <1>1 DEF DashInv, AgentDashboardHasItsRun
  <2> QED BY <2>1, <2>2, <2>3 DEF DashInv
<1>2. ASSUME NEW d \in BoardIds, delete_dashboard(d) PROVE DashInv'
  <2>0. /\ board' = [board EXCEPT ![d].deleted = TRUE] /\ board[d] # NoBoard
        /\ dashReq' = dashReq /\ runRows' = runRows
    BY <1>2 DEF delete_dashboard
  <2>1. board[d] = [sql |-> board[d].sql, by |-> board[d].by, user |-> board[d].user, deleted |-> board[d].deleted]
    BY <2>0 DEF DashInv, DashShapes
  <2>a. PICK gone : gone = TRUE OBVIOUS
  <2> DEFINE b == [board[d] EXCEPT !.deleted = gone]
  <2>2. /\ b = [sql |-> b.sql, by |-> b.by, user |-> b.user, deleted |-> b.deleted]
        /\ b.sql = board[d].sql /\ b.by = board[d].by /\ b.user = board[d].user
    BY <2>1
  <2>3. board' = [board EXCEPT ![d] = b] BY <2>0, <2>a
  <2> HIDE DEF b
  <2>4. /\ board' = [e \in BoardIds |-> board'[e]]
        /\ board'[d] = b /\ \A e \in BoardIds \ {d} : board'[e] = board[e]
    BY <2>3 DEF DashInv, DashShapes
  <2>5. DashShapes' BY <2>0, <2>2, <2>4 DEF DashInv, DashShapes
  <2>6. DashRequestsOK' BY <2>0 DEF DashInv, DashRequestsOK, HasRun
  <2>7. AgentDashboardHasItsRun' BY <2>0, <2>2, <2>4 DEF DashInv, AgentDashboardHasItsRun
  <2> QED BY <2>5, <2>6, <2>7 DEF DashInv
<1>3. ASSUME NEW origin, NEW status, NEW sql, QueryRun(origin, status, sql) PROVE DashInv'
  BY <1>1, <1>3 DEF QueryRun
<1>4. ASSUME NEW w, NEW u, Select(w, u) PROVE DashInv' BY <1>1, <1>4 DEF Select
<1>5. CASE EditTarget BY <1>1, <1>5 DEF EditTarget
<1>6. CASE UNCHANGED dashVars BY <1>1, <1>6 DEF dashVars
<1>7. ASSUME NEW r \in DashRequests,
             \/ \E d \in BoardIds : get_dashboard(r, d) \/ save_dashboard(r, d)
             \/ pin_connection(r) \/ validate_stored(r) \/ connect_dashboard(r) \/ run_read_only(r)
             \/ record_dashboard_run(r)
             \/ \E sql \in BoardTexts : save(r, sql)
             \/ \E row \in runRows : resolve_history_for_dashboard_prepare(r, row)
             \/ pin_dashboard_connection(r) \/ get_history_if_current(r)
      PROVE  DashInv'
  BY <1>7, DashRuns, DashSaves
<1> QED BY <1>2, <1>3, <1>4, <1>5, <1>6, <1>7 DEF DashNext

(* Dashboards only read: however the scope, the connection and its grants  *)
(* move between two steps of any number of requests, what is sent is a     *)
(* read to the engine it is sent to, and what an agent saves is a          *)
(* successful run of the account it is saved by (run,                      *)
(* prepare_agent_create).                                                  *)
THEOREM DashboardsStayReads == DashSpec => []DashboardsAreReads
<1>1. DashInv => DashboardsAreReads
  BY DEF DashInv, DashRequestsOK, DashboardsAreReads, DashboardsOnlyRead, AtDash
<1> QED BY <1>1, DashStarts, DashContinues, PTL DEF DashSpec

--------------------------------------------------------------------------------
(* Scripts, document reads and role changes: what a run relies on. *)

Policies ==
    [revision: Nat, can_write: BOOLEAN, allow_writes: BOOLEAN, max_rows: MaxRowsSettings]

OpRows ==
    [service: {"script"}, kind: {"sql_script", "read_query"}, work: Scripts,
     requested: {NoLimit}, policy: Policies, state: OperationState]
    \cup [service: {"document", "agent_document"}, kind: {"document_read"}, work: Queries,
          requested: Nat \cup {NoLimit}, policy: Policies, state: OperationState]
    \cup [service: {"monitoring"}, kind: {"privilege"}, work: {<<"grant">>, <<"revoke">>},
          requested: {NoLimit}, policy: Policies, state: OperationState]

Outcomes == {"succeeded", "failed", "cancelled", "outcome_unknown"}

RunPcs ==
    {"audit", "connect", "begin", "statement", "committing", "committed", "rolled_back", "unknown",
     "set_role", "next_statement", "reading", "query", "receipt", "record"}

RunRows ==
    [pc: RunPcs, op: Ops, i: Nat \ {0}, outcome: Outcomes \cup {"none"}, after: {"none", "ok", "error"}]

TargetRows ==
    [tx: {"none", "open", "committing", "ended", "aborted"}, open: SUBSET Nat, kept: SUBSET Nat]

RowNames == {"attempt", "ok", "error", "blocked", "outcome_unknown"}

ServiceTypes ==
    /\ policy \in Policies
    /\ op \in [Ops -> OpRows \cup {NoOp}]
    /\ run \in [Workers -> RunRows \cup {Idle}]
    /\ db \in [Ops -> TargetRows]
    /\ rows \in [Ops -> SUBSET RowNames]
    /\ page = [o \in Ops |-> page[o]]

Mutates(o) == may_mutate_target(op[o].kind)

(* d, a row of db, has all of o and keeps it; it has nothing of o, and     *)
(* will not get it.                                                        *)
KeptBy(o, d) == d.tx = "ended" /\ d.open = {} /\ d.kept = Effects(o)
CleanBy(o, d) == d.tx # "committing" /\ d.open = {} /\ (CommitsAreSeen(o) => d.kept = {})

(* A transaction may be over before its COMMIT: on MySQL after DDL, else   *)
(* by a statement whose commit L1 does not see.                            *)
EndsEarly(o) == CommitsAreSeen(o) => engine = "mysql" /\ HasDdl(o)

(* A planned operation is what its proposal let through. *)
PlanOK(o) ==
    op[o] # NoOp =>
        /\ Mutates(o) => op[o].policy.can_write /\ op[o].policy.allow_writes
        /\ op[o].service = "script" => (op[o].kind = "sql_script" <=> script_has_write(op[o].work))

Unclaimed(o) ==
    op[o] = NoOp \/ op[o].state \in {"planned", "pending_approval", "ready", "approved", "rejected", "expired"}

Bad == {"error", "outcome_unknown", "blocked"}

(* Of the target and the rows of o, at any time. *)
RestAt(o, d, s) ==
    /\ op[o] # NoOp /\ ~Mutates(o) => d = NoEffect
    /\ op[o] # NoOp /\ Mutates(o) /\ "ok" \in s => KeptBy(o, d)
    /\ d.kept \cup d.open # {} => "attempt" \in s

(* Before a run has claimed o, and after it has ended. *)
RestOK(o) ==
    /\ RestAt(o, db[o], rows[o])
    /\ Unclaimed(o) => db[o] = NoEffect /\ rows[o] = {}
    /\ op[o] # NoOp /\ op[o].state = "succeeded" =>
          rows[o] \cap Bad = {} /\ (Mutates(o) => KeptBy(o, db[o]))
    /\ op[o] # NoOp /\ op[o].state \in {"failed", "cancelled"} /\ Mutates(o) => CleanBy(o, db[o])

(* The page of o is exact, and there is none before o is planned. *)
PageOK(o) ==
    /\ op[o] = NoOp => page[o] = NoPage
    /\ op[o] # NoOp /\ page[o] # NoPage /\ op[o].work.shape # "count" =>
          LET q == op[o].work
              wanted == IF q.shape = "find" /\ q.limit # NoLimit THEN Smaller(page[o].matching, q.limit)
                                                                ELSE page[o].matching
              cap == Larger(1, IF op[o].service = "document"
                               THEN Smaller(Larger(op[o].policy.max_rows, 1), MaxDesktopRows)
                               ELSE Smaller(IF op[o].requested # NoLimit THEN op[o].requested
                                            ELSE op[o].policy.max_rows, MaxAgentRows))
          IN  page[o].count = Smaller(wanted, cap) /\ page[o].truncated = (wanted > cap)

(* What the steps before r's have left in the target. *)
TargetAt(o, r, d) ==
    /\ r.pc \in {"audit", "connect", "begin"} => d = NoEffect /\ r.i = 1
    /\ r.pc = "set_role" => d = NoEffect \/ KeptBy(o, d)
    /\ r.pc = "statement" =>
          /\ r.i <= Len(op[o].work) + 1
          /\ d.tx \in {"open", "ended"}
          /\ d.open \cup d.kept = {j \in Effects(o) : j < r.i}
          /\ d.tx = "open" => d.kept = {}
          /\ d.tx = "ended" => d.open = {} /\ EndsEarly(o)
    /\ r.pc = "committing" =>
          /\ d.tx \in {"committing", "ended", "aborted"}
          /\ d.tx = "committing" => d.kept = {} /\ d.open = Effects(o)
          /\ d.tx = "ended" => KeptBy(o, d)
    /\ r.pc = "committed" => KeptBy(o, d)
    /\ r.pc = "rolled_back" =>
          /\ d.tx # "committing" /\ d.open = {}
          /\ d.kept # {} => EndsEarly(o)
    /\ r.pc = "receipt" => /\ r.outcome = "succeeded" => KeptBy(o, d)
                           /\ r.outcome \in {"failed", "cancelled"} => CleanBy(o, d)

(* Which operations get to which position. *)
Position(o, pc) ==
    /\ pc \in {"audit", "set_role", "begin", "statement", "committing", "committed", "rolled_back", "unknown"} =>
          Mutates(o)
    /\ pc \in {"begin", "statement", "committing", "committed", "rolled_back", "unknown"} =>
          op[o].service = "script"
    /\ pc = "set_role" => op[o].service = "monitoring"
    /\ pc \in {"next_statement", "reading"} => op[o].service = "script" /\ ~Mutates(o)
    /\ pc = "query" => op[o].service \in {"document", "agent_document"}

(* What r has recorded so far, and what it will write. *)
RecordsAt(o, r, d, s) ==
    /\ r.pc \notin {"receipt", "record"} => s \subseteq {"attempt"}
    /\ r.pc \notin {"audit", "receipt", "record"} /\ Mutates(o) => "attempt" \in s
    /\ Mutates(o) => TargetAt(o, r, d)
    /\ r.pc = "receipt" =>
          /\ r.outcome # "none"
          /\ r.after # "none" => op[o].service = "document" /\ (r.outcome = "succeeded" => r.after = "ok")
          /\ r.outcome = "succeeded" => s \cap Bad = {}

(* The state of the operation r has claimed. *)
ClaimAt(o, r) ==
    /\ op[o] # NoOp /\ op[o].policy = policy
    /\ r.pc # "record" => op[o].state = "executing"
    /\ r.pc = "record" => /\ op[o].service = "document" /\ r.after # "none"
                          /\ \/ op[o].state = "executing" /\ o \in lost
                             \/ op[o].state \in {"failed", "cancelled", "outcome_unknown"}
                             \/ op[o].state = "succeeded" /\ r.after = "ok"

RunOK(w) ==
    LET o == run[w].op
    IN  ClaimAt(o, run[w]) /\ Position(o, run[w].pc) /\ RecordsAt(o, run[w], db[o], rows[o])

OneRunEach == \A v, w \in Workers : run[v] # Idle /\ run[w] # Idle /\ run[v].op = run[w].op => v = w

ServiceInv ==
    /\ ServiceTypes
    /\ \A o \in Ops : PlanOK(o) /\ RestOK(o) /\ PageOK(o)
    /\ \A w \in Workers : run[w] # Idle => RunOK(w)
    /\ OneRunEach
    /\ ExecutingIsOwned

LEMMA Blank ==
    /\ Idle.pc = "idle" /\ Idle \notin RunRows
    /\ NoOp.service = "none" /\ NoOp \notin OpRows
    /\ NoEffect \in TargetRows /\ NoEffect.tx = "none" /\ NoEffect.open = {} /\ NoEffect.kept = {}
BY DEF Idle, NoOp, NoEffect, RunRows, RunPcs, OpRows, TargetRows

(* A planned row, as far as the proofs look into it. *)
LEMMA PlanFacts ==
    ASSUME NEW x \in OpRows
    PROVE  /\ x.service \in {"script", "document", "agent_document", "monitoring"}
           /\ x.policy \in Policies /\ x.state \in OperationState
           /\ x.requested \in Nat \cup {NoLimit}
           /\ x.service = "script" <=> x.kind \in {"sql_script", "read_query"}
           /\ x.service \in {"document", "agent_document"} <=> x.kind = "document_read"
           /\ x.service = "monitoring" <=> x.kind = "privilege"
           /\ may_mutate_target(x.kind) <=> x.kind \in {"sql_script", "privilege"}
           /\ x.service = "script" => x.work \in Scripts
           /\ x.service \in {"document", "agent_document"} => x.work \in Queries
BY DEF OpRows, may_mutate_target

LEMMA RunFacts ==
    ASSUME ServiceInv, NEW w \in Workers, run[w].pc # "idle"
    PROVE  /\ run[w] # Idle /\ run[w] \in RunRows /\ run[w].op \in Ops
           /\ op[run[w].op] # NoOp /\ op[run[w].op] \in OpRows
           /\ ClaimAt(run[w].op, run[w]) /\ Position(run[w].op, run[w].pc)
           /\ RecordsAt(run[w].op, run[w], db[run[w].op], rows[run[w].op])
           /\ PlanOK(run[w].op) /\ RestOK(run[w].op) /\ PageOK(run[w].op)
           /\ db[run[w].op] \in TargetRows
<1> USE Blank
<1>1. run[w] # Idle /\ run[w] \in RunRows BY DEF ServiceInv, ServiceTypes
<1>2. run[w].op \in Ops BY <1>1 DEF RunRows
<1>3. RunOK(w) BY <1>1 DEF ServiceInv
<1>4. op[run[w].op] # NoOp BY <1>3 DEF RunOK, ClaimAt
<1>5. op[run[w].op] \in OpRows /\ db[run[w].op] \in TargetRows
  BY <1>2, <1>4 DEF ServiceInv, ServiceTypes
<1>6. PlanOK(run[w].op) /\ RestOK(run[w].op) /\ PageOK(run[w].op) BY <1>2 DEF ServiceInv
<1> QED BY <1>1, <1>2, <1>3, <1>4, <1>5, <1>6 DEF RunOK

(* An operation none of whose rows change keeps what is said of it. *)
LEMMA OpStands ==
    ASSUME NEW p \in Ops, op'[p] = op[p], db'[p] = db[p], rows'[p] = rows[p], page'[p] = page[p],
           engine' = engine, PlanOK(p), RestOK(p), PageOK(p)
    PROVE  PlanOK(p)' /\ RestOK(p)' /\ PageOK(p)'
<1>1. PlanOK(p)' BY DEF PlanOK, Mutates
<1>2. RestOK(p)' BY DEF RestOK, RestAt, Unclaimed, KeptBy, CleanBy, Mutates, Effects, CommitsAreSeen, EndsTransaction
<1>3. PageOK(p)' BY DEF PageOK
<1> QED BY <1>1, <1>2, <1>3

(* A run none of whose rows change does so, too. *)
LEMMA RunStands ==
    ASSUME NEW v \in Workers, NEW p \in Ops, run[v].op = p, run'[v] = run[v],
           op'[p] = op[p], db'[p] = db[p], rows'[p] = rows[p], lost \subseteq lost',
           engine' = engine, policy' = policy, RunOK(v)
    PROVE  RunOK(v)'
<1> USE DEF RunOK
<1>1. ClaimAt(p, run[v]) /\ Position(p, run[v].pc) /\ RecordsAt(p, run[v], db[p], rows[p]) OBVIOUS
<1>2. ClaimAt(run[v].op, run[v])' BY <1>1 DEF ClaimAt
<1>3. Position(run[v].op, run[v].pc)' BY <1>1 DEF Position, Mutates
<1>4. Effects(run[v].op)' = Effects(p) BY DEF Effects
<1>5. /\ HasDdl(run[v].op)' <=> HasDdl(p)
      /\ CommitsAreSeen(run[v].op)' <=> CommitsAreSeen(p)
  BY DEF HasDdl, CommitsAreSeen, EndsTransaction
<1>6. Mutates(run[v].op)' <=> Mutates(p) BY DEF Mutates
<1>7. Mutates(p) => TargetAt(run[v].op, run[v], db[run[v].op])'
  BY <1>1, <1>4, <1>5 DEF RecordsAt, TargetAt, KeptBy, CleanBy, EndsEarly
<1>8. RecordsAt(run[v].op, run[v], db[run[v].op], rows[run[v].op])'
  BY <1>1, <1>6, <1>7 DEF RecordsAt
<1> QED BY <1>2, <1>3, <1>8

(* The frame of a step of worker w for o, which no other run holds. *)
LEMMA FrameStep ==
    ASSUME ServiceInv, NEW w \in Workers, NEW o \in Ops,
           \A v \in Workers \ {w} : run[v] # Idle => run[v].op # o, run[w] # Idle => run[w].op = o,
           ServiceTypes', policy' = policy, engine' = engine, lost \subseteq lost',
           \A v \in Workers \ {w} : run'[v] = run[v],
           \A p \in Ops \ {o} : op'[p] = op[p] /\ db'[p] = db[p] /\ rows'[p] = rows[p] /\ page'[p] = page[p],
           PlanOK(o)', RestOK(o)', PageOK(o)',
           run'[w] # Idle => run'[w].op = o /\ RunOK(w)',
           op'[o].state = "executing" => run'[w] # Idle \/ o \in lost'
    PROVE  ServiceInv'
<1> USE Blank
<1>1. \A p \in Ops : (PlanOK(p) /\ RestOK(p) /\ PageOK(p))'
  BY OpStands DEF ServiceInv
<1>2. ASSUME NEW v \in Workers \ {w}, run'[v] # Idle
      PROVE  run[v] # Idle /\ run[v].op \in Ops \ {o} /\ RunOK(v)'
  <2>1. run[v] # Idle /\ run[v] \in RunRows BY <1>2 DEF ServiceInv, ServiceTypes
  <2>2. PICK p \in Ops : p = run[v].op BY <2>1 DEF RunRows
  <2>3. p # o BY <1>2, <2>1, <2>2
  <2>4. RunOK(v) BY <2>1 DEF ServiceInv
  <2> QED BY <2>1, <2>2, <2>3, <2>4, RunStands
<1>3. \A v \in Workers : run'[v] # Idle => RunOK(v)' BY <1>2
<1>4. OneRunEach' BY <1>2 DEF ServiceInv, OneRunEach
<1>5. ExecutingIsOwned'
  <2> SUFFICES ASSUME NEW p \in Ops, op'[p] # NoOp, op'[p].state = "executing"
               PROVE  (\E v \in Workers : run'[v] # Idle /\ run'[v].op = p) \/ p \in lost'
    BY DEF ExecutingIsOwned, IsRunning
  <2>1. CASE p = o BY <2>1
  <2>2. CASE p # o
    <3>1. (\E v \in Workers : run[v] # Idle /\ run[v].op = p) \/ p \in lost
      BY <2>2 DEF ServiceInv, ExecutingIsOwned, IsRunning
    <3> QED BY <3>1, <2>2
  <2> QED BY <2>1, <2>2
<1> QED BY <1>1, <1>3, <1>4, <1>5 DEF ServiceInv

(* A run shares its operation with no other. *)
LEMMA OwnsAlone ==
    ASSUME ServiceInv, NEW w \in Workers, NEW o \in Ops, run[w].pc # "idle", run[w].op = o
    PROVE  \A v \in Workers \ {w} : run[v] # Idle => run[v].op # o
<1>1. run[w] # Idle BY RunFacts
<1> QED BY <1>1 DEF ServiceInv, OneRunEach

(* No run holds an operation that is not claimed yet. *)
LEMMA UnclaimedIsFree ==
    ASSUME ServiceInv, NEW o \in Ops, Unclaimed(o)
    PROVE  \A v \in Workers : run[v] # Idle => run[v].op # o
<1> SUFFICES ASSUME NEW v \in Workers, run[v] # Idle, run[v].op = o PROVE FALSE OBVIOUS
<1>1. RunOK(v) BY DEF ServiceInv
<1>2. ClaimAt(o, run[v]) BY <1>1 DEF RunOK
<1> QED BY <1>2 DEF ClaimAt, Unclaimed

PageStep(o) ==
    /\ page' = [p \in Ops |-> page'[p]] /\ \A p \in Ops \ {o} : page'[p] = page[p]
    /\ PageOK(o)'

(* A run goes on to r, with d in the target and the rows s, and has not    *)
(* written its receipt.                                                    *)
LEMMA Advances ==
    ASSUME ServiceInv, NEW w \in Workers, NEW o \in Ops, run[w].pc \notin {"idle", "record"}, run[w].op = o,
           NEW r \in RunRows, r.op = o, r.pc # "record", run' = [run EXCEPT ![w] = r],
           NEW d \in TargetRows, db' = [db EXCEPT ![o] = d],
           NEW s \in SUBSET RowNames, rows' = [rows EXCEPT ![o] = s],
           op' = op, policy' = policy, engine' = engine, lost \subseteq lost', PageStep(o),
           RestAt(o, d, s), Position(o, r.pc), RecordsAt(o, r, d, s)
    PROVE  ServiceInv'
<1> USE Blank
<1>1. /\ ClaimAt(o, run[w]) /\ PlanOK(o) /\ PageOK(o) /\ op[o] # NoOp /\ op[o].state = "executing"
      /\ run[w] # Idle
  BY RunFacts DEF ClaimAt
<1>2. ServiceTypes BY DEF ServiceInv
<1>3. ServiceTypes' BY <1>2 DEF ServiceTypes, PageStep
<1>4. /\ run'[w] = r /\ \A v \in Workers \ {w} : run'[v] = run[v] BY <1>2 DEF ServiceTypes
<1>5. /\ db'[o] = d /\ rows'[o] = s
      /\ \A p \in Ops \ {o} : db'[p] = db[p] /\ rows'[p] = rows[p]
  BY <1>2 DEF ServiceTypes
<1>6. /\ PlanOK(o)' /\ PageOK(o)' /\ \A p \in Ops \ {o} : page'[p] = page[p]
  BY <1>1 DEF PlanOK, Mutates, PageStep
<1>7. /\ Effects(o)' = Effects(o) /\ (HasDdl(o)' <=> HasDdl(o)) /\ (Mutates(o)' <=> Mutates(o))
      /\ CommitsAreSeen(o)' <=> CommitsAreSeen(o)
  BY DEF Effects, HasDdl, Mutates, CommitsAreSeen, EndsTransaction
<1>8. RestOK(o)'
  <2>1. RestAt(o, db[o], rows[o])' BY <1>5, <1>7 DEF RestAt, KeptBy
  <2>2. op'[o].state = "executing" /\ ~Unclaimed(o)' BY <1>1 DEF Unclaimed
  <2> QED BY <2>1, <2>2 DEF RestOK
<1>9. RunOK(w)'
  <2>0. run'[w].op = o BY <1>4
  <2>1. ClaimAt(run[w].op, run[w])' BY <1>1, <1>4, <2>0 DEF ClaimAt
  <2>2. Position(run[w].op, run[w].pc)' BY <1>4, <2>0 DEF Position, Mutates
  <2>3. /\ Effects(run[w].op)' = Effects(o) /\ (HasDdl(run[w].op)' <=> HasDdl(o))
        /\ (Mutates(run[w].op)' <=> Mutates(o)) /\ (CommitsAreSeen(run[w].op)' <=> CommitsAreSeen(o))
    BY <2>0 DEF Effects, HasDdl, Mutates, CommitsAreSeen, EndsTransaction
  <2>4. Mutates(o) => TargetAt(run[w].op, run[w], db[run[w].op])'
    BY <1>4, <1>5, <2>0, <2>3 DEF RecordsAt, TargetAt, KeptBy, CleanBy, EndsEarly
  <2>5. RecordsAt(run[w].op, run[w], db[run[w].op], rows[run[w].op])'
    BY <1>4, <1>5, <2>0, <2>3, <2>4 DEF RecordsAt
  <2> QED BY <2>1, <2>2, <2>5 DEF RunOK
<1>10. run'[w] # Idle /\ run'[w].op = o BY <1>4
<1>11. \A v \in Workers \ {w} : run[v] # Idle => run[v].op # o BY OwnsAlone
<1> HIDE DEF ServiceInv
<1> QED BY <1>1, <1>3, <1>4, <1>5, <1>6, <1>8, <1>9, <1>10, <1>11, FrameStep

LEMMA PageStands ==
    ASSUME ServiceInv, NEW o \in Ops, op' = op, page' = page
    PROVE  PageStep(o)
BY DEF ServiceInv, ServiceTypes, PageStep, PageOK

(* The row of a run that goes to pc, or on to its receipt. *)
LEMMA GotoRow ==
    ASSUME ServiceInv, NEW w \in Workers, run[w].pc # "idle", NEW pc \in RunPcs, Goto(w, pc)
    PROVE  \E r \in RunRows : /\ run' = [run EXCEPT ![w] = r]
                              /\ r.pc = pc /\ r.op = run[w].op /\ r.i = run[w].i
                              /\ r.outcome = run[w].outcome /\ r.after = run[w].after
<1> DEFINE r == [run[w] EXCEPT !.pc = pc]
<1>1. run[w] \in RunRows BY RunFacts
<1>2. r \in RunRows BY <1>1 DEF RunRows
<1>3. /\ r.pc = pc /\ r.op = run[w].op /\ r.i = run[w].i
      /\ r.outcome = run[w].outcome /\ r.after = run[w].after
  BY <1>1 DEF RunRows
<1>4. run' = [run EXCEPT ![w] = r] BY DEF Goto
<1> HIDE DEF r
<1> QED BY <1>2, <1>3, <1>4

LEMMA ConcludeRow ==
    ASSUME ServiceInv, NEW w \in Workers, run[w].pc # "idle",
           NEW out \in Outcomes, NEW after \in {"none", "ok", "error"}, Conclude(w, out, after)
    PROVE  \E r \in RunRows : /\ run' = [run EXCEPT ![w] = r]
                              /\ r.pc = "receipt" /\ r.op = run[w].op
                              /\ r.outcome = out /\ r.after = after
<1> DEFINE r == [run[w] EXCEPT !.pc = "receipt", !.outcome = out, !.after = after]
<1>1. run[w] \in RunRows BY RunFacts
<1>2. r \in RunRows BY <1>1 DEF RunRows, RunPcs
<1>3. r.pc = "receipt" /\ r.op = run[w].op /\ r.outcome = out /\ r.after = after
  BY <1>1 DEF RunRows
<1>4. run' = [run EXCEPT ![w] = r] BY DEF Conclude, ServiceInv, ServiceTypes
<1> HIDE DEF r
<1> QED BY <1>2, <1>3, <1>4

(* A run that has recorded nothing but its attempt. *)
Early == RunPcs \ {"receipt", "record"}

(* A run goes to a position before its receipt and changes nothing else.   *)
LEMMA GoesOn ==
    ASSUME ServiceInv, NEW w \in Workers, NEW o \in Ops, run[w].pc \in Early, run[w].op = o,
           NEW pc \in Early, Goto(w, pc),
           op' = op, db' = db, rows' = rows, page' = page, policy' = policy, engine' = engine, lost' = lost,
           Position(o, pc), pc # "audit" /\ Mutates(o) => "attempt" \in rows[o],
           \A r \in RunRows : r.pc = pc /\ r.i = run[w].i /\ Mutates(o) => TargetAt(o, r, db[o])
    PROVE  ServiceInv'
<1>0. /\ run[w].pc # "idle" /\ run[w].pc \notin {"receipt", "record"}
      /\ pc \in RunPcs /\ pc \notin {"receipt", "record"}
  BY DEF Early, RunPcs
<1>1. PICK r \in RunRows : run' = [run EXCEPT ![w] = r] /\ r.pc = pc /\ r.op = o /\ r.i = run[w].i
  BY <1>0, GotoRow
<1>2. /\ RecordsAt(o, run[w], db[o], rows[o]) /\ RestAt(o, db[o], rows[o])
      /\ db[o] \in TargetRows
  BY <1>0, RunFacts DEF RestOK
<1>3. rows[o] \in SUBSET RowNames /\ rows' = [rows EXCEPT ![o] = rows[o]] /\ db' = [db EXCEPT ![o] = db[o]]
  BY DEF ServiceInv, ServiceTypes
<1>4. RecordsAt(o, r, db[o], rows[o]) BY <1>0, <1>1, <1>2 DEF RecordsAt
<1>5. PageStep(o) BY PageStands
<1> QED BY <1>0, <1>1, <1>2, <1>3, <1>4, <1>5, Advances

(* A run decides on its receipt, with or without a row about it. *)
LEMMA Concludes ==
    ASSUME ServiceInv, NEW w \in Workers, NEW o \in Ops, run[w].pc \in Early, run[w].op = o,
           NEW out \in Outcomes, NEW after \in {"none", "ok", "error"}, Conclude(w, out, after),
           NEW row \in RowNames, rows' = rows \/ Record(o, row),
           op' = op, db' = db, policy' = policy, engine' = engine, lost' = lost, PageStep(o),
           after # "none" => op[o].service = "document" /\ (out = "succeeded" => after = "ok"),
           out = "succeeded" => row \notin Bad,
           Mutates(o) /\ (out = "succeeded" \/ row = "ok") => KeptBy(o, db[o]),
           Mutates(o) /\ out \in {"failed", "cancelled"} => CleanBy(o, db[o])
    PROVE  ServiceInv'
<1>0. run[w].pc # "idle" /\ run[w].pc \notin {"receipt", "record"} BY DEF Early, RunPcs
<1>1. PICK r \in RunRows : /\ run' = [run EXCEPT ![w] = r] /\ r.pc = "receipt" /\ r.op = o
                           /\ r.outcome = out /\ r.after = after
  BY <1>0, ConcludeRow
<1>2. /\ RecordsAt(o, run[w], db[o], rows[o]) /\ RestAt(o, db[o], rows[o])
      /\ db[o] \in TargetRows
  BY <1>0, RunFacts DEF RestOK
<1>3. rows[o] \in SUBSET RowNames /\ db' = [db EXCEPT ![o] = db[o]] BY DEF ServiceInv, ServiceTypes
<1>4. PICK s \in SUBSET RowNames : rows' = [rows EXCEPT ![o] = s] /\ (s = rows[o] \/ s = rows[o] \cup {row})
  <2>1. CASE rows' = rows BY <1>3, <2>1 DEF ServiceInv, ServiceTypes
  <2>2. CASE rows' = [rows EXCEPT ![o] = rows[o] \cup {row}] BY <1>3, <2>2
  <2> QED BY <2>1, <2>2 DEF Record
<1>5. rows[o] \subseteq {"attempt"} BY <1>0, <1>2 DEF RecordsAt
<1>6. RestAt(o, db[o], s) BY <1>2, <1>4, <1>5 DEF RestAt
<1>7. Mutates(o) => TargetAt(o, r, db[o]) BY <1>1 DEF TargetAt
<1>8. out = "succeeded" => s \cap Bad = {} BY <1>4, <1>5 DEF Bad
<1>9. out # "none" BY DEF Outcomes
<1>10. RecordsAt(o, r, db[o], s) BY <1>1, <1>7, <1>8, <1>9 DEF RecordsAt
<1>11. Position(o, r.pc) BY <1>1 DEF Position
<1> QED BY <1>0, <1>1, <1>2, <1>3, <1>4, <1>6, <1>10, <1>11, Advances

LEMMA ConnectKeeps ==
    ASSUME ServiceInv, NEW w \in Workers, Connect(w)
    PROVE  ServiceInv'
<1>0. run[w].pc = "connect" BY DEF Connect
<1>1. PICK o \in Ops : o = run[w].op BY <1>0, RunFacts
<1>2. /\ RecordsAt(o, run[w], db[o], rows[o]) /\ op[o] \in OpRows /\ op' = op /\ db' = db /\ page' = page
      /\ policy' = policy /\ engine' = engine /\ lost' = lost
  BY <1>0, <1>1, RunFacts DEF Connect
<1>3. "connect" \in Early BY DEF Early, RunPcs
<1>4. PageStep(o) BY <1>2, PageStands
<1>5. Mutates(o) => CleanBy(o, db[o]) /\ db[o] = NoEffect /\ run[w].i = 1 /\ "attempt" \in rows[o]
  BY <1>0, <1>2, Blank DEF RecordsAt, TargetAt, CleanBy
<1>6. \/ rows' = rows /\ \E pc \in {"begin", "next_statement", "set_role", "query"} : Goto(w, pc) /\ Position(o, pc)
      \/ Conclude(w, "failed", "none") /\ (rows' = rows \/ Record(o, "error"))
  <2> DEFINE next == CASE op[o].service = "script" /\ op[o].kind = "sql_script" -> "begin"
                       [] op[o].service = "script" /\ op[o].kind # "sql_script" -> "next_statement"
                       [] op[o].service = "monitoring" -> "set_role"
                       [] OTHER -> "query"
  <2>1. /\ next \in {"begin", "next_statement", "set_role", "query"}
        /\ Position(o, next)
    <3>1. CASE op[o].service = "script" /\ op[o].kind = "sql_script"
      <4>1. next = "begin" BY <3>1
      <4> QED BY <4>1, <3>1 DEF Position, Mutates, may_mutate_target
    <3>2. CASE op[o].service = "script" /\ op[o].kind # "sql_script"
      <4>1. next = "next_statement" BY <3>2
      <4> QED BY <1>2, <4>1, <3>2, PlanFacts DEF Position, Mutates
    <3>3. CASE op[o].service = "monitoring"
      <4>1. next = "set_role" BY <3>3
      <4> QED BY <1>2, <4>1, <3>3, PlanFacts DEF Position, Mutates
    <3>4. CASE op[o].service \in {"document", "agent_document"}
      <4>1. next = "query" BY <3>4
      <4> QED BY <1>2, <4>1, <3>4, PlanFacts DEF Position, Mutates
    <3> QED BY <1>2, <3>1, <3>2, <3>3, <3>4, PlanFacts
  <2>2. \/ Goto(w, next) /\ UNCHANGED rows
        \/ Conclude(w, "failed", "none") /\ (rows' = rows \/ Record(o, "error"))
    BY <1>1 DEF Connect
  <2> HIDE DEF next
  <2> QED BY <2>1, <2>2
<1>7. ASSUME NEW pc \in {"begin", "next_statement", "set_role", "query"}, Goto(w, pc), rows' = rows, Position(o, pc)
      PROVE  ServiceInv'
  <2>1. pc \in Early /\ pc # "audit" BY <1>7 DEF Early, RunPcs
  <2>2. ASSUME NEW r \in RunRows, r.pc = pc, r.i = run[w].i, Mutates(o) PROVE TargetAt(o, r, db[o])
    <3>1. r.i = 1 /\ db[o] = NoEffect BY <1>5, <2>2
    <3>2. r.pc \in {"begin", "set_role", "next_statement", "query"} BY <2>2
    <3> QED BY <3>1, <3>2 DEF TargetAt
  <2> QED BY <1>0, <1>1, <1>2, <1>3, <1>5, <1>7, <2>1, <2>2, GoesOn
<1>8. CASE Conclude(w, "failed", "none") /\ (rows' = rows \/ Record(o, "error"))
  <2>1. "failed" \in Outcomes /\ "error" \in RowNames BY DEF Outcomes, RowNames
  <2> QED BY <1>0, <1>1, <1>2, <1>3, <1>4, <1>5, <1>8, <2>1, Concludes
<1> QED BY <1>6, <1>7, <1>8

LEMMA ReadsKeep ==
    ASSUME ServiceInv, NEW w \in Workers, NextRead(w) \/ run_reads(w)
    PROVE  ServiceInv'
<1>0. run[w].pc \in {"next_statement", "reading"} /\ run[w].pc # "idle" BY DEF NextRead, run_reads
<1>1. PICK o \in Ops : o = run[w].op BY <1>0, RunFacts
<1>2. /\ Position(o, run[w].pc) /\ op' = op /\ db' = db /\ page' = page
      /\ policy' = policy /\ engine' = engine /\ lost' = lost
      /\ RecordsAt(o, run[w], db[o], rows[o]) /\ RestAt(o, db[o], rows[o]) /\ db[o] \in TargetRows
  BY <1>0, <1>1, RunFacts DEF NextRead, run_reads, RestOK
<1>3. ~Mutates(o) /\ op[o].service = "script" BY <1>0, <1>2 DEF Position
<1>4. run[w].pc \in Early BY <1>0 DEF Early, RunPcs
<1>5. PageStep(o) BY <1>2, PageStands
<1>6. {"ok", "error"} \subseteq RowNames /\ {"succeeded", "failed"} \subseteq Outcomes /\ "ok" \notin Bad
  BY DEF RowNames, Outcomes, Bad
<1>7. CASE Goto(w, "reading") /\ rows' = rows
  <2>1. "reading" \in Early /\ Position(o, "reading") BY <1>3 DEF Early, RunPcs, Position
  <2> QED BY <1>1, <1>2, <1>3, <1>4, <1>7, <2>1, GoesOn
<1>8. CASE Conclude(w, "succeeded", "none") /\ Record(o, "ok")
  BY <1>1, <1>2, <1>3, <1>4, <1>5, <1>6, <1>8, Concludes
<1>9. CASE Conclude(w, "failed", "none") /\ Record(o, "error")
  BY <1>1, <1>2, <1>3, <1>4, <1>5, <1>6, <1>9, Concludes
<1>10. CASE run' = [run EXCEPT ![w].pc = "next_statement", ![w].i = @ + 1] /\ rows' = rows
  <2>1. run[w] \in RunRows BY <1>0, RunFacts
  <2>a. PICK j \in Nat \ {0} : j = run[w].i + 1 BY <2>1 DEF RunRows
  <2> DEFINE r == [run[w] EXCEPT !.pc = "next_statement", !.i = j]
  <2>2. r \in RunRows BY <2>1 DEF RunRows, RunPcs
  <2>3. r.pc = "next_statement" /\ r.op = o BY <1>1, <2>1 DEF RunRows
  <2>4. run' = [run EXCEPT ![w] = r] BY <1>10, <2>a DEF ServiceInv, ServiceTypes
  <2> HIDE DEF r
  <2>5. rows[o] \in SUBSET RowNames /\ rows' = [rows EXCEPT ![o] = rows[o]] /\ db' = [db EXCEPT ![o] = db[o]]
    BY <1>2, <1>10 DEF ServiceInv, ServiceTypes
  <2>6. RecordsAt(o, r, db[o], rows[o]) BY <1>0, <1>2, <1>3, <2>3 DEF RecordsAt
  <2>7. Position(o, r.pc) BY <1>3, <2>3 DEF Position
  <2> QED BY <1>0, <1>1, <1>2, <1>5, <2>2, <2>3, <2>4, <2>5, <2>6, <2>7, Advances
<1> QED BY <1>1, <1>7, <1>8, <1>9, <1>10 DEF NextRead, run_reads, record_script_run

LEMMA AuditKeeps ==
    ASSUME ServiceInv, NEW w \in Workers, AuditAttempt(w)
    PROVE  ServiceInv'
<1>0. run[w].pc = "audit" /\ run[w].pc # "idle" BY DEF AuditAttempt
<1>1. PICK o \in Ops : o = run[w].op BY <1>0, RunFacts
<1>2. /\ Position(o, run[w].pc) /\ ClaimAt(o, run[w]) /\ PlanOK(o) /\ op' = op /\ db' = db /\ page' = page
      /\ policy' = policy /\ engine' = engine /\ lost' = lost
      /\ RecordsAt(o, run[w], db[o], rows[o]) /\ RestAt(o, db[o], rows[o]) /\ db[o] \in TargetRows
  BY <1>0, <1>1, RunFacts DEF AuditAttempt, RestOK
<1>3. Mutates(o) /\ op[o] # NoOp /\ op[o].policy = policy BY <1>0, <1>2 DEF Position, ClaimAt
<1>4. policy.can_write /\ policy.allow_writes BY <1>2, <1>3 DEF PlanOK
<1>5. db[o] = NoEffect /\ run[w].i = 1 /\ rows[o] \subseteq {"attempt"}
  BY <1>0, <1>2, <1>3 DEF RecordsAt, TargetAt
<1>6. PageStep(o) BY <1>2, PageStands
<1>7. CASE Conclude(w, "failed", "none") /\ rows' = rows
  <2>1. "failed" \in Outcomes /\ "error" \in RowNames /\ "audit" \in Early
    BY DEF Outcomes, RowNames, Early, RunPcs
  <2>2. CleanBy(o, db[o]) BY <1>5, Blank DEF CleanBy
  <2> QED BY <1>0, <1>1, <1>2, <1>6, <1>7, <2>1, <2>2, Concludes
<1>8. CASE Goto(w, "connect") /\ rows' = [rows EXCEPT ![o] = @ \cup {"attempt"}]
  <2>0. "connect" \in RunPcs BY DEF RunPcs
  <2>1. PICK r \in RunRows : run' = [run EXCEPT ![w] = r] /\ r.pc = "connect" /\ r.op = o /\ r.i = run[w].i
    BY <1>0, <1>1, <1>8, <2>0, GotoRow
  <2>2. PICK s \in SUBSET RowNames : rows' = [rows EXCEPT ![o] = s] /\ s = {"attempt"}
    <3>1. rows[o] \cup {"attempt"} = {"attempt"} BY <1>5
    <3> QED BY <1>8, <3>1 DEF RowNames
  <2>3. RestAt(o, db[o], s) BY <1>2, <1>5, <2>2, Blank DEF RestAt
  <2>4. Position(o, r.pc) BY <2>1 DEF Position
  <2>5. TargetAt(o, r, db[o]) BY <1>5, <2>1 DEF TargetAt
  <2>6. RecordsAt(o, r, db[o], s) BY <2>1, <2>2, <2>5 DEF RecordsAt
  <2>7. db' = [db EXCEPT ![o] = db[o]] BY <1>2 DEF ServiceInv, ServiceTypes
  <2> QED BY <1>0, <1>1, <1>2, <1>6, <2>1, <2>2, <2>3, <2>4, <2>6, <2>7, Advances
<1> QED BY <1>1, <1>4, <1>7, <1>8 DEF AuditAttempt

(* A step of a run that has its attempt recorded and moves the target.     *)
LEMMA TargetMoves ==
    ASSUME ServiceInv, NEW w \in Workers, NEW o \in Ops, run[w].pc \in Early \ {"audit"}, run[w].op = o,
           NEW r \in RunRows, r.op = o, r.pc \in Early, run' = [run EXCEPT ![w] = r],
           NEW d \in TargetRows, db' = [db EXCEPT ![o] = d],
           rows' = rows, op' = op, page' = page, policy' = policy, engine' = engine, lost' = lost,
           Mutates(o), Position(o, r.pc), TargetAt(o, r, d)
    PROVE  ServiceInv'
<1>0. run[w].pc \notin {"idle", "receipt", "record", "audit"} /\ r.pc \notin {"receipt", "record"}
  BY DEF Early, RunPcs
<1>1. RecordsAt(o, run[w], db[o], rows[o]) BY <1>0, RunFacts
<1>2. "attempt" \in rows[o] /\ rows[o] \subseteq {"attempt"} BY <1>0, <1>1 DEF RecordsAt
<1>3. RestAt(o, d, rows[o]) BY <1>2 DEF RestAt
<1>4. RecordsAt(o, r, d, rows[o]) BY <1>0, <1>2 DEF RecordsAt
<1>5. rows[o] \in SUBSET RowNames /\ rows' = [rows EXCEPT ![o] = rows[o]] BY DEF ServiceInv, ServiceTypes
<1>6. PageStep(o) BY PageStands
<1> QED BY <1>0, <1>3, <1>4, <1>5, <1>6, Advances

(* The effects of a script, by position. *)
LEMMA ScriptEffects ==
    ASSUME ServiceInv, NEW o \in Ops, op[o] # NoOp, op[o].service = "script"
    PROVE  /\ op[o].work \in Scripts /\ op[o].work \in Seq(StatementKind)
           /\ Len(op[o].work) \in Nat /\ DOMAIN op[o].work = 1..Len(op[o].work)
           /\ Effects(o) = {j \in 1..Len(op[o].work) : Changes(op[o].work[j])}
<1>1. op[o] \in OpRows BY DEF ServiceInv, ServiceTypes
<1>2. op[o].work \in Scripts /\ op[o].work \in Seq(StatementKind)
  BY <1>1, PlanFacts, ServicesAssumption
<1>3. PICK s \in Seq(StatementKind) : s = op[o].work BY <1>2
<1>4. Len(s) \in Nat /\ DOMAIN s = 1..Len(s) OBVIOUS
<1> QED BY <1>2, <1>3, <1>4 DEF Effects

(* What the steps of a script start from. *)
LEMMA ScriptFacts ==
    ASSUME ServiceInv, NEW w \in Workers,
           run[w].pc \in {"begin", "statement", "committing", "committed", "rolled_back", "unknown"}
    PROVE  LET o == run[w].op
           IN  /\ o \in Ops /\ op[o] # NoOp /\ op[o].service = "script" /\ Mutates(o)
               /\ run[w] \in RunRows /\ run[w].pc \in Early \ {"audit"} /\ run[w].pc # "idle"
               /\ TargetAt(o, run[w], db[o]) /\ db[o] \in TargetRows
               /\ \A pc \in {"begin", "statement", "committing", "committed", "rolled_back", "unknown"} :
                     pc \in RunPcs /\ pc \in Early /\ Position(o, pc)
<1>1. run[w].pc # "idle" /\ run[w].pc \in Early \ {"audit"} BY DEF Early, RunPcs
<1>2. PICK o \in Ops : o = run[w].op BY <1>1, RunFacts
<1>3. /\ op[o] # NoOp /\ run[w] \in RunRows /\ Position(o, run[w].pc) /\ db[o] \in TargetRows
      /\ RecordsAt(o, run[w], db[o], rows[o])
  BY <1>1, <1>2, RunFacts
<1>4. op[o].service = "script" /\ Mutates(o) BY <1>3 DEF Position
<1>5. TargetAt(o, run[w], db[o]) BY <1>3, <1>4 DEF RecordsAt
<1>6. \A pc \in {"begin", "statement", "committing", "committed", "rolled_back", "unknown"} :
        pc \in RunPcs /\ pc \in Early /\ Position(o, pc)
  BY <1>4 DEF Early, RunPcs, Position
<1> QED BY <1>1, <1>2, <1>3, <1>4, <1>5, <1>6

LEMMA BeginKeeps ==
    ASSUME ServiceInv, NEW w \in Workers, BeginScript(w)
    PROVE  ServiceInv'
<1>0. run[w].pc = "begin" BY DEF BeginScript
<1>1. PICK o \in Ops : o = run[w].op BY <1>0, ScriptFacts
<1>2. /\ op[o] # NoOp /\ op[o].service = "script" /\ Mutates(o)
      /\ run[w].pc \in Early \ {"audit"} /\ run[w].pc # "idle" /\ db[o] \in TargetRows
      /\ TargetAt(o, run[w], db[o])
      /\ \A pc \in {"statement", "rolled_back"} : pc \in RunPcs /\ pc \in Early /\ Position(o, pc)
  BY <1>0, <1>1, ScriptFacts
<1>3. db[o] = NoEffect /\ run[w].i = 1 BY <1>0, <1>2 DEF TargetAt
<1>4. rows' = rows /\ op' = op /\ page' = page /\ policy' = policy /\ engine' = engine /\ lost' = lost
  BY DEF BeginScript
<1>5. CASE Goto(w, "statement") /\ db' = [db EXCEPT ![o].tx = "open"]
  <2>1. PICK r \in RunRows : run' = [run EXCEPT ![w] = r] /\ r.pc = "statement" /\ r.op = o /\ r.i = 1
    BY <1>1, <1>2, <1>3, <1>5, GotoRow
  <2> DEFINE d == [NoEffect EXCEPT !.tx = "open"]
  <2>2. d \in TargetRows /\ d.tx = "open" /\ d.open = {} /\ d.kept = {} BY DEF NoEffect, TargetRows
  <2>3. db' = [db EXCEPT ![o] = d] BY <1>3, <1>5
  <2> HIDE DEF d
  <2>4. Len(op[o].work) \in Nat /\ {j \in Effects(o) : j < 1} = {} BY <1>2, ScriptEffects
  <2>5. TargetAt(o, r, d) BY <2>1, <2>2, <2>4 DEF TargetAt
  <2> QED BY <1>1, <1>2, <1>4, <2>1, <2>2, <2>3, <2>5, TargetMoves
<1>6. CASE Goto(w, "rolled_back") /\ db' = db
  <2>1. PICK r \in RunRows : run' = [run EXCEPT ![w] = r] /\ r.pc = "rolled_back" /\ r.op = o
    BY <1>1, <1>2, <1>6, GotoRow
  <2>2. TargetAt(o, r, db[o]) BY <1>3, <2>1, Blank DEF TargetAt
  <2>3. db' = [db EXCEPT ![o] = db[o]] BY <1>6 DEF ServiceInv, ServiceTypes
  <2> QED BY <1>1, <1>2, <1>4, <2>1, <2>2, <2>3, TargetMoves
<1> QED BY <1>1, <1>5, <1>6 DEF BeginScript

LEMMA CommitKeeps ==
    ASSUME ServiceInv, NEW w \in Workers, CommitReturns(w) \/ InterruptScript(w)
    PROVE  ServiceInv'
<1>0. run[w].pc \in {"begin", "statement", "committing"} BY DEF CommitReturns, InterruptScript
<1>1. PICK o \in Ops : o = run[w].op BY <1>0, ScriptFacts
<1>2. /\ op[o] # NoOp /\ op[o].service = "script" /\ Mutates(o)
      /\ run[w].pc \in Early \ {"audit"} /\ run[w].pc # "idle" /\ db[o] \in TargetRows
      /\ TargetAt(o, run[w], db[o])
      /\ \A pc \in {"committed", "unknown"} : pc \in RunPcs /\ pc \in Early /\ Position(o, pc)
  BY <1>0, <1>1, ScriptFacts
<1>3. rows' = rows /\ op' = op /\ page' = page /\ policy' = policy /\ engine' = engine /\ lost' = lost
  BY DEF CommitReturns, InterruptScript
<1>4. PICK d \in TargetRows, pc \in {"committed", "unknown"} :
        db' = [db EXCEPT ![o] = d] /\ Goto(w, pc) /\ (pc = "committed" => KeptBy(o, d))
  <2>1. CASE CommitReturns(w)
    <3>1. db' = [db EXCEPT ![o] = db[o]] BY <2>1 DEF CommitReturns, ServiceInv, ServiceTypes
    <3>2. db[o].tx = "ended" => KeptBy(o, db[o]) BY <1>2, <2>1 DEF CommitReturns, TargetAt
    <3> QED BY <1>1, <1>2, <2>1, <3>1, <3>2 DEF CommitReturns
  <2>2. CASE InterruptScript(w)
    <3> DEFINE d == [db[o] EXCEPT !.open = IF db[o].tx = "committing" THEN @ ELSE {}]
    <3>1. d \in TargetRows BY <1>2 DEF TargetRows
    <3>2. db' = [db EXCEPT ![o] = d] BY <1>1, <2>2 DEF InterruptScript, ServiceInv, ServiceTypes
    <3> HIDE DEF d
    <3> QED BY <2>2, <3>1, <3>2 DEF InterruptScript
  <2> QED BY <2>1, <2>2
<1>5. PICK r \in RunRows : run' = [run EXCEPT ![w] = r] /\ r.pc = pc /\ r.op = o
  BY <1>1, <1>2, <1>4, GotoRow
<1>6. TargetAt(o, r, d) BY <1>4, <1>5 DEF TargetAt
<1> QED BY <1>1, <1>2, <1>3, <1>4, <1>5, <1>6, TargetMoves

(* One statement adds its own effect, and only DDL on MySQL, or a          *)
(* statement that says so, ends the transaction.                           *)
LEMMA ExecutedRow ==
    ASSUME ServiceInv, NEW o \in Ops, op[o] # NoOp, op[o].service = "script",
           NEW d \in TargetRows, NEW i \in DOMAIN op[o].work,
           d.tx \in {"open", "ended"}, d.open \cup d.kept = {j \in Effects(o) : j < i},
           d.tx = "open" => d.kept = {},
           d.tx = "ended" => d.open = {} /\ EndsEarly(o)
    PROVE  LET e == Executed(d, i, op[o].work[i])
           IN  /\ e \in TargetRows
               /\ e.tx \in {"open", "ended"} /\ e.open \cup e.kept = {j \in Effects(o) : j < i + 1}
               /\ e.tx = "open" => e.kept = {}
               /\ e.tx = "ended" => e.open = {} /\ EndsEarly(o)
<1> DEFINE kind == op[o].work[i]
           effect == IF Changes(kind) THEN {i} ELSE {}
<1>1. /\ op[o].work \in Scripts /\ DOMAIN op[o].work = 1..Len(op[o].work) /\ Len(op[o].work) \in Nat
      /\ Effects(o) = {j \in 1..Len(op[o].work) : Changes(op[o].work[j])}
  BY ScriptEffects
<1>2. EndsTransaction(kind) /\ CommitsAreSeen(o) => L1Kind(kind) = "ddl" BY DEF CommitsAreSeen
<1>3. EndsTransaction(kind) => EndsEarly(o) BY <1>2 DEF EndsTransaction, EndsEarly, HasDdl, L1Kind
<1>4. i \in 1..Len(op[o].work) /\ effect \subseteq Nat BY <1>1
<1>5. {j \in Effects(o) : j < i} \cup effect = {j \in Effects(o) : j < i + 1}
  BY <1>1, <1>4
<1>6. d.open \in SUBSET Nat /\ d.kept \in SUBSET Nat BY DEF TargetRows
<1> HIDE DEF effect, kind
<1>7. CASE EndsTransaction(kind) \/ d.tx = "ended"
  <2> DEFINE e == [tx |-> "ended", open |-> {}, kept |-> d.kept \cup d.open \cup effect]
  <2>1. e \in TargetRows BY <1>4, <1>6 DEF TargetRows
  <2>2. e.tx = "ended" /\ e.open = {} /\ e.kept = d.kept \cup d.open \cup effect OBVIOUS
  <2>3. Executed(d, i, kind) = e BY <1>7 DEF Executed, effect
  <2> HIDE DEF e
  <2>4. e.open \cup e.kept = {j \in Effects(o) : j < i + 1} BY <1>5, <2>2
  <2>5. EndsEarly(o) BY <1>3, <1>7
  <2> QED BY <2>1, <2>2, <2>3, <2>4, <2>5 DEF kind
<1>8. CASE ~EndsTransaction(kind) /\ d.tx = "open"
  <2> DEFINE e == [tx |-> d.tx, open |-> d.open \cup effect, kept |-> d.kept]
  <2>1. e \in TargetRows BY <1>4, <1>6, <1>8 DEF TargetRows
  <2>2. e.tx = "open" /\ e.open = d.open \cup effect /\ e.kept = d.kept /\ e.kept = {} BY <1>8
  <2>3. Executed(d, i, kind) = e BY <1>8 DEF Executed, effect
  <2> HIDE DEF e
  <2>4. e.open \cup e.kept = {j \in Effects(o) : j < i + 1} BY <1>5, <2>2
  <2> QED BY <2>1, <2>2, <2>3, <2>4 DEF kind
<1> QED BY <1>7, <1>8

LEMMA StatementKeeps ==
    ASSUME ServiceInv, NEW w \in Workers, execute_script_transaction(w)
    PROVE  ServiceInv'
<1>0. run[w].pc = "statement" BY DEF execute_script_transaction
<1>1. PICK o \in Ops : o = run[w].op BY <1>0, ScriptFacts
<1>2. /\ op[o] # NoOp /\ op[o].service = "script" /\ Mutates(o) /\ run[w] \in RunRows
      /\ run[w].pc \in Early \ {"audit"} /\ run[w].pc # "idle" /\ db[o] \in TargetRows
      /\ TargetAt(o, run[w], db[o])
      /\ \A pc \in {"statement", "rolled_back", "unknown", "committing"} :
            pc \in RunPcs /\ pc \in Early /\ Position(o, pc)
  BY <1>0, <1>1, ScriptFacts
<1>3. rows' = rows /\ op' = op /\ page' = page /\ policy' = policy /\ engine' = engine /\ lost' = lost
  BY DEF execute_script_transaction
<1>4. PICK i \in Nat \ {0} : i = run[w].i BY <1>2 DEF RunRows
<1>5. /\ i <= Len(op[o].work) + 1
      /\ db[o].tx \in {"open", "ended"}
      /\ db[o].open \cup db[o].kept = {j \in Effects(o) : j < i}
      /\ db[o].tx = "open" => db[o].kept = {}
      /\ db[o].tx = "ended" => db[o].open = {} /\ EndsEarly(o)
  BY <1>0, <1>2, <1>4 DEF TargetAt
<1>6. /\ Len(op[o].work) \in Nat /\ DOMAIN op[o].work = 1..Len(op[o].work)
      /\ Effects(o) = {j \in 1..Len(op[o].work) : Changes(op[o].work[j])}
  BY <1>2, ScriptEffects
<1>7. CASE /\ i \in DOMAIN op[o].work
           /\ db' = [db EXCEPT ![o] = Executed(@, i, op[o].work[i])]
           /\ run' = [run EXCEPT ![w].i = i + 1]
  <2> DEFINE d == Executed(db[o], i, op[o].work[i])
             r == [run[w] EXCEPT !.i = i + 1]
  <2>1. /\ d \in TargetRows
        /\ d.tx \in {"open", "ended"} /\ d.open \cup d.kept = {j \in Effects(o) : j < i + 1}
        /\ d.tx = "open" => d.kept = {}
        /\ d.tx = "ended" => d.open = {} /\ EndsEarly(o)
    BY <1>2, <1>5, <1>7, ExecutedRow
  <2>2. r \in RunRows BY <1>2 DEF RunRows
  <2>3. r.pc = "statement" /\ r.op = o /\ r.i = i + 1 BY <1>0, <1>1, <1>2 DEF RunRows
  <2>4. db' = [db EXCEPT ![o] = d] /\ run' = [run EXCEPT ![w] = r] BY <1>7
  <2> HIDE DEF d, r
  <2>5. i + 1 <= Len(op[o].work) + 1 BY <1>6, <1>7
  <2>6. TargetAt(o, r, d) BY <2>1, <2>3, <2>5 DEF TargetAt
  <2> QED BY <1>1, <1>2, <1>3, <2>1, <2>2, <2>3, <2>4, <2>6, TargetMoves
<1>8. CASE /\ db' = [db EXCEPT ![o].open = {}]
           /\ Goto(w, "rolled_back") \/ Goto(w, "unknown")
  <2> DEFINE d == [db[o] EXCEPT !.open = {}]
  <2>1. d \in TargetRows /\ d.tx = db[o].tx /\ d.open = {} /\ d.kept = db[o].kept BY <1>2 DEF TargetRows
  <2>2. db' = [db EXCEPT ![o] = d] BY <1>8
  <2> HIDE DEF d
  <2>3. PICK pc \in {"rolled_back", "unknown"} : Goto(w, pc) BY <1>8
  <2>4. PICK r \in RunRows : run' = [run EXCEPT ![w] = r] /\ r.pc = pc /\ r.op = o
    BY <1>1, <1>2, <2>3, GotoRow
  <2>5. TargetAt(o, r, d) BY <1>5, <2>1, <2>4 DEF TargetAt
  <2> QED BY <1>1, <1>2, <1>3, <2>1, <2>2, <2>3, <2>4, <2>5, TargetMoves
<1>9. CASE /\ i \notin DOMAIN op[o].work
           /\ db' = [db EXCEPT ![o].tx = IF @ = "ended" THEN @ ELSE "committing"]
           /\ Goto(w, "committing")
  <2>0. {j \in Effects(o) : j < i} = Effects(o) BY <1>4, <1>5, <1>6, <1>9
  <2> DEFINE tx == IF db[o].tx = "ended" THEN "ended" ELSE "committing"
             d == [db[o] EXCEPT !.tx = tx]
  <2>1. d \in TargetRows /\ d.tx = tx /\ d.open = db[o].open /\ d.kept = db[o].kept BY <1>2 DEF TargetRows
  <2>2. db' = [db EXCEPT ![o] = d] BY <1>9
  <2> HIDE DEF d
  <2>3. PICK r \in RunRows : run' = [run EXCEPT ![w] = r] /\ r.pc = "committing" /\ r.op = o
    BY <1>1, <1>2, <1>9, GotoRow
  <2>4. TargetAt(o, r, d) BY <1>5, <2>0, <2>1, <2>3 DEF TargetAt, KeptBy
  <2> QED BY <1>1, <1>2, <1>3, <2>1, <2>2, <2>3, <2>4, TargetMoves
<1> QED BY <1>1, <1>4, <1>7, <1>8, <1>9 DEF execute_script_transaction

LEMMA WriteKeeps ==
    ASSUME ServiceInv, NEW w \in Workers, run_write(w)
    PROVE  ServiceInv'
<1>0. run[w].pc \in {"rolled_back", "committed", "unknown"} BY DEF run_write
<1>1. PICK o \in Ops : o = run[w].op BY <1>0, ScriptFacts
<1>2. /\ op[o] # NoOp /\ Mutates(o) /\ run[w].pc \in Early /\ TargetAt(o, run[w], db[o])
  BY <1>0, <1>1, ScriptFacts
<1>3. op' = op /\ db' = db /\ page' = page /\ policy' = policy /\ engine' = engine /\ lost' = lost
  BY DEF run_write
<1>4. PageStep(o) BY <1>3, PageStands
<1>5. /\ {"ok", "error", "outcome_unknown"} \subseteq RowNames /\ "ok" \notin Bad
      /\ {"succeeded", "failed", "outcome_unknown"} \subseteq Outcomes
  BY DEF RowNames, Outcomes, Bad
<1>6. CASE \E row \in {"error", "outcome_unknown"} : Conclude(w, "outcome_unknown", "none") /\ Record(o, row)
  BY <1>1, <1>2, <1>3, <1>4, <1>5, <1>6, Concludes
<1>7. CASE /\ run[w].pc = "rolled_back" /\ ~(engine = "mysql" /\ HasDdl(o))
           /\ Conclude(w, "failed", "none") /\ Record(o, "error")
  <2>1. CleanBy(o, db[o]) BY <1>2, <1>7 DEF TargetAt, CleanBy, EndsEarly
  <2> QED BY <1>1, <1>2, <1>3, <1>4, <1>5, <1>7, <2>1, Concludes
<1>8. CASE run[w].pc = "committed" /\ Conclude(w, "succeeded", "none") /\ Record(o, "ok")
  <2>1. KeptBy(o, db[o]) BY <1>2, <1>8 DEF TargetAt
  <2> QED BY <1>1, <1>2, <1>3, <1>4, <1>5, <1>8, <2>1, Concludes
<1> QED BY <1>0, <1>1, <1>6, <1>7, <1>8 DEF run_write, record_script_run

LEMMA RoleKeeps ==
    ASSUME ServiceInv, NEW w \in Workers, RoleReturns(w)
    PROVE  ServiceInv'
<1>0. run[w].pc = "set_role" /\ run[w].pc # "idle" /\ run[w].pc \in Early
  BY DEF RoleReturns, Early, RunPcs
<1>1. PICK o \in Ops : o = run[w].op BY <1>0, RunFacts
<1>2. /\ Position(o, run[w].pc) /\ RecordsAt(o, run[w], db[o], rows[o])
  BY <1>0, <1>1, RunFacts
<1>3. Mutates(o) /\ (db[o] = NoEffect \/ KeptBy(o, db[o])) BY <1>0, <1>2 DEF Position, RecordsAt, TargetAt
<1>4. op' = op /\ db' = db /\ page' = page /\ policy' = policy /\ engine' = engine /\ lost' = lost
  BY DEF RoleReturns
<1>5. PageStep(o) BY <1>4, PageStands
<1>6. /\ {"ok", "error"} \subseteq RowNames /\ "ok" \notin Bad
      /\ {"succeeded", "outcome_unknown"} \subseteq Outcomes
  BY DEF RowNames, Outcomes, Bad
<1>7. CASE db[o].tx = "ended" /\ Conclude(w, "succeeded", "none") /\ Record(o, "ok")
  <2>1. KeptBy(o, db[o]) BY <1>3, <1>7, Blank
  <2> QED BY <1>0, <1>1, <1>3, <1>4, <1>5, <1>6, <1>7, <2>1, Concludes
<1>8. CASE Conclude(w, "outcome_unknown", "none") /\ Record(o, "error")
  BY <1>0, <1>1, <1>3, <1>4, <1>5, <1>6, <1>8, Concludes
<1> QED BY <1>1, <1>7, <1>8 DEF RoleReturns, record_monitoring_change

(* A page and its flag, for every request, cap and number of matches. *)
LEMMA PageLaw ==
    ASSUME NEW q \in Queries, q.shape # "count", NEW c \in Nat, NEW n \in Nat
    PROVE  LET result == DocumentRun(q, c, n)
               wanted == IF q.shape = "find" /\ q.limit # NoLimit THEN Smaller(n, q.limit) ELSE n
               cap == Larger(1, c)
           IN  result.count = Smaller(wanted, cap) /\ result.truncated = (wanted > cap)
<1> DEFINE max == Larger(c, 1)
           fetch == fetch_limit(q.limit, max)
           wanted == IF q.shape = "find" /\ q.limit # NoLimit THEN Smaller(n, q.limit) ELSE n
<1>1. q.shape \in {"find", "aggregate"} /\ q.limit \in Nat \cup {NoLimit} BY ServicesAssumption
<1>2. max \in Nat /\ max >= 1 /\ Larger(1, c) = max BY DEF Larger
<1>3. CASE q.shape = "aggregate"
  <2>1. DocumentRun(q, c, n) = [count |-> Smaller(n, max), truncated |-> n > max]
    BY <1>3 DEF DocumentRun, drain
  <2>2. wanted = n BY <1>3
  <2> HIDE DEF max, wanted
  <2> QED BY <1>2, <2>1, <2>2 DEF wanted
<1>4. CASE q.shape = "find" /\ q.limit = 0
  <2>1. fetch = NoLimit BY <1>4 DEF fetch_limit, NoLimit
  <2>2. DocumentRun(q, c, n) = [count |-> 0, truncated |-> FALSE]
    BY <1>4, <2>1 DEF DocumentRun
  <2>3. wanted = 0 BY <1>4 DEF Smaller, NoLimit
  <2>4. Smaller(wanted, max) = 0 /\ (wanted > max <=> FALSE) BY <1>2, <2>3 DEF Smaller
  <2> HIDE DEF max, wanted
  <2>5. DocumentRun(q, c, n) = [count |-> Smaller(wanted, max), truncated |-> (wanted > max)]
    <3>1. (wanted > max) = FALSE BY <2>4, SMT
    <3> QED BY <2>2, <2>4, <3>1, Zenon
  <2> QED BY <1>2, <2>5 DEF wanted
<1>5. CASE q.shape = "find" /\ q.limit # 0
  <2>1. fetch \in Nat /\ fetch # 0 /\ fetch # NoLimit BY <1>1, <1>2, <1>5 DEF fetch_limit, NoLimit
  <2>2. DocumentRun(q, c, n) = drain(Found(n, fetch), max)
    BY <1>5, <2>1 DEF DocumentRun
  <2>3. Found(n, fetch) = Smaller(n, fetch) BY <2>1 DEF Found
  <2>4. Smaller(Smaller(n, fetch), max) = Smaller(wanted, max) /\ (Smaller(n, fetch) > max <=> wanted > max)
    BY <1>1, <1>2, <1>5 DEF Smaller, fetch_limit, NoLimit
  <2> HIDE DEF max, wanted, fetch
  <2>5. DocumentRun(q, c, n) = [count |-> Smaller(wanted, max), truncated |-> (wanted > max)]
    BY <2>2, <2>3, <2>4 DEF drain
  <2> QED BY <1>2, <2>5 DEF wanted
<1> QED BY <1>1, <1>3, <1>4, <1>5

(* The page a query returns is exact under the policy of its plan. *)
LEMMA ReturnedPage ==
    ASSUME ServiceInv, NEW o \in Ops, op[o] # NoOp, op[o].policy = policy, op' = op,
           op[o].service \in {"document", "agent_document"}, NEW n \in Nat, NEW c \in Nat,
           op[o].service = "document" => c = bounded_desktop_rows(policy.max_rows),
           op[o].service = "agent_document" => c = bounded_agent_rows(op[o].requested, policy.max_rows),
           Return(o, c, n)
    PROVE  PageStep(o)
<1> DEFINE result == DocumentRun(op[o].work, c, n)
           answer == [count |-> result.count, matching |-> n, truncated |-> result.truncated]
<1>1. page = [p \in Ops |-> page[p]] BY DEF ServiceInv, ServiceTypes
<1>2. page' = [page EXCEPT ![o] = answer] BY DEF Return
<1>3. answer.count = result.count /\ answer.matching = n /\ answer.truncated = result.truncated OBVIOUS
<1> HIDE DEF answer
<1>4. page'[o] = answer /\ (\A p \in Ops \ {o} : page'[p] = page[p]) /\ page' = [p \in Ops |-> page'[p]]
  BY <1>1, <1>2
<1>5. op[o].work \in Queries BY PlanFacts DEF ServiceInv, ServiceTypes
<1>6. op[o].work.shape # "count" =>
        LET q == op[o].work
            wanted == IF q.shape = "find" /\ q.limit # NoLimit THEN Smaller(n, q.limit) ELSE n
        IN  result.count = Smaller(wanted, Larger(1, c)) /\ result.truncated = (wanted > Larger(1, c))
  BY <1>5, PageLaw
<1> HIDE DEF result
<1>7. c = IF op[o].service = "document" THEN Smaller(Larger(op[o].policy.max_rows, 1), MaxDesktopRows)
          ELSE Smaller(IF op[o].requested # NoLimit THEN op[o].requested
                       ELSE op[o].policy.max_rows, MaxAgentRows)
  BY DEF bounded_desktop_rows, bounded_agent_rows
<1>8. PageOK(o)' BY <1>3, <1>4, <1>6, <1>7 DEF PageOK
<1> QED BY <1>4, <1>8 DEF PageStep

LEMMA QueriesKeep ==
    ASSUME ServiceInv, NEW w \in Workers, AgentQueryReturns(w) \/ DesktopQueryReturns(w)
    PROVE  ServiceInv'
<1>0. run[w].pc = "query" /\ run[w].pc # "idle" /\ run[w].pc \in Early
  BY DEF AgentQueryReturns, DesktopQueryReturns, Early, RunPcs
<1>1. PICK o \in Ops : o = run[w].op BY <1>0, RunFacts
<1>2. /\ Position(o, run[w].pc) /\ ClaimAt(o, run[w]) /\ op[o] \in OpRows /\ op[o] # NoOp
  BY <1>0, <1>1, RunFacts
<1>3. op[o].service \in {"document", "agent_document"} /\ op[o].policy = policy
  BY <1>0, <1>2 DEF Position, ClaimAt
<1>4. ~Mutates(o) BY <1>2, <1>3, PlanFacts DEF Mutates
<1>5. op' = op /\ db' = db /\ policy' = policy /\ engine' = engine /\ lost' = lost
  BY DEF AgentQueryReturns, DesktopQueryReturns
<1>6. /\ {"ok", "error"} \subseteq RowNames /\ "ok" \notin Bad
      /\ {"succeeded", "failed", "cancelled"} \subseteq Outcomes
  BY DEF RowNames, Outcomes, Bad
<1>7. bounded_agent_rows(op[o].requested, policy.max_rows) \in Nat /\ bounded_desktop_rows(policy.max_rows) \in Nat
  <2>1. policy.max_rows \in Nat BY ServicesAssumption DEF ServiceInv, ServiceTypes, Policies
  <2>2. op[o].requested \in Nat \cup {NoLimit} BY <1>2, PlanFacts
  <2> QED BY <2>1, <2>2, ServicesAssumption DEF bounded_agent_rows, bounded_desktop_rows, Smaller, Larger
<1>8. PageStep(o)
  <2>1. page' = page => PageStep(o) BY <1>5, PageStands
  <2>2. 0..MaxMatching \subseteq Nat BY ServicesAssumption
  <2>3. CASE AgentQueryReturns(w)
    <3>1. op[o].service = "agent_document" BY <1>1, <2>3 DEF AgentQueryReturns
    <3>2. ASSUME NEW n \in Nat, Return(o, bounded_agent_rows(op[o].requested, policy.max_rows), n) PROVE PageStep(o)
      BY <1>2, <1>3, <1>5, <1>7, <3>1, <3>2, ReturnedPage
    <3>3. bounded_agent_rows(op[o].requested, op[o].policy.max_rows)
          = bounded_agent_rows(op[o].requested, policy.max_rows)
      BY <1>3
    <3>4. ASSUME NEW n \in Nat, Return(o, bounded_agent_rows(op[o].requested, op[o].policy.max_rows), n)
          PROVE  PageStep(o)
      BY <3>2, <3>3, <3>4
    <3> QED BY <1>1, <2>1, <2>2, <2>3, <3>4 DEF AgentQueryReturns
  <2>4. CASE DesktopQueryReturns(w)
    <3>1. op[o].service = "document" BY <1>1, <2>4 DEF DesktopQueryReturns
    <3>2. ASSUME NEW n \in Nat, Return(o, bounded_desktop_rows(policy.max_rows), n) PROVE PageStep(o)
      BY <1>2, <1>3, <1>5, <1>7, <3>1, <3>2, ReturnedPage
    <3> QED BY <1>1, <2>1, <2>2, <2>4, <3>2 DEF DesktopQueryReturns
  <2> QED BY <2>3, <2>4
<1>9. \E out \in {"succeeded", "failed", "cancelled"}, after \in {"none", "ok", "error"}, row \in {"ok", "error"} :
        /\ Conclude(w, out, after) /\ (rows' = rows \/ Record(o, row))
        /\ after # "none" => op[o].service = "document" /\ (out = "succeeded" => after = "ok")
        /\ out = "succeeded" => row = "ok"
  <2>1. CASE AgentQueryReturns(w)
    BY <1>1, <2>1 DEF AgentQueryReturns, record_agent_execution
  <2>2. CASE DesktopQueryReturns(w)
    BY <1>1, <2>2 DEF DesktopQueryReturns
  <2> QED BY <2>1, <2>2
<1> QED BY <1>0, <1>1, <1>4, <1>5, <1>6, <1>8, <1>9, Concludes

(* The role change in the target. *)
LEMMA SetRoleKeeps ==
    ASSUME ServiceInv, NEW o \in Ops, set_postgres_role(o)
    PROVE  ServiceInv'
<1>1. PICK w \in Workers : run[w].pc = "set_role" /\ run[w].op = o BY DEF set_postgres_role
<1>2. run[w].pc # "idle" /\ run[w].pc \in Early \ {"audit"} BY <1>1 DEF Early, RunPcs
<1>3. /\ Position(o, run[w].pc) /\ op[o] # NoOp /\ run[w] \in RunRows
  BY <1>1, <1>2, RunFacts
<1>4. Mutates(o) /\ op[o].service = "monitoring" BY <1>1, <1>3 DEF Position
<1>5. Effects(o) = {1} BY <1>4 DEF Effects
<1> DEFINE d == [tx |-> "ended", open |-> {}, kept |-> {1}]
<1>6. d \in TargetRows /\ d.tx = "ended" /\ d.open = {} /\ d.kept = {1} BY DEF TargetRows
<1>7. db' = [db EXCEPT ![o] = d] BY DEF set_postgres_role
<1> HIDE DEF d
<1>8. run' = [run EXCEPT ![w] = run[w]] BY DEF set_postgres_role, ServiceInv, ServiceTypes
<1>9. TargetAt(o, run[w], d) BY <1>1, <1>5, <1>6 DEF TargetAt, KeptBy
<1>10. rows' = rows /\ op' = op /\ page' = page /\ policy' = policy /\ engine' = engine /\ lost' = lost
  BY DEF set_postgres_role
<1> QED BY <1>1, <1>2, <1>3, <1>4, <1>6, <1>7, <1>8, <1>9, <1>10, TargetMoves

(* The frame of a step for an operation that no run holds. *)
LEMMA OpStep ==
    ASSUME ServiceInv, NEW o \in Ops, \A v \in Workers : run[v] # Idle => run[v].op # o,
           ServiceTypes', policy' = policy, engine' = engine, lost' = lost, run' = run,
           \A p \in Ops \ {o} : op'[p] = op[p] /\ db'[p] = db[p] /\ rows'[p] = rows[p] /\ page'[p] = page[p],
           PlanOK(o)', RestOK(o)', PageOK(o)',
           op'[o] # NoOp /\ op'[o].state = "executing" => o \in lost
    PROVE  ServiceInv'
<1> USE Blank
<1>1. \A p \in Ops : (PlanOK(p) /\ RestOK(p) /\ PageOK(p))'
  BY OpStands DEF ServiceInv
<1>2. ASSUME NEW v \in Workers, run'[v] # Idle
      PROVE  RunOK(v)'
  <2>1. run[v] # Idle /\ run[v] \in RunRows BY <1>2 DEF ServiceInv, ServiceTypes
  <2>2. PICK p \in Ops : p = run[v].op BY <2>1 DEF RunRows
  <2>3. p # o BY <2>1, <2>2
  <2>4. RunOK(v) BY <2>1 DEF ServiceInv
  <2> QED BY <2>1, <2>2, <2>3, <2>4, RunStands
<1>3. OneRunEach' BY DEF ServiceInv, OneRunEach
<1>4. ExecutingIsOwned'
  <2> SUFFICES ASSUME NEW p \in Ops, op'[p] # NoOp, op'[p].state = "executing"
               PROVE  (\E v \in Workers : run'[v] # Idle /\ run'[v].op = p) \/ p \in lost'
    BY DEF ExecutingIsOwned, IsRunning
  <2>1. CASE p = o BY <2>1
  <2>2. CASE p # o
    <3>1. (\E v \in Workers : run[v] # Idle /\ run[v].op = p) \/ p \in lost
      BY <2>2 DEF ServiceInv, ExecutingIsOwned, IsRunning
    <3> QED BY <3>1
  <2> QED BY <2>1, <2>2
<1> QED BY <1>1, <1>2, <1>3, <1>4 DEF ServiceInv

(* The target decides a COMMIT, whether or not its run still waits. *)
LEMMA DecisionKeeps ==
    ASSUME ServiceInv, NEW o \in Ops, TargetDecides(o)
    PROVE  ServiceInv'
<1> USE Blank
<1>1. /\ db[o] \in TargetRows /\ db[o].tx = "committing" /\ PlanOK(o) /\ RestOK(o) /\ PageOK(o)
      /\ rows[o] \in SUBSET RowNames /\ ServiceTypes
  BY DEF ServiceInv, ServiceTypes, TargetDecides
<1>2. /\ op[o] # NoOp /\ Mutates(o) /\ "ok" \notin rows[o] /\ ~Unclaimed(o)
      /\ op[o].state \notin {"succeeded", "failed", "cancelled"}
      /\ db[o].kept \cup db[o].open # {} => "attempt" \in rows[o]
  BY <1>1 DEF RestOK, RestAt, Unclaimed, KeptBy, CleanBy
<1>3. PICK d \in TargetRows :
        /\ db' = [db EXCEPT ![o] = d] /\ d.open = {} /\ d.tx \in {"ended", "aborted"}
        /\ d.tx = "ended" => d.kept = db[o].kept \cup db[o].open
        /\ d.tx = "aborted" => d.kept = db[o].kept
  <2> DEFINE a == [tx |-> "ended", open |-> {}, kept |-> db[o].kept \cup db[o].open]
             b == [tx |-> "aborted", open |-> {}, kept |-> db[o].kept]
  <2>1. /\ a \in TargetRows /\ a.open = {} /\ a.tx = "ended" /\ a.kept = db[o].kept \cup db[o].open
        /\ b \in TargetRows /\ b.open = {} /\ b.tx = "aborted" /\ b.kept = db[o].kept
    BY <1>1 DEF TargetRows
  <2>2. db' = [db EXCEPT ![o] = a] \/ db' = [db EXCEPT ![o] = b] BY DEF TargetDecides
  <2> HIDE DEF a, b
  <2> QED BY <2>1, <2>2
<1>4. /\ op' = op /\ run' = run /\ rows' = rows /\ page' = page
      /\ policy' = policy /\ engine' = engine /\ lost' = lost
  BY DEF TargetDecides
<1>5. RestAt(o, d, rows[o]) BY <1>2, <1>3 DEF RestAt
<1>6. CASE \E v \in Workers : run[v] # Idle /\ run[v].op = o
  <2>1. PICK v \in Workers : run[v] # Idle /\ run[v].op = o BY <1>6
  <2>2. run[v] \in RunRows BY <1>1, <2>1 DEF ServiceTypes
  <2>3. run[v].pc # "idle" BY <2>2 DEF RunRows, RunPcs
  <2>4. /\ ClaimAt(o, run[v]) /\ Position(o, run[v].pc) /\ RecordsAt(o, run[v], db[o], rows[o])
        /\ op[o] \in OpRows
    BY <2>1, <2>3, RunFacts
  <2>5. run[v].pc # "record" BY <1>2, <2>4, PlanFacts DEF ClaimAt, Mutates
  <2>6. TargetAt(o, run[v], db[o]) BY <1>2, <2>4 DEF RecordsAt
  <2>7. run[v].pc = "committing" => db[o].kept = {} /\ db[o].open = Effects(o) BY <1>1, <2>6 DEF TargetAt
  <2>8. TargetAt(o, run[v], d) BY <1>1, <1>3, <2>6, <2>7 DEF TargetAt, KeptBy, CleanBy
  <2>9. RecordsAt(o, run[v], d, rows[o]) BY <2>4, <2>8 DEF RecordsAt
  <2>10. run' = [run EXCEPT ![v] = run[v]] /\ rows' = [rows EXCEPT ![o] = rows[o]]
    BY <1>1, <1>4 DEF ServiceTypes
  <2>11. PageStep(o) BY <1>4, PageStands
  <2> QED BY <1>1, <1>3, <1>4, <1>5, <2>1, <2>2, <2>3, <2>4, <2>5, <2>9, <2>10, <2>11, Advances
<1>7. CASE \A v \in Workers : run[v] # Idle => run[v].op # o
  <2>1. ServiceTypes' BY <1>1, <1>3, <1>4 DEF ServiceTypes
  <2>2. db'[o] = d /\ \A p \in Ops \ {o} : db'[p] = db[p] BY <1>1, <1>3 DEF ServiceTypes
  <2>3. PlanOK(o)' /\ PageOK(o)' BY <1>1, <1>4 DEF PlanOK, PageOK, Mutates
  <2>4. RestAt(o, db[o], rows[o])'
    BY <1>4, <1>5, <2>2 DEF RestAt, KeptBy, Mutates, Effects
  <2>5. RestOK(o)' BY <1>2, <1>4, <2>4 DEF RestOK, Unclaimed
  <2>6. op[o].state = "executing" => o \in lost
    BY <1>2, <1>7 DEF ServiceInv, ExecutingIsOwned, IsRunning
  <2> QED BY <1>4, <1>7, <2>1, <2>2, <2>3, <2>5, <2>6, OpStep
<1> QED BY <1>6, <1>7

(* A new state of a planned row leaves the plan as it is. *)
LEMMA StateRow ==
    ASSUME NEW x \in OpRows, NEW s \in OperationState
    PROVE  LET y == [x EXCEPT !.state = s]
           IN  /\ y \in OpRows /\ y.state = s /\ y.service = x.service /\ y.kind = x.kind
               /\ y.work = x.work /\ y.policy = x.policy /\ y.requested = x.requested
BY DEF OpRows

LEMMA SamePlan ==
    ASSUME NEW o \in Ops, op[o] # NoOp, op'[o] # NoOp, op'[o].service = op[o].service,
           op'[o].kind = op[o].kind, op'[o].work = op[o].work, op'[o].policy = op[o].policy,
           op'[o].requested = op[o].requested, engine' = engine,
           page'[o] = page[o], PlanOK(o), PageOK(o)
    PROVE  /\ PlanOK(o)' /\ PageOK(o)' /\ (Mutates(o)' <=> Mutates(o)) /\ Effects(o)' = Effects(o)
           /\ (HasDdl(o)' <=> HasDdl(o)) /\ (CommitsAreSeen(o)' <=> CommitsAreSeen(o))
<1>1. Mutates(o)' <=> Mutates(o) BY DEF Mutates
<1>2. Effects(o)' = Effects(o) BY DEF Effects
<1>3. (HasDdl(o)' <=> HasDdl(o)) /\ (CommitsAreSeen(o)' <=> CommitsAreSeen(o))
  BY DEF HasDdl, CommitsAreSeen, EndsTransaction
<1>4. PlanOK(o)' BY <1>1 DEF PlanOK
<1>5. PageOK(o)' BY DEF PageOK
<1> QED BY <1>1, <1>2, <1>3, <1>4, <1>5

(* A proposal, or a decision before the claim. *)
LEMMA UnclaimedMoves ==
    ASSUME ServiceInv, NEW o \in Ops, Unclaimed(o), NEW x \in OpRows, op' = [op EXCEPT ![o] = x],
           x.state \in {"pending_approval", "ready", "approved", "rejected", "cancelled", "expired"},
           policy' = policy, engine' = engine, lost' = lost, run' = run, db' = db, rows' = rows, page' = page,
           PlanOK(o)', PageOK(o)'
    PROVE  ServiceInv'
<1> USE Blank
<1>1. ServiceTypes /\ RestOK(o) BY DEF ServiceInv
<1>2. op'[o] = x /\ x # NoOp /\ \A p \in Ops \ {o} : op'[p] = op[p] BY <1>1 DEF ServiceTypes
<1>3. ServiceTypes' BY <1>1 DEF ServiceTypes
<1>4. db[o] = NoEffect /\ rows[o] = {} BY <1>1 DEF RestOK
<1>5. RestOK(o)' BY <1>2, <1>4 DEF RestOK, RestAt, Unclaimed, CleanBy
<1>6. \A v \in Workers : run[v] # Idle => run[v].op # o BY UnclaimedIsFree
<1> QED BY <1>2, <1>3, <1>5, <1>6, OpStep

LEMMA DecideKeeps ==
    ASSUME ServiceInv, NEW o \in Ops, Decide(o)
    PROVE  ServiceInv'
<1> USE Blank
<1>1. ServiceTypes /\ PlanOK(o) /\ PageOK(o) BY DEF ServiceInv
<1>2. op[o] # NoOp /\ op[o] \in OpRows /\ Unclaimed(o) BY <1>1 DEF Decide, ServiceTypes, Unclaimed
<1>3. PICK s \in {"approved", "rejected", "cancelled", "expired"} : op' = [op EXCEPT ![o].state = s]
  BY DEF Decide
<1> DEFINE x == [op[o] EXCEPT !.state = s]
<1>4. s \in OperationState BY DEF OperationState
<1>5. /\ x \in OpRows /\ x.state = s /\ x.service = op[o].service /\ x.kind = op[o].kind
      /\ x.work = op[o].work /\ x.policy = op[o].policy /\ x.requested = op[o].requested
  BY <1>2, <1>4, StateRow
<1>6. op' = [op EXCEPT ![o] = x] BY <1>3
<1> HIDE DEF x
<1>7. op'[o] = x /\ x # NoOp BY <1>1, <1>5, <1>6 DEF ServiceTypes
<1>8. /\ policy' = policy /\ engine' = engine /\ lost' = lost /\ run' = run /\ db' = db
      /\ rows' = rows /\ page' = page
  BY DEF Decide
<1>9. PlanOK(o)' /\ PageOK(o)' BY <1>1, <1>2, <1>5, <1>7, <1>8, SamePlan
<1> QED BY <1>2, <1>5, <1>6, <1>8, <1>9, UnclaimedMoves

(* What a new plan has to show. *)
PlannedWell(x) ==
    /\ may_mutate_target(x.kind) => x.policy.can_write /\ x.policy.allow_writes
    /\ x.service = "script" => (x.kind = "sql_script" <=> script_has_write(x.work))

LEMMA NewPlan ==
    ASSUME ServiceInv, NEW o \in Ops, op[o] = NoOp, NEW x \in OpRows, PlannedWell(x),
           op' = [op EXCEPT ![o] = x], page' = page
    PROVE  op'[o] = x /\ PlanOK(o)' /\ PageOK(o)'
<1>1. op'[o] = x BY DEF ServiceInv, ServiceTypes
<1>2. x # NoOp BY Blank
<1>3. PlanOK(o)' BY <1>1 DEF PlanOK, Mutates, PlannedWell
<1>4. page[o] = NoPage BY DEF ServiceInv, PageOK
<1>5. PageOK(o)' BY <1>1, <1>2, <1>4 DEF PageOK
<1> QED BY <1>1, <1>3, <1>5

LEMMA ProposalsKeep ==
    ASSUME ServiceInv, NEW o \in Ops,
           propose_desktop(o) \/ propose_desktop_read(o) \/ propose_postgres_role(o) \/ run_agent_read(o)
    PROVE  ServiceInv'
<1>1. policy \in Policies BY DEF ServiceInv, ServiceTypes
<1>2. op[o] = NoOp
  BY DEF propose_desktop, propose_desktop_read, propose_postgres_role, run_agent_read,
         PlanOperation, PlanRequest
<1>3. PICK x \in OpRows : /\ op' = [op EXCEPT ![o] = x] /\ PlannedWell(x)
                          /\ x.state \in {"pending_approval", "ready"}
  <2>0. {"pending_approval", "ready"} \subseteq OperationState BY DEF OperationState
  <2>1. CASE propose_desktop(o)
    <3>1. PICK s \in Scripts, k \in {"sql_script", "read_query"}, t \in {"pending_approval", "ready"} :
            /\ PlanOperation(o, "script", k, s, t)
            /\ k = "sql_script" <=> script_has_write(s)
            /\ script_has_write(s) => policy.can_write /\ policy.allow_writes
      BY <2>1 DEF propose_desktop
    <3> DEFINE x == [service |-> "script", kind |-> k, work |-> s, requested |-> NoLimit,
                     policy |-> policy, state |-> t]
    <3>2. /\ x \in OpRows /\ x.kind = k /\ x.work = s /\ x.policy = policy /\ x.state = t
      BY <1>1, <2>0 DEF OpRows
    <3>3. op' = [op EXCEPT ![o] = x] BY <3>1 DEF PlanOperation, PlanRequest
    <3> HIDE DEF x
    <3>4. PlannedWell(x) BY <3>1, <3>2 DEF PlannedWell, may_mutate_target
    <3> QED BY <3>2, <3>3, <3>4
  <2>2. CASE propose_desktop_read(o)
    <3>1. PICK q \in Queries : PlanOperation(o, "document", "document_read", q, "ready")
      BY <2>2 DEF propose_desktop_read
    <3> DEFINE x == [service |-> "document", kind |-> "document_read", work |-> q,
                     requested |-> NoLimit, policy |-> policy, state |-> "ready"]
    <3>2. x \in OpRows /\ x.kind = "document_read" /\ x.service = "document" /\ x.state = "ready"
      BY <1>1, <2>0 DEF OpRows
    <3>3. op' = [op EXCEPT ![o] = x] BY <3>1 DEF PlanOperation, PlanRequest
    <3> HIDE DEF x
    <3>4. PlannedWell(x) BY <3>2 DEF PlannedWell, may_mutate_target
    <3> QED BY <3>2, <3>3, <3>4
  <2>3. CASE propose_postgres_role(o)
    <3>1. PICK sql \in {<<"grant">>, <<"revoke">>} :
            PlanOperation(o, "monitoring", "privilege", sql, "pending_approval")
      BY <2>3 DEF propose_postgres_role
    <3> DEFINE x == [service |-> "monitoring", kind |-> "privilege", work |-> sql,
                     requested |-> NoLimit, policy |-> policy, state |-> "pending_approval"]
    <3>2. x \in OpRows /\ x.policy = policy /\ x.service = "monitoring" /\ x.state = "pending_approval"
      BY <1>1, <2>0 DEF OpRows
    <3>3. op' = [op EXCEPT ![o] = x] BY <3>1 DEF PlanOperation, PlanRequest
    <3> HIDE DEF x
    <3>4. PlannedWell(x) BY <2>3, <3>2 DEF PlannedWell, propose_postgres_role
    <3> QED BY <3>2, <3>3, <3>4
  <2>4. CASE run_agent_read(o)
    <3>1. PICK q \in Queries, requested \in RowRequests \cup {NoLimit} :
            PlanRequest(o, "agent_document", "document_read", q, requested, "ready")
      BY <2>4 DEF run_agent_read
    <3> DEFINE x == [service |-> "agent_document", kind |-> "document_read", work |-> q,
                     requested |-> requested, policy |-> policy, state |-> "ready"]
    <3>2. x \in OpRows /\ x.kind = "document_read" /\ x.service = "agent_document" /\ x.state = "ready"
      BY <1>1, <2>0, ServicesAssumption DEF OpRows
    <3>3. op' = [op EXCEPT ![o] = x] BY <3>1 DEF PlanRequest
    <3> HIDE DEF x
    <3>4. PlannedWell(x) BY <3>2 DEF PlannedWell, may_mutate_target
    <3> QED BY <3>2, <3>3, <3>4
  <2> QED BY <2>1, <2>2, <2>3, <2>4
<1>4. /\ policy' = policy /\ engine' = engine /\ lost' = lost /\ run' = run /\ db' = db
      /\ rows' = rows /\ page' = page
  BY DEF propose_desktop, propose_desktop_read, propose_postgres_role, run_agent_read
<1>5. PlanOK(o)' /\ PageOK(o)' BY <1>2, <1>3, <1>4, NewPlan
<1>6. Unclaimed(o) BY <1>2 DEF Unclaimed
<1> QED BY <1>3, <1>4, <1>5, <1>6, UnclaimedMoves

(* A run starts: its operation was free, and is executing now. *)
LEMMA Starts ==
    ASSUME ServiceInv, NEW w \in Workers, NEW o \in Ops, run[w] = Idle, Unclaimed(o),
           NEW pc \in {"audit", "connect"}, run' = [run EXCEPT ![w] = NewRun(o, pc)],
           NEW x \in OpRows, op' = [op EXCEPT ![o] = x], x.state = "executing", x.policy = policy,
           pc = "audit" <=> may_mutate_target(x.kind),
           policy' = policy, engine' = engine, lost' = lost, db' = db, rows' = rows, page' = page,
           PlanOK(o)', PageOK(o)'
    PROVE  ServiceInv'
<1> USE Blank
<1>1. ServiceTypes /\ RestOK(o) BY DEF ServiceInv
<1>2. op'[o] = x /\ x # NoOp /\ \A p \in Ops \ {o} : op'[p] = op[p] BY <1>1 DEF ServiceTypes
<1> DEFINE r == NewRun(o, pc)
<1>3. r \in RunRows /\ r.pc = pc /\ r.op = o /\ r.i = 1 BY DEF NewRun, RunRows, RunPcs
<1>4. run' = [run EXCEPT ![w] = r] OBVIOUS
<1> HIDE DEF r
<1>5. run'[w] = r /\ r # Idle /\ \A v \in Workers \ {w} : run'[v] = run[v]
  BY <1>1, <1>3, <1>4 DEF ServiceTypes
<1>6. ServiceTypes' BY <1>1, <1>3, <1>4 DEF ServiceTypes
<1>7. db[o] = NoEffect /\ rows[o] = {} BY <1>1 DEF RestOK
<1>8. RestOK(o)' BY <1>2, <1>7 DEF RestOK, RestAt, Unclaimed
<1>9. RunOK(w)'
  <2>0. run'[w].op = o /\ run'[w].pc = pc /\ run'[w].i = 1 BY <1>3, <1>5
  <2>1. ClaimAt(run[w].op, run[w])' BY <1>2, <2>0 DEF ClaimAt
  <2>2. Mutates(run[w].op)' <=> pc = "audit" BY <1>2, <2>0 DEF Mutates
  <2>3. Position(run[w].op, run[w].pc)' BY <2>0, <2>2 DEF Position
  <2>4. TargetAt(run[w].op, run[w], db[run[w].op])' BY <1>7, <2>0 DEF TargetAt
  <2>5. RecordsAt(run[w].op, run[w], db[run[w].op], rows[run[w].op])'
    BY <1>7, <2>0, <2>2, <2>4 DEF RecordsAt
  <2> QED BY <2>1, <2>3, <2>5 DEF RunOK
<1>10. \A v \in Workers \ {w} : run[v] # Idle => run[v].op # o BY UnclaimedIsFree
<1> QED BY <1>2, <1>3, <1>5, <1>6, <1>8, <1>9, <1>10, FrameStep

LEMMA ClaimsKeep ==
    ASSUME ServiceInv, NEW w \in Workers, NEW o \in Ops,
           run_desktop(w, o) \/ run_desktop_read(w, o) \/ claim_agent_read(w, o) \/ run_postgres_role(w, o)
    PROVE  ServiceInv'
<1> USE Blank
<1>1. ServiceTypes /\ PlanOK(o) /\ PageOK(o) BY DEF ServiceInv
<1>2. PICK pc \in {"audit", "connect"} : Claim(w, o, pc) /\ (pc = "audit" <=> Mutates(o))
  <2>0. op[o] # NoOp /\ op[o] \in OpRows
    BY <1>1 DEF run_desktop, run_desktop_read, claim_agent_read, run_postgres_role, ServiceTypes
  <2>1. CASE run_desktop(w, o)
    <3>1. op[o].service = "script" BY <2>1 DEF run_desktop
    <3>2. script_has_write(op[o].work) <=> Mutates(o)
      BY <1>1, <2>0, <3>1, PlanFacts DEF PlanOK, Mutates
    <3>3. CASE script_has_write(op[o].work) BY <2>1, <3>2, <3>3 DEF run_desktop
    <3>4. CASE ~script_has_write(op[o].work) BY <2>1, <3>2, <3>4 DEF run_desktop
    <3> QED BY <3>3, <3>4
  <2>2. CASE run_desktop_read(w, o)
    <3>1. ~Mutates(o) BY <2>0, <2>2, PlanFacts DEF run_desktop_read, Mutates
    <3> QED BY <2>2, <3>1 DEF run_desktop_read
  <2>3. CASE run_postgres_role(w, o)
    <3>1. Mutates(o) BY <2>0, <2>3, PlanFacts DEF run_postgres_role, Mutates
    <3> QED BY <2>3, <3>1 DEF run_postgres_role
  <2>4. CASE claim_agent_read(w, o)
    <3>1. ~Mutates(o) BY <2>0, <2>4, PlanFacts DEF claim_agent_read, Mutates
    <3> QED BY <2>4, <3>1 DEF claim_agent_read
  <2> QED BY <2>1, <2>2, <2>3, <2>4
<1>3. /\ op[o] # NoOp /\ op[o].policy = policy
      /\ policy' = policy /\ engine' = engine /\ lost' = lost /\ db' = db /\ rows' = rows /\ page' = page
  BY DEF run_desktop, run_desktop_read, claim_agent_read, run_postgres_role
<1>4. /\ run[w] = Idle /\ Unclaimed(o) /\ op' = [op EXCEPT ![o].state = "executing"]
      /\ run' = [run EXCEPT ![w] = NewRun(o, pc)]
  BY <1>2 DEF Claim, Unclaimed
<1>5. op[o] \in OpRows BY <1>1, <1>3 DEF ServiceTypes
<1> DEFINE x == [op[o] EXCEPT !.state = "executing"]
<1>6. "executing" \in OperationState BY DEF OperationState
<1>7. /\ x \in OpRows /\ x.state = "executing" /\ x.service = op[o].service /\ x.kind = op[o].kind
      /\ x.work = op[o].work /\ x.policy = op[o].policy /\ x.requested = op[o].requested
  BY <1>5, <1>6, StateRow
<1>8. op' = [op EXCEPT ![o] = x] BY <1>4
<1> HIDE DEF x
<1>9. op'[o] = x /\ x # NoOp BY <1>1, <1>7, <1>8 DEF ServiceTypes
<1>10. PlanOK(o)' /\ PageOK(o)' BY <1>1, <1>3, <1>7, <1>9, SamePlan
<1>11. pc = "audit" <=> may_mutate_target(x.kind) BY <1>2, <1>7 DEF Mutates
<1> QED BY <1>3, <1>4, <1>7, <1>8, <1>10, <1>11, Starts

(* The last steps of a run, after which nothing of it changes the target:  *)
(* op[o] becomes x, the rows s, and w goes to its record or ends.          *)
LEMMA Finishes ==
    ASSUME ServiceInv, NEW w \in Workers, NEW o \in Ops, run[w].pc \in {"receipt", "record"}, run[w].op = o,
           NEW x \in OpRows, op' = [op EXCEPT ![o] = x], x.service = op[o].service,
           x.kind = op[o].kind, x.work = op[o].work, x.policy = op[o].policy, x.requested = op[o].requested,
           NEW s \in SUBSET RowNames, rows' = [rows EXCEPT ![o] = s], RestAt(o, db[o], s),
           db' = db, page' = page, policy' = policy, engine' = engine, lost \subseteq lost',
           x.state \in Outcomes \cup {"executing"},
           x.state = "succeeded" => s \cap Bad = {} /\ (Mutates(o) => KeptBy(o, db[o])),
           x.state \in {"failed", "cancelled"} /\ Mutates(o) => CleanBy(o, db[o]),
           x.state = "executing" => o \in lost',
           \/ EndRun(w)
           \/ /\ Goto(w, "record") /\ x.service = "document" /\ run[w].after # "none"
              /\ x.state = "succeeded" => run[w].after = "ok"
    PROVE  ServiceInv'
<1> USE Blank
<1>0. run[w].pc # "idle" OBVIOUS
<1>1. /\ ServiceTypes /\ op[o] # NoOp /\ op[o] \in OpRows /\ PlanOK(o) /\ PageOK(o)
      /\ op[o].policy = policy
  BY <1>0, RunFacts DEF ServiceInv, ClaimAt
<1>2. op'[o] = x /\ x # NoOp /\ \A p \in Ops \ {o} : op'[p] = op[p] BY <1>1 DEF ServiceTypes
<1>3. rows'[o] = s /\ \A p \in Ops \ {o} : rows'[p] = rows[p] BY <1>1 DEF ServiceTypes
<1>4. /\ PlanOK(o)' /\ PageOK(o)' /\ (Mutates(o)' <=> Mutates(o)) /\ Effects(o)' = Effects(o)
      /\ CommitsAreSeen(o)' <=> CommitsAreSeen(o)
  BY <1>1, <1>2, SamePlan
<1>5. RestOK(o)'
  <2>1. RestAt(o, db[o], rows[o])' BY <1>1, <1>3, <1>4 DEF RestAt, KeptBy
  <2>2. ~Unclaimed(o)' BY <1>2 DEF Unclaimed, Outcomes
  <2>3. op'[o].state = "succeeded" => s \cap Bad = {} /\ (Mutates(o)' => KeptBy(o, db[o])')
    BY <1>2, <1>4 DEF KeptBy
  <2>4. op'[o].state \in {"failed", "cancelled"} /\ Mutates(o)' => CleanBy(o, db[o])'
    BY <1>2, <1>4 DEF CleanBy
  <2> QED BY <1>3, <2>1, <2>2, <2>3, <2>4 DEF RestOK
<1>6. \A v \in Workers \ {w} : run[v] # Idle => run[v].op # o BY <1>0, OwnsAlone
<1>7. CASE EndRun(w)
  <2>1. run' = [run EXCEPT ![w] = Idle] BY <1>7 DEF EndRun
  <2>2. run'[w] = Idle /\ \A v \in Workers \ {w} : run'[v] = run[v] BY <1>1, <2>1 DEF ServiceTypes
  <2>3. ServiceTypes' BY <1>1, <2>1 DEF ServiceTypes
  <2> QED BY <1>2, <1>3, <1>4, <1>5, <1>6, <2>2, <2>3, FrameStep
<1>8. CASE /\ Goto(w, "record") /\ x.service = "document" /\ run[w].after # "none"
           /\ x.state = "succeeded" => run[w].after = "ok"
  <2>0. "record" \in RunPcs BY DEF RunPcs
  <2>1. PICK r \in RunRows : /\ run' = [run EXCEPT ![w] = r] /\ r.pc = "record" /\ r.op = o
                             /\ r.after = run[w].after
    BY <1>0, <1>8, <2>0, GotoRow
  <2>2. run'[w] = r /\ r # Idle /\ \A v \in Workers \ {w} : run'[v] = run[v]
    BY <1>1, <2>1 DEF ServiceTypes
  <2>3. ServiceTypes' BY <1>1, <2>1 DEF ServiceTypes
  <2>4. ~Mutates(o) BY <1>1, <1>8, PlanFacts DEF Mutates
  <2>5. run'[w].op = o /\ run'[w].pc = "record" /\ run'[w].after = run[w].after BY <2>1, <2>2
  <2>6. ClaimAt(run[w].op, run[w])' BY <1>1, <1>2, <1>8, <2>5 DEF ClaimAt, Outcomes
  <2>7. Position(run[w].op, run[w].pc)' BY <2>5 DEF Position
  <2>8. ~Mutates(run[w].op)' BY <1>4, <2>4, <2>5 DEF Mutates
  <2>9. RecordsAt(run[w].op, run[w], db[run[w].op], rows[run[w].op])' BY <2>5, <2>8 DEF RecordsAt
  <2>10. RunOK(w)' BY <2>6, <2>7, <2>9 DEF RunOK
  <2> QED BY <1>2, <1>3, <1>4, <1>5, <1>6, <2>2, <2>3, <2>5, <2>10, FrameStep
<1> QED BY <1>7, <1>8

LEMMA ReceiptKeeps ==
    ASSUME ServiceInv, NEW w \in Workers, WriteReceipt(w)
    PROVE  ServiceInv'
<1> USE Blank
<1>0. run[w].pc = "receipt" /\ run[w].pc # "idle" BY DEF WriteReceipt
<1>1. PICK o \in Ops : o = run[w].op BY <1>0, RunFacts
<1>2. /\ ClaimAt(o, run[w]) /\ RecordsAt(o, run[w], db[o], rows[o]) /\ RestOK(o) /\ run[w] \in RunRows
      /\ op[o] \in OpRows /\ db[o] \in TargetRows /\ ServiceTypes
  BY <1>0, <1>1, RunFacts DEF ServiceInv
<1>3. /\ op[o].state = "executing" /\ op[o] # NoOp /\ run[w].outcome # "none"
      /\ run[w].after # "none" => op[o].service = "document" /\ (run[w].outcome = "succeeded" => run[w].after = "ok")
      /\ run[w].outcome = "succeeded" => rows[o] \cap Bad = {}
  BY <1>0, <1>2 DEF ClaimAt, RecordsAt
<1>4. PICK out \in Outcomes : out = run[w].outcome BY <1>2, <1>3 DEF RunRows
<1>5. Mutates(o) => /\ out = "succeeded" => KeptBy(o, db[o])
                    /\ out \in {"failed", "cancelled"} => CleanBy(o, db[o])
  BY <1>0, <1>2, <1>4 DEF RecordsAt, TargetAt
<1>6. /\ rows[o] \in SUBSET RowNames /\ rows' = [rows EXCEPT ![o] = rows[o]] /\ RestAt(o, db[o], rows[o])
      /\ db' = db /\ page' = page /\ policy' = policy /\ engine' = engine
  BY <1>2 DEF WriteReceipt, ServiceTypes, RestOK
<1>7. CASE /\ op' = [op EXCEPT ![o].state = out] /\ lost' = lost
           /\ IF run[w].after = "none" THEN EndRun(w) ELSE Goto(w, "record")
  <2> DEFINE x == [op[o] EXCEPT !.state = out]
  <2>1. out \in OperationState BY DEF Outcomes, OperationState
  <2>2. /\ x \in OpRows /\ x.state = out /\ x.service = op[o].service /\ x.kind = op[o].kind
        /\ x.work = op[o].work /\ x.policy = op[o].policy /\ x.requested = op[o].requested
    BY <1>2, <2>1, StateRow
  <2>3. op' = [op EXCEPT ![o] = x] BY <1>7
  <2> HIDE DEF x
  <2>4. out # "executing" /\ out \in Outcomes \cup {"executing"} BY DEF Outcomes
  <2>5. EndRun(w) \/ (Goto(w, "record") /\ x.service = "document" /\ run[w].after # "none"
                      /\ (x.state = "succeeded" => run[w].after = "ok"))
    BY <1>3, <1>4, <1>7, <2>2
  <2>6. /\ x.state \in Outcomes \cup {"executing"} /\ x.state # "executing" /\ lost \subseteq lost'
        /\ x.state = "succeeded" => rows[o] \cap Bad = {} /\ (Mutates(o) => KeptBy(o, db[o]))
        /\ x.state \in {"failed", "cancelled"} /\ Mutates(o) => CleanBy(o, db[o])
    BY <1>3, <1>4, <1>5, <1>7, <2>2, <2>4
  <2> QED BY <1>0, <1>1, <1>6, <2>2, <2>3, <2>5, <2>6, Finishes
<1>8. CASE op' = op /\ lost' = lost \cup {o} /\ (EndRun(w) \/ (run[w].after = "error" /\ Goto(w, "record")))
  <2>1. op' = [op EXCEPT ![o] = op[o]] BY <1>2, <1>8 DEF ServiceTypes
  <2>2. lost \subseteq lost' /\ o \in lost' BY <1>8
  <2> QED BY <1>0, <1>1, <1>2, <1>3, <1>6, <1>8, <2>1, <2>2, Finishes
<1>9. CASE /\ op' = op /\ lost' = lost \cup {o}
           /\ \E second \in {"failed", "outcome_unknown"} :
                 /\ Conclude(w, second, "none")
                 /\ second = "failed" => op[o].service = "agent_document"
  <2>1. PICK second \in {"failed", "outcome_unknown"} :
          /\ Conclude(w, second, "none") /\ (second = "failed" => op[o].service = "agent_document")
    BY <1>9
  <2>2. second \in Outcomes /\ second \notin {"none", "succeeded", "cancelled"} BY DEF Outcomes
  <2>3. PICK r \in RunRows : /\ run' = [run EXCEPT ![w] = r] /\ r.pc = "receipt" /\ r.op = o
                             /\ r.outcome = second /\ r.after = "none"
    BY <1>0, <1>1, <2>1, <2>2, ConcludeRow
  <2>4. Mutates(o) => second # "failed" BY <1>2, <2>1, PlanFacts DEF Mutates
  <2>5. Mutates(o) => TargetAt(o, r, db[o]) BY <2>2, <2>3, <2>4 DEF TargetAt
  <2>6. RecordsAt(o, r, db[o], rows[o]) BY <2>2, <2>3, <2>5 DEF RecordsAt
  <2>7. Position(o, r.pc) BY <2>3 DEF Position
  <2>8. db' = [db EXCEPT ![o] = db[o]] BY <1>2, <1>6 DEF ServiceTypes
  <2>9. PageStep(o) BY <1>6, <1>9, PageStands
  <2>10. lost \subseteq lost' BY <1>9
  <2> QED BY <1>0, <1>1, <1>2, <1>6, <1>9, <2>3, <2>6, <2>7, <2>8, <2>9, <2>10, Advances
<1> QED BY <1>1, <1>4, <1>7, <1>8, <1>9 DEF WriteReceipt

LEMMA RecordKeeps ==
    ASSUME ServiceInv, NEW w \in Workers, RecordAfterReceipt(w)
    PROVE  ServiceInv'
<1> USE Blank
<1>0. run[w].pc = "record" /\ run[w].pc # "idle" BY DEF RecordAfterReceipt
<1>1. PICK o \in Ops : o = run[w].op BY <1>0, RunFacts
<1>2. /\ ClaimAt(o, run[w]) /\ RestOK(o) /\ run[w] \in RunRows /\ op[o] \in OpRows /\ ServiceTypes
  BY <1>0, <1>1, RunFacts DEF ServiceInv
<1>3. PICK row \in {"ok", "error"} : row = run[w].after BY <1>0, <1>2 DEF ClaimAt, RunRows
<1>4. /\ op[o] # NoOp /\ op[o].service = "document"
      /\ op[o].state \in Outcomes \cup {"executing"}
      /\ op[o].state = "executing" => o \in lost
      /\ op[o].state = "succeeded" => row = "ok"
  BY <1>0, <1>2, <1>3 DEF ClaimAt, Outcomes
<1>5. ~Mutates(o) BY <1>2, <1>4, PlanFacts DEF Mutates
<1>6. /\ EndRun(w) /\ op' = op /\ db' = db /\ page' = page /\ policy' = policy /\ engine' = engine
      /\ lost' = lost
  BY DEF RecordAfterReceipt
<1>7. PICK s \in SUBSET RowNames : rows' = [rows EXCEPT ![o] = s] /\ (s = rows[o] \/ s = rows[o] \cup {row})
  <2>0. rows[o] \in SUBSET RowNames /\ row \in RowNames BY <1>2 DEF ServiceTypes, RowNames
  <2>1. Record(o, row) BY <1>1, <1>3 DEF RecordAfterReceipt, record_desktop_outcome
  <2>2. CASE rows' = rows BY <1>2, <2>0, <2>2 DEF ServiceTypes
  <2>3. CASE rows' = [rows EXCEPT ![o] = rows[o] \cup {row}] BY <2>0, <2>3
  <2> QED BY <2>1, <2>2, <2>3 DEF Record
<1>8. db[o] = NoEffect BY <1>2, <1>4, <1>5 DEF RestOK, RestAt
<1>9. RestAt(o, db[o], s) BY <1>4, <1>5, <1>8 DEF RestAt
<1>10. op[o].state = "succeeded" => s \cap Bad = {} BY <1>2, <1>4, <1>7 DEF RestOK, Bad
<1>11. op' = [op EXCEPT ![o] = op[o]] BY <1>2, <1>6 DEF ServiceTypes
<1> QED BY <1>0, <1>1, <1>2, <1>4, <1>5, <1>6, <1>7, <1>9, <1>10, <1>11, Finishes

(* Steps that touch no operation: a cancellation and a policy change. *)
LEMMA PolicyKeeps ==
    ASSUME ServiceInv, ChangePolicy
    PROVE  ServiceInv'
<1>1. ServiceTypes /\ policy \in Policies BY DEF ServiceInv, ServiceTypes
<1>2. /\ op' = op /\ run' = run /\ db' = db /\ page' = page /\ rows' = rows /\ lost' = lost
      /\ engine' = engine /\ \A w \in Workers : run[w] = Idle
  BY DEF ChangePolicy
<1>3. policy' \in Policies
  <2>1. PICK k \in {policy.revision, policy.revision + 1}, cw \in BOOLEAN, aw \in BOOLEAN :
          policy' = [policy EXCEPT !.revision = k, !.can_write = cw, !.allow_writes = aw]
    BY DEF ChangePolicy
  <2>2. k \in Nat BY <1>1, <2>1 DEF Policies
  <2> QED BY <1>1, <2>1, <2>2 DEF Policies
<1>4. ServiceTypes' BY <1>1, <1>2, <1>3 DEF ServiceTypes
<1>5. \A o \in Ops : (PlanOK(o) /\ RestOK(o) /\ PageOK(o))' BY <1>2, OpStands DEF ServiceInv
<1>6. OneRunEach' /\ ExecutingIsOwned' BY <1>2 DEF ServiceInv, OneRunEach, ExecutingIsOwned, IsRunning
<1> QED BY <1>2, <1>4, <1>5, <1>6 DEF ServiceInv

LEMMA StandsStill ==
    ASSUME ServiceInv, op' = op, run' = run, db' = db, page' = page, rows' = rows, lost' = lost,
           policy' = policy, engine' = engine
    PROVE  ServiceInv'
<1>1. ServiceTypes' BY DEF ServiceInv, ServiceTypes
<1>2. \A o \in Ops : (PlanOK(o) /\ RestOK(o) /\ PageOK(o))' BY OpStands DEF ServiceInv
<1>3. OneRunEach' /\ ExecutingIsOwned' BY DEF ServiceInv, OneRunEach, ExecutingIsOwned, IsRunning
<1>4. ASSUME NEW v \in Workers, run'[v] # Idle PROVE RunOK(v)'
  <2>1. run[v] \in RunRows /\ RunOK(v) BY <1>4 DEF ServiceInv, ServiceTypes
  <2>2. PICK p \in Ops : p = run[v].op BY <2>1 DEF RunRows
  <2> QED BY <2>1, <2>2, RunStands
<1> QED BY <1>1, <1>2, <1>3, <1>4 DEF ServiceInv

(* Recovery after a restart closes what was open, and says no more of the  *)
(* target than is known.                                                   *)
LEMMA RestartKeeps ==
    ASSUME ServiceInv, Restart
    PROVE  ServiceInv'
<1> USE Blank
<1>1. ServiceTypes BY DEF ServiceInv
<1>2. /\ run' = [w \in Workers |-> Idle] /\ rows' = rows /\ page' = page /\ policy' = policy
      /\ engine' = engine /\ lost' = lost
  BY DEF Restart
<1>3. ASSUME NEW o \in Ops, op[o] # NoOp
      PROVE  /\ op[o] \in OpRows /\ op'[o] \in OpRows /\ op'[o] # NoOp
             /\ op'[o].service = op[o].service /\ op'[o].kind = op[o].kind
             /\ op'[o].work = op[o].work /\ op'[o].policy = op[o].policy
             /\ op'[o].requested = op[o].requested
             /\ op'[o].state = restart_recovery(op[o].kind, op[o].state)
             /\ op'[o].state # "executing"
  <2>1. op[o] \in OpRows BY <1>1, <1>3 DEF ServiceTypes
  <2>2. op[o].state \in OperationState /\ ~is_resumable_job(op[o].kind)
    BY <2>1, PlanFacts DEF is_resumable_job
  <2>3. /\ restart_recovery(op[o].kind, op[o].state) \in OperationState
        /\ restart_recovery(op[o].kind, op[o].state) # "executing"
    BY <2>2 DEF restart_recovery, is_terminal, TerminalState, OperationState
  <2>4. op'[o] = [op[o] EXCEPT !.state = restart_recovery(op[o].kind, op[o].state)]
    BY <1>3 DEF Restart
  <2> HIDE DEF Restart
  <2> QED BY <2>1, <2>3, <2>4, StateRow
<1>4. ASSUME NEW o \in Ops
      PROVE  /\ db'[o] \in TargetRows /\ db'[o].tx = db[o].tx /\ db'[o].kept = db[o].kept
             /\ db'[o].open = IF db[o].tx = "committing" THEN db[o].open ELSE {}
             /\ db[o] = NoEffect => db'[o] = NoEffect
  <2>1. db[o] \in TargetRows BY <1>1 DEF ServiceTypes
  <2>2. db'[o] = IF db[o].tx = "committing" THEN db[o] ELSE [db[o] EXCEPT !.open = {}] BY DEF Restart
  <2>3. db[o] = NoEffect => db'[o] = NoEffect BY <2>2 DEF NoEffect
  <2> QED BY <2>1, <2>2, <2>3 DEF TargetRows
<1>5. \A o \in Ops : op[o] = NoOp => op'[o] = NoOp BY DEF Restart
<1>6. ServiceTypes'
  <2>1. op' \in [Ops -> OpRows \cup {NoOp}]
    <3>1. op' = [o \in Ops |-> op'[o]] BY DEF Restart
    <3> QED BY <1>3, <1>5, <3>1
  <2>2. db' \in [Ops -> TargetRows]
    <3>1. db' = [o \in Ops |-> db'[o]] BY DEF Restart
    <3> QED BY <1>4, <3>1
  <2> QED BY <1>1, <1>2, <2>1, <2>2 DEF ServiceTypes
<1>7. ASSUME NEW o \in Ops PROVE PlanOK(o)' /\ RestOK(o)' /\ PageOK(o)'
  <2>1. PlanOK(o) /\ RestOK(o) /\ PageOK(o) BY DEF ServiceInv
  <2>2. CASE op[o] = NoOp
    <3>1. op'[o] = NoOp /\ db'[o] = db[o] BY <1>4, <1>5, <2>1, <2>2 DEF RestOK, Unclaimed
    <3> QED BY <1>2, <2>1, <2>2, <3>1, OpStands
  <2>3. CASE op[o] # NoOp
    <3>1. /\ PlanOK(o)' /\ PageOK(o)' /\ (Mutates(o)' <=> Mutates(o)) /\ Effects(o)' = Effects(o)
          /\ CommitsAreSeen(o)' <=> CommitsAreSeen(o)
      BY <1>2, <1>3, <2>1, <2>3, SamePlan
    <3>2. RestAt(o, db[o], rows[o])'
      BY <1>2, <1>3, <1>4, <2>1, <2>3, <3>1 DEF RestOK, RestAt, KeptBy
    <3>3. /\ op[o].state \in OperationState /\ ~is_resumable_job(op[o].kind)
      BY <1>3, <2>3, PlanFacts DEF is_resumable_job
    <3>4. /\ Unclaimed(o)' => Unclaimed(o)
          /\ op'[o].state = "succeeded" => op[o].state = "succeeded"
          /\ op'[o].state \in {"failed", "cancelled"} /\ Mutates(o) => op[o].state \in {"failed", "cancelled"}
      BY <1>3, <2>3, <3>3
      DEF restart_recovery, is_terminal, TerminalState, OperationState, Unclaimed, Mutates
    <3>5. Unclaimed(o) => db'[o] = NoEffect /\ rows'[o] = {} BY <1>2, <1>4, <2>1 DEF RestOK
    <3>6. op[o].state = "succeeded" =>
            rows'[o] \cap Bad = {} /\ (Mutates(o)' => KeptBy(o, db[o])')
      BY <1>2, <1>4, <2>1, <2>3, <3>1 DEF RestOK, KeptBy
    <3>7. op[o].state \in {"failed", "cancelled"} /\ Mutates(o) => CleanBy(o, db[o])'
      BY <1>4, <2>1, <2>3, <3>1 DEF RestOK, CleanBy
    <3> QED BY <3>1, <3>2, <3>4, <3>5, <3>6, <3>7 DEF RestOK
  <2> QED BY <2>2, <2>3
<1>8. OneRunEach' BY <1>2 DEF OneRunEach
<1>9. ExecutingIsOwned' BY <1>3, <1>5 DEF ExecutingIsOwned
<1> QED BY <1>2, <1>6, <1>7, <1>8, <1>9 DEF ServiceInv

LEMMA ServiceInit == Init => ServiceInv
<1> SUFFICES ASSUME Init PROVE ServiceInv OBVIOUS
<1> USE Blank
<1>1. policy \in Policies BY DEF Init, Policies
<1>2. /\ op = [o \in Ops |-> NoOp] /\ run = [w \in Workers |-> Idle] /\ db = [o \in Ops |-> NoEffect]
      /\ page = [o \in Ops |-> NoPage] /\ rows = [o \in Ops |-> {}]
  BY DEF Init
<1>3. ServiceTypes BY <1>1, <1>2 DEF ServiceTypes
<1>4. \A o \in Ops : PlanOK(o) /\ RestOK(o) /\ PageOK(o)
  BY <1>2 DEF PlanOK, RestOK, RestAt, PageOK, Unclaimed
<1>5. OneRunEach /\ ExecutingIsOwned BY <1>2 DEF OneRunEach, ExecutingIsOwned
<1> QED BY <1>2, <1>3, <1>4, <1>5 DEF ServiceInv

LEMMA ServiceStep ==
    ASSUME ServiceInv, [Next]_vars
    PROVE  ServiceInv'
<1>1. CASE UNCHANGED vars BY <1>1, StandsStill DEF vars
<1>2. CASE ChangePolicy BY <1>2, PolicyKeeps
<1>3. CASE Restart BY <1>3, RestartKeeps
<1>4. ASSUME NEW o \in Ops,
             \/ propose_desktop(o) \/ propose_desktop_read(o) \/ propose_postgres_role(o)
             \/ run_agent_read(o) \/ Decide(o) \/ cancel_query(o) \/ TargetDecides(o) \/ set_postgres_role(o)
      PROVE  ServiceInv'
  <2>1. CASE cancel_query(o) BY <2>1, StandsStill DEF cancel_query
  <2> QED BY <1>4, <2>1, ProposalsKeep, DecideKeeps, DecisionKeeps, SetRoleKeeps
<1>5. ASSUME NEW w \in Workers, NEW o \in Ops,
             \/ run_desktop(w, o) \/ run_desktop_read(w, o) \/ claim_agent_read(w, o) \/ run_postgres_role(w, o)
      PROVE  ServiceInv'
  BY <1>5, ClaimsKeep
<1>6. ASSUME NEW w \in Workers, RunStep(w)
      PROVE  ServiceInv'
  BY <1>6, ConnectKeeps, ReceiptKeeps, RecordKeeps, ReadsKeep, AuditKeeps, BeginKeeps, StatementKeeps,
     CommitKeeps, WriteKeeps, QueriesKeep, RoleKeeps
  DEF RunStep, BoundedStep
<1> QED BY <1>1, <1>2, <1>3, <1>4, <1>5, <1>6 DEF Next

(* The inductive invariant of the script, document and monitoring          *)
(* services: whatever the store, the target, a cancellation or a restart   *)
(* do, a run stands where its claim, its target and its rows say it does.  *)
THEOREM ServiceInvariance == Spec => []ServiceInv
<1>1. Init => ServiceInv BY ServiceInit
<1>2. ServiceInv /\ [Next]_vars => ServiceInv' BY ServiceStep
<1> QED BY <1>1, <1>2, PTL DEF Spec

(* For every number of operations, runs, statements, rows and restarts:    *)
(* the receipt, the audit row, the history row and the page of an          *)
(* operation agree with its target (run_write, execute_script_transaction, *)
(* set_postgres_role and the document reads).  A failed script has left    *)
(* nothing in the target unless L1 does not see one of its commits.        *)
THEOREM ServicesStayHonest == Spec => []ServiceRecordsAreHonest
<1>1. ServiceInv => ServiceRecordsAreHonest
  <2> SUFFICES ASSUME ServiceInv PROVE ServiceRecordsAreHonest OBVIOUS
  <2>1. HonestServiceReceipts
    <3> SUFFICES ASSUME NEW o \in Ops, op[o] # NoOp, Mutates(o)
                 PROVE  /\ op[o].state = "succeeded" => db[o].kept = Effects(o)
                        /\ op[o].state \in TerminalState \ {"succeeded", "outcome_unknown"} =>
                              /\ db[o].tx # "committing" /\ db[o].open = {}
                              /\ CommitsAreSeen(o) => db[o].kept = {}
      BY DEF HonestServiceReceipts, Mutates
    <3>1. RestOK(o) BY DEF ServiceInv
    <3> QED BY <3>1, Blank DEF RestOK, Unclaimed, KeptBy, CleanBy, TerminalState
  <2>2. AttemptIsAudited BY DEF AttemptIsAudited, ServiceInv, RestOK, RestAt
  <2>3. HistoryAgreesWithTarget
    <3> SUFFICES ASSUME NEW o \in Ops, op[o] # NoOp
                 PROVE  /\ "ok" \in rows[o] /\ Mutates(o) => db[o].kept = Effects(o)
                        /\ op[o].state = "succeeded" => rows[o] \cap Bad = {}
      BY DEF HistoryAgreesWithTarget, Mutates, Bad
    <3>1. RestOK(o) BY DEF ServiceInv
    <3> QED BY <3>1 DEF RestOK, RestAt, KeptBy
  <2>4. PageIsExact BY DEF PageIsExact, ServiceInv, PageOK
  <2> QED BY <2>1, <2>2, <2>3, <2>4 DEF ServiceRecordsAreHonest
<1> QED BY <1>1, ServiceInvariance, PTL

(* No early return of a service forgets the row it has claimed: an         *)
(* executing operation has a run, unless the local store refused its       *)
(* receipt (run_write, run_reads, run_postgres_role, run_desktop_read,     *)
(* run_agent_read).                                                        *)
THEOREM ExecutingStaysOwned == Spec => []ExecutingIsOwned
<1>1. ServiceInv => ExecutingIsOwned BY DEF ServiceInv
<1> QED BY <1>1, ServiceInvariance, PTL
================================================================================
