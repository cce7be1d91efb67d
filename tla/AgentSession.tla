----------------------------- MODULE AgentSession -----------------------------
(***************************************************************************)
(* The voice agent on one answered call: the durable session               *)
(* (ai/orchestration, ai/conversations), the worker that attaches media to *)
(* the channel and listens to the control socket (runtime/agent), and the  *)
(* jobs that recover controls and close sessions of terminated calls       *)
(* (runtime/worker/recovery.go, reconciliation.go).                        *)
(*                                                                         *)
(* One worker process runs the FreeSWITCH event handler, an observer per   *)
(* control connection, tool goroutines and the two jobs at the same time.  *)
(* It may crash between any two steps; FreeSWITCH events are then lost.    *)
(* The media node is the one of MediaSession, reduced to what its clients  *)
(* see: a stream per session id and one control connection per stream.     *)
(***************************************************************************)
EXTENDS Naturals, FiniteSets, FiniteSetsExt

CONSTANTS
    AgentSessionIds, \* ids of voice_agent_sessions rows
    NoSession,
    MaxTurns,        \* turns of a session (bound)
    AgentFaults      \* crashes, lost events, refused or failed requests (bound)

ASSUME AgentAssumption ==
    /\ NoSession \notin AgentSessionIds
    /\ MaxTurns \in Nat /\ AgentFaults \in Nat

VARIABLES
    call,         \* the call: its row, its channel, what FreeSWITCH knows of the agent
    sessionRow,   \* voice_agent_sessions
    turnRows,     \* sequences of voice_agent_turns, per session
    audioStream,       \* the media node's session
    socket,       \* the control connection: closed, open, or held by the node alone
    memory,       \* Runtime.controls, states (next sequence or 0), callSessions; tools
    writing,      \* sequences handed out and not written yet
    handler,      \* the FreeSWITCH event handler
    recovery,     \* the recovery job
    agentFaults

agentVars == <<call, sessionRow, turnRows, audioStream, socket, memory, writing, handler,
               recovery, agentFaults>>

HandlerAt == {"idle", "attach", "variable", "create", "control", "fork", "clock", "setvar",
              "mark", "stop", "fail", "hangup", "complete", "stopped"}

AgentTypeOK ==
    /\ call \in [state: {"answered", "ended"}, live: BOOLEAN, forks: SUBSET AgentSessionIds,
                 var: AgentSessionIds \cup {NoSession}, events: SUBSET {"answered", "hangup"},
                 repeats: BOOLEAN]  \* FreeSWITCH may repeat an event on this connection
    /\ sessionRow \in [AgentSessionIds -> [state: {"none", "active", "failed", "completed"},
                                           mediaStarted: BOOLEAN]]
    /\ turnRows \in [AgentSessionIds -> SUBSET (1..MaxTurns)]
    /\ audioStream \in [AgentSessionIds -> {"none", "waiting", "attached", "failed"}]
    /\ socket \in [AgentSessionIds -> {"closed", "open", "held"}]
    /\ memory \in [controls: [AgentSessionIds -> BOOLEAN],
                   states: [AgentSessionIds -> 0..(MaxTurns + 1)],
                   callSession: AgentSessionIds \cup {NoSession},
                   tools: SUBSET AgentSessionIds]
    /\ writing \in [AgentSessionIds -> SUBSET (1..MaxTurns)]
    /\ handler \in [at: HandlerAt, s: AgentSessionIds \cup {NoSession}]
    /\ recovery \in [at: {"idle", "read", "checked", "opened"},
                     s: AgentSessionIds \cup {NoSession}, next: 0..(MaxTurns + 1)]
    /\ agentFaults \in 0..AgentFaults

NoMemory == [controls |-> [s \in AgentSessionIds |-> FALSE],
             states |-> [s \in AgentSessionIds |-> 0], callSession |-> NoSession,
             tools |-> {}]
IdleHandler == [at |-> "idle", s |-> NoSession]
IdleRecovery == [at |-> "idle", s |-> NoSession, next |-> 0]

\* The call was answered and its event waits in the queue of the worker.
AgentInit ==
    /\ call = [state |-> "answered", live |-> TRUE, forks |-> {}, var |-> NoSession,
               events |-> {"answered"}, repeats |-> TRUE]
    /\ sessionRow = [s \in AgentSessionIds |-> [state |-> "none", mediaStarted |-> FALSE]]
    /\ turnRows = [s \in AgentSessionIds |-> {}]
    /\ audioStream = [s \in AgentSessionIds |-> "none"]
    /\ socket = [s \in AgentSessionIds |-> "closed"]
    /\ memory = NoMemory
    /\ writing = [s \in AgentSessionIds |-> {}]
    /\ handler = IdleHandler /\ recovery = IdleRecovery
    /\ agentFaults = 0

AgentFault == agentFaults < AgentFaults /\ agentFaults' = agentFaults + 1
Running(s) == audioStream[s] \in {"waiting", "attached"}

(***************************************************************************)
(* The tables                                                              *)
(***************************************************************************)
\* GetActiveVoiceAgentSessionByCallID: the partial unique index allows one.
ActiveByCall == {s \in AgentSessionIds : sessionRow[s].state = "active"}

\* CreateVoiceAgentSession inserts only for an answered call that has not ended.
CreateVoiceAgentSession(s) ==
    /\ call.state = "answered" /\ ActiveByCall = {} /\ sessionRow[s].state = "none"
    /\ sessionRow' = [sessionRow EXCEPT ![s].state = "active"]

\* CompleteVoiceAgentSession of the call's active session, if it has one.
CompleteActive(state) ==
    sessionRow' = [s \in AgentSessionIds |->
                      IF s \in ActiveByCall THEN [sessionRow[s] EXCEPT !.state = state]
                      ELSE sessionRow[s]]

\* Mutant: a session that media never started for is left alone.
ReconcileTerminatedStarted ==
    /\ call.state = "ended" /\ \E s \in ActiveByCall : sessionRow[s].mediaStarted
    /\ CompleteActive("completed")
    /\ UNCHANGED <<call, turnRows, audioStream, socket, memory, writing, handler, recovery,
                   agentFaults>>

\* ReconcileTerminatedVoiceAgentSessions closes what a terminal call left active.
ReconcileTerminated ==
    /\ call.state = "ended" /\ ActiveByCall # {}
    /\ CompleteActive("completed")
    /\ UNCHANGED <<call, turnRows, audioStream, socket, memory, writing, handler, recovery,
                   agentFaults>>

(***************************************************************************)
(* attach: the handler of the answered event                               *)
(***************************************************************************)
Goto(at, s) == handler' = [at |-> at, s |-> s]
\* attach leaves these alone until it registers the control.
AttachUnchanged == UNCHANGED <<turnRows, writing, recovery>>

\* The event handler takes the next event.
TakeEvent(e) ==
    /\ handler.at = "idle" /\ e \in call.events
    /\ e = "hangup" => "answered" \notin call.events
    /\ call' = [call EXCEPT !.events = @ \ {e},
                            !.state = IF e = "hangup" THEN "ended" ELSE @]
    /\ Goto(IF e = "hangup" THEN "complete" ELSE "attach", NoSession)
    /\ UNCHANGED <<sessionRow, audioStream, socket, memory, agentFaults>> /\ AttachUnchanged

\* AttachCall returns the active session or creates one; attach fails when it cannot.
AttachCall ==
    /\ handler.at = "attach"
    /\ \/ \E s \in ActiveByCall : Goto("variable", s) /\ UNCHANGED sessionRow
       \/ \E s \in AgentSessionIds : CreateVoiceAgentSession(s) /\ Goto("variable", s)
       \/ /\ ActiveByCall = {} /\ UNCHANGED sessionRow
          /\ \A s \in AgentSessionIds : ~(call.state = "answered" /\ sessionRow[s].state = "none")
          /\ Goto("hangup", NoSession)
    /\ UNCHANGED <<call, audioStream, socket, memory, agentFaults>> /\ AttachUnchanged

\* Mutant: the channel variable is not compared with the session.
ReadVariableBlind ==
    /\ handler.at = "variable"
    /\ IF ~call.live THEN Goto("hangup", NoSession)
       ELSE IF call.var = handler.s THEN handler' = IdleHandler
       ELSE Goto("create", handler.s)
    /\ UNCHANGED <<call, sessionRow, audioStream, socket, memory, agentFaults>> /\ AttachUnchanged

\* GetVariable: attached already, attached to another session, gone, or free.
ReadVariable ==
    /\ handler.at = "variable"
    /\ IF ~call.live \/ call.var \notin {NoSession, handler.s} THEN Goto("hangup", NoSession)
       ELSE IF call.var = handler.s THEN handler' = IdleHandler
       ELSE Goto("create", handler.s)
    /\ UNCHANGED <<call, sessionRow, audioStream, socket, memory, agentFaults>> /\ AttachUnchanged

\* The configuration is not usable, or the media session cannot be created: failSession.
CreateStreamFails ==
    /\ handler.at = "create"
    /\ \/ Running(handler.s) /\ UNCHANGED agentFaults
       \/ ~Running(handler.s) /\ AgentFault
    /\ Goto("fail", handler.s)
    /\ UNCHANGED <<call, sessionRow, audioStream, socket, memory>> /\ AttachUnchanged

\* createMediaSession: the node refuses an id that it already runs.
CreateStream ==
    /\ handler.at = "create" /\ ~Running(handler.s)
    /\ audioStream' = [audioStream EXCEPT ![handler.s] = "waiting"]
    /\ Goto("control", handler.s)
    /\ UNCHANGED <<call, sessionRow, socket, memory, agentFaults>> /\ AttachUnchanged

\* The node accepts a control connection: the stream runs and has none.
CanOpen(s) == Running(s) /\ socket[s] = "closed"

\* Mutant: a recovered conversation replaces the one in memory.
RegisterControlReplace(s, next) ==
    memory' = [memory EXCEPT !.controls[s] = TRUE, !.states[s] = next, !.callSession = s]

\* registerControlWithState, the part under the mutex.
RegisterControl(s, next) ==
    memory' = [memory EXCEPT !.controls[s] = TRUE, !.callSession = s,
                             !.states[s] = IF @ = 0 THEN next ELSE @]

\* registerControl, or its failure. The next sequence of a new conversation is 1.
OpenControl ==
    /\ handler.at = "control"
    /\ IF CanOpen(handler.s) /\ ~memory.controls[handler.s]
       THEN /\ socket' = [socket EXCEPT ![handler.s] = "open"]
            /\ RegisterControl(handler.s, 1)
            /\ Goto("fork", handler.s)
       ELSE Goto("stop", handler.s) /\ UNCHANGED <<socket, memory>>
    /\ UNCHANGED <<call, sessionRow, audioStream, agentFaults>> /\ AttachUnchanged

\* StartAudioFork; fails when the channel is gone.
StartFork ==
    /\ handler.at = "fork"
    /\ IF call.live THEN /\ call' = [call EXCEPT !.forks = @ \cup {handler.s}]
                         /\ Goto("clock", handler.s)
       ELSE Goto("stop", handler.s) /\ UNCHANGED call
    /\ UNCHANGED <<sessionRow, audioStream, socket, memory, agentFaults>> /\ AttachUnchanged

WithoutFork(s) == [call EXCEPT !.forks = @ \ {s}]

\* StartAudioClock; on failure the fork is stopped again.
StartClock ==
    /\ handler.at = "clock"
    /\ IF call.live THEN Goto("setvar", handler.s) /\ UNCHANGED call
       ELSE call' = WithoutFork(handler.s) /\ Goto("stop", handler.s)
    /\ UNCHANGED <<sessionRow, audioStream, socket, memory, agentFaults>> /\ AttachUnchanged

\* SetVariable marks the channel as attached to the session.
SetVariable ==
    /\ handler.at = "setvar"
    /\ IF call.live THEN call' = [call EXCEPT !.var = handler.s] /\ Goto("mark", handler.s)
       ELSE call' = WithoutFork(handler.s) /\ Goto("stop", handler.s)
    /\ UNCHANGED <<sessionRow, audioStream, socket, memory, agentFaults>> /\ AttachUnchanged

\* MarkVoiceAgentMediaStarted finds the session active, or attach undoes the fork.
MarkMediaStarted ==
    /\ handler.at = "mark"
    /\ IF sessionRow[handler.s].state = "active"
       THEN /\ sessionRow' = [sessionRow EXCEPT ![handler.s].mediaStarted = TRUE]
            /\ handler' = IdleHandler /\ UNCHANGED call
       ELSE /\ call' = WithoutFork(handler.s) /\ Goto("stop", handler.s)
            /\ UNCHANGED sessionRow
    /\ UNCHANGED <<audioStream, socket, memory, agentFaults>> /\ AttachUnchanged

\* stopMediaSession: the control is taken from the map, a stop command or a DELETE ends the
\* stream unless the request is lost. Then the session is failed, or finish is over.
StopStream ==
    /\ handler.at \in {"stop", "stopped"}
    /\ memory' = [memory EXCEPT !.controls[handler.s] = FALSE]
    /\ socket' = [socket EXCEPT ![handler.s] = IF @ = "open" THEN "held" ELSE @]
    /\ \/ audioStream' = [audioStream EXCEPT ![handler.s] = "none"] /\ UNCHANGED agentFaults
       \/ AgentFault /\ UNCHANGED audioStream
    /\ IF handler.at = "stop" THEN Goto("fail", handler.s) ELSE handler' = IdleHandler
    /\ UNCHANGED <<call, sessionRow>> /\ AttachUnchanged

\* releaseConversation of the session that conversationSummary found.
Released ==
    [memory EXCEPT !.callSession = NoSession,
                   !.states = [s \in AgentSessionIds |->
                                 IF s = memory.callSession THEN 0 ELSE @[s]]]

\* failSession, then the handler hangs the channel up.
FailSession ==
    /\ handler.at = "fail"
    /\ CompleteActive("failed")
    /\ memory' = Released
    /\ Goto("hangup", NoSession)
    /\ UNCHANGED <<call, audioStream, socket, agentFaults>> /\ AttachUnchanged

\* Hangup after a failed attach; the command may fail, which is only logged.
HangUp ==
    /\ handler.at = "hangup"
    /\ \/ /\ UNCHANGED agentFaults
          /\ call' = IF call.live THEN [call EXCEPT !.live = FALSE, !.forks = {},
                                                    !.events = @ \cup {"hangup"}]
                     ELSE call
       \/ AgentFault /\ UNCHANGED call
    /\ handler' = IdleHandler
    /\ UNCHANGED <<sessionRow, audioStream, socket, memory>> /\ AttachUnchanged

\* finish: the active session is completed and its conversation released.
Finish ==
    /\ handler.at = "complete"
    /\ CompleteActive("completed")
    /\ IF ActiveByCall = {} THEN handler' = IdleHandler /\ UNCHANGED memory
       ELSE \E s \in ActiveByCall : Goto("stopped", s) /\ memory' = Released
    /\ UNCHANGED <<call, audioStream, socket, agentFaults>> /\ AttachUnchanged

(***************************************************************************)
(* The observer of a control connection and its turns                      *)
(***************************************************************************)
ObserverUnchanged == UNCHANGED <<call, turnRows, writing, handler, recovery, agentFaults>>

\* observeControl reads a terminal failure: failSession of the call's session.
ObserveFailure(s) ==
    /\ socket[s] = "open" /\ audioStream[s] = "failed"
    /\ CompleteActive("failed")
    /\ memory' = [Released EXCEPT !.controls[s] = FALSE]
    /\ socket' = [socket EXCEPT ![s] = "closed"]
    /\ audioStream' = [audioStream EXCEPT ![s] = "none"]
    /\ ObserverUnchanged

\* observeControl sees its connection end and takes it out of the map.
ObserveClose(s) ==
    /\ socket[s] = "open" /\ audioStream[s] = "none"
    /\ memory' = [memory EXCEPT !.controls[s] = FALSE]
    /\ socket' = [socket EXCEPT ![s] = "closed"]
    /\ UNCHANGED <<sessionRow, audioStream>> /\ ObserverUnchanged

\* The connection breaks while the stream runs: both sides notice, the node later.
ControlBreaks(s) ==
    /\ socket[s] = "open" /\ Running(s) /\ memory.controls[s] /\ AgentFault
    /\ memory' = [memory EXCEPT !.controls[s] = FALSE]
    /\ socket' = [socket EXCEPT ![s] = "held"]
    /\ UNCHANGED <<call, sessionRow, turnRows, audioStream, writing, handler, recovery>>

\* The observer goroutine of s runs and its stream speaks.
Observing(s) == memory.controls[s] /\ socket[s] = "open" /\ audioStream[s] = "attached"
TurnUnchanged == UNCHANGED <<call, sessionRow, turnRows, audioStream, socket, handler, recovery,
                             agentFaults>>

\* A conversation in memory hands out its next sequence.
NextSequence(s) ==
    /\ memory.states[s] \in 1..MaxTurns /\ Cardinality(writing[s]) < 2
    /\ writing' = [writing EXCEPT ![s] = @ \cup {memory.states[s]}]

\* observeControl: userTurn or assistantTurn.
ObserveTurn(s) ==
    /\ Observing(s) /\ NextSequence(s)
    /\ memory' = [memory EXCEPT !.states[s] = @ + 1]
    /\ TurnUnchanged

\* observeControl starts a tool goroutine, which outlives the control.
ObserveToolCall(s) ==
    /\ Observing(s) /\ s \notin memory.tools
    /\ memory' = [memory EXCEPT !.tools = @ \cup {s}]
    /\ UNCHANGED writing /\ TurnUnchanged

\* executeRealtimeTool has its result: toolTurn if the conversation is still there.
ToolReturns(s) ==
    /\ s \in memory.tools
    /\ IF memory.states[s] = 0
       THEN memory' = [memory EXCEPT !.tools = @ \ {s}] /\ UNCHANGED writing
       ELSE /\ NextSequence(s)
            /\ memory' = [memory EXCEPT !.tools = @ \ {s}, !.states[s] = @ + 1]
    /\ TurnUnchanged

\* CreateVoiceAgentTurn inserts while the session is active; a failure is only logged.
PersistTurn(s, q) ==
    /\ q \in writing[s]
    /\ writing' = [writing EXCEPT ![s] = @ \ {q}]
    /\ turnRows' = IF sessionRow[s].state = "active"
                   THEN [turnRows EXCEPT ![s] = @ \cup {q}] ELSE turnRows
    /\ UNCHANGED <<call, sessionRow, audioStream, socket, memory, handler, recovery, agentFaults>>

(***************************************************************************)
(* The recovery job                                                        *)
(***************************************************************************)
RecoveryUnchanged == UNCHANGED <<call, sessionRow, turnRows, audioStream, writing, handler>>

\* restoreConversationState: one more than the last sequence written.
RestoredSequence(s) == Max(turnRows[s] \cup {0}) + 1

\* Reconcile and recoverCandidate: the session is active on an answered call, its media has
\* started and the channel variable names it. Its turns are read. A session that has a
\* control, or whose node would refuse one, is tried again later without effect.
RecoverRead(s) ==
    /\ recovery.at = "idle"
    /\ s \in ActiveByCall /\ sessionRow[s].mediaStarted /\ call.state = "answered"
    /\ call.live /\ call.var = s /\ ~memory.controls[s] /\ CanOpen(s)
    /\ recovery' = [at |-> "read", s |-> s, next |-> RestoredSequence(s)]
    /\ UNCHANGED <<socket, memory, agentFaults>> /\ RecoveryUnchanged

\* RecoverSession finds no control in the map and the stream attached on its node.
RecoverCheck ==
    /\ recovery.at = "read"
    /\ recovery' = IF ~memory.controls[recovery.s] /\ audioStream[recovery.s] = "attached"
                   THEN [recovery EXCEPT !.at = "checked"] ELSE IdleRecovery
    /\ UNCHANGED <<socket, memory, agentFaults>> /\ RecoveryUnchanged

\* registerControlWithState opens the connection ...
RecoverOpen ==
    /\ recovery.at = "checked"
    /\ IF CanOpen(recovery.s)
       THEN /\ recovery' = [recovery EXCEPT !.at = "opened"]
            /\ socket' = [socket EXCEPT ![recovery.s] = "open"]
       ELSE recovery' = IdleRecovery /\ UNCHANGED socket
    /\ UNCHANGED <<memory, agentFaults>> /\ RecoveryUnchanged

\* ... and registers it, unless another one was registered meanwhile.
RecoverRegister ==
    /\ recovery.at = "opened"
    /\ IF memory.controls[recovery.s]
       THEN socket' = [socket EXCEPT ![recovery.s] = "held"] /\ UNCHANGED memory
       ELSE RegisterControl(recovery.s, recovery.next) /\ UNCHANGED socket
    /\ recovery' = IdleRecovery
    /\ UNCHANGED agentFaults /\ RecoveryUnchanged

(***************************************************************************)
(* The channel, the media node, the call's own reconciliation, crashes     *)
(***************************************************************************)
OthersUnchanged == UNCHANGED <<sessionRow, turnRows, memory, writing, handler, recovery>>

\* The peer hangs up; the event reaches the worker or is lost.
PeerHangsUp ==
    /\ call.live
    /\ \/ /\ UNCHANGED agentFaults
          /\ call' = [call EXCEPT !.live = FALSE, !.forks = {}, !.events = @ \cup {"hangup"}]
       \/ AgentFault /\ call' = [call EXCEPT !.live = FALSE, !.forks = {}]
    /\ UNCHANGED <<audioStream, socket>> /\ OthersUnchanged

\* The answered event is delivered a second time on the same connection.
AnsweredAgain ==
    /\ call.live /\ call.repeats /\ "answered" \notin call.events /\ AgentFault
    /\ call' = [call EXCEPT !.events = @ \cup {"answered"}]
    /\ UNCHANGED <<audioStream, socket>> /\ OthersUnchanged

\* The reconciliation of telephony/calls ends a call whose channel is gone.
CallReconciled ==
    /\ ~call.live /\ call.state = "answered"
    /\ call' = [call EXCEPT !.state = "ended"]
    /\ UNCHANGED <<audioStream, socket, agentFaults>> /\ OthersUnchanged

\* The fork's audio connection reaches the stream.
StreamAttaches(s) ==
    /\ audioStream[s] = "waiting" /\ s \in call.forks
    /\ audioStream' = [audioStream EXCEPT ![s] = "attached"]
    /\ UNCHANGED <<call, socket, agentFaults>> /\ OthersUnchanged

\* The audio has ended, or never came: a stream that still waits fails by its timer.
StreamEnds(s) ==
    /\ Running(s) /\ s \notin call.forks
    /\ audioStream[s] = "waiting" => handler.s # s
    /\ audioStream' = [audioStream EXCEPT ![s] =
           IF @ = "waiting" /\ socket[s] = "open" THEN "failed"
           ELSE "none"]
    /\ UNCHANGED <<call, socket, agentFaults>> /\ OthersUnchanged

\* The provider fails: terminal for the stream, told to the control if there is one.
ProviderFails(s) ==
    /\ Running(s) /\ AgentFault
    /\ audioStream' = [audioStream EXCEPT ![s] = IF socket[s] = "open" THEN "failed" ELSE "none"]
    /\ UNCHANGED <<call, socket>> /\ OthersUnchanged

\* The node notices that a control connection is gone.
NodeDropsControl(s) ==
    /\ socket[s] = "held"
    /\ socket' = [socket EXCEPT ![s] = "closed"]
    /\ UNCHANGED <<call, audioStream, agentFaults>> /\ OthersUnchanged

\* The worker dies and starts again: its memory and the events it had are lost.
WorkerCrashes ==
    /\ AgentFault
    /\ call' = [call EXCEPT !.events = {}, !.repeats = FALSE]
    /\ memory' = NoMemory /\ handler' = IdleHandler /\ recovery' = IdleRecovery
    /\ writing' = [s \in AgentSessionIds |-> {}]
    /\ socket' = [s \in AgentSessionIds |-> IF socket[s] = "open" THEN "held" ELSE socket[s]]
    /\ audioStream' = [s \in AgentSessionIds |->
           IF audioStream[s] = "failed" THEN "none" ELSE audioStream[s]]
    /\ UNCHANGED <<sessionRow, turnRows>>

(***************************************************************************)
(* Specification                                                           *)
(***************************************************************************)
HandlerStep ==
    \/ \E e \in {"answered", "hangup"} : TakeEvent(e)
    \/ AttachCall \/ ReadVariable \/ CreateStreamFails \/ CreateStream \/ OpenControl
    \/ StartFork \/ StartClock \/ SetVariable \/ MarkMediaStarted \/ StopStream
    \/ FailSession \/ HangUp \/ Finish

RecoveryStep ==
    \/ \E s \in AgentSessionIds : RecoverRead(s)
    \/ RecoverCheck \/ RecoverOpen \/ RecoverRegister

ObserverStep(s) == ObserveFailure(s) \/ ObserveClose(s)

AgentEnvironment ==
    \/ PeerHangsUp \/ AnsweredAgain \/ WorkerCrashes
    \/ \E s \in AgentSessionIds : \/ ProviderFails(s) \/ ControlBreaks(s)
                                    \/ ObserveTurn(s) \/ ObserveToolCall(s) \/ ToolReturns(s)

\* Observers, the media node and the writers of turns.
BackgroundStep ==
    \E s \in AgentSessionIds :
        \/ ObserverStep(s) \/ StreamEnds(s) \/ NodeDropsControl(s)
        \/ \E q \in 1..MaxTurns : PersistTurn(s, q)

AgentNext ==
    \/ HandlerStep \/ RecoveryStep \/ AgentEnvironment \/ ReconcileTerminated \/ CallReconciled
    \/ BackgroundStep \/ \E s \in AgentSessionIds : StreamAttaches(s)

AgentSpec == AgentInit /\ [][AgentNext]_agentVars

\* The event handler, goroutines, jobs and the media node go on.
AgentFairness ==
    /\ WF_agentVars(HandlerStep) /\ WF_agentVars(RecoveryStep)
    /\ WF_agentVars(ReconcileTerminated) /\ WF_agentVars(CallReconciled)
    /\ WF_agentVars(BackgroundStep)

(***************************************************************************)
(* Properties                                                              *)
(***************************************************************************)
\* A channel carries one audio fork at most: neither a replayed answer, after a failure or
\* a crash, nor the recovery starts a second one (attach, sessionRecoveryJob).
NoDuplicateFork == Cardinality(call.forks) <= 1

\* A sequence handed out for an active session is not in the table yet, across lost controls,
\* crashes and recoveries that read the turns while others are being written
\* (registerControlWithState, restoreConversationState, persistTurn).
TurnsNeverCollide == \A s \in ActiveByCall : writing[s] \cap turnRows[s] = {}

\* Sessions that outlive their call: whoever missed the hang-up, the reconciliation ends them
\* (sessionReconciliationJob).
OutlivingSessions == {s \in AgentSessionIds : sessionRow[s].state = "active" /\ ~call.live}

\* Sessions of an answered call whose audio is attached and that nobody controls, as after a
\* restart: sessionRecoveryJob opens the control again (RecoverSession).
UncontrolledSessions ==
    {s \in AgentSessionIds :
        /\ sessionRow[s] = [state |-> "active", mediaStarted |-> TRUE]
        /\ call.live /\ call.state = "answered" /\ audioStream[s] = "attached"
        /\ ~memory.controls[s]}
=============================================================================
