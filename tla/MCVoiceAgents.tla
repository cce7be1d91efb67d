---------------------------- MODULE MCVoiceAgents ----------------------------
(***************************************************************************)
(* What a call with an agent and a recording rests on, in one run: each    *)
(* behaviour is one of the component that the initial state chooses; the   *)
(* others stay as they start.                                              *)
(***************************************************************************)
EXTENDS MediaNodes, MediaSession, VoiceEngine, AgentSession, ToolExecution, AgentConfig,
        EslClient, Recordings

VARIABLE focus

\* Where a component has several initial states, one is enough unless it is looked at.
VoiceInit ==
    /\ MediaNodesInit /\ MediaInit /\ EngineInit /\ AgentInit /\ ToolInit
    /\ AgentConfigInit /\ EslInit /\ RecInit
    /\ focus \in {"nodes", "media", "engine", "session", "tools", "config", "esl", "recordings"}
    /\ integration[CHOOSE i \in Integrations : TRUE] = "active"
    /\ focus = "tools" \/ \A t \in ToolIds : ~Exists(t)
    /\ focus = "engine" \/ tools = {}
    /\ focus = "esl" \/ reconnecting
    /\ focus = "recordings" \/ policy.plan

VoiceNext ==
    /\ UNCHANGED focus
    /\ \/ focus = "nodes" /\ MediaNodesNext
       \/ focus # "nodes" /\ UNCHANGED mediaNodesVars
    /\ \/ focus = "media" /\ MediaNext
       \/ focus # "media" /\ UNCHANGED mediaVars
    /\ \/ focus = "engine" /\ EngineNext
       \/ focus # "engine" /\ UNCHANGED engineVars
    /\ \/ focus = "session" /\ AgentNext
       \/ focus # "session" /\ UNCHANGED agentVars
    /\ \/ focus = "tools" /\ ToolNext
       \/ focus # "tools" /\ UNCHANGED toolVars
    /\ \/ focus = "config" /\ AgentConfigNext
       \/ focus # "config" /\ UNCHANGED configVars
    /\ \/ focus = "esl" /\ EslNext
       \/ focus # "esl" /\ UNCHANGED eslVars
    /\ \/ focus = "recordings" /\ RecNext
       \/ focus # "recordings" /\ UNCHANGED recVars

\* The type invariant of the component that is looked at.
VoiceTypeOK ==
    \/ focus = "nodes" /\ MediaNodesTypeOK
    \/ focus = "media" /\ MediaTypeOK
    \/ focus = "engine" /\ EngineTypeOK
    \/ focus = "session" /\ AgentTypeOK
    \/ focus = "tools" /\ ToolTypeOK
    \/ focus = "config" /\ AgentConfigTypeOK
    \/ focus = "esl" /\ EslTypeOK
    \/ focus = "recordings" /\ RecTypeOK
=============================================================================
