----------------------------- MODULE ToolExecution -----------------------------
(***************************************************************************)
(* Tools of a voice agent: their administration (ai/tools/service.go) and  *)
(* their execution during a session (ai/tools/executor.go, snapshot.go,    *)
(* builtin.go), with the reconciliation of interrupted executions          *)
(* (runtime/worker/reconciliation.go).                                     *)
(*                                                                         *)
(* The session froze the tools at its creation. A tool call of the model   *)
(* may be executed several times at once, because the media node repeats   *)
(* unanswered calls to a new control connection; the claim of its          *)
(* execution row decides who runs it.                                      *)
(***************************************************************************)
EXTENDS Naturals, FiniteSets

CONSTANTS
    ToolIds,       \* tools of the agent
    WebhookTools,  \* those of type webhook; the others are built in
    NoTool,
    ToolCallIds,   \* tool_call_id values of the session
    Executors,     \* goroutines in Execute
    ToolVersions,  \* settings a tool may have: name, endpoint, parameters, timeout (bound)
    ToolFaults     \* crashes and failures of the tool (bound)

ASSUME ToolAssumption ==
    /\ WebhookTools \subseteq ToolIds /\ NoTool \notin ToolIds
    /\ ToolVersions \in Nat \ {0} /\ ToolFaults \in Nat

VARIABLES
    toolRow,    \* voice_agent_tools and voice_agent_tool_secrets
    frozen,     \* the session's snapshot: settings of each tool, 0 when it is not there
    toolSession,\* the session's row is active
    execution,  \* voice_agent_tool_executions, by tool call
    executor,   \* what each goroutine does
    effects,    \* what the world saw: the settings used, once per request
    toolFaults

toolVars == <<toolRow, frozen, toolSession, execution, executor, effects, toolFaults>>

Tool == [version: 0..ToolVersions, enabled: BOOLEAN, secret: BOOLEAN]
Idle == [at |-> "idle", c |-> NoTool, t |-> NoTool, use |-> 0, ok |-> FALSE]

ToolTypeOK ==
    /\ toolRow \in [ToolIds -> Tool]
    /\ frozen \in [ToolIds -> 0..ToolVersions]
    /\ toolSession \in BOOLEAN
    /\ execution \in [ToolCallIds -> [state: {"none", "processing", "succeeded", "failed"},
                                      tool: ToolIds \cup {NoTool}]]
    /\ executor \in [Executors -> [at: {"idle", "gate", "claim", "run", "send", "mark"},
                                   c: ToolCallIds \cup {NoTool}, t: ToolIds \cup {NoTool},
                                   use: 0..ToolVersions, ok: BOOLEAN]]
    /\ effects \in [ToolCallIds -> [seen: Nat, version: 0..ToolVersions]]
    /\ toolFaults \in 0..ToolFaults

\* A session that has just been created with the tools that were enabled then.
ToolInit ==
    /\ \E there \in SUBSET ToolIds :
           toolRow = [t \in ToolIds |-> [version |-> IF t \in there THEN 1 ELSE 0,
                                        enabled |-> t \in there,
                                        secret |-> t \in there \cap WebhookTools]]
    /\ frozen = [t \in ToolIds |-> IF toolRow[t].enabled THEN toolRow[t].version ELSE 0]
    /\ toolSession = TRUE
    /\ execution = [c \in ToolCallIds |-> [state |-> "none", tool |-> NoTool]]
    /\ executor = [x \in Executors |-> Idle]
    /\ effects = [c \in ToolCallIds |-> [seen |-> 0, version |-> 0]]
    /\ toolFaults = 0

ToolFault == toolFaults < ToolFaults /\ toolFaults' = toolFaults + 1
Exists(t) == toolRow[t].version # 0

(***************************************************************************)
(* Administration                                                          *)
(***************************************************************************)
AdminUnchanged == UNCHANGED <<frozen, toolSession, execution, executor, effects, toolFaults>>

\* CreateVoiceAgentTool, or with its secret in one statement CreateVoiceAgentWebhookTool.
CreateTool(t) ==
    /\ ~Exists(t)
    /\ toolRow' = [toolRow EXCEPT ![t] = [version |-> 1, enabled |-> TRUE,
                                          secret |-> t \in WebhookTools]]
    /\ AdminUnchanged

\* UpdateVoiceAgentTool: settings and the enabled flag, each kept when not given.
UpdateTool(t, version, enabled) ==
    /\ Exists(t)
    /\ toolRow' = [toolRow EXCEPT ![t].version = version, ![t].enabled = enabled]
    /\ AdminUnchanged

\* DeleteVoiceAgentTool; the secret goes with it, executions stay.
DeleteTool(t) ==
    /\ Exists(t)
    /\ toolRow' = [toolRow EXCEPT ![t] = [version |-> 0, enabled |-> FALSE, secret |-> FALSE]]
    /\ AdminUnchanged

\* The session is completed or failed.
ToolSessionEnds ==
    /\ toolSession /\ toolSession' = FALSE
    /\ UNCHANGED <<toolRow, frozen, execution, executor, effects, toolFaults>>

(***************************************************************************)
(* Execute                                                                 *)
(***************************************************************************)
Step(x, r) == executor' = [executor EXCEPT ![x] = r]
Return(x) == Step(x, Idle)
ExecuteUnchanged == UNCHANGED <<toolRow, frozen, toolSession>>

\* Execute reads the session: active, and the tool is one it has frozen.
ExecuteBegins(x, c, t) ==
    /\ executor[x].at = "idle"
    /\ toolSession /\ frozen[t] # 0
    /\ Step(x, [Idle EXCEPT !.at = "gate", !.c = c, !.t = t])
    /\ UNCHANGED <<execution, effects, toolFaults>> /\ ExecuteUnchanged

\* bindExecutionTool: the frozen settings, never those of the current row.
BoundVersion(t) == frozen[t]

\* The current row is read as a gate: a disabled or deleted tool is revoked.
RevocationGate(x) ==
    LET t == executor[x].t IN
    /\ executor[x].at = "gate"
    /\ IF toolRow[t].enabled
       THEN Step(x, [executor[x] EXCEPT !.at = "claim", !.use = BoundVersion(t)])
       ELSE Return(x)
    /\ UNCHANGED <<execution, effects, toolFaults>> /\ ExecuteUnchanged

\* Mutant: a failed execution may be claimed again.
ExecutionClaimableFailed(c, t) ==
    /\ execution[c].state \in {"none", "failed"}
    /\ toolSession /\ toolRow[t].enabled

\* ClaimVoiceAgentToolExecution inserts: active session, enabled tool, no row yet.
ExecutionClaimable(c, t) ==
    /\ execution[c].state = "none"
    /\ toolSession /\ toolRow[t].enabled

\* The claim succeeds, or replay answers from the row that is there.
ClaimExecution(x) ==
    LET c == executor[x].c
        t == executor[x].t
    IN
    /\ executor[x].at = "claim"
    /\ IF ExecutionClaimable(c, t)
       THEN /\ execution' = [execution EXCEPT ![c] = [state |-> "processing", tool |-> t]]
            /\ Step(x, [executor[x] EXCEPT !.at = "run"])
       ELSE Return(x) /\ UNCHANGED execution
    /\ UNCHANGED <<effects, toolFaults>> /\ ExecuteUnchanged

\* executeWebhook needs the signing secret, read with the tool enabled; executeBuiltin
\* checks its arguments only.
PrepareRequest(x) ==
    LET t == executor[x].t IN
    /\ executor[x].at = "run"
    /\ \/ /\ t \in WebhookTools => toolRow[t].secret /\ toolRow[t].enabled
          /\ Step(x, [executor[x] EXCEPT !.at = "send"])
       \/ /\ t \in WebhookTools /\ ~(toolRow[t].secret /\ toolRow[t].enabled)
          /\ Step(x, [executor[x] EXCEPT !.at = "mark", !.ok = FALSE])
    /\ UNCHANGED <<execution, effects, toolFaults>> /\ ExecuteUnchanged

\* The request goes out. It succeeds, or fails before or after it took effect.
SendRequest(x) ==
    LET c == executor[x].c IN
    /\ executor[x].at = "send"
    /\ \E taken \in BOOLEAN, ok \in BOOLEAN :
           /\ ok => taken
           /\ IF ok THEN UNCHANGED toolFaults ELSE ToolFault
           /\ effects' = IF taken
                         THEN [effects EXCEPT ![c] = [seen |-> @.seen + 1,
                                                      version |-> executor[x].use]]
                         ELSE effects
           /\ Step(x, [executor[x] EXCEPT !.at = "mark", !.ok = ok])
    /\ UNCHANGED execution /\ ExecuteUnchanged

\* MarkVoiceAgentToolExecutionSucceeded and ...Failed, only while it is processing.
MarkExecution(x) ==
    LET c == executor[x].c IN
    /\ executor[x].at = "mark"
    /\ execution' = IF execution[c].state = "processing"
                    THEN [execution EXCEPT ![c].state = IF executor[x].ok THEN "succeeded"
                                                       ELSE "failed"]
                    ELSE execution
    /\ Return(x)
    /\ UNCHANGED <<effects, toolFaults>> /\ ExecuteUnchanged

\* The worker dies, or the 35 s of executeRealtimeTool are over: the row is left as it is.
ExecuteIsCut(x) ==
    /\ executor[x].at # "idle" /\ ToolFault
    /\ Return(x)
    /\ UNCHANGED <<execution, effects>> /\ ExecuteUnchanged

\* ReconcileUncertainVoiceAgentToolExecutions after 90 s: nobody runs it any more.
ReconcileUncertain(c) ==
    /\ execution[c].state = "processing"
    /\ \A x \in Executors : executor[x].c # c \/ executor[x].at \in {"idle", "gate", "claim"}
    /\ execution' = [execution EXCEPT ![c].state = "failed"]
    /\ UNCHANGED <<executor, effects, toolFaults>> /\ ExecuteUnchanged

(***************************************************************************)
(* Specification                                                           *)
(***************************************************************************)
ExecutorStep(x) ==
    \/ RevocationGate(x) \/ ClaimExecution(x) \/ PrepareRequest(x) \/ SendRequest(x)
    \/ MarkExecution(x)

ToolNext ==
    \/ \E x \in Executors :
           \/ ExecutorStep(x) \/ ExecuteIsCut(x)
           \/ \E c \in ToolCallIds, t \in ToolIds : ExecuteBegins(x, c, t)
    \/ \E c \in ToolCallIds : ReconcileUncertain(c)
    \/ \E t \in ToolIds :
           \/ CreateTool(t) \/ DeleteTool(t)
           \/ \E v \in 1..ToolVersions, e \in BOOLEAN : UpdateTool(t, v, e)
    \/ ToolSessionEnds

ToolSpec == ToolInit /\ [][ToolNext]_toolVars

\* Goroutines go on and the reconciliation job runs.
ToolFairness ==
    /\ \A x \in Executors : WF_toolVars(ExecutorStep(x))
    /\ \A c \in ToolCallIds : WF_toolVars(ReconcileUncertain(c))

(***************************************************************************)
(* Properties                                                              *)
(***************************************************************************)
\* A tool call takes effect at most once, however often it is delivered, cut off or
\* reconciled (ClaimExecution, replay, toolExecutionReconciliationJob).
AtMostOneEffect == \A c \in ToolCallIds : effects[c].seen <= 1

\* The request carries the settings that the session froze, although the tool is edited,
\* disabled, deleted and created again meanwhile (resolveSessionTool, bindExecutionTool).
EffectIsFrozen ==
    \A c \in ToolCallIds :
        effects[c].seen > 0 => effects[c].version = frozen[execution[c].tool]

\* What may be relied on of the effect of a tool call.
ToolEffectsSound == AtMostOneEffect /\ EffectIsFrozen

\* Executions in processing; none stays there (toolExecutionReconciliationJob).
OpenExecutions == {c \in ToolCallIds : execution[c].state = "processing"}
=============================================================================
