------------------------- MODULE VoiceAgentsProofs --------------------------
(***************************************************************************)
(* Proofs about what a call with an agent and a recording rests on, for    *)
(* any number of rows, processes and faults: tool calls take effect once   *)
(* (ToolExecution), recordings reach one destination (Recordings), a call  *)
(* has one fork and one sequence of turns (AgentSession), and the agents'  *)
(* configuration keeps its limits and revisions (AgentConfig). The last    *)
(* part is what holds of all the components together, with those of        *)
(* MediaProofs and EslClientProofs, as MCVoiceAgents runs them.            *)
(***************************************************************************)
EXTENDS MCVoiceAgents, MediaProofs, EslClientProofs, FiniteSetTheorems, WellFoundedInduction,
    TLAPS

(***************************************************************************)
(* Tool calls: the inductive invariant                                     *)
(***************************************************************************)
\* The goroutine holds the claim of its tool call.
Runs(x) == executor[x].at \in {"run", "send", "mark"}

\* A goroutine past the gate knows its call and its tool, and will use what the session froze.
KnowsItsTool ==
    \A x \in Executors :
        /\ executor[x].at # "idle" => executor[x].c \in ToolCallIds /\ executor[x].t \in ToolIds
        /\ executor[x].at \in {"claim", "run", "send", "mark"} =>
               executor[x].use = frozen[executor[x].t]

\* The row of a claimed call is in processing, for the tool of the goroutine that claimed it.
ClaimIsRecorded ==
    \A x \in Executors :
        Runs(x) => /\ execution[executor[x].c].state = "processing"
                   /\ execution[executor[x].c].tool = executor[x].t

\* One goroutine at a time holds the claim of a call.
OneClaim ==
    \A x, y \in Executors : Runs(x) /\ Runs(y) /\ executor[x].c = executor[y].c => x = y

\* Nothing has happened for a call that nobody claimed, or whose request is not out.
NotYet ==
    /\ \A c \in ToolCallIds : execution[c].state = "none" => effects[c].seen = 0
    /\ \A x \in Executors : executor[x].at \in {"run", "send"} => effects[executor[x].c].seen = 0

ToolInv ==
    ToolTypeOK /\ KnowsItsTool /\ ClaimIsRecorded /\ OneClaim /\ NotYet /\ ToolEffectsSound

ExecutorState == [at: {"idle", "gate", "claim", "run", "send", "mark"},
                  c: ToolCallIds \cup {NoTool}, t: ToolIds \cup {NoTool},
                  use: 0..ToolVersions, ok: BOOLEAN]
ExecutionRow == [state: {"none", "processing", "succeeded", "failed"}, tool: ToolIds \cup {NoTool}]

(***************************************************************************)
(* The steps                                                               *)
(***************************************************************************)
\* A session that has just been created.
LEMMA ToolInvInit == ToolInit => ToolInv
<1>. SUFFICES ASSUME ToolInit PROVE ToolInv
  OBVIOUS
<1>1. ToolTypeOK
  BY ToolAssumption DEF ToolInit, ToolTypeOK, Tool, Idle
<1>2. \A x \in Executors : executor[x].at = "idle"
  BY DEF ToolInit, Idle
<1>3. \A c \in ToolCallIds : effects[c].seen = 0
  BY DEF ToolInit
<1>. QED BY <1>1, <1>2, <1>3 DEF ToolInv, KnowsItsTool, ClaimIsRecorded, OneClaim, NotYet, Runs,
            ToolEffectsSound, AtMostOneEffect, EffectIsFrozen

\* The administrator changes the tools and nothing else.
LEMMA AdminInv ==
    ASSUME ToolInv, UNCHANGED <<frozen, execution, executor, effects, toolFaults>>,
           toolRow' \in [ToolIds -> Tool], toolSession' \in BOOLEAN
    PROVE  ToolInv'
BY DEF ToolInv, ToolTypeOK, KnowsItsTool, ClaimIsRecorded, OneClaim, NotYet, Runs,
   ToolEffectsSound, AtMostOneEffect, EffectIsFrozen

\* A goroutine moves on without claim, request or row: it stays within its phase or gives up.
LEMMA MoveInv ==
    ASSUME ToolInv, NEW x \in Executors, NEW r \in ExecutorState, Step(x, r),
           UNCHANGED <<execution, effects>>, toolFaults' \in 0..ToolFaults, ExecuteUnchanged,
           r.at # "idle" => r.c \in ToolCallIds /\ r.t \in ToolIds,
           r.at \in {"claim", "run", "send", "mark"} => r.use = frozen[r.t],
           r.at \in {"run", "send", "mark"} =>
               Runs(x) /\ r.c = executor[x].c /\ r.t = executor[x].t,
           r.at \in {"run", "send"} => executor[x].at \in {"run", "send"}
    PROVE  ToolInv'
<1>1. /\ ToolTypeOK /\ KnowsItsTool /\ ClaimIsRecorded /\ OneClaim /\ NotYet
      /\ AtMostOneEffect /\ EffectIsFrozen
  BY DEF ToolInv, ToolEffectsSound
<1>2. executor' = [executor EXCEPT ![x] = r] /\ executor \in [Executors -> ExecutorState]
  BY <1>1 DEF Step, ToolTypeOK, ExecutorState
<1>3. executor'[x] = r /\ \A y \in Executors : y # x => executor'[y] = executor[y]
  BY <1>2
<1>4. ToolTypeOK'
  BY <1>1, <1>2 DEF ToolTypeOK, ExecuteUnchanged, ExecutorState
<1>5. KnowsItsTool'
  BY <1>1, <1>3 DEF KnowsItsTool, ExecuteUnchanged
<1>6. ClaimIsRecorded' /\ OneClaim'
  BY <1>1, <1>3 DEF ClaimIsRecorded, OneClaim, Runs
<1>7. NotYet'
  BY <1>1, <1>3 DEF NotYet, Runs
<1>8. AtMostOneEffect' /\ EffectIsFrozen'
  BY <1>1 DEF AtMostOneEffect, EffectIsFrozen, ExecuteUnchanged
<1>. QED BY <1>4, <1>5, <1>6, <1>7, <1>8 DEF ToolInv, ToolEffectsSound

\* Being idle is a state.
LEMMA IdleState == Idle \in ExecutorState /\ Idle.at = "idle"
BY ToolAssumption DEF Idle, ExecutorState

\* Reading, gating, preparing, and being cut off.
LEMMA WithoutEffectInv ==
    ASSUME ToolInv, NEW x \in Executors,
           \/ RevocationGate(x) \/ PrepareRequest(x) \/ ExecuteIsCut(x)
           \/ \E c \in ToolCallIds, t \in ToolIds : ExecuteBegins(x, c, t)
    PROVE  ToolInv'
<1>1. /\ ToolTypeOK /\ KnowsItsTool
      /\ executor[x] \in ExecutorState /\ frozen \in [ToolIds -> 0..ToolVersions]
      /\ toolFaults \in 0..ToolFaults
  BY DEF ToolInv, ToolTypeOK, ExecutorState
<1>2. executor[x].at # "idle" => executor[x].c \in ToolCallIds /\ executor[x].t \in ToolIds
  BY <1>1 DEF KnowsItsTool
<1>3. ASSUME Return(x), UNCHANGED <<execution, effects>>, toolFaults' \in 0..ToolFaults,
             ExecuteUnchanged
      PROVE  ToolInv'
  BY <1>3, IdleState, MoveInv DEF Return
<1>4. ASSUME NEW c \in ToolCallIds, NEW t \in ToolIds, ExecuteBegins(x, c, t) PROVE ToolInv'
  <2>. DEFINE r == [Idle EXCEPT !.at = "gate", !.c = c, !.t = t]
  <2>1. 0 \in 0..ToolVersions
    BY ToolAssumption
  <2>2. r \in ExecutorState /\ r.at = "gate" /\ r.c = c /\ r.t = t
    BY <2>1 DEF Idle, ExecutorState
  <2>3. Step(x, r) /\ UNCHANGED <<execution, effects, toolFaults>> /\ ExecuteUnchanged
    BY <1>4 DEF ExecuteBegins
  <2>. HIDE DEF r
  <2>. QED BY <1>1, <2>2, <2>3, MoveInv
<1>5. ASSUME RevocationGate(x) PROVE ToolInv'
  <2>. DEFINE r == [executor[x] EXCEPT !.at = "claim", !.use = BoundVersion(executor[x].t)]
  <2>1. UNCHANGED <<execution, effects, toolFaults>> /\ ExecuteUnchanged /\ executor[x].at = "gate"
    BY <1>5 DEF RevocationGate
  <2>2. /\ r \in ExecutorState /\ r.at = "claim" /\ r.c \in ToolCallIds /\ r.t \in ToolIds
        /\ r.use = frozen[r.t]
    BY <1>1, <1>2, <2>1 DEF ExecutorState, BoundVersion
  <2>3. Step(x, r) \/ Return(x)
    BY <1>5 DEF RevocationGate
  <2>. HIDE DEF r
  <2>. QED BY <1>1, <1>3, <2>1, <2>2, <2>3, MoveInv
<1>6. ASSUME PrepareRequest(x) PROVE ToolInv'
  <2>. DEFINE send == [executor[x] EXCEPT !.at = "send"]
              fail == [executor[x] EXCEPT !.at = "mark", !.ok = FALSE]
  <2>1. UNCHANGED <<execution, effects, toolFaults>> /\ ExecuteUnchanged /\ executor[x].at = "run"
    BY <1>6 DEF PrepareRequest
  <2>2. \A r \in {send, fail} : /\ r \in ExecutorState /\ r.at \in {"send", "mark"}
                                /\ r.c = executor[x].c /\ r.t = executor[x].t
                                /\ r.use = executor[x].use
    BY <1>1 DEF ExecutorState
  <2>3. \E r \in {send, fail} : Step(x, r)
    BY <1>6 DEF PrepareRequest
  <2>4. Runs(x) /\ executor[x].use = frozen[executor[x].t]
    BY <1>1, <2>1 DEF Runs, KnowsItsTool
  <2>. HIDE DEF send, fail
  <2>. QED BY <1>1, <1>2, <2>1, <2>2, <2>3, <2>4, MoveInv
<1>7. ASSUME ExecuteIsCut(x) PROVE ToolInv'
  BY <1>1, <1>3, <1>7, ToolAssumption DEF ExecuteIsCut, ToolFault
<1>. QED BY <1>4, <1>5, <1>6, <1>7

\* The claim of a call that nobody has claimed, or a replay.
LEMMA ClaimExecutionInv ==
    ASSUME ToolInv, NEW x \in Executors, ClaimExecution(x)
    PROVE  ToolInv'
<1>. DEFINE c == executor[x].c
            t == executor[x].t
            r == [executor[x] EXCEPT !.at = "run"]
<1>1. /\ ToolTypeOK /\ KnowsItsTool /\ ClaimIsRecorded /\ OneClaim /\ NotYet
      /\ AtMostOneEffect /\ EffectIsFrozen
  BY DEF ToolInv, ToolEffectsSound
<1>2. /\ executor \in [Executors -> ExecutorState] /\ execution \in [ToolCallIds -> ExecutionRow]
      /\ executor[x].at = "claim" /\ c \in ToolCallIds /\ t \in ToolIds
      /\ executor[x].use = frozen[t]
      /\ UNCHANGED <<effects, toolFaults>> /\ ExecuteUnchanged
  BY <1>1 DEF ClaimExecution, ToolTypeOK, KnowsItsTool, ExecutorState, ExecutionRow
<1>3. /\ r \in ExecutorState /\ r.at = "run" /\ r.c = c /\ r.t = t /\ r.use = executor[x].use
  BY <1>2 DEF ExecutorState
<1>4. CASE ~ExecutionClaimable(c, t)
  <2>1. Return(x) /\ execution' = execution
    BY <1>4 DEF ClaimExecution
  <2>. QED BY <1>1, <1>2, <2>1, IdleState, MoveInv DEF Return, ToolTypeOK
<1>5. CASE ExecutionClaimable(c, t)
  <2>. DEFINE row == [state |-> "processing", tool |-> t]
  <2>1. /\ execution' = [execution EXCEPT ![c] = row] /\ executor' = [executor EXCEPT ![x] = r]
        /\ execution[c].state = "none"
    BY <1>5 DEF ClaimExecution, Step, ExecutionClaimable
  <2>2. row \in ExecutionRow /\ row.state = "processing" /\ row.tool = t
    BY <1>2 DEF ExecutionRow
  <2>3. /\ executor'[x] = r /\ \A y \in Executors : y # x => executor'[y] = executor[y]
        /\ execution'[c] = row /\ \A d \in ToolCallIds : d # c => execution'[d] = execution[d]
    BY <1>2, <2>1
  <2>4. \A y \in Executors : Runs(y) => executor[y].c \in ToolCallIds /\ executor[y].c # c
    <3>. TAKE y \in Executors
    <3>. HAVE Runs(y)
    <3>1. executor[y].c \in ToolCallIds
      BY <1>1 DEF KnowsItsTool, Runs
    <3>2. execution[executor[y].c].state = "processing"
      BY <1>1 DEF ClaimIsRecorded
    <3>. QED BY <2>1, <3>1, <3>2
  <2>5. effects[c].seen = 0
    BY <1>1, <1>2, <2>1 DEF NotYet
  <2>6. ToolTypeOK'
    BY <1>1, <1>2, <1>3, <2>1, <2>2 DEF ToolTypeOK, ExecuteUnchanged, ExecutorState, ExecutionRow
  <2>. HIDE DEF r, row, c, t
  <2>7. KnowsItsTool'
    BY <1>1, <1>2, <1>3, <2>3 DEF KnowsItsTool, ExecuteUnchanged
  <2>8. ClaimIsRecorded' /\ OneClaim'
    BY <1>1, <1>3, <2>2, <2>3, <2>4 DEF ClaimIsRecorded, OneClaim, Runs
  <2>9. NotYet'
    BY <1>1, <1>2, <1>3, <2>2, <2>3, <2>5 DEF NotYet
  <2>10. AtMostOneEffect' /\ EffectIsFrozen'
    BY <1>1, <1>2, <2>3, <2>5 DEF AtMostOneEffect, EffectIsFrozen, ExecuteUnchanged
  <2>. QED BY <2>6, <2>7, <2>8, <2>9, <2>10 DEF ToolInv, ToolEffectsSound
<1>. QED BY <1>4, <1>5

\* The request goes out for the first time, with the frozen settings, or fails before.
LEMMA SendRequestInv ==
    ASSUME ToolInv, NEW x \in Executors, SendRequest(x)
    PROVE  ToolInv'
<1>. DEFINE c == executor[x].c
            hit == [seen |-> effects[c].seen + 1, version |-> executor[x].use]
<1>1. /\ ToolTypeOK /\ KnowsItsTool /\ ClaimIsRecorded /\ OneClaim /\ NotYet
      /\ AtMostOneEffect /\ EffectIsFrozen
  BY DEF ToolInv, ToolEffectsSound
<1>2. /\ executor \in [Executors -> ExecutorState] /\ executor[x].at = "send" /\ Runs(x)
      /\ c \in ToolCallIds /\ executor[x].t \in ToolIds
      /\ executor[x].use = frozen[executor[x].t] /\ executor[x].use \in 0..ToolVersions
      /\ execution[c].state = "processing" /\ execution[c].tool = executor[x].t
      /\ effects[c].seen = 0
      /\ UNCHANGED execution /\ ExecuteUnchanged
  BY <1>1 DEF SendRequest, ToolTypeOK, KnowsItsTool, ExecutorState, ClaimIsRecorded, NotYet, Runs
<1>3. PICK ok \in BOOLEAN :
        /\ toolFaults' = toolFaults \/ ToolFault
        /\ effects' = [effects EXCEPT ![c] = hit] \/ effects' = effects
        /\ executor' = [executor EXCEPT ![x] = [executor[x] EXCEPT !.at = "mark", !.ok = ok]]
  BY DEF SendRequest, Step
<1>. DEFINE r == [executor[x] EXCEPT !.at = "mark", !.ok = ok]
<1>4. /\ r \in ExecutorState /\ r.at = "mark" /\ r.c = c /\ r.t = executor[x].t
      /\ r.use = executor[x].use
  BY <1>2 DEF ExecutorState
<1>5. executor'[x] = r /\ \A y \in Executors : y # x => executor'[y] = executor[y]
  BY <1>2, <1>3
<1>6. hit \in [seen: Nat, version: 0..ToolVersions] /\ hit.seen = 1 /\ hit.version = executor[x].use
  BY <1>2
<1>7. ToolTypeOK'
  <2>1. toolFaults' \in 0..ToolFaults
    BY <1>1, <1>3, ToolAssumption DEF ToolTypeOK, ToolFault
  <2>2. effects' \in [ToolCallIds -> [seen: Nat, version: 0..ToolVersions]]
    BY <1>1, <1>3, <1>6 DEF ToolTypeOK
  <2>3. executor' \in [Executors -> ExecutorState]
    BY <1>2, <1>3, <1>4
  <2>. QED BY <1>1, <1>2, <2>1, <2>2, <2>3 DEF ToolTypeOK, ExecuteUnchanged, ExecutorState
<1>8. /\ effects'[c] \in {hit, effects[c]}
      /\ \A d \in ToolCallIds : d # c => effects'[d] = effects[d]
  BY <1>1, <1>2, <1>3 DEF ToolTypeOK
<1>. HIDE DEF r, hit, c
<1>9. KnowsItsTool'
  BY <1>1, <1>2, <1>4, <1>5 DEF KnowsItsTool, ExecuteUnchanged, c
<1>10. ClaimIsRecorded' /\ OneClaim'
  BY <1>1, <1>2, <1>4, <1>5 DEF ClaimIsRecorded, OneClaim, Runs, c
<1>11. NotYet'
  <2>1. \A y \in Executors : y # x /\ Runs(y) => executor[y].c \in ToolCallIds /\ executor[y].c # c
    BY <1>1, <1>2 DEF OneClaim, KnowsItsTool, Runs, c
  <2>2. execution[c].state # "none"
    BY <1>2
  <2>. QED BY <1>1, <1>2, <1>4, <1>5, <1>8, <2>1, <2>2 DEF NotYet, Runs
<1>12. AtMostOneEffect' /\ EffectIsFrozen'
  BY <1>1, <1>2, <1>6, <1>8 DEF AtMostOneEffect, EffectIsFrozen, ExecuteUnchanged
<1>. QED BY <1>7, <1>9, <1>10, <1>11, <1>12 DEF ToolInv, ToolEffectsSound

\* A row leaves processing: its holder is done with it, or it has none.
LEMMA SettleInv ==
    ASSUME ToolInv, NEW c \in ToolCallIds, NEW state \in {"succeeded", "failed"},
           execution' = [execution EXCEPT ![c].state = state],
           execution[c].state = "processing",
           UNCHANGED <<effects, toolFaults>>, ExecuteUnchanged,
           executor' \in [Executors -> ExecutorState],
           \A y \in Executors : \/ executor'[y] = executor[y] /\ ~(Runs(y) /\ executor[y].c = c)
                                \/ executor'[y].at = "idle"
    PROVE  ToolInv'
<1>1. /\ ToolTypeOK /\ KnowsItsTool /\ ClaimIsRecorded /\ OneClaim /\ NotYet
      /\ AtMostOneEffect /\ EffectIsFrozen
  BY DEF ToolInv, ToolEffectsSound
<1>2. execution \in [ToolCallIds -> ExecutionRow]
  BY <1>1 DEF ToolTypeOK, ExecutionRow
<1>3. /\ execution'[c] \in ExecutionRow /\ execution'[c].state = state
      /\ execution'[c].tool = execution[c].tool
      /\ \A d \in ToolCallIds : d # c => execution'[d] = execution[d]
  BY <1>2 DEF ExecutionRow
<1>4. ToolTypeOK'
  BY <1>1, <1>2, <1>3 DEF ToolTypeOK, ExecuteUnchanged, ExecutorState, ExecutionRow
<1>5. KnowsItsTool'
  BY <1>1 DEF KnowsItsTool, ExecuteUnchanged
<1>6. ClaimIsRecorded' /\ OneClaim'
  BY <1>1, <1>3 DEF ClaimIsRecorded, OneClaim, Runs, KnowsItsTool
<1>7. NotYet'
  BY <1>1, <1>3 DEF NotYet, KnowsItsTool
<1>8. AtMostOneEffect' /\ EffectIsFrozen'
  BY <1>1, <1>3 DEF AtMostOneEffect, EffectIsFrozen, ExecuteUnchanged
<1>. QED BY <1>4, <1>5, <1>6, <1>7, <1>8 DEF ToolInv, ToolEffectsSound

\* The goroutine records its outcome; its call is in processing and nobody else's.
LEMMA MarkExecutionInv ==
    ASSUME ToolInv, NEW x \in Executors, MarkExecution(x)
    PROVE  ToolInv'
<1>. DEFINE c == executor[x].c
            state == IF executor[x].ok THEN "succeeded" ELSE "failed"
<1>1. /\ executor \in [Executors -> ExecutorState] /\ Runs(x) /\ c \in ToolCallIds
      /\ execution[c].state = "processing" /\ state \in {"succeeded", "failed"}
      /\ \A y \in Executors : Runs(y) /\ executor[y].c = c => x = y
  <2>1. executor \in [Executors -> ExecutorState] /\ state \in {"succeeded", "failed"}
    BY DEF ToolInv, ToolTypeOK, ExecutorState
  <2>2. Runs(x) /\ c \in ToolCallIds
    BY DEF ToolInv, Runs, MarkExecution, KnowsItsTool
  <2>3. execution[c].state = "processing"
    BY <2>2 DEF ToolInv, ClaimIsRecorded
  <2>. QED BY <2>1, <2>2, <2>3 DEF ToolInv, OneClaim
<1>2. /\ execution' = [execution EXCEPT ![c].state = state] /\ executor' = [executor EXCEPT ![x] = Idle]
      /\ UNCHANGED <<effects, toolFaults>> /\ ExecuteUnchanged
  BY <1>1 DEF MarkExecution, Return, Step
<1>3. /\ executor' \in [Executors -> ExecutorState] /\ executor'[x] = Idle
      /\ \A y \in Executors : y # x => executor'[y] = executor[y]
  BY <1>1, <1>2, IdleState
<1>. HIDE DEF state, c
<1>. QED BY <1>1, <1>2, <1>3, IdleState, SettleInv

\* The reconciliation closes a row that nobody runs.
LEMMA ReconcileUncertainInv ==
    ASSUME ToolInv, NEW c \in ToolCallIds, ReconcileUncertain(c)
    PROVE  ToolInv'
<1>1. executor' \in [Executors -> ExecutorState] /\ executor' = executor
  BY DEF ToolInv, ToolTypeOK, ExecutorState, ReconcileUncertain
<1>2. \A y \in Executors : ~(Runs(y) /\ executor[y].c = c)
  BY DEF ReconcileUncertain, Runs
<1>. QED BY <1>1, <1>2, SettleInv DEF ReconcileUncertain

(***************************************************************************)
(* Theorems                                                                *)
(***************************************************************************)
\* The invariant is established and kept by every step.
THEOREM ToolsInductive == ToolSpec => []ToolInv
<1>1. ToolInv /\ [ToolNext]_toolVars => ToolInv'
  <2>. SUFFICES ASSUME ToolInv, [ToolNext]_toolVars PROVE ToolInv'
    OBVIOUS
  <2>1. toolRow \in [ToolIds -> Tool] /\ toolSession \in BOOLEAN
    BY DEF ToolInv, ToolTypeOK
  <2>2. CASE UNCHANGED toolVars
    BY <2>1, <2>2, AdminInv DEF toolVars
  <2>3. ASSUME NEW t \in ToolIds, CreateTool(t) \/ DeleteTool(t) PROVE ToolInv'
    <3>1. /\ [version |-> 1, enabled |-> TRUE, secret |-> t \in WebhookTools] \in Tool
          /\ [version |-> 0, enabled |-> FALSE, secret |-> FALSE] \in Tool
      BY ToolAssumption DEF Tool
    <3>2. toolRow' \in [ToolIds -> Tool]
      BY <2>1, <2>3, <3>1 DEF CreateTool, DeleteTool
    <3>. QED BY <2>1, <2>3, <3>2, AdminInv DEF CreateTool, DeleteTool, AdminUnchanged
  <2>4. ASSUME NEW t \in ToolIds, NEW v \in 1..ToolVersions, NEW e \in BOOLEAN, UpdateTool(t, v, e)
        PROVE  ToolInv'
    <3>0. v \in 0..ToolVersions
      BY ToolAssumption
    <3>1. [toolRow[t] EXCEPT !.version = v, !.enabled = e] \in Tool
      BY <2>1, <3>0 DEF Tool
    <3>2. toolRow' = [toolRow EXCEPT ![t] = [toolRow[t] EXCEPT !.version = v, !.enabled = e]]
      BY <2>1, <2>4 DEF UpdateTool, Tool
    <3>3. toolRow' \in [ToolIds -> Tool]
      BY <2>1, <3>1, <3>2
    <3>. QED BY <2>1, <2>4, <3>3, AdminInv DEF UpdateTool, AdminUnchanged
  <2>5. CASE ToolSessionEnds
    BY <2>1, <2>5, AdminInv DEF ToolSessionEnds
  <2>. QED BY <2>2, <2>3, <2>4, <2>5, WithoutEffectInv, ClaimExecutionInv, SendRequestInv,
              MarkExecutionInv, ReconcileUncertainInv DEF ToolNext, ExecutorStep
<1>. QED BY <1>1, ToolInvInit, PTL DEF ToolSpec

\* Rows, goroutines and effects are always well formed.
THEOREM ToolTypeCorrect == ToolSpec => []ToolTypeOK
<1>1. ToolInv => ToolTypeOK
  BY DEF ToolInv
<1>. QED BY <1>1, ToolsInductive, PTL

\* However often a tool call is delivered, cut off or reconciled, and whatever is done to the
\* tool meanwhile, it takes effect at most once and with the settings of the session's snapshot
\* (ClaimVoiceAgentToolExecution, bindExecutionTool).
THEOREM ToolEffectsAreSound == ToolSpec => []ToolEffectsSound
<1>1. ToolInv => ToolEffectsSound
  BY DEF ToolInv
<1>. QED BY <1>1, ToolsInductive, PTL

(***************************************************************************)
(* Recordings                                                              *)
(***************************************************************************)
RecordingSafety == RecInit /\ [][RecNext]_recVars

\* The row of a recording, and what a worker has in hand of one.
Row == [status: RecStatus, attempts: Nat, due: BOOLEAN, pin: Integrations \cup {NoIntegration},
        sent: SUBSET RecEvent]
Hand == [attempts: Nat, pin: Integrations \cup {NoIntegration}]
UploadJob == [at: UploadAt, queue: SUBSET RecIds, rows: UNION {[S -> Hand] : S \in SUBSET RecIds},
              r: RecIds \cup {NoIntegration}, dest: Integrations \cup {NoIntegration}]
DeleteJob == [at: {"idle", "object", "row"}, r: RecIds \cup {NoIntegration}]

RecordingTypes ==
    /\ recording \in [RecIds -> Row] /\ media \in [RecIds -> {"none", "running", "stopped", "over"}]
    /\ staged \subseteq RecIds /\ erased \subseteq RecIds /\ expired \subseteq RecIds
    /\ objects \subseteq RecIds \X Integrations
    /\ ingester \in [Ingesters -> UploadJob] /\ deleter \in [Deleters -> DeleteJob]

\* An object that was written is there until it is deleted for good.
Written(r, i) == <<r, i>> \in objects \/ r \in erased

\* A job knows the destination of its row once there is one, completes what it wrote, and removes
\* the staged file of a row that is completed.
JobInv(w) ==
    /\ RecJob(w).queue \subseteq DOMAIN RecJob(w).rows
    /\ RecJob(w).at \notin {"idle", "next"} => RecJob(w).r \in DOMAIN RecJob(w).rows
    /\ \A r \in DOMAIN RecJob(w).rows : RecJob(w).rows[r].pin # NoIntegration
          => recording[r].pin = RecJob(w).rows[r].pin
    /\ RecJob(w).at \in {"pin", "put", "complete"} => RecJob(w).dest \in Integrations
    /\ RecJob(w).at \in {"put", "complete"} => recording[RecJob(w).r].pin = RecJob(w).dest
    /\ RecJob(w).at = "complete" => Written(RecJob(w).r, RecJob(w).dest)
    /\ RecJob(w).at = "remove" => Status(RecJob(w).r) \in {"completed", "deleted"}

\* What is being deleted was uploaded or given up.
DeleteInv(d) ==
    deleter[d].at # "idle" => /\ deleter[d].r \in RecIds
                              /\ Status(deleter[d].r) \in {"completed", "failed", "deleted"}

\* The status agrees with the outcome that was announced.
RowInv(r) ==
    /\ ~({"completed", "failed"} \subseteq recording[r].sent)
    /\ "completed" \in recording[r].sent => Status(r) \in {"completed", "deleted"}
    /\ "failed" \in recording[r].sent => Status(r) \in {"failed", "deleted"}
    /\ Status(r) = "completed" => Written(r, recording[r].pin)
    /\ media[r] # "none" /\ r \notin staged => Status(r) \in {"completed", "deleted"}

UploadInv ==
    /\ RecordingTypes /\ ObjectsArePinned
    /\ \A r \in RecIds : RowInv(r)
    /\ \A w \in Ingesters : JobInv(w)
    /\ \A d \in Deleters : DeleteInv(d)

\* How rows and objects may change: a destination is kept, a settled row stays settled, a completed
\* one is only deleted, and an object goes with a deletion.
RowsAdvance ==
    /\ recording' \in [RecIds -> Row]
    /\ \A r \in RecIds :
          /\ recording[r].pin # NoIntegration => recording'[r].pin = recording[r].pin
          /\ recording[r].status \in {"completed", "deleted"}
                => recording'[r].status \in {"completed", "deleted"}
          /\ recording[r].status \in {"completed", "failed", "deleted"}
                => recording'[r].status \in {"completed", "failed", "deleted"}
    /\ \A o \in objects : o \in objects' \/ o[1] \in erased'
    /\ erased \subseteq erased'

\* What a job has in hand are rows of recordings.
LEMMA JobTypes ==
    ASSUME UploadInv, NEW w \in Ingesters
    PROVE  /\ ingester[w] \in UploadJob /\ RecJob(w) = ingester[w]
           /\ DOMAIN ingester[w].rows \subseteq RecIds
           /\ ingester[w].rows \in [DOMAIN ingester[w].rows -> Hand]
<1>1. ingester[w] \in UploadJob
  BY DEF UploadInv, RecordingTypes
<1>2. PICK S \in SUBSET RecIds : ingester[w].rows \in [S -> Hand]
  BY <1>1 DEF UploadJob
<1> QED
  BY <1>1, <1>2 DEF RecJob

\* A step that advances the rows keeps what it does not touch.
LEMMA AdvanceFrame ==
    ASSUME UploadInv, RowsAdvance
    PROVE  /\ \A w \in Ingesters : ingester'[w] = ingester[w] => JobInv(w)'
           /\ \A d \in Deleters : deleter'[d] = deleter[d] => DeleteInv(d)'
           /\ objects' \subseteq objects => ObjectsArePinned'
           /\ \A r \in RecIds, i \in Integrations : Written(r, i) => Written(r, i)'
<1>1. \A r \in RecIds, i \in Integrations : Written(r, i) => Written(r, i)'
  BY DEF RowsAdvance, Written
<1>2. ASSUME NEW w \in Ingesters, ingester'[w] = ingester[w] PROVE JobInv(w)'
  <2>1. /\ JobInv(w) /\ DOMAIN ingester[w].rows \subseteq RecIds
        /\ ingester[w].rows \in [DOMAIN ingester[w].rows -> Hand]
        /\ ingester[w].dest # NoIntegration \/ ingester[w].dest = NoIntegration
    BY JobTypes DEF UploadInv
  <2>2. RecJob(w)' = ingester[w] /\ RecJob(w) = ingester[w]
    BY <1>2 DEF RecJob
  <2> HIDE DEF RecJob
  <2>3. \A r \in DOMAIN ingester[w].rows : ingester[w].rows[r].pin # NoIntegration
          => recording'[r].pin = ingester[w].rows[r].pin
    BY <2>1, <2>2 DEF JobInv, RowsAdvance
  <2>4. /\ ingester[w].queue \subseteq DOMAIN ingester[w].rows
        /\ ingester[w].at \notin {"idle", "next"} => ingester[w].r \in DOMAIN ingester[w].rows
        /\ ingester[w].at \in {"pin", "put", "complete"} => ingester[w].dest \in Integrations
    BY <2>1, <2>2 DEF JobInv
  <2>5. ingester[w].at \in {"put", "complete"} => recording'[ingester[w].r].pin = ingester[w].dest
    BY <2>1, <2>2, <2>4, RecAssumption DEF JobInv, RowsAdvance, RecAssumption
  <2>6. ingester[w].at = "complete" => \/ <<ingester[w].r, ingester[w].dest>> \in objects'
                                       \/ ingester[w].r \in erased'
    BY <1>1, <2>1, <2>2, <2>4 DEF JobInv, Written
  <2>7. ingester[w].at = "remove" => recording'[ingester[w].r].status \in {"completed", "deleted"}
    BY <2>1, <2>2, <2>4 DEF JobInv, RowsAdvance, Status
  <2> QED
    BY <2>2, <2>3, <2>4, <2>5, <2>6, <2>7 DEF JobInv, Status, Written
<1>3. ASSUME NEW d \in Deleters, deleter'[d] = deleter[d] PROVE DeleteInv(d)'
  BY <1>3 DEF UploadInv, DeleteInv, Status, RowsAdvance
<1>4. ASSUME objects' \subseteq objects PROVE ObjectsArePinned'
  <2>1. \A o \in objects : o[1] \in RecIds /\ o[2] \in Integrations /\ recording[o[1]].pin = o[2]
    BY DEF UploadInv, RecordingTypes, ObjectsArePinned
  <2> QED
    BY <1>4, <2>1, RecAssumption DEF ObjectsArePinned, RowsAdvance, RecAssumption
<1> QED
  BY <1>1, <1>2, <1>3, <1>4

\* A statement that changes one row.
LEMMA OneRow ==
    ASSUME UploadInv, NEW r \in RecIds, NEW row \in Row,
           recording' = [recording EXCEPT ![r] = row],
           recording[r].pin # NoIntegration => row.pin = recording[r].pin,
           Status(r) \in {"completed", "deleted"} => row.status \in {"completed", "deleted"},
           Status(r) \in {"completed", "failed", "deleted"}
              => row.status \in {"completed", "failed", "deleted"},
           ~({"completed", "failed"} \subseteq row.sent),
           "completed" \in row.sent => row.status \in {"completed", "deleted"},
           "failed" \in row.sent => row.status \in {"failed", "deleted"},
           row.status = "completed" => Written(r, row.pin),
           UNCHANGED <<media, staged, objects, erased>>
    PROVE  RowsAdvance /\ ObjectsArePinned' /\ \A q \in RecIds : RowInv(q)'
<1>1. /\ recording \in [RecIds -> Row] /\ recording'[r] = row
      /\ \A q \in RecIds \ {r} : recording'[q] = recording[q]
  BY DEF UploadInv, RecordingTypes
<1>2. recording' \in [RecIds -> Row]
  BY <1>1
<1>3. RowsAdvance
  BY <1>1, <1>2 DEF RowsAdvance, Status
<1>4. ObjectsArePinned'
  BY <1>3, AdvanceFrame
<1>5. RowInv(r)'
  BY <1>1 DEF UploadInv, RowInv, Status, Written
<1>6. \A q \in RecIds \ {r} : RowInv(q)'
  BY <1>1 DEF UploadInv, RowInv, Status, Written
<1> QED
  BY <1>3, <1>4, <1>5, <1>6

\* Steps that change no row, object or job.
LEMMA RowsUnchanged ==
    ASSUME UploadInv, UNCHANGED <<recording, objects, erased>>
    PROVE  RowsAdvance /\ ObjectsArePinned'
<1>1. RowsAdvance
  BY DEF UploadInv, RecordingTypes, RowsAdvance
<1> QED
  BY <1>1, AdvanceFrame

\* No recording yet.
LEMMA UploadInit == RecInit => UploadInv
<1> SUFFICES ASSUME RecInit PROVE UploadInv
  OBVIOUS
<1>1. /\ NoUpload \in UploadJob /\ NoUpload.at = "idle" /\ NoUpload.queue = {}
      /\ DOMAIN NoUpload.rows = {}
  <2>1. [r \in {} |-> 0] \in [{} -> Hand]
    OBVIOUS
  <2> QED
    BY <2>1 DEF NoUpload, UploadJob, UploadAt
<1>2. RecordingTypes
  BY <1>1 DEF RecInit, RecordingTypes, Row, RecStatus, RecEvent, NoDelete, DeleteJob
<1>3. ObjectsArePinned /\ \A r \in RecIds : RowInv(r)
  BY DEF RecInit, ObjectsArePinned, RowInv, Status
<1>4. \A w \in Ingesters : JobInv(w)
  BY <1>1 DEF RecInit, JobInv, RecJob
<1>5. \A d \in Deleters : DeleteInv(d)
  BY DEF RecInit, DeleteInv, NoDelete
<1> QED
  BY <1>2, <1>3, <1>4, <1>5 DEF UploadInv

(***************************************************************************)
(* FreeSWITCH, settings and leases                                         *)
(***************************************************************************)
\* A row with a new status and its event.
LEMMA AnnouncedRow ==
    ASSUME NEW row \in Row, NEW status \in RecStatus, NEW event \in RecEvent
    PROVE  /\ Announced(row, status, event) \in Row
           /\ Announced(row, status, event).status = status
           /\ Announced(row, status, event).pin = row.pin
           /\ Announced(row, status, event).sent = row.sent \cup {event}
BY DEF Announced, Row

\* Steps that leave jobs alone.
LEMMA JobsUnchanged ==
    ASSUME UploadInv, RowsAdvance, UNCHANGED <<ingester, deleter>>
    PROVE  (\A w \in Ingesters : JobInv(w)') /\ (\A d \in Deleters : DeleteInv(d)')
BY AdvanceFrame

\* FreeSWITCH records, stops, and the call ends.
LEMMA RecorderStep ==
    ASSUME UploadInv, NEW r \in RecIds,
           MediaStarts(r) \/ \E how \in {"stopped", "over"} : MediaStops(r, how)
    PROVE  UploadInv'
<1>1. /\ UNCHANGED <<recording, objects, erased, expired, ingester, deleter>>
      /\ media' \in [RecIds -> {"none", "running", "stopped", "over"}]
      /\ staged \subseteq staged' /\ staged' \subseteq RecIds
      /\ \A q \in RecIds : media'[q] # "none" /\ q \notin staged' => media[q] # "none"
  BY DEF UploadInv, RecordingTypes, MediaStarts, MediaStops, EventsUnchanged
<1>2. RowsAdvance /\ ObjectsArePinned'
  BY <1>1, RowsUnchanged
<1>3. (\A w \in Ingesters : JobInv(w)') /\ (\A d \in Deleters : DeleteInv(d)')
  BY <1>1, <1>2, JobsUnchanged
<1>4. \A q \in RecIds : RowInv(q)'
  BY <1>1 DEF UploadInv, RowInv, Status, Written
<1>5. RecordingTypes'
  BY <1>1 DEF UploadInv, RecordingTypes
<1> QED
  BY <1>2, <1>3, <1>4, <1>5 DEF UploadInv

\* Integrations, policies and the age of recordings.
LEMMA SettingsStep ==
    ASSUME UploadInv, SettingsUnchanged, expired' \subseteq RecIds PROVE UploadInv'
<1>1. UNCHANGED <<recording, media, staged, objects, ingester, deleter, erased>>
  BY DEF SettingsUnchanged
<1>2. RowsAdvance /\ ObjectsArePinned'
  BY <1>1, RowsUnchanged
<1>3. (\A w \in Ingesters : JobInv(w)') /\ (\A d \in Deleters : DeleteInv(d)')
  BY <1>1, <1>2, JobsUnchanged
<1>4. \A q \in RecIds : RowInv(q)'
  BY <1>1 DEF UploadInv, RowInv, Status, Written
<1>5. RecordingTypes'
  BY <1>1 DEF UploadInv, RecordingTypes
<1> QED
  BY <1>2, <1>3, <1>4, <1>5 DEF UploadInv

\* A step that changes one row and no job.
LEMMA RowStep ==
    ASSUME UploadInv, RowsAdvance, ObjectsArePinned', \A q \in RecIds : RowInv(q)',
           UNCHANGED <<media, staged, objects, erased, expired, ingester, deleter>>
    PROVE  UploadInv'
<1>1. (\A w \in Ingesters : JobInv(w)') /\ (\A d \in Deleters : DeleteInv(d)')
  BY JobsUnchanged
<1>2. RecordingTypes'
  BY DEF UploadInv, RecordingTypes, RowsAdvance
<1> QED
  BY <1>1, <1>2 DEF UploadInv

\* The events of FreeSWITCH, in whatever order they come, and the reconciliation.
LEMMA ObserveStep ==
    ASSUME UploadInv, NEW r \in RecIds,
           ObserveStarted(r) \/ ObserveStopped(r) \/ ReconcileRecording(r)
    PROVE  UploadInv'
<1> DEFINE row == recording'[r]
<1>1. recording \in [RecIds -> Row] /\ recording[r] \in Row /\ RowInv(r)
  BY DEF UploadInv, RecordingTypes
<1>2. UNCHANGED <<media, staged, objects, erased, expired, ingester, deleter>>
  BY DEF ObserveStarted, ObserveStopped, ReconcileRecording, EventsUnchanged
<1>3. /\ Created(recording[r]) \in Row /\ Created(recording[r]).status = "recording"
      /\ Created(recording[r]).pin = recording[r].pin
      /\ Created(recording[r]).sent = recording[r].sent \cup {"started"}
  <2>1. "recording" \in RecStatus /\ "started" \in RecEvent
    BY DEF RecStatus, RecEvent
  <2> QED
    BY <1>1, <2>1, AnnouncedRow DEF Created
<1>4. ASSUME NEW old \in Row
      PROVE  /\ Ready(old) \in Row /\ Ready(old).status = "uploading" /\ Ready(old).pin = old.pin
             /\ Ready(old).sent = old.sent
  BY DEF Ready, Row, RecStatus
<1>5. /\ row \in Row /\ recording' = [recording EXCEPT ![r] = row]
      /\ row.status \in {"recording", "uploading"} /\ row.pin = recording[r].pin
      /\ row.sent \in {recording[r].sent, recording[r].sent \cup {"started"}}
      /\ Status(r) \in {"none", "recording"}
  <2>1. CASE ObserveStarted(r)
    <3>1. row = Created(recording[r]) /\ recording' = [recording EXCEPT ![r] = row]
      BY <1>1, <2>1 DEF ObserveStarted
    <3> QED
      BY <1>3, <2>1, <3>1 DEF ObserveStarted, Known
  <2>2. CASE ObserveStopped(r) /\ Known(r)
    <3>1. row = Ready(recording[r]) /\ recording' = [recording EXCEPT ![r] = row]
      BY <1>1, <2>2 DEF ObserveStopped
    <3> QED
      BY <1>1, <1>4, <2>2, <3>1 DEF ObserveStopped
  <2>3. CASE ObserveStopped(r) /\ ~Known(r)
    <3>1. row = Ready(Created(recording[r])) /\ recording' = [recording EXCEPT ![r] = row]
      BY <1>1, <2>3 DEF ObserveStopped
    <3> QED
      BY <1>3, <1>4, <2>3, <3>1 DEF ObserveStopped
  <2>4. CASE ReconcileRecording(r)
    <3>1. row = Ready(recording[r]) /\ recording' = [recording EXCEPT ![r] = row]
      BY <1>1, <2>4 DEF ReconcileRecording
    <3> QED
      BY <1>1, <1>4, <2>4, <3>1 DEF ReconcileRecording, StaleRecordings
  <2> QED
    BY <2>1, <2>2, <2>3, <2>4
<1> HIDE DEF row
<1>6. /\ "completed" \notin row.sent /\ "failed" \notin row.sent
      /\ Status(r) \notin {"completed", "failed", "deleted"} /\ row.status # "completed"
  BY <1>1, <1>5 DEF RowInv
<1>7. RowsAdvance /\ ObjectsArePinned' /\ \A q \in RecIds : RowInv(q)'
  BY <1>2, <1>5, <1>6, OneRow
<1> QED
  BY <1>2, <1>7, RowStep

\* A lease, or a retry delay, is over.
LEMMA LeaseOverStep == ASSUME UploadInv, NEW r \in RecIds, LeaseOver(r) PROVE UploadInv'
<1> DEFINE row == [recording[r] EXCEPT !.due = TRUE]
<1>1. /\ recording \in [RecIds -> Row] /\ recording[r] \in Row /\ RowInv(r)
      /\ recording' = [recording EXCEPT ![r] = row] /\ Status(r) = "uploading"
      /\ UNCHANGED <<media, staged, objects, erased, expired, ingester, deleter>>
  BY DEF UploadInv, RecordingTypes, LeaseOver, IngestUnchanged
<1>2. /\ row \in Row /\ row.status = "uploading" /\ row.pin = recording[r].pin
      /\ row.sent = recording[r].sent
  BY <1>1 DEF Row, Status
<1> HIDE DEF row
<1>3. "completed" \notin row.sent /\ "failed" \notin row.sent
  BY <1>1, <1>2 DEF RowInv
<1>4. RowsAdvance /\ ObjectsArePinned' /\ \A q \in RecIds : RowInv(q)'
  BY <1>1, <1>2, <1>3, OneRow
<1> QED
  BY <1>1, <1>4, RowStep

\* Enabling, disabling and policies change settings only.
LEMMA AdministrationStep ==
    ASSUME UploadInv,
           \/ \E i \in Integrations :
                 \/ CreateIntegration(i) \/ DisableIntegration(i)
                 \/ \E status \in {"active", "disabled"} : UpdateIntegration(i, status)
           \/ DeletePolicy \/ \E enabled \in BOOLEAN : UpsertPolicy(enabled)
           \/ \E r \in RecIds : Expires(r)
    PROVE  UploadInv'
<1>1. SettingsUnchanged /\ expired' \subseteq RecIds
  BY DEF UploadInv, RecordingTypes, CreateIntegration, DisableIntegration, UpdateIntegration,
         SetIntegration, DeletePolicy, UpsertPolicy, SetPolicy, Expires
<1> QED
  BY <1>1, SettingsStep

(***************************************************************************)
(* The ingestion job                                                       *)
(***************************************************************************)
\* JobInv after a step, of a job that is given.
JobAfter(job) ==
    /\ job.queue \subseteq DOMAIN job.rows
    /\ job.at \notin {"idle", "next"} => job.r \in DOMAIN job.rows
    /\ \A r \in DOMAIN job.rows :
          job.rows[r].pin # NoIntegration => recording'[r].pin = job.rows[r].pin
    /\ job.at \in {"pin", "put", "complete"} => job.dest \in Integrations
    /\ job.at \in {"put", "complete"} => recording'[job.r].pin = job.dest
    /\ job.at = "complete" => <<job.r, job.dest>> \in objects' \/ job.r \in erased'
    /\ job.at = "remove" => recording'[job.r].status \in {"completed", "deleted"}

\* The job of one worker changes.
LEMMA OneJob ==
    ASSUME UploadInv, RowsAdvance, NEW w \in Ingesters, NEW job \in UploadJob,
           ingester' = [ingester EXCEPT ![w] = job], JobAfter(job),
           deleter' = deleter
    PROVE  /\ ingester' \in [Ingesters -> UploadJob] /\ (\A v \in Ingesters : JobInv(v)')
           /\ \A d \in Deleters : DeleteInv(d)'
<1>1. ingester \in [Ingesters -> UploadJob] /\ ingester'[w] = job
      /\ \A v \in Ingesters \ {w} : ingester'[v] = ingester[v]
  BY DEF UploadInv, RecordingTypes
<1>2. JobInv(w)'
  BY <1>1 DEF JobAfter, JobInv, RecJob, Written, Status
<1>3. \A v \in Ingesters \ {w} : JobInv(v)'
  BY <1>1, AdvanceFrame
<1> QED
  BY <1>1, <1>2, <1>3, AdvanceFrame

\* A step of one job.
LEMMA IngestStep ==
    ASSUME UploadInv, RowsAdvance, NEW w \in Ingesters, NEW job \in UploadJob,
           ingester' = [ingester EXCEPT ![w] = job], JobAfter(job), IngestUnchanged,
           ObjectsArePinned', \A q \in RecIds : RowInv(q)',
           staged' \subseteq RecIds, objects' \subseteq RecIds \X Integrations
    PROVE  UploadInv'
<1>1. UNCHANGED <<media, expired, deleter, erased>>
  BY DEF IngestUnchanged
<1>2. /\ ingester' \in [Ingesters -> UploadJob] /\ (\A v \in Ingesters : JobInv(v)')
      /\ \A d \in Deleters : DeleteInv(d)'
  BY <1>1, OneJob
<1>3. RecordingTypes'
  BY <1>1, <1>2 DEF UploadInv, RecordingTypes, RowsAdvance
<1> QED
  BY <1>2, <1>3 DEF UploadInv

\* What a step leaves as it was.
LEMMA SameRows ==
    ASSUME UploadInv, recording' \in [RecIds -> Row],
           \A r \in RecIds : /\ recording'[r].status = recording[r].status
                             /\ recording'[r].pin = recording[r].pin
                             /\ recording'[r].sent = recording[r].sent,
           UNCHANGED <<media, erased>>, objects \subseteq objects', staged \subseteq staged'
    PROVE  RowsAdvance /\ \A q \in RecIds : RowInv(q)'
BY DEF UploadInv, RowsAdvance, RowInv, Status, Written

\* No job, and the job that goes on with its batch.
LEMMA IdleJob == NoUpload \in UploadJob /\ JobAfter(NoUpload)
<1>1. [r \in {} |-> 0] \in [{} -> Hand]
  OBVIOUS
<1>2. /\ NoUpload \in UploadJob /\ NoUpload.at = "idle" /\ NoUpload.queue = {}
      /\ DOMAIN NoUpload.rows = {}
  BY <1>1 DEF NoUpload, UploadJob, UploadAt
<1> HIDE DEF NoUpload
<1> QED
  BY <1>2 DEF JobAfter

\* The rest of the batch.
LEMMA NextRowJob ==
    ASSUME UploadInv, RowsAdvance, NEW w \in Ingesters, NextRow(w)
    PROVE  \E job \in UploadJob : ingester' = [ingester EXCEPT ![w] = job] /\ JobAfter(job)
<1> DEFINE old == ingester[w]
           rest == [old EXCEPT !.at = "next", !.r = NoIntegration, !.dest = NoIntegration,
                               !.rows = [r \in old.queue |-> old.rows[r]]]
<1>1. /\ old \in UploadJob /\ DOMAIN old.rows \subseteq RecIds
      /\ old.rows \in [DOMAIN old.rows -> Hand] /\ RecJob(w) = old
  BY JobTypes
<1>2. /\ old.queue \subseteq DOMAIN old.rows
      /\ \A r \in DOMAIN old.rows :
            old.rows[r].pin # NoIntegration => recording[r].pin = old.rows[r].pin
  BY <1>1 DEF UploadInv, JobInv
<1>3. [r \in old.queue |-> old.rows[r]] \in [old.queue -> Hand]
  BY <1>1, <1>2
<1>4. rest \in UploadJob
  BY <1>1, <1>3 DEF UploadJob, UploadAt
<1>5. /\ rest.at = "next" /\ rest.queue = old.queue /\ DOMAIN rest.rows = old.queue
      /\ \A r \in old.queue : rest.rows[r] = old.rows[r]
  BY <1>1 DEF UploadJob
<1>6. ingester' = [ingester EXCEPT ![w] = rest] \/ ingester' = [ingester EXCEPT ![w] = NoUpload]
  BY <1>1 DEF NextRow, SetJob
<1> HIDE DEF rest
<1>7. JobAfter(rest)
  BY <1>1, <1>2, <1>5, RecAssumption DEF JobAfter, RowsAdvance
<1> QED
  BY <1>4, <1>6, <1>7, IdleJob

\* A pass is over: whatever it had in hand is forgotten.
LEMMA EndPassStep ==
    ASSUME UploadInv, NEW w \in Ingesters, EndPass(w), IngestUnchanged,
           UNCHANGED <<recording, staged, objects>>
    PROVE  UploadInv'
<1>1. UNCHANGED <<media, erased>> /\ ingester' = [ingester EXCEPT ![w] = NoUpload]
  BY DEF IngestUnchanged, EndPass, SetJob
<1>2. RowsAdvance /\ ObjectsArePinned'
  BY <1>1, RowsUnchanged
<1>3. recording \in [RecIds -> Row] /\ staged \subseteq RecIds
      /\ objects \subseteq RecIds \X Integrations
  BY DEF UploadInv, RecordingTypes
<1>4. \A q \in RecIds : RowInv(q)'
  BY <1>1, <1>3, SameRows
<1>5. NoUpload \in UploadJob /\ JobAfter(NoUpload)
  BY IdleJob
<1> QED
  BY <1>1, <1>2, <1>3, <1>4, <1>5, IngestStep

\* A batch is claimed.
LEMMA ClaimStep == ASSUME UploadInv, NEW w \in Ingesters, Ingest(w) PROVE UploadInv'
<1>1. PICK batch \in SUBSET DueForUpload :
        /\ recording' = [r \in RecIds |-> IF r \in batch THEN [recording[r] EXCEPT !.due = FALSE]
                                          ELSE recording[r]]
        /\ SetJob(w, [NoUpload EXCEPT !.at = "next", !.queue = batch,
                                      !.rows = [r \in batch |-> InHand(recording[r])]])
  BY DEF Ingest
<1> DEFINE hand == [r \in batch |-> InHand(recording[r])]
           job == [NoUpload EXCEPT !.at = "next", !.queue = batch, !.rows = hand]
<1>2. /\ UNCHANGED <<media, erased, staged, objects>> /\ IngestUnchanged
      /\ ingester' = [ingester EXCEPT ![w] = job] /\ batch \subseteq RecIds
      /\ recording \in [RecIds -> Row] /\ staged \subseteq RecIds
      /\ objects \subseteq RecIds \X Integrations
  BY <1>1 DEF Ingest, IngestUnchanged, SetJob, DueForUpload, UploadInv, RecordingTypes
<1>3. \A r \in RecIds : [recording[r] EXCEPT !.due = FALSE] \in Row
  BY <1>2 DEF Row
<1>4. /\ recording' \in [RecIds -> Row]
      /\ \A r \in RecIds : /\ recording'[r].status = recording[r].status
                           /\ recording'[r].pin = recording[r].pin
                           /\ recording'[r].sent = recording[r].sent
  BY <1>1, <1>2, <1>3 DEF Row
<1>5. RowsAdvance /\ \A q \in RecIds : RowInv(q)'
  BY <1>2, <1>4, SameRows
<1>6. ObjectsArePinned'
  BY <1>2, <1>5, AdvanceFrame
<1>7. /\ hand \in [batch -> Hand] /\ \A r \in batch : hand[r].pin = recording[r].pin
  BY <1>2 DEF InHand, Row, Hand
<1>8. job \in UploadJob /\ job.at = "next" /\ job.queue = batch /\ job.rows = hand
  BY <1>2, <1>7, IdleJob DEF UploadJob, UploadAt
<1> HIDE DEF job, hand
<1>9. JobAfter(job)
  BY <1>2, <1>4, <1>7, <1>8 DEF JobAfter
<1> QED
  BY <1>2, <1>5, <1>6, <1>8, <1>9, IngestStep

\* The file is there and has a destination, or the row waits for another attempt.
LEMMA OpenStep ==
    ASSUME UploadInv, NEW w \in Ingesters, NEW r \in RecIds, OpenStaged(w, r) PROVE UploadInv'
<1> DEFINE old == ingester[w]
           job(at, dest) == [old EXCEPT !.at = at, !.r = r, !.dest = dest, !.queue = @ \ {r}]
<1>1. /\ old \in UploadJob /\ DOMAIN old.rows \subseteq RecIds
      /\ old.rows \in [DOMAIN old.rows -> Hand] /\ RecJob(w) = old
  BY JobTypes
<1>2. /\ UNCHANGED <<recording, media, erased, staged, objects>> /\ IngestUnchanged
      /\ recording \in [RecIds -> Row] /\ staged \subseteq RecIds
      /\ objects \subseteq RecIds \X Integrations
  BY DEF OpenStaged, IngestUnchanged, UploadInv, RecordingTypes
<1>3. RowsAdvance /\ ObjectsArePinned' /\ \A q \in RecIds : RowInv(q)'
  BY <1>2, RowsUnchanged, SameRows
<1>4. /\ r \in old.queue /\ old.queue \subseteq DOMAIN old.rows
      /\ \A q \in DOMAIN old.rows :
            old.rows[q].pin # NoIntegration => recording[q].pin = old.rows[q].pin
  BY <1>1 DEF OpenStaged, UploadInv, JobInv
<1>5. \/ ingester' = [ingester EXCEPT ![w] = job("retry", NoIntegration)]
      \/ \E i \in Integrations :
            \/ ingester' = [ingester EXCEPT ![w] = job("pin", i)]
            \/ i = recording[r].pin /\ ingester' = [ingester EXCEPT ![w] = job("put", i)]
  <2>1. old.rows[r] \in Hand
    BY <1>1, <1>4
  <2> QED
    BY <1>1, <1>4, <2>1 DEF OpenStaged, SetJob, ActiveIntegrations, Hand
<1>6. ASSUME NEW at \in {"pin", "put", "retry"}, NEW dest \in Integrations \cup {NoIntegration},
             at \in {"pin", "put"} => dest \in Integrations,
             at = "put" => dest = recording[r].pin
      PROVE  job(at, dest) \in UploadJob /\ JobAfter(job(at, dest))
  <2> DEFINE new == job(at, dest)
  <2>1. /\ new \in UploadJob /\ new.at = at /\ new.r = r /\ new.dest = dest
        /\ new.rows = old.rows /\ new.queue = old.queue \ {r}
    BY <1>1 DEF UploadJob, UploadAt
  <2> HIDE DEF new
  <2>2. JobAfter(new)
    BY <1>2, <1>4, <1>6, <2>1 DEF JobAfter
  <2> QED
    BY <2>1, <2>2 DEF new
<1>7. PICK job2 \in UploadJob : ingester' = [ingester EXCEPT ![w] = job2] /\ JobAfter(job2)
  <2> HIDE DEF job
  <2>1. CASE ingester' = [ingester EXCEPT ![w] = job("retry", NoIntegration)]
    BY <1>6, <2>1
  <2>2. ASSUME NEW i \in Integrations, ingester' = [ingester EXCEPT ![w] = job("pin", i)]
        PROVE  \E k \in UploadJob : ingester' = [ingester EXCEPT ![w] = k] /\ JobAfter(k)
    BY <1>6, <2>2
  <2>3. ASSUME NEW i \in Integrations, i = recording[r].pin,
               ingester' = [ingester EXCEPT ![w] = job("put", i)]
        PROVE  \E k \in UploadJob : ingester' = [ingester EXCEPT ![w] = k] /\ JobAfter(k)
    BY <1>6, <2>3
  <2> QED
    BY <1>5, <2>1, <2>2, <2>3
<1> QED
  BY <1>2, <1>3, <1>7, IngestStep

\* What a job has in hand when it works on a row.
LEMMA JobInHand ==
    ASSUME UploadInv, NEW w \in Ingesters, ingester[w].at \notin {"idle", "next"}
    PROVE  /\ ingester[w] \in UploadJob /\ RecJob(w) = ingester[w]
           /\ ingester[w].rows \in [DOMAIN ingester[w].rows -> Hand]
           /\ ingester[w].queue \subseteq DOMAIN ingester[w].rows
           /\ DOMAIN ingester[w].rows \subseteq RecIds
           /\ ingester[w].r \in DOMAIN ingester[w].rows /\ ingester[w].r \in RecIds
           /\ recording \in [RecIds -> Row] /\ recording[ingester[w].r] \in Row
           /\ RowInv(ingester[w].r)
           /\ \A q \in DOMAIN ingester[w].rows : ingester[w].rows[q].pin # NoIntegration
                 => recording[q].pin = ingester[w].rows[q].pin
           /\ ingester[w].at \in {"pin", "put", "complete"} => ingester[w].dest \in Integrations
           /\ ingester[w].at \in {"put", "complete"}
                 => recording[ingester[w].r].pin = ingester[w].dest
           /\ ingester[w].at = "complete" => Written(ingester[w].r, ingester[w].dest)
           /\ ingester[w].at = "remove"
                 => recording[ingester[w].r].status \in {"completed", "deleted"}
<1>1. /\ ingester[w] \in UploadJob /\ RecJob(w) = ingester[w]
      /\ ingester[w].rows \in [DOMAIN ingester[w].rows -> Hand]
      /\ DOMAIN ingester[w].rows \subseteq RecIds
  BY JobTypes
<1>2. JobInv(w) /\ recording \in [RecIds -> Row] /\ \A q \in RecIds : RowInv(q)
  BY DEF UploadInv, RecordingTypes
<1> QED
  BY <1>1, <1>2 DEF JobInv, Status

\* A destination is pinned, once, or the pass is over.
LEMMA PinStep == ASSUME UploadInv, NEW w \in Ingesters, PinUpload(w) PROVE UploadInv'
<1> DEFINE old == ingester[w]
           r == old.r
           row == [recording[r] EXCEPT !.pin = old.dest]
<1>1. /\ RecJob(w) = old /\ old.at = "pin" /\ IngestUnchanged
      /\ UNCHANGED <<media, erased, staged, objects>>
      /\ staged \subseteq RecIds /\ objects \subseteq RecIds \X Integrations
  BY DEF PinUpload, RecJob, IngestUnchanged, UploadInv, RecordingTypes
<1>2. /\ old \in UploadJob /\ old.rows \in [DOMAIN old.rows -> Hand]
      /\ old.queue \subseteq DOMAIN old.rows /\ DOMAIN old.rows \subseteq RecIds
      /\ r \in DOMAIN old.rows /\ r \in RecIds /\ old.dest \in Integrations
      /\ recording \in [RecIds -> Row] /\ recording[r] \in Row /\ RowInv(r)
      /\ \A q \in DOMAIN old.rows :
            old.rows[q].pin # NoIntegration => recording[q].pin = old.rows[q].pin
  BY <1>1, JobInHand
<1>3. CASE ~CanPin(recording[r])
  <2>1. EndPass(w) /\ recording' = recording
    BY <1>1, <1>3 DEF PinUpload
  <2> QED
    BY <1>1, <2>1, EndPassStep
<1>4. CASE CanPin(recording[r])
  <2> DEFINE hand == [old.rows EXCEPT ![r] = InHand(row)]
             job == [old EXCEPT !.at = "put", !.rows = hand]
  <2>1. recording' = [recording EXCEPT ![r] = row]
    BY <1>1, <1>4 DEF PinUpload
  <2>2. recording'[r] = row
    BY <1>2, <2>1
  <2>3. SetJob(w, [RecJob(w) EXCEPT !.at = "put", !.rows[r] = InHand(recording'[r])])
    BY <1>1, <1>4 DEF PinUpload
  <2>4. ingester' = [ingester EXCEPT ![w] = job]
    BY <1>1, <2>2, <2>3 DEF SetJob
  <2>5. /\ recording[r].status = "uploading" /\ recording[r].pin = NoIntegration
    BY <1>4 DEF CanPin
  <2>6. /\ row \in Row /\ row.status = "uploading" /\ row.pin = old.dest
        /\ row.sent = recording[r].sent
    BY <1>2, <2>5 DEF Row
  <2>7. /\ InHand(row) \in Hand /\ InHand(row).pin = old.dest
    BY <2>6 DEF InHand, Row, Hand
  <2>8. /\ hand \in [DOMAIN old.rows -> Hand] /\ hand[r].pin = old.dest
        /\ DOMAIN hand = DOMAIN old.rows
        /\ \A q \in DOMAIN old.rows \ {r} : hand[q] = old.rows[q]
    BY <1>2, <2>7
  <2> HIDE DEF hand, row
  <2>9. /\ job \in UploadJob /\ job.at = "put" /\ job.rows = hand /\ job.r = r
        /\ job.queue = old.queue /\ job.dest = old.dest
    <3>1. hand \in UNION {[S -> Hand] : S \in SUBSET RecIds}
      BY <1>2, <2>8
    <3> QED
      BY <1>2, <3>1 DEF UploadJob, UploadAt
  <2> HIDE DEF job
  <2>10. "completed" \notin row.sent /\ "failed" \notin row.sent
    BY <1>2, <2>5, <2>6 DEF RowInv, Status
  <2>11. RowsAdvance /\ ObjectsArePinned' /\ \A q \in RecIds : RowInv(q)'
    BY <1>1, <1>2, <2>1, <2>5, <2>6, <2>10, OneRow DEF Status
  <2>12. JobAfter(job)
    <3>1. \A q \in RecIds \ {r} : recording'[q] = recording[q]
      BY <1>2, <2>1
    <3> QED
      BY <1>2, <2>2, <2>6, <2>8, <2>9, <3>1 DEF JobAfter
  <2> QED
    BY <1>1, <2>4, <2>9, <2>11, <2>12, IngestStep
<1> QED
  BY <1>3, <1>4

\* The object is written, or the upload fails before or after that.
LEMMA PutStep ==
    ASSUME UploadInv, NEW w \in Ingesters, PutObject(w) \/ PutFails(w) PROVE UploadInv'
<1> DEFINE old == ingester[w]
           r == old.r
           job(at) == [old EXCEPT !.at = at]
<1>1. /\ RecJob(w) = old /\ old.at = "put" /\ IngestUnchanged
      /\ UNCHANGED <<recording, media, erased, staged>>
      /\ staged \subseteq RecIds /\ objects \subseteq RecIds \X Integrations
  BY DEF PutObject, PutFails, RecJob, IngestUnchanged, UploadInv, RecordingTypes
<1>2. /\ old \in UploadJob /\ old.queue \subseteq DOMAIN old.rows
      /\ r \in DOMAIN old.rows /\ r \in RecIds /\ old.dest \in Integrations
      /\ recording \in [RecIds -> Row] /\ recording[r].pin = old.dest
      /\ \A q \in DOMAIN old.rows :
            old.rows[q].pin # NoIntegration => recording[q].pin = old.rows[q].pin
  BY <1>1, JobInHand
<1>3. PICK at \in {"complete", "retry"} :
        /\ ingester' = [ingester EXCEPT ![w] = job(at)]
        /\ objects \subseteq objects' /\ objects' \subseteq objects \cup {<<r, old.dest>>}
        /\ at = "complete" => <<r, old.dest>> \in objects'
  BY <1>1 DEF PutObject, PutFails, SetJob
<1>4. objects' \subseteq RecIds \X Integrations
  BY <1>1, <1>2, <1>3
<1>5. RowsAdvance /\ \A q \in RecIds : RowInv(q)'
  BY <1>1, <1>2, <1>3, SameRows
<1>6. ObjectsArePinned'
  BY <1>1, <1>2, <1>3 DEF UploadInv, ObjectsArePinned
<1>7. /\ job(at) \in UploadJob /\ job(at).at = at /\ job(at).rows = old.rows
      /\ job(at).queue = old.queue /\ job(at).r = r /\ job(at).dest = old.dest
  BY <1>2 DEF UploadJob, UploadAt
<1> DEFINE new == job(at)
<1> HIDE DEF job
<1>8. JobAfter(new)
  BY <1>1, <1>2, <1>3, <1>7 DEF JobAfter
<1> QED
  BY <1>1, <1>3, <1>4, <1>5, <1>6, <1>7, <1>8, IngestStep

\* The row is completed, or no longer uploading.
LEMMA CompleteStep == ASSUME UploadInv, NEW w \in Ingesters, CompleteUpload(w) PROVE UploadInv'
<1> DEFINE old == ingester[w]
           r == old.r
           row == Completed(recording[r])
           job == [old EXCEPT !.at = "remove"]
<1>1. /\ RecJob(w) = old /\ old.at = "complete" /\ IngestUnchanged
      /\ UNCHANGED <<media, erased, staged, objects>>
      /\ staged \subseteq RecIds /\ objects \subseteq RecIds \X Integrations
  BY DEF CompleteUpload, RecJob, IngestUnchanged, UploadInv, RecordingTypes
<1>2. /\ old \in UploadJob /\ old.queue \subseteq DOMAIN old.rows
      /\ DOMAIN old.rows \subseteq RecIds
      /\ r \in DOMAIN old.rows /\ r \in RecIds /\ old.dest \in Integrations
      /\ recording \in [RecIds -> Row] /\ recording[r] \in Row /\ RowInv(r)
      /\ recording[r].pin = old.dest /\ Written(r, old.dest)
      /\ \A q \in DOMAIN old.rows :
            old.rows[q].pin # NoIntegration => recording[q].pin = old.rows[q].pin
  BY <1>1, JobInHand
<1>3. CASE ~CanComplete(recording[r])
  <2>1. EndPass(w) /\ recording' = recording
    BY <1>1, <1>3 DEF CompleteUpload
  <2> QED
    BY <1>1, <2>1, EndPassStep
<1>4. CASE CanComplete(recording[r])
  <2>1. /\ recording' = [recording EXCEPT ![r] = row]
        /\ ingester' = [ingester EXCEPT ![w] = job]
    BY <1>1, <1>4 DEF CompleteUpload, SetJob
  <2>2. recording[r].status = "uploading"
    BY <1>4 DEF CanComplete
  <2>3. /\ row \in Row /\ row.status = "completed" /\ row.pin = old.dest
        /\ row.sent = recording[r].sent \cup {"completed"}
    <3> DEFINE said == Announced(recording[r], "completed", "completed")
    <3>1. "completed" \in RecStatus /\ "completed" \in RecEvent
      BY DEF RecStatus, RecEvent
    <3>2. /\ said \in Row /\ said.status = "completed" /\ said.pin = recording[r].pin
          /\ said.sent = recording[r].sent \cup {"completed"}
      BY <1>2, <3>1, AnnouncedRow
    <3> HIDE DEF said
    <3>3. [said EXCEPT !.due = FALSE] \in Row
      BY <3>2 DEF Row
    <3> QED
      BY <1>2, <3>2, <3>3 DEF Completed, said, Row
  <2> HIDE DEF row
  <2>4. "failed" \notin row.sent
    BY <1>2, <2>2, <2>3 DEF RowInv, Status
  <2>5. RowsAdvance /\ ObjectsArePinned' /\ \A q \in RecIds : RowInv(q)'
    BY <1>1, <1>2, <2>1, <2>2, <2>3, <2>4, OneRow DEF Status
  <2>6. /\ job \in UploadJob /\ job.at = "remove" /\ job.rows = old.rows
        /\ job.queue = old.queue /\ job.r = r
    BY <1>2 DEF UploadJob, UploadAt
  <2> HIDE DEF job
  <2>7. JobAfter(job)
    <3>1. recording'[r] = row /\ \A q \in RecIds \ {r} : recording'[q] = recording[q]
      BY <1>2, <2>1
    <3> QED
      BY <1>2, <2>3, <2>6, <3>1 DEF JobAfter
  <2> QED
    BY <1>1, <2>1, <2>5, <2>6, <2>7, IngestStep
<1> QED
  BY <1>3, <1>4

\* The staged file of a completed row goes.
LEMMA RemoveStagedStep == ASSUME UploadInv, NEW w \in Ingesters, RemoveStaged(w) PROVE UploadInv'
<1> DEFINE old == ingester[w]
<1>1. /\ RecJob(w) = old /\ old.at = "remove" /\ IngestUnchanged /\ NextRow(w)
      /\ UNCHANGED <<recording, media, erased, objects>> /\ staged' = staged \ {old.r}
      /\ staged \subseteq RecIds /\ objects \subseteq RecIds \X Integrations
  BY DEF RemoveStaged, RecJob, IngestUnchanged, UploadInv, RecordingTypes
<1>2. recording[old.r].status \in {"completed", "deleted"}
  BY <1>1, JobInHand
<1>3. RowsAdvance /\ ObjectsArePinned'
  BY <1>1, RowsUnchanged
<1>4. \A q \in RecIds : RowInv(q)'
  BY <1>1, <1>2 DEF UploadInv, RowInv, Status, Written
<1>5. PICK job \in UploadJob : ingester' = [ingester EXCEPT ![w] = job] /\ JobAfter(job)
  BY <1>1, <1>3, NextRowJob
<1> QED
  BY <1>1, <1>3, <1>4, <1>5, IngestStep

\* A failed upload is tried again later, given up, or not ours any more.
LEMMA RetryStep == ASSUME UploadInv, NEW w \in Ingesters, RetryOrFail(w) PROVE UploadInv'
<1> DEFINE old == ingester[w]
           r == old.r
           row == recording[r]
<1>1. /\ RecJob(w) = old /\ old.at = "retry" /\ IngestUnchanged
      /\ UNCHANGED <<media, erased, staged, objects>>
      /\ staged \subseteq RecIds /\ objects \subseteq RecIds \X Integrations
  BY DEF RetryOrFail, RecJob, IngestUnchanged, UploadInv, RecordingTypes
<1>2. r \in RecIds /\ recording \in [RecIds -> Row] /\ row \in Row /\ RowInv(r)
  BY <1>1, JobInHand
<1>3. \/ EndPass(w) /\ recording' = recording
      \/ /\ NextRow(w)
         /\ \/ recording' = recording
            \/ CanFail(row) /\ recording' = [recording EXCEPT ![r] = Failed(row)]
            \/ recording' = [recording EXCEPT ![r] = Retried(row)]
  BY <1>1, <1>2 DEF RetryOrFail
<1>4. /\ Retried(row) \in Row /\ Retried(row).status = row.status /\ Retried(row).pin = row.pin
      /\ Retried(row).sent = row.sent
  <2>1. row.attempts + 1 \in Nat
    BY <1>2 DEF Row
  <2> QED
    BY <1>2, <2>1 DEF Retried, Row
<1>5. CASE EndPass(w) /\ recording' = recording
  BY <1>1, <1>5, EndPassStep
<1>6. ASSUME NextRow(w), RowsAdvance, ObjectsArePinned', \A q \in RecIds : RowInv(q)'
      PROVE  UploadInv'
  <2>1. PICK job \in UploadJob : ingester' = [ingester EXCEPT ![w] = job] /\ JobAfter(job)
    BY <1>6, NextRowJob
  <2> QED
    BY <1>1, <1>6, <2>1, IngestStep
<1>7. CASE NextRow(w) /\ (recording' = recording \/ recording' = [recording EXCEPT ![r] = Retried(row)])
  <2>1. /\ recording' \in [RecIds -> Row]
        /\ \A q \in RecIds : /\ recording'[q].status = recording[q].status
                             /\ recording'[q].pin = recording[q].pin
                             /\ recording'[q].sent = recording[q].sent
    BY <1>2, <1>4, <1>7 DEF Row
  <2>2. RowsAdvance /\ \A q \in RecIds : RowInv(q)'
    BY <1>1, <2>1, SameRows
  <2>3. ObjectsArePinned'
    BY <1>1, <2>2, AdvanceFrame
  <2> QED
    BY <1>6, <1>7, <2>2, <2>3
<1>8. CASE NextRow(w) /\ CanFail(row) /\ recording' = [recording EXCEPT ![r] = Failed(row)]
  <2> DEFINE said == Announced(row, "failed", "failed")
             failed == Failed(row)
  <2>1. "failed" \in RecStatus /\ "failed" \in RecEvent
    BY DEF RecStatus, RecEvent
  <2>2. /\ said \in Row /\ said.status = "failed" /\ said.pin = row.pin
        /\ said.sent = row.sent \cup {"failed"}
    BY <1>2, <2>1, AnnouncedRow
  <2> HIDE DEF said
  <2>3. /\ failed \in Row /\ failed.status = "failed" /\ failed.pin = row.pin
        /\ failed.sent = row.sent \cup {"failed"}
    BY <2>2 DEF Failed, said, Row
  <2> HIDE DEF failed
  <2>4. Status(r) \in {"recording", "uploading"} /\ "completed" \notin failed.sent
    BY <1>2, <1>8, <2>3 DEF CanFail, RowInv, Status
  <2>5. recording' = [recording EXCEPT ![r] = failed]
    BY <1>8 DEF failed
  <2>6. RowsAdvance /\ ObjectsArePinned' /\ \A q \in RecIds : RowInv(q)'
    BY <1>1, <1>2, <2>3, <2>4, <2>5, OneRow
  <2> QED
    BY <1>6, <1>8, <2>6
<1> QED
  BY <1>3, <1>5, <1>7, <1>8

\* A statement of the pass fails.
LEMMA PassFailsStep == ASSUME UploadInv, NEW w \in Ingesters, PassFails(w) PROVE UploadInv'
BY EndPassStep DEF PassFails

(***************************************************************************)
(* Deletion, and the end of a worker                                       *)
(***************************************************************************)
\* A worker stops, with its pass and its deletion.
LEMMA StopStep ==
    ASSUME UploadInv, NEW w \in Ingesters, WorkerStops(w),
           UNCHANGED <<recording, media, staged, objects, expired, erased>>
    PROVE  UploadInv'
<1>1. /\ ingester \in [Ingesters -> UploadJob] /\ deleter \in [Deleters -> DeleteJob]
      /\ w \in Deleters /\ NoDelete \in DeleteJob
      /\ ingester' = [ingester EXCEPT ![w] = NoUpload]
      /\ deleter' = [deleter EXCEPT ![w] = NoDelete]
  BY DEF UploadInv, RecordingTypes, WorkerStops, Deleters, NoDelete, DeleteJob
<1>2. NoUpload \in UploadJob /\ JobAfter(NoUpload)
  BY IdleJob
<1>3. RowsAdvance /\ ObjectsArePinned'
  BY RowsUnchanged
<1>4. \A q \in RecIds : RowInv(q)'
  BY DEF UploadInv, RowInv, Status, Written
<1>5. \A v \in Ingesters : JobInv(v)'
  <2>1. JobInv(w)'
    BY <1>1, <1>2 DEF JobAfter, JobInv, RecJob, Written, Status
  <2>2. \A v \in Ingesters \ {w} : ingester'[v] = ingester[v]
    BY <1>1
  <2> QED
    BY <1>3, <2>1, <2>2, AdvanceFrame
<1>6. \A d \in Deleters : DeleteInv(d)'
  <2>1. DeleteInv(w)'
    BY <1>1 DEF DeleteInv, NoDelete
  <2>2. \A d \in Deleters \ {w} : deleter'[d] = deleter[d]
    BY <1>1
  <2> QED
    BY <1>3, <2>1, <2>2, AdvanceFrame
<1>7. RecordingTypes'
  BY <1>1, <1>2 DEF UploadInv, RecordingTypes
<1> QED
  BY <1>3, <1>4, <1>5, <1>6, <1>7 DEF UploadInv

\* A step of one deletion.
LEMMA DeletionStep ==
    ASSUME UploadInv, RowsAdvance, ObjectsArePinned', \A q \in RecIds : RowInv(q)',
           NEW d \in Deleters, NEW job \in DeleteJob, deleter' = [deleter EXCEPT ![d] = job],
           job.at # "idle" => /\ job.r \in RecIds
                              /\ recording'[job.r].status \in {"completed", "failed", "deleted"},
           UNCHANGED <<media, staged, ingester>>,
           objects' \subseteq objects, expired' \subseteq RecIds, erased' \subseteq RecIds
    PROVE  UploadInv'
<1>1. deleter' \in [Deleters -> DeleteJob] /\ deleter'[d] = job
      /\ \A e \in Deleters \ {d} : deleter'[e] = deleter[e]
  BY DEF UploadInv, RecordingTypes
<1>2. DeleteInv(d)'
  BY <1>1 DEF DeleteInv, Status
<1>3. (\A e \in Deleters : DeleteInv(e)') /\ (\A v \in Ingesters : JobInv(v)')
  BY <1>1, <1>2, AdvanceFrame
<1>4. RecordingTypes'
  BY <1>1 DEF UploadInv, RecordingTypes, RowsAdvance
<1> QED
  BY <1>3, <1>4 DEF UploadInv

\* Service.Delete: the row is read, the object removed, the row marked.
LEMMA DeleteStep ==
    ASSUME UploadInv, NEW d \in Deleters,
           (\E r \in RecIds : DeleteBegins(d, r)) \/ DeleteObject(d) \/ DeleteRow(d)
    PROVE  UploadInv'
<1> DEFINE old == deleter[d]
<1>1. /\ old \in DeleteJob /\ (old.at # "idle" => old.r \in RecIds
            /\ recording[old.r].status \in {"completed", "failed", "deleted"})
      /\ recording \in [RecIds -> Row] /\ objects \subseteq RecIds \X Integrations
      /\ expired \subseteq RecIds /\ erased \subseteq RecIds
      /\ deleter \in [Deleters -> DeleteJob]
      /\ UNCHANGED <<media, staged, ingester>>
  BY DEF UploadInv, RecordingTypes, DeleteInv, Status, DeleteBegins, DeleteObject, DeleteRow,
         DeleteUnchanged
<1>2. ASSUME NEW r \in RecIds, DeleteBegins(d, r) PROVE UploadInv'
  <2> DEFINE job == [at |-> "object", r |-> r]
  <2>1. /\ deleter' = [deleter EXCEPT ![d] = job] /\ job \in DeleteJob
        /\ UNCHANGED <<recording, objects, expired, erased>>
        /\ recording[r].status \in {"completed", "failed", "deleted"}
    BY <1>2 DEF DeleteBegins, DeleteJob, Status
  <2>2. RowsAdvance /\ ObjectsArePinned'
    BY <2>1, RowsUnchanged
  <2>3. \A q \in RecIds : RowInv(q)'
    BY <1>1, <2>1, SameRows
  <2> QED
    BY <1>1, <2>1, <2>2, <2>3, DeletionStep
<1>3. CASE DeleteObject(d)
  <2> DEFINE job == [old EXCEPT !.at = "row"]
  <2>1. /\ old.at = "object" /\ objects' = objects \ {<<old.r, recording[old.r].pin>>}
        /\ erased' = erased \cup {old.r} /\ deleter' = [deleter EXCEPT ![d] = job]
        /\ UNCHANGED <<recording, expired>>
    BY <1>1, <1>3 DEF DeleteObject
  <2>2. job \in DeleteJob /\ job.at = "row" /\ job.r = old.r
    BY <1>1 DEF DeleteJob
  <2>3. RowsAdvance
    BY <1>1, <2>1 DEF RowsAdvance
  <2>4. ObjectsArePinned'
    BY <2>1, <2>3, AdvanceFrame
  <2>5. \A q \in RecIds : RowInv(q)'
    BY <1>1, <2>1 DEF UploadInv, RowInv, Status, Written
  <2> HIDE DEF job
  <2>6. erased' \subseteq RecIds /\ objects' \subseteq objects
    BY <1>1, <2>1
  <2> QED
    BY <1>1, <2>1, <2>2, <2>3, <2>4, <2>5, <2>6, DeletionStep
<1>4. CASE DeleteRow(d)
  <2> DEFINE row == IF recording[old.r].status # "deleted" THEN Deleted(recording[old.r])
                    ELSE recording[old.r]
  <2>1. /\ old.at = "row" /\ recording' = [recording EXCEPT ![old.r] = row]
        /\ expired' = expired \ {old.r} /\ deleter' = [deleter EXCEPT ![d] = NoDelete]
        /\ UNCHANGED <<objects, erased>> /\ recording[old.r] \in Row /\ RowInv(old.r)
        /\ NoDelete \in DeleteJob /\ NoDelete.at = "idle"
    BY <1>1, <1>4 DEF DeleteRow, UploadInv, NoDelete, DeleteJob
  <2>2. /\ row \in Row /\ row.status = "deleted" /\ row.pin = recording[old.r].pin
        /\ row.sent \in {recording[old.r].sent, recording[old.r].sent \cup {"deleted"}}
    <3>1. "deleted" \in RecStatus /\ "deleted" \in RecEvent
      BY DEF RecStatus, RecEvent
    <3>2. /\ Deleted(recording[old.r]) \in Row /\ Deleted(recording[old.r]).status = "deleted"
          /\ Deleted(recording[old.r]).pin = recording[old.r].pin
          /\ Deleted(recording[old.r]).sent = recording[old.r].sent \cup {"deleted"}
      BY <2>1, <3>1, AnnouncedRow DEF Deleted
    <3> QED
      BY <2>1, <3>2
  <2> HIDE DEF row
  <2>5. ~({"completed", "failed"} \subseteq row.sent)
    BY <2>1, <2>2 DEF RowInv
  <2>3. RowsAdvance /\ ObjectsArePinned' /\ \A q \in RecIds : RowInv(q)'
    BY <1>1, <2>1, <2>2, <2>5, OneRow
  <2>4. expired' \subseteq RecIds /\ erased' \subseteq RecIds /\ objects' \subseteq objects
    BY <1>1, <2>1
  <2> QED
    BY <1>1, <2>1, <2>3, <2>4, DeletionStep
<1> QED
  BY <1>2, <1>3, <1>4

\* A deletion fails; a worker that has run it stops.
LEMMA DeleteFailsStep == ASSUME UploadInv, NEW d \in Deleters, DeleteFails(d) PROVE UploadInv'
<1>1. UNCHANGED <<recording, media, staged, objects, expired, erased>>
  BY DEF DeleteFails
<1>2. CASE d \in Ingesters
  BY <1>1, <1>2, StopStep DEF DeleteFails
<1>3. CASE d \notin Ingesters
  <2>1. deleter' = [deleter EXCEPT ![d] = NoDelete] /\ ingester' = ingester
    BY <1>3 DEF DeleteFails
  <2>2. NoDelete \in DeleteJob /\ NoDelete.at = "idle"
    BY DEF NoDelete, DeleteJob
  <2>3. RowsAdvance /\ ObjectsArePinned'
    BY <1>1, RowsUnchanged
  <2>4. /\ recording \in [RecIds -> Row] /\ expired \subseteq RecIds /\ erased \subseteq RecIds
    BY DEF UploadInv, RecordingTypes
  <2>5. \A q \in RecIds : RowInv(q)'
    BY <1>1, <2>4, SameRows
  <2> QED
    BY <1>1, <2>1, <2>2, <2>3, <2>4, <2>5, DeletionStep
<1> QED
  BY <1>2, <1>3

\* The inductive invariant of recordings, for any number of recordings and workers.
THEOREM UploadInductive == RecordingSafety => []UploadInv
<1>1. UploadInv /\ [RecNext]_recVars => UploadInv'
  <2> SUFFICES ASSUME UploadInv, [RecNext]_recVars PROVE UploadInv'
    OBVIOUS
  <2>1. CASE UNCHANGED recVars
    <3>1. UNCHANGED <<recording, media, staged, objects, integration, policy, expired, ingester,
                      deleter, erased>>
      BY <2>1 DEF recVars
    <3>2. SettingsUnchanged \/ recFaults' # recFaults
      BY <3>1 DEF SettingsUnchanged
    <3>3. recFaults' = recFaults /\ expired' \subseteq RecIds
      BY <2>1 DEF recVars, UploadInv, RecordingTypes
    <3> QED
      BY <3>2, <3>3, SettingsStep
  <2>2. ASSUME NEW w \in Ingesters,
               IngesterStep(w) \/ PutFails(w) \/ PassFails(w) \/ IngesterCrashes(w)
        PROVE  UploadInv'
    <3>1. CASE IngesterCrashes(w)
      BY <3>1, StopStep DEF IngesterCrashes
    <3> QED
      BY <2>2, <3>1, ClaimStep, OpenStep, PinStep, PutStep, CompleteStep, RemoveStagedStep, RetryStep,
         PassFailsStep DEF IngesterStep
  <2>3. ASSUME NEW d \in Deleters, DeleterStep(d) \/ DeleteFails(d) PROVE UploadInv'
    BY <2>3, DeleteStep, DeleteFailsStep DEF DeleterStep
  <2>4. ASSUME NEW r \in RecIds,
               \/ MediaStarts(r) \/ (\E how \in {"stopped", "over"} : MediaStops(r, how))
               \/ ObserveStarted(r) \/ ObserveStopped(r) \/ ReconcileRecording(r)
               \/ LeaseOver(r) \/ Expires(r)
               \/ \E d \in Deleters : DeleteBegins(d, r)
        PROVE  UploadInv'
    BY <2>4, RecorderStep, ObserveStep, LeaseOverStep, AdministrationStep, DeleteStep
  <2>5. CASE \/ \E i \in Integrations :
                  \/ CreateIntegration(i) \/ DisableIntegration(i)
                  \/ \E status \in {"active", "disabled"} : UpdateIntegration(i, status)
             \/ DeletePolicy \/ (\E enabled \in BOOLEAN : UpsertPolicy(enabled))
    BY <2>5, AdministrationStep
  <2> QED
    BY <2>1, <2>2, <2>3, <2>4, <2>5 DEF RecNext
<1> QED
  BY <1>1, UploadInit, PTL DEF RecordingSafety

\* Objects are where their row says, a staged file is kept until its recording is completed, a
\* completed one can be played until it is deleted, and one outcome is announced, whatever jobs
\* share a row, fail or stop in between (IngestionJob.ingestOne, Service.Delete).
THEOREM UploadsAreSound == RecordingSafety => []RecordingsSound
<1>1. UploadInv => RecordingsSound
  <2> SUFFICES ASSUME UploadInv PROVE RecordingsSound
    OBVIOUS
  <2>1. \A r \in RecIds : RowInv(r) /\ recording[r] \in Row
    BY DEF UploadInv, RecordingTypes
  <2>2. StagedUntilCompleted
    BY <2>1 DEF StagedUntilCompleted, RowInv
  <2>3. CompletedIsPlayable
    BY <2>1 DEF CompletedIsPlayable, Playable, RowInv, Written
  <2>4. OneOutcomeAnnounced
    BY <2>1 DEF OneOutcomeAnnounced, RowInv
  <2>5. ObjectsArePinned
    BY DEF UploadInv
  <2> QED
    BY <2>2, <2>3, <2>4, <2>5 DEF RecordingsSound
<1> QED
  BY <1>1, UploadInductive, PTL

(***************************************************************************)
(* Agent sessions                                                          *)
(***************************************************************************)
\* Who does something for a session knows one that was created.
AttachAt == {"create", "control", "fork", "clock", "setvar", "mark", "stop", "fail", "stopped"}
SessionKnown(s) == s \in AgentSessionIds /\ sessionRow[s].state # "none"
WhoInv ==
    /\ handler.at \in AttachAt \cup {"variable"} => SessionKnown(handler.s)
    /\ recovery.at # "idle" => SessionKnown(recovery.s)

\* Only a connection that has not been lost delivers the answer to attach; while it does, the
\* channel variable names the session of the fork as soon as attach is over.
Attaching == handler.at \in {"attach", "variable", "create", "control", "fork", "clock", "setvar", "mark"}
ForkInv ==
    /\ \A s, t \in call.forks : s = t
    /\ Attaching \/ "answered" \in call.events => call.repeats = TRUE
    /\ handler.at \in {"create", "control", "fork"} => call.forks = {} /\ call.var = NoSession
    /\ handler.at \in {"clock", "setvar"} => call.forks \subseteq {handler.s}
    /\ call.repeats = TRUE /\ handler.at \notin {"clock", "setvar"} => call.forks \subseteq {call.var}

\* The next sequence of a conversation is past every turn written or on its way. A session
\* without one has no turn on its way, and none at all before a crash; a recovery that has read
\* the turns goes on after the last of them.
TurnsOf(s) == writing[s] \cup turnRows[s]
TurnInv ==
    \A s \in AgentSessionIds :
        /\ sessionRow[s].state = "none" => TurnsOf(s) = {} /\ memory.states[s] = 0
        /\ sessionRow[s].state = "active" =>
              /\ writing[s] \cap turnRows[s] = {}
              /\ memory.states[s] # 0 => \A q \in TurnsOf(s) : q < memory.states[s]
              /\ memory.states[s] = 0 =>
                    /\ writing[s] = {}
                    /\ call.repeats = TRUE => turnRows[s] = {}
                    /\ recovery.at # "idle" /\ recovery.s = s =>
                          \A q \in turnRows[s] : q < recovery.next

AgentInv == AgentTypeOK /\ WhoInv /\ ForkInv /\ TurnInv

\* The sequence after the last turn written.
LEMMA RestoredIsNext ==
    ASSUME AgentTypeOK, NEW s \in AgentSessionIds
    PROVE  /\ RestoredSequence(s) \in 1..(MaxTurns + 1)
           /\ \A q \in turnRows[s] : q < RestoredSequence(s)
<1>. DEFINE S == turnRows[s] \cup {0}
            T == {b \in Nat : \A x \in S : x <= b}
<1>1. MaxTurns \in Nat /\ S \subseteq 0..MaxTurns /\ 0 \in S
  BY AgentAssumption DEF AgentTypeOK, AgentAssumption
<1>2. PICK b \in T : \A c \in T : ~(<<c, b>> \in OpToRel(<, Nat))
  <2>1. MaxTurns \in T
    BY <1>1
  <2> QED
    BY <2>1, WFMin, NatLessThanWellFounded, Zenon
<1>3. \A c \in T : ~(c < b)
  BY <1>2, Zenon DEF OpToRel
<1>4. b \in S
  <2> SUFFICES ASSUME b \notin S PROVE FALSE
    OBVIOUS
  <2>1. b \in Nat /\ \A x \in S : x <= b /\ x # b /\ x \in Nat
    BY <1>1
  <2>2. b # 0 /\ b - 1 \in Nat /\ \A x \in S : x <= b - 1
    BY <1>1, <2>1
  <2>3. b - 1 \in T
    BY <2>2
  <2> QED
    BY <1>3, <2>1, <2>3
<1>5. \A x \in S : b >= x
  BY <1>1
<1>6. PICK m \in S : m = Max(S) /\ \A x \in S : m >= x
  BY <1>4, <1>5 DEF Max
<1>7. RestoredSequence(s) = m + 1
  BY <1>6 DEF RestoredSequence
<1>8. m \in 0..MaxTurns /\ \A x \in S : x \in Nat /\ x <= m
  BY <1>1, <1>6
<1> QED
  BY <1>1, <1>7, <1>8

\* A step that hands out and writes no turn.
LEMMA TurnFrame ==
    ASSUME AgentInv, UNCHANGED <<turnRows, writing>>, memory'.states = memory.states,
           \A s \in AgentSessionIds :
              /\ sessionRow'[s].state = "active" => sessionRow[s].state \in {"active", "none"}
              /\ sessionRow'[s].state = "none" => sessionRow[s].state = "none",
           call'.repeats = TRUE => call.repeats = TRUE,
           recovery' = recovery \/ recovery'.at = "idle"
    PROVE  TurnInv'
<1> SUFFICES ASSUME NEW s \in AgentSessionIds
             PROVE  /\ sessionRow'[s].state = "none" =>
                          TurnsOf(s)' = {} /\ memory'.states[s] = 0
                    /\ sessionRow'[s].state = "active" =>
                          /\ writing'[s] \cap turnRows'[s] = {}
                          /\ memory'.states[s] # 0 => \A q \in TurnsOf(s)' : q < memory'.states[s]
                          /\ memory'.states[s] = 0 =>
                                /\ writing'[s] = {}
                                /\ call'.repeats = TRUE => turnRows'[s] = {}
                                /\ recovery'.at # "idle" /\ recovery'.s = s =>
                                      \A q \in turnRows'[s] : q < recovery'.next
  BY DEF TurnInv
<1>1. TurnsOf(s)' = TurnsOf(s)
  BY DEF TurnsOf
<1>2. CASE sessionRow[s].state = "none"
  <2>1. TurnsOf(s) = {} /\ memory.states[s] = 0 /\ writing[s] = {} /\ turnRows[s] = {}
    BY <1>2 DEF AgentInv, TurnInv, TurnsOf
  <2> QED
    BY <1>1, <2>1
<1>3. CASE sessionRow[s].state # "none"
  BY <1>1, <1>3 DEF AgentInv, TurnInv
<1> QED
  BY <1>2, <1>3

\* A step after which no session is active.
LEMMA TurnsOver ==
    ASSUME AgentInv, UNCHANGED <<turnRows, writing>>,
           \A s \in AgentSessionIds :
              /\ sessionRow'[s].state # "active"
              /\ sessionRow'[s].state = "none" => sessionRow[s].state = "none"
              /\ memory'.states[s] \in {0, memory.states[s]}
    PROVE  TurnInv'
BY DEF AgentInv, TurnInv, TurnsOf

\* Nothing is active any more.
LEMMA Completes ==
    ASSUME AgentInv, NEW state \in {"failed", "completed"}, CompleteActive(state)
    PROVE  /\ sessionRow' \in [AgentSessionIds -> [state: {"none", "active", "failed", "completed"},
                                                   mediaStarted: BOOLEAN]]
           /\ \A s \in AgentSessionIds :
                 /\ sessionRow'[s].state # "active"
                 /\ sessionRow'[s].state = "none" <=> sessionRow[s].state = "none"
<1>1. sessionRow \in [AgentSessionIds -> [state: {"none", "active", "failed", "completed"},
                                         mediaStarted: BOOLEAN]]
  BY DEF AgentInv, AgentTypeOK
<1>2. \A s \in AgentSessionIds :
         LET row == [sessionRow[s] EXCEPT !.state = state]
         IN  /\ row \in [state: {"none", "active", "failed", "completed"}, mediaStarted: BOOLEAN]
             /\ row.state = state
  BY <1>1
<1> QED
  BY <1>1, <1>2 DEF CompleteActive, ActiveByCall

\* The handler takes an event.
LEMMA TakeEventStep ==
    ASSUME AgentInv, NEW e \in {"answered", "hangup"}, TakeEvent(e)
    PROVE  AgentInv'
<1>1. /\ call' \in [state: {"answered", "ended"}, live: BOOLEAN, forks: SUBSET AgentSessionIds,
                    var: AgentSessionIds \cup {NoSession}, events: SUBSET {"answered", "hangup"},
                    repeats: BOOLEAN]
      /\ call'.forks = call.forks /\ call'.var = call.var /\ call'.repeats = call.repeats
      /\ call'.events = call.events \ {e}
      /\ e = "hangup" => "answered" \notin call.events
  BY DEF AgentInv, AgentTypeOK, TakeEvent
<1>2. /\ handler.at = "idle" /\ handler'.s = NoSession /\ e \in call.events
      /\ handler'.at = IF e = "hangup" THEN "complete" ELSE "attach"
      /\ handler' = [at |-> IF e = "hangup" THEN "complete" ELSE "attach", s |-> NoSession]
      /\ UNCHANGED <<sessionRow, audioStream, socket, memory, agentFaults, turnRows, writing, recovery>>
  BY DEF TakeEvent, Goto, AttachUnchanged
<1>3. AgentTypeOK'
  BY <1>1, <1>2 DEF AgentInv, AgentTypeOK, HandlerAt
<1>4. WhoInv'
  BY <1>2 DEF AgentInv, WhoInv, SessionKnown, AttachAt
<1>5. ForkInv'
  BY <1>1, <1>2 DEF AgentInv, ForkInv, Attaching
<1>6. TurnInv'
  BY <1>1, <1>2, TurnFrame
<1> QED
  BY <1>3, <1>4, <1>5, <1>6 DEF AgentInv

\* attach finds the active session, creates one, or gives up.
LEMMA AttachCallStep == ASSUME AgentInv, AttachCall PROVE AgentInv'
<1>1. /\ handler.at = "attach"
      /\ UNCHANGED <<call, audioStream, socket, memory, agentFaults, turnRows, writing, recovery>>
  BY DEF AttachCall, AttachUnchanged
<1>2. /\ sessionRow' \in [AgentSessionIds -> [state: {"none", "active", "failed", "completed"},
                                              mediaStarted: BOOLEAN]]
      /\ \A s \in AgentSessionIds :
            /\ sessionRow'[s].state = "active" => sessionRow[s].state \in {"active", "none"}
            /\ sessionRow'[s].state = "none" => sessionRow[s].state = "none"
            /\ sessionRow[s].state # "none" => sessionRow'[s].state # "none"
      /\ handler' \in [at: HandlerAt, s: AgentSessionIds \cup {NoSession}]
      /\ \/ /\ handler'.at = "variable" /\ handler'.s \in AgentSessionIds
            /\ sessionRow'[handler'.s].state # "none"
         \/ handler'.at = "hangup"
  <2>1. CASE \E s \in ActiveByCall : Goto("variable", s) /\ UNCHANGED sessionRow
    <3>1. PICK s \in AgentSessionIds : /\ sessionRow[s].state = "active" /\ sessionRow' = sessionRow
                                       /\ handler' = [at |-> "variable", s |-> s]
      BY <2>1 DEF Goto, ActiveByCall
    <3> QED
      BY <3>1 DEF HandlerAt, AgentInv, AgentTypeOK
  <2>2. CASE \E s \in AgentSessionIds : CreateVoiceAgentSession(s) /\ Goto("variable", s)
    <3>1. PICK s \in AgentSessionIds :
             /\ sessionRow[s].state = "none" /\ handler' = [at |-> "variable", s |-> s]
             /\ sessionRow' = [sessionRow EXCEPT ![s].state = "active"]
      BY <2>2 DEF Goto, CreateVoiceAgentSession
    <3>2. sessionRow \in [AgentSessionIds -> [state: {"none", "active", "failed", "completed"},
                                              mediaStarted: BOOLEAN]]
      BY DEF AgentInv, AgentTypeOK
    <3> QED
      BY <3>1, <3>2 DEF HandlerAt
  <2>3. CASE Goto("hangup", NoSession) /\ UNCHANGED sessionRow
    BY <2>3 DEF Goto, HandlerAt, AgentInv, AgentTypeOK
  <2> QED
    BY <2>1, <2>2, <2>3 DEF AttachCall
<1>3. AgentTypeOK'
  BY <1>1, <1>2 DEF AgentInv, AgentTypeOK
<1>4. WhoInv'
  BY <1>1, <1>2 DEF AgentInv, WhoInv, SessionKnown, AttachAt
<1>5. ForkInv'
  BY <1>1, <1>2 DEF AgentInv, ForkInv, Attaching
<1>6. TurnInv'
  BY <1>1, <1>2, TurnFrame
<1> QED
  BY <1>3, <1>4, <1>5, <1>6 DEF AgentInv

\* The handler goes on, and the channel, the rows and the conversations stay.
LEMMA HandlerMoves ==
    ASSUME AgentInv, UNCHANGED <<call, sessionRow, turnRows, writing, recovery>>,
           memory'.states = memory.states,
           handler' \in [at: HandlerAt, s: AgentSessionIds \cup {NoSession}],
           handler'.at \in AttachAt => handler'.s = handler.s,
           handler'.at \in AttachAt => handler.at \in AttachAt \cup {"variable"},
           handler'.at # "variable", Attaching' => Attaching,
           handler'.at \in {"create", "control", "fork"} =>
               handler.at \in {"create", "control", "fork"} \/ call.var = NoSession,
           handler'.at \in {"clock", "setvar"} <=> handler.at \in {"clock", "setvar"},
           audioStream' \in [AgentSessionIds -> {"none", "waiting", "attached", "failed"}],
           socket' \in [AgentSessionIds -> {"closed", "open", "held"}],
           memory' \in [controls: [AgentSessionIds -> BOOLEAN],
                        states: [AgentSessionIds -> 0..(MaxTurns + 1)],
                        callSession: AgentSessionIds \cup {NoSession},
                        tools: SUBSET AgentSessionIds],
           agentFaults' \in 0..AgentFaults
    PROVE  AgentInv'
<1>1. AgentTypeOK'
  BY DEF AgentInv, AgentTypeOK
<1>2. WhoInv'
  BY DEF AgentInv, WhoInv, SessionKnown, AttachAt
<1>3. ForkInv'
  <2>1. call.forks \subseteq AgentSessionIds /\ NoSession \notin AgentSessionIds
    BY AgentAssumption DEF AgentInv, AgentTypeOK, AgentAssumption
  <2>2. handler'.at \in {"create", "control", "fork"} => call.forks = {} /\ call.var = NoSession
    BY <2>1 DEF AgentInv, ForkInv, Attaching
  <2>3. handler'.at \in {"clock", "setvar"} => call.forks \subseteq {handler'.s}
    BY DEF AgentInv, ForkInv, AttachAt
  <2> QED
    BY <2>2, <2>3 DEF AgentInv, ForkInv
<1>4. TurnInv'
  BY TurnFrame
<1> QED
  BY <1>1, <1>2, <1>3, <1>4 DEF AgentInv

\* attach reads the channel variable.
LEMMA ReadVariableStep == ASSUME AgentInv, ReadVariable PROVE AgentInv'
<1>1. /\ handler.at = "variable" /\ handler.s \in AgentSessionIds
      /\ UNCHANGED <<call, sessionRow, audioStream, socket, memory, agentFaults, turnRows, writing, recovery>>
  BY DEF ReadVariable, AttachUnchanged, AgentInv, WhoInv, SessionKnown
<1>2. \/ handler' = [at |-> "hangup", s |-> NoSession]
      \/ handler' = [at |-> "idle", s |-> NoSession]
      \/ handler' = [at |-> "create", s |-> handler.s] /\ call.var = NoSession
  BY DEF ReadVariable, Goto, IdleHandler
<1>3. handler' \in [at: HandlerAt, s: AgentSessionIds \cup {NoSession}]
  BY <1>1, <1>2 DEF HandlerAt
<1>4. /\ handler'.at \in {"hangup", "idle", "create"}
      /\ handler'.at = "create" => handler'.s = handler.s /\ call.var = NoSession
  BY <1>2
<1>5. /\ audioStream \in [AgentSessionIds -> {"none", "waiting", "attached", "failed"}]
      /\ socket \in [AgentSessionIds -> {"closed", "open", "held"}]
      /\ memory \in [controls: [AgentSessionIds -> BOOLEAN],
                     states: [AgentSessionIds -> 0..(MaxTurns + 1)],
                     callSession: AgentSessionIds \cup {NoSession},
                     tools: SUBSET AgentSessionIds]
      /\ agentFaults \in 0..AgentFaults
  BY DEF AgentInv, AgentTypeOK
<1> QED
  BY <1>1, <1>3, <1>4, <1>5, HandlerMoves DEF AttachAt, Attaching

\* attach creates the stream, or cannot.
LEMMA CreateStreamStep == ASSUME AgentInv, CreateStreamFails \/ CreateStream PROVE AgentInv'
<1>1. /\ handler.at = "create" /\ handler.s \in AgentSessionIds
      /\ UNCHANGED <<call, sessionRow, socket, memory, turnRows, writing, recovery>>
  BY DEF CreateStreamFails, CreateStream, AttachUnchanged, AgentInv, WhoInv, SessionKnown, AttachAt
<1>2. handler' \in {[at |-> "fail", s |-> handler.s], [at |-> "control", s |-> handler.s]}
  BY DEF CreateStreamFails, CreateStream, Goto
<1>3. /\ handler' \in [at: HandlerAt, s: AgentSessionIds \cup {NoSession}]
      /\ handler'.at \in {"fail", "control"} /\ handler'.s = handler.s
  BY <1>1, <1>2 DEF HandlerAt
<1>4. /\ audioStream' \in [AgentSessionIds -> {"none", "waiting", "attached", "failed"}]
      /\ socket \in [AgentSessionIds -> {"closed", "open", "held"}]
      /\ memory \in [controls: [AgentSessionIds -> BOOLEAN],
                     states: [AgentSessionIds -> 0..(MaxTurns + 1)],
                     callSession: AgentSessionIds \cup {NoSession},
                     tools: SUBSET AgentSessionIds]
      /\ agentFaults' \in 0..AgentFaults
  BY SMTT(30), AgentAssumption DEF AgentInv, AgentTypeOK, CreateStreamFails, CreateStream, AgentFault, AgentAssumption
<1> QED
  BY <1>1, <1>3, <1>4, HandlerMoves DEF AttachAt, Attaching

\* The stream is stopped, or the request is lost.
LEMMA StopStreamStep == ASSUME AgentInv, StopStream PROVE AgentInv'
<1>1. /\ handler.at \in {"stop", "stopped"} /\ handler.s \in AgentSessionIds
      /\ UNCHANGED <<call, sessionRow, turnRows, writing, recovery>>
      /\ memory' = [memory EXCEPT !.controls[handler.s] = FALSE]
  BY DEF StopStream, AttachUnchanged, AgentInv, WhoInv, SessionKnown, AttachAt
<1>2. handler' \in {[at |-> "fail", s |-> handler.s], [at |-> "idle", s |-> NoSession]}
  BY DEF StopStream, Goto, IdleHandler
<1>3. /\ handler' \in [at: HandlerAt, s: AgentSessionIds \cup {NoSession}]
      /\ handler'.at \in {"fail", "idle"} /\ (handler'.at = "fail" => handler'.s = handler.s)
  BY <1>1, <1>2 DEF HandlerAt
<1>4. /\ audioStream' \in [AgentSessionIds -> {"none", "waiting", "attached", "failed"}]
      /\ socket' \in [AgentSessionIds -> {"closed", "open", "held"}]
      /\ agentFaults' \in 0..AgentFaults
  BY SMTT(30), <1>1, AgentAssumption DEF AgentInv, AgentTypeOK, StopStream, AgentFault, AgentAssumption
<1>5. /\ memory' \in [controls: [AgentSessionIds -> BOOLEAN],
                      states: [AgentSessionIds -> 0..(MaxTurns + 1)],
                      callSession: AgentSessionIds \cup {NoSession},
                      tools: SUBSET AgentSessionIds]
      /\ memory'.states = memory.states
  BY <1>1 DEF AgentInv, AgentTypeOK
<1> QED
  BY <1>1, <1>3, <1>4, <1>5, HandlerMoves DEF AttachAt, Attaching

\* The control connection is registered, with the next sequence of a new conversation.
LEMMA Registers ==
    ASSUME AgentInv, NEW s \in AgentSessionIds, NEW next \in 0..(MaxTurns + 1),
           RegisterControl(s, next), SessionKnown(s), UNCHANGED <<call, sessionRow, turnRows, writing>>,
           sessionRow[s].state = "active" /\ memory.states[s] = 0 => \A q \in turnRows[s] : q < next,
           recovery' = recovery \/ recovery'.at = "idle"
    PROVE  /\ TurnInv'
           /\ memory' \in [controls: [AgentSessionIds -> BOOLEAN],
                           states: [AgentSessionIds -> 0..(MaxTurns + 1)],
                           callSession: AgentSessionIds \cup {NoSession},
                           tools: SUBSET AgentSessionIds]
<1>1. /\ memory \in [controls: [AgentSessionIds -> BOOLEAN],
                     states: [AgentSessionIds -> 0..(MaxTurns + 1)],
                     callSession: AgentSessionIds \cup {NoSession},
                     tools: SUBSET AgentSessionIds]
  BY DEF AgentInv, AgentTypeOK
<1>2. /\ memory' \in [controls: [AgentSessionIds -> BOOLEAN],
                      states: [AgentSessionIds -> 0..(MaxTurns + 1)],
                      callSession: AgentSessionIds \cup {NoSession},
                      tools: SUBSET AgentSessionIds]
      /\ memory'.states[s] = IF memory.states[s] = 0 THEN next ELSE memory.states[s]
      /\ \A t \in AgentSessionIds \ {s} : memory'.states[t] = memory.states[t]
  BY <1>1 DEF RegisterControl
<1>3. ASSUME NEW t \in AgentSessionIds
      PROVE  /\ sessionRow'[t].state = "none" => TurnsOf(t)' = {} /\ memory'.states[t] = 0
             /\ sessionRow'[t].state = "active" =>
                   /\ writing'[t] \cap turnRows'[t] = {}
                   /\ memory'.states[t] # 0 => \A q \in TurnsOf(t)' : q < memory'.states[t]
                   /\ memory'.states[t] = 0 =>
                         /\ writing'[t] = {}
                         /\ call'.repeats = TRUE => turnRows'[t] = {}
                         /\ recovery'.at # "idle" /\ recovery'.s = t =>
                               \A q \in turnRows'[t] : q < recovery'.next
  <2>1. TurnsOf(t)' = TurnsOf(t)
    BY DEF TurnsOf
  <2>2. CASE t # s
    BY <1>2, <2>1, <2>2 DEF AgentInv, TurnInv
  <2>3. CASE t = s /\ memory.states[s] # 0
    BY <1>2, <2>1, <2>3 DEF AgentInv, TurnInv
  <2>4. CASE t = s /\ memory.states[s] = 0
    <3>1. sessionRow[s].state # "none"
      BY DEF SessionKnown
    <3>2. sessionRow[s].state = "active" => writing[s] = {} /\ TurnsOf(s) = turnRows[s]
      BY <2>4 DEF AgentInv, TurnInv, TurnsOf
    <3>3. turnRows[s] \subseteq 1..MaxTurns
      BY DEF AgentInv, AgentTypeOK
    <3>4. sessionRow[s].state = "active" =>
             (\A q \in turnRows[s] : q < next) /\ (next = 0 => turnRows[s] = {})
      BY <2>4, <3>3
    <3>5. next = 0 => UNCHANGED memory.states[s]
      BY <1>2, <2>4
    <3> QED
      BY <1>2, <2>1, <2>4, <3>1, <3>2, <3>4 DEF AgentInv, TurnInv
  <2> QED
    BY <2>2, <2>3, <2>4
<1>4. TurnInv'
  BY <1>3 DEF TurnInv
<1> QED
  BY <1>2, <1>4

\* attach opens the control connection.
LEMMA OpenControlStep == ASSUME AgentInv, OpenControl PROVE AgentInv'
<1>1. /\ handler.at = "control" /\ SessionKnown(handler.s) /\ handler.s \in AgentSessionIds
      /\ UNCHANGED <<call, sessionRow, audioStream, agentFaults, turnRows, writing, recovery>>
  BY DEF OpenControl, AttachUnchanged, AgentInv, WhoInv, AttachAt, SessionKnown
<1>2. /\ audioStream \in [AgentSessionIds -> {"none", "waiting", "attached", "failed"}]
      /\ socket \in [AgentSessionIds -> {"closed", "open", "held"}]
      /\ memory \in [controls: [AgentSessionIds -> BOOLEAN],
                     states: [AgentSessionIds -> 0..(MaxTurns + 1)],
                     callSession: AgentSessionIds \cup {NoSession},
                     tools: SUBSET AgentSessionIds]
      /\ agentFaults \in 0..AgentFaults /\ MaxTurns \in Nat
  BY AgentAssumption DEF AgentInv, AgentTypeOK, AgentAssumption
<1>3. CASE handler' = [at |-> "stop", s |-> handler.s] /\ UNCHANGED <<socket, memory>>
  <2>1. /\ handler' \in [at: HandlerAt, s: AgentSessionIds \cup {NoSession}]
        /\ handler'.at = "stop" /\ handler'.s = handler.s
    BY <1>1, <1>3 DEF HandlerAt
  <2> QED
    BY <1>1, <1>2, <1>3, <2>1, HandlerMoves DEF AttachAt, Attaching
<1>4. CASE /\ handler' = [at |-> "fork", s |-> handler.s] /\ RegisterControl(handler.s, 1)
           /\ socket' = [socket EXCEPT ![handler.s] = "open"]
  <2>1. /\ handler' \in [at: HandlerAt, s: AgentSessionIds \cup {NoSession}]
        /\ handler'.at = "fork" /\ handler'.s = handler.s
    BY <1>1, <1>4 DEF HandlerAt
  <2>2. call.repeats = TRUE
    BY <1>1 DEF AgentInv, ForkInv, Attaching
  <2>3. sessionRow[handler.s].state = "active" /\ memory.states[handler.s] = 0 => turnRows[handler.s] = {}
    BY <1>1, <2>2 DEF AgentInv, TurnInv
  <2>4. /\ TurnInv'
        /\ memory' \in [controls: [AgentSessionIds -> BOOLEAN],
                        states: [AgentSessionIds -> 0..(MaxTurns + 1)],
                        callSession: AgentSessionIds \cup {NoSession},
                        tools: SUBSET AgentSessionIds]
    BY <1>1, <1>2, <1>4, <2>3, Registers
  <2>5. AgentTypeOK'
    BY <1>1, <1>2, <1>4, <2>1, <2>4 DEF AgentInv, AgentTypeOK
  <2>6. WhoInv'
    BY <1>1, <2>1 DEF AgentInv, WhoInv, SessionKnown
  <2>7. ForkInv'
    BY <1>1, <2>1 DEF AgentInv, ForkInv, Attaching
  <2> QED
    BY <2>4, <2>5, <2>6, <2>7 DEF AgentInv
<1> QED
  BY <1>3, <1>4 DEF OpenControl, Goto

\* The handler works on the channel; conversations and rows stay.
LEMMA ChannelMoves ==
    ASSUME AgentInv, ForkInv', UNCHANGED <<audioStream, socket, memory, turnRows, writing, recovery>>,
           agentFaults' \in 0..AgentFaults,
           call' \in [state: {"answered", "ended"}, live: BOOLEAN, forks: SUBSET AgentSessionIds,
                      var: AgentSessionIds \cup {NoSession}, events: SUBSET {"answered", "hangup"},
                      repeats: BOOLEAN],
           call'.repeats = call.repeats,
           sessionRow' \in [AgentSessionIds -> [state: {"none", "active", "failed", "completed"},
                                                mediaStarted: BOOLEAN]],
           \A s \in AgentSessionIds : sessionRow'[s].state = sessionRow[s].state,
           handler' \in [at: HandlerAt, s: AgentSessionIds \cup {NoSession}],
           handler'.at \in AttachAt => handler'.s = handler.s /\ handler.at \in AttachAt,
           handler'.at # "variable"
    PROVE  AgentInv'
<1>1. AgentTypeOK'
  BY DEF AgentInv, AgentTypeOK
<1>2. WhoInv'
  BY DEF AgentInv, WhoInv, SessionKnown
<1>3. TurnInv'
  BY TurnFrame
<1> QED
  BY <1>1, <1>2, <1>3 DEF AgentInv

\* The fork of a channel that is up, the clock and the variable after it; what was begun is
\* undone when the channel is gone.
LEMMA ForkStep == ASSUME AgentInv, StartFork \/ StartClock \/ SetVariable PROVE AgentInv'
<1>. DEFINE s == handler.s
<1>1. /\ s \in AgentSessionIds /\ handler.at \in {"fork", "clock", "setvar"}
      /\ UNCHANGED <<sessionRow, audioStream, socket, memory, agentFaults, turnRows, writing, recovery>>
  BY DEF StartFork, StartClock, SetVariable, AttachUnchanged, AgentInv, WhoInv, AttachAt, SessionKnown
<1>2. /\ call \in [state: {"answered", "ended"}, live: BOOLEAN, forks: SUBSET AgentSessionIds,
                   var: AgentSessionIds \cup {NoSession}, events: SUBSET {"answered", "hangup"},
                   repeats: BOOLEAN]
      /\ agentFaults \in 0..AgentFaults
      /\ sessionRow \in [AgentSessionIds -> [state: {"none", "active", "failed", "completed"},
                                             mediaStarted: BOOLEAN]]
  BY DEF AgentInv, AgentTypeOK
<1>3. /\ call.repeats = TRUE
      /\ handler.at = "fork" => call.forks = {} /\ call.var = NoSession
      /\ handler.at \in {"clock", "setvar"} => call.forks \subseteq {s}
  BY <1>1 DEF AgentInv, ForkInv, Attaching
<1>4. \/ /\ handler.at = "fork" /\ call' = [call EXCEPT !.forks = @ \cup {s}]
         /\ handler' = [at |-> "clock", s |-> s]
      \/ handler.at = "fork" /\ call' = call /\ handler' = [at |-> "stop", s |-> s]
      \/ handler.at = "clock" /\ call' = call /\ handler' = [at |-> "setvar", s |-> s]
      \/ /\ handler.at = "setvar" /\ call' = [call EXCEPT !.var = s]
         /\ handler' = [at |-> "mark", s |-> s]
      \/ /\ handler.at \in {"clock", "setvar"} /\ call' = [call EXCEPT !.forks = @ \ {s}]
         /\ handler' = [at |-> "stop", s |-> s]
  BY DEF StartFork, StartClock, SetVariable, Goto, WithoutFork
<1>5. /\ call' \in [state: {"answered", "ended"}, live: BOOLEAN, forks: SUBSET AgentSessionIds,
                    var: AgentSessionIds \cup {NoSession}, events: SUBSET {"answered", "hangup"},
                    repeats: BOOLEAN]
      /\ call'.repeats = call.repeats
      /\ handler' \in [at: HandlerAt, s: AgentSessionIds \cup {NoSession}]
      /\ handler'.at \in {"clock", "setvar", "mark", "stop"} /\ handler'.s = s
  BY <1>1, <1>2, <1>4 DEF HandlerAt
<1>6. /\ call'.forks \subseteq {s}
      /\ handler'.at = "mark" => call'.var = s
      /\ handler'.at = "stop" => call'.forks = {}
  BY <1>1, <1>2, <1>3, <1>4
<1>7. ForkInv'
  <2>1. call'.repeats = TRUE /\ handler'.at \notin {"clock", "setvar"} => call'.forks \subseteq {call'.var}
    BY <1>5, <1>6
  <2> QED
    BY <1>3, <1>5, <1>6, <2>1 DEF ForkInv
<1> QED
  BY <1>1, <1>2, <1>5, <1>7, ChannelMoves DEF AttachAt

\* The session is marked, or was closed meanwhile and the fork is undone.
LEMMA MarkStep == ASSUME AgentInv, MarkMediaStarted PROVE AgentInv'
<1>. DEFINE s == handler.s
<1>1. /\ s \in AgentSessionIds /\ handler.at = "mark"
      /\ UNCHANGED <<audioStream, socket, memory, agentFaults, turnRows, writing, recovery>>
  BY DEF MarkMediaStarted, AttachUnchanged, AgentInv, WhoInv, AttachAt, SessionKnown
<1>2. /\ call \in [state: {"answered", "ended"}, live: BOOLEAN, forks: SUBSET AgentSessionIds,
                   var: AgentSessionIds \cup {NoSession}, events: SUBSET {"answered", "hangup"},
                   repeats: BOOLEAN]
      /\ agentFaults \in 0..AgentFaults
      /\ sessionRow \in [AgentSessionIds -> [state: {"none", "active", "failed", "completed"},
                                             mediaStarted: BOOLEAN]]
  BY DEF AgentInv, AgentTypeOK
<1>3. \/ /\ sessionRow' = [sessionRow EXCEPT ![s].mediaStarted = TRUE]
         /\ handler' = [at |-> "idle", s |-> NoSession] /\ call' = call
      \/ /\ call' = [call EXCEPT !.forks = @ \ {s}] /\ handler' = [at |-> "stop", s |-> s]
         /\ sessionRow' = sessionRow
  BY DEF MarkMediaStarted, Goto, IdleHandler, WithoutFork
<1>4. /\ call' \in [state: {"answered", "ended"}, live: BOOLEAN, forks: SUBSET AgentSessionIds,
                    var: AgentSessionIds \cup {NoSession}, events: SUBSET {"answered", "hangup"},
                    repeats: BOOLEAN]
      /\ call'.repeats = call.repeats /\ call'.forks \subseteq call.forks
      /\ call'.events = call.events /\ call'.var = call.var
  BY <1>2, <1>3
<1>5. /\ handler' \in [at: HandlerAt, s: AgentSessionIds \cup {NoSession}]
      /\ handler'.at \in {"idle", "stop"} /\ (handler'.at = "stop" => handler'.s = s)
  BY <1>1, <1>3 DEF HandlerAt
<1>6. /\ sessionRow' \in [AgentSessionIds -> [state: {"none", "active", "failed", "completed"},
                                              mediaStarted: BOOLEAN]]
      /\ \A t \in AgentSessionIds : sessionRow'[t].state = sessionRow[t].state
  <2>1. CASE sessionRow' = [sessionRow EXCEPT ![s].mediaStarted = TRUE]
    BY ZenonT(40), <1>1, <1>2, <2>1
  <2>2. CASE sessionRow' = sessionRow
    BY <1>2, <2>2
  <2> QED
    BY <1>3, <2>1, <2>2
<1>7. ForkInv'
  BY <1>1, <1>4, <1>5 DEF AgentInv, ForkInv, Attaching
<1> QED
  BY <1>1, <1>2, <1>4, <1>5, <1>6, <1>7, ChannelMoves DEF AttachAt

\* The channel is hung up, or the command fails.
LEMMA HangUpStep == ASSUME AgentInv, HangUp PROVE AgentInv'
<1>1. /\ handler.at = "hangup" /\ handler' = [at |-> "idle", s |-> NoSession]
      /\ UNCHANGED <<sessionRow, audioStream, socket, memory, turnRows, writing, recovery>>
  BY DEF HangUp, AttachUnchanged, IdleHandler
<1>2. /\ call \in [state: {"answered", "ended"}, live: BOOLEAN, forks: SUBSET AgentSessionIds,
                   var: AgentSessionIds \cup {NoSession}, events: SUBSET {"answered", "hangup"},
                   repeats: BOOLEAN]
      /\ agentFaults' \in 0..AgentFaults
      /\ sessionRow \in [AgentSessionIds -> [state: {"none", "active", "failed", "completed"},
                                             mediaStarted: BOOLEAN]]
  BY AgentAssumption DEF AgentInv, AgentTypeOK, HangUp, AgentFault, AgentAssumption
<1>3. \/ call' = [call EXCEPT !.live = FALSE, !.forks = {}, !.events = @ \cup {"hangup"}]
      \/ call' = call
  BY DEF HangUp
<1>4. /\ call' \in [state: {"answered", "ended"}, live: BOOLEAN, forks: SUBSET AgentSessionIds,
                    var: AgentSessionIds \cup {NoSession}, events: SUBSET {"answered", "hangup"},
                    repeats: BOOLEAN]
      /\ call'.repeats = call.repeats /\ call'.forks \subseteq call.forks
      /\ call'.events \subseteq call.events \cup {"hangup"} /\ call'.var = call.var
  <2>1. CASE call' = [call EXCEPT !.live = FALSE, !.forks = {}, !.events = @ \cup {"hangup"}]
    BY <1>2, <2>1
  <2>2. CASE call' = call
    BY <1>2, <2>2
  <2> QED
    BY <1>3, <2>1, <2>2
<1>5. /\ handler' \in [at: HandlerAt, s: AgentSessionIds \cup {NoSession}] /\ handler'.at = "idle"
  BY <1>1 DEF HandlerAt
<1>6. ForkInv'
  BY <1>1, <1>4, <1>5 DEF AgentInv, ForkInv, Attaching
<1> QED
  BY <1>1, <1>2, <1>4, <1>5, <1>6, ChannelMoves DEF AttachAt

\* The memory that is left when a conversation is released.
LEMMA ReleasedMemory ==
    ASSUME AgentInv
    PROVE  /\ Released \in [controls: [AgentSessionIds -> BOOLEAN],
                            states: [AgentSessionIds -> 0..(MaxTurns + 1)],
                            callSession: AgentSessionIds \cup {NoSession},
                            tools: SUBSET AgentSessionIds]
           /\ \A s \in AgentSessionIds : Released.states[s] \in {0, memory.states[s]}
<1>1. /\ memory \in [controls: [AgentSessionIds -> BOOLEAN],
                     states: [AgentSessionIds -> 0..(MaxTurns + 1)],
                     callSession: AgentSessionIds \cup {NoSession},
                     tools: SUBSET AgentSessionIds]
      /\ MaxTurns \in Nat
  BY AgentAssumption DEF AgentInv, AgentTypeOK, AgentAssumption
<1>. DEFINE left == [s \in AgentSessionIds |-> IF s = memory.callSession THEN 0 ELSE memory.states[s]]
            m == [memory EXCEPT !.callSession = NoSession, !.states = left]
<1>2. /\ left \in [AgentSessionIds -> 0..(MaxTurns + 1)]
      /\ \A s \in AgentSessionIds : left[s] \in {0, memory.states[s]}
  BY <1>1
<1>3. Released = m
  BY <1>1 DEF Released
<1>. HIDE DEF left
<1>4. /\ m \in [controls: [AgentSessionIds -> BOOLEAN],
                states: [AgentSessionIds -> 0..(MaxTurns + 1)],
                callSession: AgentSessionIds \cup {NoSession},
                tools: SUBSET AgentSessionIds]
      /\ m.states = left
  BY <1>1, <1>2
<1> QED
  BY <1>2, <1>3, <1>4

\* The session of the call is failed, or completed, with its conversation.
LEMMA SessionEndsStep == ASSUME AgentInv, FailSession \/ Finish PROVE AgentInv'
<1>1. /\ UNCHANGED <<call, audioStream, socket, agentFaults, turnRows, writing, recovery>>
      /\ memory' \in {memory, Released}
      /\ \E state \in {"failed", "completed"} : CompleteActive(state)
      /\ handler.at \in {"fail", "complete"}
  BY DEF FailSession, Finish, AttachUnchanged
<1>2. /\ sessionRow' \in [AgentSessionIds -> [state: {"none", "active", "failed", "completed"},
                                              mediaStarted: BOOLEAN]]
      /\ \A s \in AgentSessionIds :
            /\ sessionRow'[s].state # "active"
            /\ sessionRow'[s].state = "none" <=> sessionRow[s].state = "none"
  BY <1>1, Completes
<1>3. /\ memory' \in [controls: [AgentSessionIds -> BOOLEAN],
                      states: [AgentSessionIds -> 0..(MaxTurns + 1)],
                      callSession: AgentSessionIds \cup {NoSession},
                      tools: SUBSET AgentSessionIds]
      /\ \A s \in AgentSessionIds : memory'.states[s] \in {0, memory.states[s]}
  BY <1>1, ReleasedMemory DEF AgentInv, AgentTypeOK
<1>4. /\ handler' \in [at: HandlerAt, s: AgentSessionIds \cup {NoSession}]
      /\ handler'.at \in {"idle", "hangup", "stopped"}
      /\ handler'.at = "stopped" => SessionKnown(handler'.s)
  BY DEF FailSession, Finish, Goto, IdleHandler, HandlerAt, SessionKnown, ActiveByCall
<1>5. AgentTypeOK'
  BY <1>1, <1>2, <1>3, <1>4 DEF AgentInv, AgentTypeOK
<1>6. WhoInv'
  BY <1>1, <1>2, <1>4 DEF AgentInv, WhoInv, SessionKnown, AttachAt
<1>7. ForkInv'
  BY <1>1, <1>4 DEF AgentInv, ForkInv, Attaching
<1>8. TurnInv'
  BY <1>1, <1>2, <1>3, TurnsOver
<1> QED
  BY <1>5, <1>6, <1>7, <1>8 DEF AgentInv

\* A step of another goroutine, of the node or of the caller: the handler stays where it is, and
\* the channel gets no fork.
LEMMA OthersMove ==
    ASSUME AgentInv, TurnInv', UNCHANGED handler,
           call' \in [state: {"answered", "ended"}, live: BOOLEAN, forks: SUBSET AgentSessionIds,
                      var: AgentSessionIds \cup {NoSession}, events: SUBSET {"answered", "hangup"},
                      repeats: BOOLEAN],
           call'.repeats = call.repeats, call'.forks \subseteq call.forks, call'.var = call.var,
           "answered" \in call'.events => call.repeats = TRUE,
           sessionRow' \in [AgentSessionIds -> [state: {"none", "active", "failed", "completed"},
                                                mediaStarted: BOOLEAN]],
           \A s \in AgentSessionIds : sessionRow'[s].state = "none" <=> sessionRow[s].state = "none",
           turnRows' \in [AgentSessionIds -> SUBSET (1..MaxTurns)],
           audioStream' \in [AgentSessionIds -> {"none", "waiting", "attached", "failed"}],
           socket' \in [AgentSessionIds -> {"closed", "open", "held"}],
           memory' \in [controls: [AgentSessionIds -> BOOLEAN],
                        states: [AgentSessionIds -> 0..(MaxTurns + 1)],
                        callSession: AgentSessionIds \cup {NoSession},
                        tools: SUBSET AgentSessionIds],
           writing' \in [AgentSessionIds -> SUBSET (1..MaxTurns)],
           recovery' \in [at: {"idle", "read", "checked", "opened"},
                          s: AgentSessionIds \cup {NoSession}, next: 0..(MaxTurns + 1)],
           recovery'.at # "idle" => SessionKnown(recovery'.s),
           agentFaults' \in 0..AgentFaults
    PROVE  AgentInv'
<1>1. AgentTypeOK'
  BY DEF AgentInv, AgentTypeOK
<1>2. WhoInv'
  BY DEF AgentInv, WhoInv, SessionKnown
<1>3. ForkInv'
  <2>1. ForkInv /\ call'.repeats = call.repeats /\ call'.forks \subseteq call.forks /\ call'.var = call.var
    BY DEF AgentInv
  <2>2. \A s, t \in call'.forks : s = t
    BY <2>1 DEF ForkInv
  <2>3. handler.at \in {"create", "control", "fork"} => call'.forks = {} /\ call'.var = NoSession
    BY <2>1 DEF ForkInv
  <2>4. handler.at \in {"clock", "setvar"} => call'.forks \subseteq {handler.s}
    BY <2>1 DEF ForkInv
  <2>5. call'.repeats = TRUE /\ handler.at \notin {"clock", "setvar"} => call'.forks \subseteq {call'.var}
    BY <2>1 DEF ForkInv
  <2>6. Attaching \/ "answered" \in call'.events => call'.repeats = TRUE
    BY <2>1 DEF ForkInv
  <2> QED
    BY <2>2, <2>3, <2>4, <2>5, <2>6 DEF ForkInv, Attaching
<1> QED
  BY <1>1, <1>2, <1>3 DEF AgentInv

\* The parts of the state of this component.
LEMMA AgentTypes ==
    ASSUME AgentInv
    PROVE  /\ call \in [state: {"answered", "ended"}, live: BOOLEAN, forks: SUBSET AgentSessionIds,
                        var: AgentSessionIds \cup {NoSession}, events: SUBSET {"answered", "hangup"},
                        repeats: BOOLEAN]
           /\ sessionRow \in [AgentSessionIds -> [state: {"none", "active", "failed", "completed"},
                                                  mediaStarted: BOOLEAN]]
           /\ turnRows \in [AgentSessionIds -> SUBSET (1..MaxTurns)]
           /\ audioStream \in [AgentSessionIds -> {"none", "waiting", "attached", "failed"}]
           /\ socket \in [AgentSessionIds -> {"closed", "open", "held"}]
           /\ memory \in [controls: [AgentSessionIds -> BOOLEAN],
                          states: [AgentSessionIds -> 0..(MaxTurns + 1)],
                          callSession: AgentSessionIds \cup {NoSession},
                          tools: SUBSET AgentSessionIds]
           /\ writing \in [AgentSessionIds -> SUBSET (1..MaxTurns)]
           /\ recovery \in [at: {"idle", "read", "checked", "opened"},
                            s: AgentSessionIds \cup {NoSession}, next: 0..(MaxTurns + 1)]
           /\ agentFaults \in 0..AgentFaults /\ MaxTurns \in Nat /\ AgentFaults \in Nat
           /\ "answered" \in call.events => call.repeats = TRUE
           /\ recovery.at # "idle" => SessionKnown(recovery.s)
BY AgentAssumption DEF AgentInv, AgentTypeOK, ForkInv, WhoInv, AgentAssumption

\* An observer reads a terminal failure: the session fails, the conversation is released.
LEMMA ObserveFailureStep ==
    ASSUME AgentInv, NEW s \in AgentSessionIds, ObserveFailure(s)
    PROVE  AgentInv'
<1>1. /\ UNCHANGED <<call, turnRows, writing, handler, recovery, agentFaults>>
      /\ CompleteActive("failed") /\ memory' = [Released EXCEPT !.controls[s] = FALSE]
      /\ socket' = [socket EXCEPT ![s] = "closed"]
      /\ audioStream' = [audioStream EXCEPT ![s] = "none"]
  BY DEF ObserveFailure, ObserverUnchanged
<1>2. /\ sessionRow' \in [AgentSessionIds -> [state: {"none", "active", "failed", "completed"},
                                              mediaStarted: BOOLEAN]]
      /\ \A t \in AgentSessionIds :
            /\ sessionRow'[t].state # "active"
            /\ sessionRow'[t].state = "none" <=> sessionRow[t].state = "none"
  BY <1>1, Completes
<1>3. /\ memory' \in [controls: [AgentSessionIds -> BOOLEAN],
                      states: [AgentSessionIds -> 0..(MaxTurns + 1)],
                      callSession: AgentSessionIds \cup {NoSession},
                      tools: SUBSET AgentSessionIds]
      /\ \A t \in AgentSessionIds : memory'.states[t] \in {0, memory.states[t]}
  BY <1>1, ReleasedMemory
<1>4. TurnInv'
  BY <1>1, <1>2, <1>3, TurnsOver
<1> QED
  BY <1>1, <1>2, <1>3, <1>4, AgentTypes, OthersMove

\* A control connection ends, or breaks.
LEMMA ControlEndsStep ==
    ASSUME AgentInv, NEW s \in AgentSessionIds, ObserveClose(s) \/ ControlBreaks(s)
    PROVE  AgentInv'
<1>1. /\ UNCHANGED <<call, sessionRow, turnRows, audioStream, writing, handler, recovery>>
      /\ memory' = [memory EXCEPT !.controls[s] = FALSE]
      /\ \E st \in {"closed", "held"} : socket' = [socket EXCEPT ![s] = st]
      /\ agentFaults' \in 0..AgentFaults
  BY AgentTypes DEF ObserveClose, ControlBreaks, ObserverUnchanged, AgentFault
<1>2. /\ memory' \in [controls: [AgentSessionIds -> BOOLEAN],
                      states: [AgentSessionIds -> 0..(MaxTurns + 1)],
                      callSession: AgentSessionIds \cup {NoSession},
                      tools: SUBSET AgentSessionIds]
      /\ memory'.states = memory.states
      /\ socket' \in [AgentSessionIds -> {"closed", "open", "held"}]
  <2>1. /\ memory \in [controls: [AgentSessionIds -> BOOLEAN],
                       states: [AgentSessionIds -> 0..(MaxTurns + 1)],
                       callSession: AgentSessionIds \cup {NoSession},
                       tools: SUBSET AgentSessionIds]
        /\ socket \in [AgentSessionIds -> {"closed", "open", "held"}]
    BY AgentTypes
  <2> QED
    BY <1>1, <2>1
<1>3. TurnInv'
  BY <1>1, <1>2, TurnFrame
<1> QED
  BY <1>1, <1>2, <1>3, AgentTypes, OthersMove

\* A conversation hands out its next sequence.
LEMMA HandsOut ==
    ASSUME AgentInv, NEW s \in AgentSessionIds, NextSequence(s),
           memory'.states = [memory.states EXCEPT ![s] = @ + 1],
           UNCHANGED <<call, sessionRow, turnRows, recovery>>
    PROVE  TurnInv' /\ writing' \in [AgentSessionIds -> SUBSET (1..MaxTurns)]
<1>1. /\ memory.states[s] \in 1..MaxTurns /\ writing' = [writing EXCEPT ![s] = @ \cup {memory.states[s]}]
      /\ memory.states \in [AgentSessionIds -> 0..(MaxTurns + 1)]
      /\ writing \in [AgentSessionIds -> SUBSET (1..MaxTurns)]
      /\ turnRows \in [AgentSessionIds -> SUBSET (1..MaxTurns)] /\ MaxTurns \in Nat
  BY AgentTypes DEF NextSequence
<1>2. /\ writing' \in [AgentSessionIds -> SUBSET (1..MaxTurns)]
      /\ writing'[s] = writing[s] \cup {memory.states[s]}
      /\ memory'.states[s] = memory.states[s] + 1
      /\ \A t \in AgentSessionIds \ {s} : writing'[t] = writing[t] /\ memory'.states[t] = memory.states[t]
  BY <1>1
<1>3. ASSUME NEW t \in AgentSessionIds
      PROVE  /\ sessionRow'[t].state = "none" => TurnsOf(t)' = {} /\ memory'.states[t] = 0
             /\ sessionRow'[t].state = "active" =>
                   /\ writing'[t] \cap turnRows'[t] = {}
                   /\ memory'.states[t] # 0 => \A q \in TurnsOf(t)' : q < memory'.states[t]
                   /\ memory'.states[t] = 0 =>
                         /\ writing'[t] = {}
                         /\ call'.repeats = TRUE => turnRows'[t] = {}
                         /\ recovery'.at # "idle" /\ recovery'.s = t =>
                               \A q \in turnRows'[t] : q < recovery'.next
  <2>1. CASE t # s
    <3>1. TurnsOf(t)' = TurnsOf(t)
      BY <1>2, <2>1 DEF TurnsOf
    <3> QED
      BY <1>2, <2>1, <3>1 DEF AgentInv, TurnInv
  <2>2. CASE t = s
    <3>1. TurnsOf(s)' = TurnsOf(s) \cup {memory.states[s]} /\ TurnsOf(s) \subseteq 1..MaxTurns
      BY <1>1, <1>2 DEF TurnsOf
    <3>2. sessionRow[s].state # "none"
      BY <1>1 DEF AgentInv, TurnInv
    <3>3. sessionRow[s].state = "active" =>
             /\ \A q \in TurnsOf(s) : q < memory.states[s]
             /\ writing[s] \cap turnRows[s] = {}
             /\ memory.states[s] \notin turnRows[s]
      BY <1>1 DEF AgentInv, TurnInv, TurnsOf
    <3>4. memory'.states[s] # 0
      BY <1>1, <1>2
    <3> QED
      BY <1>1, <1>2, <2>2, <3>1, <3>2, <3>3, <3>4
  <2> QED
    BY <2>1, <2>2
<1> QED
  BY <1>2, <1>3 DEF TurnInv

\* An observer hands a turn out, or starts a tool; a tool hands its turn out, or is too late.
LEMMA ObserverTurnStep ==
    ASSUME AgentInv, NEW s \in AgentSessionIds, ObserveTurn(s) \/ ObserveToolCall(s) \/ ToolReturns(s)
    PROVE  AgentInv'
<1>1. /\ UNCHANGED <<call, sessionRow, turnRows, audioStream, socket, handler, recovery, agentFaults>>
      /\ \/ /\ NextSequence(s)
            /\ \/ memory' = [memory EXCEPT !.states[s] = @ + 1]
               \/ memory' = [memory EXCEPT !.tools = @ \ {s}, !.states[s] = @ + 1]
         \/ /\ UNCHANGED writing
            /\ \E S \in {{}, {s}} : memory' = [memory EXCEPT !.tools = (@ \ {s}) \cup S]
  <2>1. CASE ObserveTurn(s)
    BY <2>1 DEF ObserveTurn, TurnUnchanged
  <2>2. CASE ObserveToolCall(s)
    <3>1. memory.tools \cup {s} = (memory.tools \ {s}) \cup {s}
      OBVIOUS
    <3> QED
      BY <2>2, <3>1 DEF ObserveToolCall, TurnUnchanged
  <2>3. CASE ToolReturns(s)
    BY <2>3 DEF ToolReturns, TurnUnchanged
  <2> QED
    BY <2>1, <2>2, <2>3
<1>2. /\ memory \in [controls: [AgentSessionIds -> BOOLEAN],
                     states: [AgentSessionIds -> 0..(MaxTurns + 1)],
                     callSession: AgentSessionIds \cup {NoSession},
                     tools: SUBSET AgentSessionIds]
      /\ MaxTurns \in Nat /\ writing \in [AgentSessionIds -> SUBSET (1..MaxTurns)]
  BY AgentTypes
<1>3. CASE NextSequence(s) /\ \/ memory' = [memory EXCEPT !.states[s] = @ + 1]
                              \/ memory' = [memory EXCEPT !.tools = @ \ {s}, !.states[s] = @ + 1]
  <2>1. memory.states[s] \in 1..MaxTurns
    BY <1>3 DEF NextSequence
  <2>2. /\ memory' \in [controls: [AgentSessionIds -> BOOLEAN],
                        states: [AgentSessionIds -> 0..(MaxTurns + 1)],
                        callSession: AgentSessionIds \cup {NoSession},
                        tools: SUBSET AgentSessionIds]
        /\ memory'.states = [memory.states EXCEPT ![s] = @ + 1]
    <3>1. CASE memory' = [memory EXCEPT !.states[s] = @ + 1]
      BY <1>2, <2>1, <3>1
    <3>2. CASE memory' = [memory EXCEPT !.tools = @ \ {s}, !.states[s] = @ + 1]
      <4>. DEFINE next == [memory.states EXCEPT ![s] = @ + 1]
      <4>1. next \in [AgentSessionIds -> 0..(MaxTurns + 1)]
        BY <1>2, <2>1
      <4>2. memory' = [memory EXCEPT !.tools = @ \ {s}, !.states = next]
        BY <1>2, <3>2
      <4>. HIDE DEF next
      <4>3. /\ memory' \in [controls: [AgentSessionIds -> BOOLEAN],
                            states: [AgentSessionIds -> 0..(MaxTurns + 1)],
                            callSession: AgentSessionIds \cup {NoSession},
                            tools: SUBSET AgentSessionIds]
            /\ memory'.states = next
        BY <1>2, <4>1, <4>2
      <4> QED
        BY <4>3 DEF next
    <3> QED
      BY <1>3, <3>1, <3>2
  <2>3. TurnInv' /\ writing' \in [AgentSessionIds -> SUBSET (1..MaxTurns)]
    BY <1>1, <1>3, <2>2, HandsOut
  <2> QED
    BY <1>1, <2>2, <2>3, AgentTypes, OthersMove
<1>4. CASE UNCHANGED writing /\ \E S \in {{}, {s}} : memory' = [memory EXCEPT !.tools = (@ \ {s}) \cup S]
  <2>1. /\ memory' \in [controls: [AgentSessionIds -> BOOLEAN],
                        states: [AgentSessionIds -> 0..(MaxTurns + 1)],
                        callSession: AgentSessionIds \cup {NoSession},
                        tools: SUBSET AgentSessionIds]
        /\ memory'.states = memory.states
    BY <1>2, <1>4
  <2>2. TurnInv'
    BY <1>1, <1>4, <2>1, TurnFrame
  <2> QED
    BY <1>1, <1>2, <1>4, <2>1, <2>2, AgentTypes, OthersMove
<1> QED
  BY <1>1, <1>3, <1>4

\* A turn is written while its session is active.
LEMMA PersistTurnStep ==
    ASSUME AgentInv, NEW s \in AgentSessionIds, NEW q \in 1..MaxTurns, PersistTurn(s, q)
    PROVE  AgentInv'
<1>1. /\ UNCHANGED <<call, sessionRow, audioStream, socket, memory, handler, recovery, agentFaults>>
      /\ q \in writing[s] /\ writing' = [writing EXCEPT ![s] = @ \ {q}]
      /\ \/ sessionRow[s].state = "active" /\ turnRows' = [turnRows EXCEPT ![s] = @ \cup {q}]
         \/ sessionRow[s].state # "active" /\ turnRows' = turnRows
  BY DEF PersistTurn
<1>2. /\ writing \in [AgentSessionIds -> SUBSET (1..MaxTurns)]
      /\ turnRows \in [AgentSessionIds -> SUBSET (1..MaxTurns)]
  BY AgentTypes
<1>3. /\ writing' \in [AgentSessionIds -> SUBSET (1..MaxTurns)]
      /\ turnRows' \in [AgentSessionIds -> SUBSET (1..MaxTurns)]
      /\ \A t \in AgentSessionIds \ {s} : writing'[t] = writing[t] /\ turnRows'[t] = turnRows[t]
      /\ writing'[s] = writing[s] \ {q}
      /\ sessionRow[s].state = "active" => turnRows'[s] = turnRows[s] \cup {q}
  <2>1. CASE turnRows' = [turnRows EXCEPT ![s] = @ \cup {q}] /\ sessionRow[s].state = "active"
    BY <1>1, <1>2, <2>1
  <2>2. CASE turnRows' = turnRows /\ sessionRow[s].state # "active"
    BY <1>1, <1>2, <2>2
  <2> QED
    BY <1>1, <2>1, <2>2
<1>4. ASSUME NEW t \in AgentSessionIds
      PROVE  /\ sessionRow'[t].state = "none" => TurnsOf(t)' = {} /\ memory'.states[t] = 0
             /\ sessionRow'[t].state = "active" =>
                   /\ writing'[t] \cap turnRows'[t] = {}
                   /\ memory'.states[t] # 0 => \A p \in TurnsOf(t)' : p < memory'.states[t]
                   /\ memory'.states[t] = 0 =>
                         /\ writing'[t] = {}
                         /\ call'.repeats = TRUE => turnRows'[t] = {}
                         /\ recovery'.at # "idle" /\ recovery'.s = t =>
                               \A p \in turnRows'[t] : p < recovery'.next
  <2>1. CASE t # s
    <3>1. TurnsOf(t)' = TurnsOf(t)
      BY <1>3, <2>1 DEF TurnsOf
    <3> QED
      BY <1>1, <1>3, <2>1, <3>1 DEF AgentInv, TurnInv
  <2>2. CASE t = s
    <3>1. sessionRow[s].state # "none"
      BY <1>1 DEF AgentInv, TurnInv, TurnsOf
    <3>2. CASE sessionRow[s].state = "active"
      <4>1. memory.states[s] # 0 /\ TurnsOf(s)' = TurnsOf(s)
        BY <1>1, <1>3, <3>2 DEF AgentInv, TurnInv, TurnsOf
      <4>2. writing[s] \cap turnRows[s] = {} /\ \A p \in TurnsOf(s) : p < memory.states[s]
        BY <3>2, <4>1 DEF AgentInv, TurnInv
      <4> QED
        BY <1>1, <1>3, <2>2, <3>2, <4>1, <4>2
    <3> QED
      BY <1>1, <2>2, <3>1, <3>2
  <2> QED
    BY <2>1, <2>2
<1>5. TurnInv'
  BY <1>4 DEF TurnInv
<1> QED
  BY <1>1, <1>3, <1>5, AgentTypes, OthersMove

\* The recovery reads the turns of a session without a control, and looks again.
LEMMA RecoveryStepsBack ==
    ASSUME AgentInv, RecoverCheck \/ RecoverOpen \/ \E s \in AgentSessionIds : RecoverRead(s)
    PROVE  AgentInv'
<1>1. /\ UNCHANGED <<call, sessionRow, turnRows, audioStream, writing, handler, memory, agentFaults>>
      /\ \/ recovery' = [at |-> "idle", s |-> NoSession, next |-> 0]
         \/ \E at \in {"checked", "opened"} : recovery.at # "idle" /\ recovery' = [recovery EXCEPT !.at = at]
         \/ \E s \in AgentSessionIds : /\ sessionRow[s].state = "active"
                                       /\ recovery' = [at |-> "read", s |-> s, next |-> RestoredSequence(s)]
      /\ socket' = socket \/ (recovery.at # "idle" /\ socket' = [socket EXCEPT ![recovery.s] = "open"])
  BY DEF RecoverCheck, RecoverOpen, RecoverRead, RecoveryUnchanged, IdleRecovery, ActiveByCall
<1>2. /\ recovery' \in [at: {"idle", "read", "checked", "opened"},
                        s: AgentSessionIds \cup {NoSession}, next: 0..(MaxTurns + 1)]
      /\ recovery'.at # "idle" => SessionKnown(recovery'.s)
      /\ \/ recovery'.at = "idle"
         \/ recovery.at # "idle" /\ recovery'.s = recovery.s /\ recovery'.next = recovery.next
         \/ /\ recovery'.s \in AgentSessionIds
            /\ \A q \in turnRows[recovery'.s] : q < recovery'.next
  <2>0. /\ recovery \in [at: {"idle", "read", "checked", "opened"},
                         s: AgentSessionIds \cup {NoSession}, next: 0..(MaxTurns + 1)]
        /\ recovery.at # "idle" => SessionKnown(recovery.s)
        /\ MaxTurns \in Nat /\ AgentTypeOK
    BY AgentTypes DEF AgentInv
  <2>1. CASE recovery' = [at |-> "idle", s |-> NoSession, next |-> 0]
    BY <2>0, <2>1
  <2>2. CASE \E at \in {"checked", "opened"} : recovery.at # "idle" /\ recovery' = [recovery EXCEPT !.at = at]
    BY <2>0, <2>2
  <2>3. ASSUME NEW s \in AgentSessionIds, sessionRow[s].state = "active",
               recovery' = [at |-> "read", s |-> s, next |-> RestoredSequence(s)]
        PROVE  /\ recovery' \in [at: {"idle", "read", "checked", "opened"},
                                 s: AgentSessionIds \cup {NoSession}, next: 0..(MaxTurns + 1)]
               /\ recovery'.s = s /\ SessionKnown(s) /\ \A q \in turnRows[s] : q < recovery'.next
    <3>1. RestoredSequence(s) \in 1..(MaxTurns + 1) /\ \A q \in turnRows[s] : q < RestoredSequence(s)
      BY <2>0, RestoredIsNext
    <3> QED
      BY <2>0, <2>3, <3>1 DEF SessionKnown
  <2> QED
    BY <1>1, <2>1, <2>2, <2>3
<1>3. socket' \in [AgentSessionIds -> {"closed", "open", "held"}]
  BY <1>1, AgentTypes
<1>4. TurnInv'
  <2>1. ASSUME NEW s \in AgentSessionIds, sessionRow[s].state = "active", memory.states[s] = 0,
               recovery'.at # "idle", recovery'.s = s
        PROVE  \A q \in turnRows[s] : q < recovery'.next
    BY <1>2, <2>1 DEF AgentInv, TurnInv
  <2>2. \A s \in AgentSessionIds : TurnsOf(s)' = TurnsOf(s)
    BY <1>1 DEF TurnsOf
  <2> QED
    BY <1>1, <2>1, <2>2 DEF AgentInv, TurnInv
<1> QED
  BY <1>1, <1>2, <1>3, <1>4, AgentTypes, OthersMove

\* The recovery registers its control, unless another one came first.
LEMMA RecoverRegisterStep == ASSUME AgentInv, RecoverRegister PROVE AgentInv'
<1>1. /\ UNCHANGED <<call, sessionRow, turnRows, audioStream, writing, handler, agentFaults>>
      /\ recovery' = [at |-> "idle", s |-> NoSession, next |-> 0]
      /\ recovery.at # "idle" /\ SessionKnown(recovery.s) /\ recovery.s \in AgentSessionIds
      /\ recovery.next \in 0..(MaxTurns + 1)
      /\ \/ socket' = [socket EXCEPT ![recovery.s] = "held"] /\ memory' = memory
         \/ RegisterControl(recovery.s, recovery.next) /\ socket' = socket
  BY AgentTypes DEF RecoverRegister, RecoveryUnchanged, IdleRecovery, SessionKnown
<1>2. /\ recovery' \in [at: {"idle", "read", "checked", "opened"},
                        s: AgentSessionIds \cup {NoSession}, next: 0..(MaxTurns + 1)]
      /\ recovery'.at = "idle"
  BY <1>1, AgentTypes
<1>3. socket' \in [AgentSessionIds -> {"closed", "open", "held"}]
  BY <1>1, AgentTypes
<1>4. CASE memory' = memory
  <2>1. TurnInv'
    BY <1>1, <1>2, <1>4, TurnFrame
  <2> QED
    BY <1>1, <1>2, <1>3, <1>4, <2>1, AgentTypes, OthersMove
<1>5. CASE RegisterControl(recovery.s, recovery.next)
  <2>1. sessionRow[recovery.s].state = "active" /\ memory.states[recovery.s] = 0 =>
           \A q \in turnRows[recovery.s] : q < recovery.next
    BY <1>1 DEF AgentInv, TurnInv
  <2>2. /\ TurnInv'
        /\ memory' \in [controls: [AgentSessionIds -> BOOLEAN],
                        states: [AgentSessionIds -> 0..(MaxTurns + 1)],
                        callSession: AgentSessionIds \cup {NoSession},
                        tools: SUBSET AgentSessionIds]
    BY <1>1, <1>2, <1>5, <2>1, Registers
  <2> QED
    BY <1>1, <1>2, <1>3, <2>2, AgentTypes, OthersMove
<1> QED
  BY <1>1, <1>4, <1>5

\* The caller, FreeSWITCH, the node and the reconciliation of calls.
LEMMA CallAndNodeStep ==
    ASSUME AgentInv,
           \/ PeerHangsUp \/ AnsweredAgain \/ CallReconciled
           \/ \E s \in AgentSessionIds :
                 StreamAttaches(s) \/ StreamEnds(s) \/ ProviderFails(s) \/ NodeDropsControl(s)
    PROVE  AgentInv'
<1>1. UNCHANGED <<sessionRow, turnRows, memory, writing, handler, recovery>>
  BY DEF PeerHangsUp, AnsweredAgain, CallReconciled, StreamAttaches, StreamEnds, ProviderFails,
         NodeDropsControl, OthersUnchanged
<1>2. /\ call \in [state: {"answered", "ended"}, live: BOOLEAN, forks: SUBSET AgentSessionIds,
                   var: AgentSessionIds \cup {NoSession}, events: SUBSET {"answered", "hangup"},
                   repeats: BOOLEAN]
      /\ audioStream \in [AgentSessionIds -> {"none", "waiting", "attached", "failed"}]
      /\ socket \in [AgentSessionIds -> {"closed", "open", "held"}]
      /\ agentFaults \in 0..AgentFaults /\ AgentFaults \in Nat
      /\ "answered" \in call.events => call.repeats = TRUE
  BY AgentTypes
<1>3. /\ \/ call' = call
         \/ call' = [call EXCEPT !.live = FALSE, !.forks = {}, !.events = @ \cup {"hangup"}]
         \/ call' = [call EXCEPT !.live = FALSE, !.forks = {}]
         \/ call.repeats = TRUE /\ call' = [call EXCEPT !.events = @ \cup {"answered"}]
         \/ call' = [call EXCEPT !.state = "ended"]
      /\ agentFaults' \in 0..AgentFaults
      /\ audioStream' \in [AgentSessionIds -> {"none", "waiting", "attached", "failed"}]
      /\ socket' \in [AgentSessionIds -> {"closed", "open", "held"}]
  <2>1. CASE PeerHangsUp
    BY <1>2, <2>1 DEF PeerHangsUp, AgentFault
  <2>2. CASE AnsweredAgain
    BY <1>2, <2>2 DEF AnsweredAgain, AgentFault
  <2>3. CASE CallReconciled
    BY <1>2, <2>3 DEF CallReconciled
  <2>4. CASE \E s \in AgentSessionIds :
                StreamAttaches(s) \/ StreamEnds(s) \/ ProviderFails(s) \/ NodeDropsControl(s)
    BY <1>2, <2>4 DEF StreamAttaches, StreamEnds, ProviderFails, NodeDropsControl, AgentFault
  <2> QED
    BY <2>1, <2>2, <2>3, <2>4
<1>4. /\ call' \in [state: {"answered", "ended"}, live: BOOLEAN, forks: SUBSET AgentSessionIds,
                    var: AgentSessionIds \cup {NoSession}, events: SUBSET {"answered", "hangup"},
                    repeats: BOOLEAN]
      /\ call'.repeats = call.repeats /\ call'.forks \subseteq call.forks /\ call'.var = call.var
      /\ "answered" \in call'.events => call.repeats = TRUE
  <2>1. CASE call' = [call EXCEPT !.live = FALSE, !.forks = {}, !.events = @ \cup {"hangup"}]
    BY <1>2, <2>1
  <2>2. CASE call' = [call EXCEPT !.live = FALSE, !.forks = {}]
    BY <1>2, <2>2
  <2>3. CASE call.repeats = TRUE /\ call' = [call EXCEPT !.events = @ \cup {"answered"}]
    BY <1>2, <2>3
  <2>4. CASE call' = [call EXCEPT !.state = "ended"]
    BY <1>2, <2>4
  <2>5. CASE call' = call
    BY <1>2, <2>5
  <2> QED
    BY <1>3, <2>1, <2>2, <2>3, <2>4, <2>5
<1>5. TurnInv'
  BY <1>1, <1>4, TurnFrame
<1> QED
  BY <1>1, <1>3, <1>4, <1>5, AgentTypes, OthersMove

\* The reconciliation closes what a terminal call left active.
LEMMA ReconcileTerminatedStep == ASSUME AgentInv, ReconcileTerminated PROVE AgentInv'
<1>1. /\ UNCHANGED <<call, turnRows, audioStream, socket, memory, writing, handler, recovery,
                     agentFaults>>
      /\ CompleteActive("completed")
  BY DEF ReconcileTerminated
<1>2. /\ sessionRow' \in [AgentSessionIds -> [state: {"none", "active", "failed", "completed"},
                                              mediaStarted: BOOLEAN]]
      /\ \A s \in AgentSessionIds :
            /\ sessionRow'[s].state # "active"
            /\ sessionRow'[s].state = "none" <=> sessionRow[s].state = "none"
  BY <1>1, Completes
<1>3. TurnInv'
  BY <1>1, <1>2, TurnsOver
<1> QED
  BY <1>1, <1>2, <1>3, AgentTypes, OthersMove

\* After a crash the connection has lost its events, and nothing is in memory.
LEMMA CrashStep == ASSUME AgentInv, WorkerCrashes PROVE AgentInv'
<1>1. /\ call' = [call EXCEPT !.events = {}, !.repeats = FALSE] /\ UNCHANGED <<sessionRow, turnRows>>
      /\ memory' = NoMemory /\ handler' = [at |-> "idle", s |-> NoSession]
      /\ recovery' = [at |-> "idle", s |-> NoSession, next |-> 0]
      /\ writing' = [s \in AgentSessionIds |-> {}]
      /\ agentFaults' \in 0..AgentFaults
      /\ audioStream' \in [AgentSessionIds -> {"none", "waiting", "attached", "failed"}]
      /\ socket' \in [AgentSessionIds -> {"closed", "open", "held"}]
  BY AgentTypes DEF WorkerCrashes, IdleHandler, IdleRecovery, AgentFault
<1>2. /\ memory' \in [controls: [AgentSessionIds -> BOOLEAN],
                      states: [AgentSessionIds -> 0..(MaxTurns + 1)],
                      callSession: AgentSessionIds \cup {NoSession},
                      tools: SUBSET AgentSessionIds]
      /\ \A s \in AgentSessionIds : memory'.states[s] = 0
  BY <1>1, AgentTypes DEF NoMemory
<1>3. /\ call' \in [state: {"answered", "ended"}, live: BOOLEAN, forks: SUBSET AgentSessionIds,
                    var: AgentSessionIds \cup {NoSession}, events: SUBSET {"answered", "hangup"},
                    repeats: BOOLEAN]
      /\ call'.repeats = FALSE /\ call'.forks = call.forks /\ call'.events = {}
  BY <1>1, AgentTypes
<1>4. AgentTypeOK'
  BY <1>1, <1>2, <1>3, AgentTypes DEF AgentTypeOK, HandlerAt
<1>5. WhoInv'
  BY <1>1 DEF WhoInv, AttachAt
<1>6. ForkInv'
  BY <1>1, <1>3 DEF AgentInv, ForkInv, Attaching
<1>7. TurnInv'
  BY <1>1, <1>2, <1>3 DEF AgentInv, TurnInv, TurnsOf
<1> QED
  BY <1>4, <1>5, <1>6, <1>7 DEF AgentInv

\* The call was answered; there is no session yet.
LEMMA AgentStart == AgentInit => AgentInv
<1> SUFFICES ASSUME AgentInit PROVE AgentInv
  OBVIOUS
<1>1. AgentTypeOK
  BY AgentAssumption DEF AgentInit, AgentTypeOK, NoMemory, IdleHandler, IdleRecovery, HandlerAt, AgentAssumption
<1>2. WhoInv /\ ForkInv
  BY DEF AgentInit, WhoInv, ForkInv, Attaching, AttachAt, IdleHandler, IdleRecovery
<1>3. TurnInv
  BY DEF AgentInit, TurnInv, TurnsOf, NoMemory
<1> QED
  BY <1>1, <1>2, <1>3 DEF AgentInv

\* The invariant holds throughout: attach, the recovery, observers and crashes (runtime/agent,
\* runtime/worker) keep what the channel, the rows and the memory say of each other.
THEOREM SessionsInductive == AgentSpec => []AgentInv
<1>1. ASSUME AgentInv, [AgentNext]_agentVars PROVE AgentInv'
  <2>1. CASE HandlerStep
    BY <1>1, <2>1, TakeEventStep, AttachCallStep, ReadVariableStep, CreateStreamStep, OpenControlStep,
       ForkStep, MarkStep, StopStreamStep, SessionEndsStep, HangUpStep DEF HandlerStep
  <2>2. CASE RecoveryStep
    BY <1>1, <2>2, RecoveryStepsBack, RecoverRegisterStep DEF RecoveryStep
  <2>3. CASE AgentEnvironment
    BY <1>1, <2>3, CallAndNodeStep, CrashStep, ControlEndsStep, ObserverTurnStep DEF AgentEnvironment
  <2>4. CASE ReconcileTerminated \/ CallReconciled
    BY <1>1, <2>4, ReconcileTerminatedStep, CallAndNodeStep
  <2>5. CASE BackgroundStep \/ \E s \in AgentSessionIds : StreamAttaches(s)
    BY <1>1, <2>5, CallAndNodeStep, ControlEndsStep, ObserveFailureStep, PersistTurnStep
       DEF BackgroundStep, ObserverStep
  <2>6. CASE UNCHANGED agentVars
    <3>1. UNCHANGED <<call, sessionRow, turnRows, audioStream, socket, memory, writing, handler, recovery,
                      agentFaults>>
      BY <2>6 DEF agentVars
    <3>2. TurnInv'
      BY <1>1, <3>1, TurnFrame
    <3> QED
      BY <1>1, <3>1, <3>2, AgentTypes, OthersMove
  <2> QED
    BY <1>1, <2>1, <2>2, <2>3, <2>4, <2>5, <2>6 DEF AgentNext
<1> QED
  BY <1>1, AgentStart, PTL DEF AgentSpec

\* A channel carries one fork at most (attach, sessionRecoveryJob).
THEOREM OneForkPerChannel == AgentSpec => []NoDuplicateFork
<1>1. AgentInv => NoDuplicateFork
  <2> SUFFICES ASSUME AgentInv PROVE NoDuplicateFork
    OBVIOUS
  <2>1. CASE call.forks = {}
    BY <2>1, FS_EmptySet DEF NoDuplicateFork
  <2>2. CASE \E s \in call.forks : TRUE
    <3>1. PICK s \in call.forks : call.forks = {s}
      BY <2>2 DEF AgentInv, ForkInv
    <3> QED
      BY <3>1, FS_Singleton DEF NoDuplicateFork
  <2> QED
    BY <2>1, <2>2
<1> QED
  BY <1>1, SessionsInductive, PTL

\* A sequence handed out for an active session is not in the table yet (registerControlWithState,
\* restoreConversationState, persistTurn).
THEOREM TurnsDoNotCollide == AgentSpec => []TurnsNeverCollide
<1>1. AgentInv => TurnsNeverCollide
  BY DEF AgentInv, TurnInv, TurnsNeverCollide, ActiveByCall
<1> QED
  BY <1>1, SessionsInductive, PTL

(***************************************************************************)
(* Configuration of agents                                                 *)
(***************************************************************************)
ConfigSafety == AgentConfigInit /\ [][AgentConfigNext]_configVars

Engines == {"realtime", "composable"}
CredentialRow == [state: ConnectionStates, secret: 1..MaxSecrets] \cup {NoRowOf}
AgentRow == [status: {"absent", "active", "disabled"}, engine: Engines, revision: Nat]
BindingRows == [AgentRoles -> Credentials \cup {NoCredential}]
ConfigRequest ==
    [op: {"none", "verify", "create", "list", "bind", "deploy"}, a: AgentIds \cup {NoAgent},
     k: Credentials \cup {NoCredential}, secret: 0..MaxSecrets, engine: Engines, want: BindingRows,
     put: SUBSET AgentRoles, drop: SUBSET AgentRoles, made: SUBSET AgentIds]

ConfigTypes ==
    /\ credential \in [Credentials -> CredentialRow] /\ agent \in [AgentIds -> AgentRow]
    /\ bound \in [AgentIds -> BindingRows] /\ configReq \in [ConfigRequests -> ConfigRequest]
    /\ answering \in [AgentNumbers -> AgentIds \cup {NoAgent}]
    /\ orgRow \in ConfigRequests \cup {NoOwner}

\* Only a deployment that holds the organisation's row has agents it has not committed, and they
\* count with the rows; who writes bindings writes them for an agent that has a row.
Made(q) == configReq[q].made
CountInv ==
    /\ IsFiniteSet(Rows) /\ Cardinality(Rows) <= PlanAgents
    /\ \A q \in ConfigRequests :
          /\ Made(q) # {} => configReq[q].op = "deploy" /\ orgRow = q
          /\ IsFiniteSet(Made(q)) /\ Made(q) \cap Rows = {}
          /\ Cardinality(Rows) + Cardinality(Made(q)) <= PlanAgents
          /\ configReq[q].op \in {"list", "bind"} => configReq[q].a \in Rows

\* A credential that a binding names exists, also when the deployment is not over.
CredentialInv ==
    /\ BoundCredentialExists
    /\ \A q \in ConfigRequests : Made(q) # {} =>
          \A r \in AgentRoles : configReq[q].want[r] # NoCredential => Present(configReq[q].want[r])

\* A snapshot is the agent's configuration at an earlier revision, or the present one.
SnapshotInv ==
    \A a \in AgentIds :
        /\ snapshots[a] # {} => a \in Rows
        /\ \A s \in snapshots[a] :
              /\ s.revision \in Nat /\ s.revision <= agent[a].revision
              /\ s.revision = agent[a].revision => s = SnapshotOf(a)

ConfigInv == ConfigTypes /\ CountInv /\ CredentialInv /\ SnapshotInv /\ RevisionIdentifies

\* What an idle request and a request's bindings are.
LEMMA RequestTypes ==
    /\ NoConfigReq \in ConfigRequest /\ NoConfigReq.made = {} /\ NoConfigReq.op = "none"
    /\ \A e \in Engines : Wanted(e) \subseteq BindingRows
    /\ NoAgentRow \in AgentRow
    /\ \A w \in BindingRows : RolesOf(w) \subseteq AgentRoles
<1>1. Unbound \in BindingRows
  BY DEF Unbound, BindingRows
<1>2. NoConfigReq \in ConfigRequest /\ NoConfigReq.made = {} /\ NoConfigReq.op = "none"
  BY <1>1, AgentConfigAssumption DEF NoConfigReq, ConfigRequest, Engines, AgentConfigAssumption
<1>3. \A e \in Engines : Wanted(e) \subseteq BindingRows
  BY <1>1 DEF Wanted, BindingRows
<1> QED
  BY <1>2, <1>3 DEF NoAgentRow, AgentRow, Engines, RolesOf

\* There is nothing at the start.
LEMMA ConfigStart == AgentConfigInit => ConfigInv
<1> SUFFICES ASSUME AgentConfigInit PROVE ConfigInv
  OBVIOUS
<1>1. Rows = {} /\ \A q \in ConfigRequests : configReq[q] = NoConfigReq
  BY DEF AgentConfigInit, Rows
<1>2. ConfigTypes
  BY RequestTypes DEF AgentConfigInit, ConfigTypes, CredentialRow, BindingRows, Unbound
<1>3. CountInv
  <2>1. Cardinality({}) = 0 /\ IsFiniteSet({}) /\ PlanAgents \in Nat
    BY FS_EmptySet, AgentConfigAssumption DEF AgentConfigAssumption
  <2>2. \A q \in ConfigRequests : Made(q) = {} /\ configReq[q].op = "none"
    BY <1>1, RequestTypes DEF Made
  <2> QED
    BY <1>1, <2>1, <2>2 DEF CountInv
<1>4. CredentialInv
  BY <1>1, RequestTypes DEF AgentConfigInit, CredentialInv, BoundCredentialExists, Made, Unbound
<1>5. SnapshotInv /\ RevisionIdentifies
  BY DEF AgentConfigInit, SnapshotInv, RevisionIdentifies
<1> QED
  BY <1>2, <1>3, <1>4, <1>5 DEF ConfigInv

\* Changes of agents and requests that neither add a row nor an uncommitted agent.
LEMMA AgentsCounted ==
    ASSUME ConfigInv, Rows' = Rows,
           \A q \in ConfigRequests :
              /\ \/ Made(q)' = {}
                 \/ Made(q)' = Made(q) /\ configReq'[q].op = configReq[q].op /\ orgRow' = orgRow
              /\ configReq'[q].op \in {"list", "bind"} => configReq'[q].a \in Rows
    PROVE  CountInv'
<1>1. Cardinality(Rows) \in Nat /\ Cardinality({}) = 0 /\ IsFiniteSet({})
  BY FS_CardinalityType, FS_EmptySet DEF ConfigInv, CountInv
<1> QED
  BY <1>1 DEF ConfigInv, CountInv

\* Agents and sessions stay, and so does every credential that is named.
LEMMA ConfigKept ==
    ASSUME ConfigInv, UNCHANGED <<agent, bound, snapshots>>,
           credential' \in [Credentials -> CredentialRow],
           \A k \in Credentials : Present(k) /\ Named(k) => Present(k)',
           configReq' \in [ConfigRequests -> ConfigRequest],
           orgRow' \in ConfigRequests \cup {NoOwner},
           answering' \in [AgentNumbers -> AgentIds \cup {NoAgent}],
           \A q \in ConfigRequests :
              /\ \/ Made(q)' = {}
                 \/ Made(q)' = Made(q) /\ configReq'[q] = configReq[q] /\ orgRow' = orgRow
              /\ configReq'[q].op \in {"list", "bind"} => configReq'[q].a \in Rows
    PROVE  ConfigInv'
<1>1. ConfigTypes'
  BY DEF ConfigInv, ConfigTypes
<1>2. Rows' = Rows
  BY DEF Rows
<1>3. CountInv'
  BY <1>2, AgentsCounted
<1>4. CredentialInv'
  <2>1. ASSUME NEW a \in AgentIds, NEW r \in AgentRoles, bound[a][r] # NoCredential
        PROVE  Present(bound[a][r])'
    <3>1. bound[a][r] \in Credentials
      BY <2>1 DEF ConfigInv, ConfigTypes, BindingRows
    <3>2. Present(bound[a][r]) /\ Named(bound[a][r])
      BY <2>1 DEF ConfigInv, CredentialInv, BoundCredentialExists, Named
    <3>3. \A k \in Credentials : k = bound[a][r] => Present(k)'
      BY <3>2
    <3> QED
      BY <3>1, <3>3 DEF Present
  <2>2. ASSUME NEW q \in ConfigRequests, Made(q)' # {}, NEW r \in AgentRoles,
               configReq[q].want[r] # NoCredential
        PROVE  /\ configReq'[q] = configReq[q]
               /\ \A k \in Credentials : k = configReq[q].want[r] => Present(k)'
    <3>1. Made(q)' = Made(q) /\ configReq'[q] = configReq[q]
      BY <2>2
    <3>2. Present(configReq[q].want[r]) /\ Named(configReq[q].want[r])
      BY <2>2, <3>1 DEF ConfigInv, CredentialInv, Named, Made
    <3> QED
      BY <3>1, <3>2
  <2>3. \A q \in ConfigRequests, r \in AgentRoles : configReq[q].want[r] \in Credentials \cup {NoCredential}
    BY DEF ConfigInv, ConfigTypes, ConfigRequest, BindingRows
  <2>4. ASSUME NEW q \in ConfigRequests, Made(q)' # {}, NEW r \in AgentRoles,
               configReq'[q].want[r] # NoCredential
        PROVE  credential'[configReq'[q].want[r]].state # "absent"
    BY <2>2, <2>3, <2>4 DEF Made, Present
  <2> QED
    BY <2>1, <2>4 DEF CredentialInv, BoundCredentialExists, Present
<1>5. SnapshotInv' /\ RevisionIdentifies'
  BY <1>2 DEF ConfigInv, SnapshotInv, RevisionIdentifies, SnapshotOf
<1> QED
  BY <1>1, <1>3, <1>4, <1>5 DEF ConfigInv

\* A request goes on; it has no agent that it has not committed, before and after.
LEMMA RequestGoes ==
    ASSUME ConfigInv, NEW q \in ConfigRequests, NEW r \in ConfigRequest, r.made = {},
           r.op \in {"list", "bind"} => r.a \in Rows,
           configReq' = [configReq EXCEPT ![q] = r]
    PROVE  /\ configReq' \in [ConfigRequests -> ConfigRequest] /\ Made(q)' = {}
           /\ \A p \in ConfigRequests \ {q} : configReq'[p] = configReq[p] /\ Made(p)' = Made(p)
           /\ \A p \in ConfigRequests : configReq'[p].op \in {"list", "bind"} => configReq'[p].a \in Rows
BY DEF ConfigInv, ConfigTypes, CountInv, Made

\* Credentials are created, rotated and deleted.
LEMMA CredentialStep ==
    ASSUME ConfigInv, NEW k \in Credentials,
           CreateCredential(k) \/ RotateCredential(k) \/ DeleteCredential(k)
    PROVE  ConfigInv'
<1>1. UNCHANGED <<agent, bound, answering, orgRow, snapshots, configReq>>
  BY DEF CreateCredential, RotateCredential, DeleteCredential, ConfigStill
<1>2. credential \in [Credentials -> CredentialRow]
  BY DEF ConfigInv, ConfigTypes
<1>3. /\ credential' \in [Credentials -> CredentialRow]
      /\ \A c \in Credentials : Present(c) /\ Named(c) => Present(c)'
  <2>1. CASE CreateCredential(k)
    <3>1. credential' = [credential EXCEPT ![k] = NewCredential] /\ NewCredential \in CredentialRow
      BY <2>1, AgentConfigAssumption
         DEF CreateCredential, NewCredential, CredentialRow, ConnectionStates, AgentConfigAssumption
    <3>2. NewCredential.state = "unchecked"
      BY DEF NewCredential
    <3> QED
      BY <1>2, <3>1, <3>2 DEF Present
  <2>2. CASE RotateCredential(k)
    <3>1. /\ credential' = [credential EXCEPT ![k] = Rotated(credential[k])]
          /\ credential[k].state # "absent" /\ credential[k].secret < MaxSecrets
      BY <2>2 DEF RotateCredential, Present
    <3>2. credential[k] \in [state: ConnectionStates, secret: 1..MaxSecrets]
      BY <1>2, <3>1 DEF CredentialRow, NoRowOf
    <3>3. Rotated(credential[k]) \in CredentialRow /\ Rotated(credential[k]).state = "unchecked"
      <4>1. credential[k].secret + 1 \in 1..MaxSecrets /\ "unchecked" \in ConnectionStates
        BY <3>1, <3>2, AgentConfigAssumption DEF ConnectionStates, AgentConfigAssumption
      <4>2. Rotated(credential[k]) = [credential[k] EXCEPT !.state = "unchecked",
                                                           !.secret = credential[k].secret + 1]
        BY DEF Rotated
      <4> QED
        BY <3>2, <4>1, <4>2 DEF CredentialRow
    <3> QED
      BY <1>2, <3>1, <3>3 DEF Present
  <2>3. CASE DeleteCredential(k)
    <3>1. credential' = [credential EXCEPT ![k] = NoRowOf] /\ NoRowOf \in CredentialRow /\ ~Named(k)
      BY <2>3 DEF DeleteCredential, CredentialRow
    <3> QED
      BY <1>2, <3>1 DEF Present
  <2> QED
    BY <2>1, <2>2, <2>3
<1>4. \A q \in ConfigRequests :
         Made(q)' = Made(q) /\ (configReq'[q].op \in {"list", "bind"} => configReq'[q].a \in Rows)
  BY <1>1 DEF Made, ConfigInv, CountInv
<1> QED
  BY <1>1, <1>3, <1>4, ConfigKept DEF ConfigInv, ConfigTypes

\* A verification begins, and writes its verdict.
LEMMA VerifyStep ==
    ASSUME ConfigInv, NEW q \in ConfigRequests,
           VerifyEnds(q) \/ \E k \in Credentials : VerifyBegins(q, k)
    PROVE  ConfigInv'
<1>1. UNCHANGED <<agent, bound, answering, orgRow, snapshots>>
  BY DEF VerifyBegins, VerifyEnds, ConfigStill
<1>2. credential \in [Credentials -> CredentialRow] /\ configReq[q] \in ConfigRequest
  BY DEF ConfigInv, ConfigTypes
<1>3. PICK r \in ConfigRequest :
         r.made = {} /\ r.op \notin {"list", "bind"} /\ configReq' = [configReq EXCEPT ![q] = r]
  <2>1. CASE VerifyEnds(q)
    BY <2>1, RequestTypes DEF VerifyEnds, End, Continue
  <2>2. ASSUME NEW k \in Credentials, VerifyBegins(q, k)
        PROVE  \E r \in ConfigRequest :
                  r.made = {} /\ r.op \notin {"list", "bind"} /\ configReq' = [configReq EXCEPT ![q] = r]
    <3>. DEFINE r == [NoConfigReq EXCEPT !.op = "verify", !.k = k, !.secret = credential[k].secret]
    <3>1. credential[k].secret \in 0..MaxSecrets
      BY <1>2, <2>2, AgentConfigAssumption DEF CredentialRow, NoRowOf, AgentConfigAssumption
    <3>2. r \in ConfigRequest /\ r.made = {} /\ r.op = "verify"
      BY <3>1, RequestTypes DEF ConfigRequest
    <3>3. configReq' = [configReq EXCEPT ![q] = r]
      BY <2>2 DEF VerifyBegins, Begin
    <3> QED
      BY <3>2, <3>3
  <2> QED
    BY <2>1, <2>2
<1>4. /\ credential' \in [Credentials -> CredentialRow]
      /\ \A c \in Credentials : Present(c) => Present(c)'
  <2>1. CASE UNCHANGED credential
    BY <1>2, <2>1 DEF Present
  <2>2. ASSUME NEW verdict \in ConnectionStates, NEW k \in Credentials, Present(k),
               credential' = [credential EXCEPT ![k].state = verdict]
        PROVE  /\ credential' \in [Credentials -> CredentialRow]
               /\ \A c \in Credentials : Present(c) => Present(c)'
    <3>1. credential[k] \in [state: ConnectionStates, secret: 1..MaxSecrets]
      BY <1>2, <2>2 DEF CredentialRow, NoRowOf, Present
    <3>2. /\ [credential[k] EXCEPT !.state = verdict] \in CredentialRow
          /\ [credential[k] EXCEPT !.state = verdict].state # "absent"
      BY <3>1 DEF CredentialRow, ConnectionStates
    <3>3. credential' = [credential EXCEPT ![k] = [credential[k] EXCEPT !.state = verdict]]
      BY <1>2, <2>2
    <3> QED
      BY <1>2, <3>2, <3>3 DEF Present
  <2>3. configReq[q].op = "verify" => configReq[q].k \in Credentials \cup {NoCredential}
    BY <1>2 DEF ConfigRequest
  <2>4. ASSUME VerifyEnds(q)
        PROVE  \/ UNCHANGED credential
               \/ \E verdict \in ConnectionStates, k \in Credentials :
                     Present(k) /\ credential' = [credential EXCEPT ![k].state = verdict]
    <3>. DEFINE k == configReq[q].k
    <3>1. CASE k \in Credentials
      BY <2>4, <3>1 DEF VerifyEnds
    <3>2. CASE k \notin Credentials
      <4>1. PICK verdict \in ConnectionStates :
               credential' = IF Present(k) THEN [credential EXCEPT ![k].state = verdict] ELSE credential
        BY <2>4 DEF VerifyEnds
      <4>2. [credential EXCEPT ![k].state = verdict] = credential
        BY <1>2, <3>2
      <4> QED
        BY <4>1, <4>2
    <3> QED
      BY <3>1, <3>2
  <2> QED
    BY <2>1, <2>2, <2>4 DEF VerifyBegins
<1>5. /\ configReq' \in [ConfigRequests -> ConfigRequest] /\ Made(q)' = {}
      /\ \A p \in ConfigRequests \ {q} : configReq'[p] = configReq[p] /\ Made(p)' = Made(p)
      /\ \A p \in ConfigRequests : configReq'[p].op \in {"list", "bind"} => configReq'[p].a \in Rows
  BY <1>3, RequestGoes
<1> QED
  BY <1>1, <1>4, <1>5, ConfigKept DEF ConfigInv, ConfigTypes

\* The first step of a creation or of a deployment.
LEMMA BeginsStep ==
    ASSUME ConfigInv, NEW q \in ConfigRequests, CreateBegins(q) \/ DeployBegins(q)
    PROVE  ConfigInv'
<1>1. UNCHANGED <<agent, bound, orgRow, credential, answering, snapshots>>
  BY DEF CreateBegins, DeployBegins, AgentStill
<1>2. PICK r \in ConfigRequest :
         r.made = {} /\ r.op \notin {"list", "bind"} /\ configReq' = [configReq EXCEPT ![q] = r]
  <2>1. CASE CreateBegins(q)
    <3>0. PICK e \in Engines : \E w \in Wanted(e) :
             configReq' = [configReq EXCEPT ![q] =
                [NoConfigReq EXCEPT !.op = "create", !.engine = e, !.want = w, !.put = RolesOf(w)]]
      BY <2>1 DEF CreateBegins, Begin, Engines
    <3>1. PICK w \in Wanted(e) :
             configReq' = [configReq EXCEPT ![q] =
                [NoConfigReq EXCEPT !.op = "create", !.engine = e, !.want = w, !.put = RolesOf(w)]]
      BY <3>0
    <3>. DEFINE r == [NoConfigReq EXCEPT !.op = "create", !.engine = e, !.want = w, !.put = RolesOf(w)]
    <3>2. w \in BindingRows /\ RolesOf(w) \in SUBSET AgentRoles
      BY <3>1, RequestTypes
    <3>3. r \in ConfigRequest /\ r.made = {} /\ r.op = "create"
      BY <3>1, <3>2, RequestTypes DEF ConfigRequest
    <3> QED
      BY <3>1, <3>3
  <2>2. CASE DeployBegins(q)
    <3>0. PICK e \in Engines : \E w \in Wanted(e) :
             configReq' = [configReq EXCEPT ![q] =
                [NoConfigReq EXCEPT !.op = "deploy", !.engine = e, !.want = w]]
      BY <2>2 DEF DeployBegins, Begin, Engines
    <3>1. PICK w \in Wanted(e) :
             configReq' = [configReq EXCEPT ![q] =
                [NoConfigReq EXCEPT !.op = "deploy", !.engine = e, !.want = w]]
      BY <3>0
    <3>. DEFINE r == [NoConfigReq EXCEPT !.op = "deploy", !.engine = e, !.want = w]
    <3>2. w \in BindingRows
      BY <3>1, RequestTypes
    <3>3. r \in ConfigRequest /\ r.made = {} /\ r.op = "deploy"
      BY <3>1, <3>2, RequestTypes DEF ConfigRequest
    <3> QED
      BY <3>1, <3>3
  <2> QED
    BY <2>1, <2>2
<1>3. /\ configReq' \in [ConfigRequests -> ConfigRequest] /\ Made(q)' = {}
      /\ \A p \in ConfigRequests \ {q} : configReq'[p] = configReq[p] /\ Made(p)' = Made(p)
      /\ \A p \in ConfigRequests : configReq'[p].op \in {"list", "bind"} => configReq'[p].a \in Rows
  BY <1>2, RequestGoes
<1> QED
  BY <1>1, <1>3, ConfigKept DEF ConfigInv, ConfigTypes, Present

\* An update reads the bindings there are, or a request breaks off.
LEMMA ListOrBreakStep ==
    ASSUME ConfigInv, NEW q \in ConfigRequests, ListBindings(q) \/ RequestBreaks(q)
    PROVE  ConfigInv'
<1>1. /\ UNCHANGED <<agent, bound, credential, answering, snapshots>>
      /\ \/ orgRow' = orgRow
         \/ orgRow = q /\ orgRow' = NoOwner
  BY DEF ListBindings, RequestBreaks, AgentStill
<1>2. configReq[q] \in ConfigRequest
  BY DEF ConfigInv, ConfigTypes
<1>3. PICK r \in ConfigRequest :
         /\ r.made = {} /\ (r.op \in {"list", "bind"} => r.a \in Rows)
         /\ configReq' = [configReq EXCEPT ![q] = r]
  <2>1. CASE configReq' = [configReq EXCEPT ![q] = NoConfigReq]
    BY <2>1, RequestTypes
  <2>2. CASE ListBindings(q) /\ configReq' # [configReq EXCEPT ![q] = NoConfigReq]
    <3>. DEFINE put == RolesOf(configReq[q].want)
                drop == {role \in AgentRoles : bound[configReq[q].a][role] # NoCredential} \ put
                r == [configReq[q] EXCEPT !.op = "bind", !.put = put, !.drop = drop]
    <3>1. configReq[q].op = "list" /\ configReq' = [configReq EXCEPT ![q] = r]
      BY <2>2 DEF ListBindings, End, Continue
    <3>2. configReq[q].made = {} /\ configReq[q].a \in Rows
      BY <3>1 DEF ConfigInv, CountInv, Made
    <3>3. put \in SUBSET AgentRoles /\ drop \in SUBSET AgentRoles
      BY DEF RolesOf
    <3>. HIDE DEF put, drop
    <3>4. r \in ConfigRequest /\ r.made = {} /\ r.a = configReq[q].a
      BY <1>2, <3>2, <3>3 DEF ConfigRequest
    <3> QED
      BY <3>1, <3>2, <3>4
  <2> QED
    BY <2>1, <2>2 DEF ListBindings, RequestBreaks, End, Continue
<1>4. /\ configReq' \in [ConfigRequests -> ConfigRequest] /\ Made(q)' = {}
      /\ \A p \in ConfigRequests \ {q} : configReq'[p] = configReq[p] /\ Made(p)' = Made(p)
      /\ \A p \in ConfigRequests : configReq'[p].op \in {"list", "bind"} => configReq'[p].a \in Rows
  BY <1>3, RequestGoes
<1>5. \A p \in ConfigRequests \ {q} : Made(p) # {} => orgRow' = orgRow
  BY <1>1 DEF ConfigInv, CountInv
<1>6. orgRow' \in ConfigRequests \cup {NoOwner}
  BY <1>1 DEF ConfigInv, ConfigTypes
<1> QED
  BY <1>1, <1>4, <1>5, <1>6, ConfigKept DEF ConfigInv, ConfigTypes, Present

\* A number is bound to an agent or unbound.
LEMMA NumberBindingStep ==
    ASSUME ConfigInv, NEW n \in AgentNumbers,
           UnbindNumber(n) \/ \E a \in AgentIds : BindNumber(n, a)
    PROVE  ConfigInv'
<1>1. UNCHANGED <<credential, agent, bound, orgRow, configReq, snapshots>>
  BY DEF UnbindNumber, BindNumber
<1>2. answering' \in [AgentNumbers -> AgentIds \cup {NoAgent}]
  BY DEF UnbindNumber, BindNumber, ConfigInv, ConfigTypes
<1>3. \A q \in ConfigRequests :
         Made(q)' = Made(q) /\ (configReq'[q].op \in {"list", "bind"} => configReq'[q].a \in Rows)
  BY <1>1 DEF Made, ConfigInv, CountInv
<1> QED
  BY <1>1, <1>2, <1>3, ConfigKept DEF ConfigInv, ConfigTypes, Present

\* An agent's row or bindings change, and its revision with them.
LEMMA RevisionGrows ==
    ASSUME ConfigInv, NEW a \in Rows, NEW row \in AgentRow, row.revision > agent[a].revision,
           NEW b \in BindingRows,
           \A r \in AgentRoles : b[r] # NoCredential => Present(b[r]),
           agent' = [agent EXCEPT ![a] = row], bound' = [bound EXCEPT ![a] = b],
           UNCHANGED <<credential, answering, snapshots, orgRow>>,
           configReq' \in [ConfigRequests -> ConfigRequest],
           \A q \in ConfigRequests :
              /\ \/ Made(q)' = {}
                 \/ Made(q)' = Made(q) /\ configReq'[q] = configReq[q]
              /\ configReq'[q].op \in {"list", "bind"} => configReq'[q].a \in Rows
    PROVE  ConfigInv'
<1>1. /\ a \in AgentIds /\ agent \in [AgentIds -> AgentRow] /\ bound \in [AgentIds -> BindingRows]
      /\ agent[a].revision \in Nat /\ row.revision \in Nat
  BY DEF ConfigInv, ConfigTypes, Rows, AgentRow
<1>2. ConfigTypes'
  BY <1>1 DEF ConfigInv, ConfigTypes
<1>3. row # NoAgentRow
  BY <1>1 DEF NoAgentRow
<1>4. Rows' = Rows
  BY <1>1, <1>3 DEF Rows
<1>5. CountInv'
  BY <1>4, AgentsCounted
<1>6. CredentialInv'
  <2>1. \A c \in AgentIds, r \in AgentRoles : bound'[c][r] # NoCredential => Present(bound'[c][r])
    BY <1>1 DEF ConfigInv, CredentialInv, BoundCredentialExists
  <2>2. \A c \in AgentIds, r \in AgentRoles :
           bound'[c][r] # NoCredential => credential'[bound'[c][r]].state # "absent"
    BY <2>1 DEF Present
  <2>3. \A q \in ConfigRequests : configReq'[q].made # {} =>
           \A r \in AgentRoles : configReq'[q].want[r] # NoCredential
                                 => credential'[configReq'[q].want[r]].state # "absent"
    BY DEF ConfigInv, CredentialInv, Made, Present
  <2> QED
    BY <2>2, <2>3 DEF CredentialInv, BoundCredentialExists, Present, Made
<1>7. SnapshotInv'
  <2>1. ASSUME NEW c \in AgentIds
        PROVE  /\ snapshots[c] # {} => c \in Rows
               /\ \A s \in snapshots[c] :
                     /\ s.revision \in Nat /\ s.revision <= agent'[c].revision
                     /\ s.revision = agent'[c].revision => s = SnapshotOf(c)'
    <3>1. CASE c = a
      <4>1. agent'[c] = row
        BY <1>1, <3>1
      <4>2. \A s \in snapshots[c] : s.revision \in Nat /\ s.revision <= agent[a].revision
        BY <1>1, <3>1 DEF ConfigInv, SnapshotInv
      <4> QED
        BY <1>1, <3>1, <4>1, <4>2
    <3>2. CASE c # a
      <4>1. agent'[c] = agent[c] /\ bound'[c] = bound[c]
        BY <1>1, <3>2
      <4>2. SnapshotOf(c)' = SnapshotOf(c)
        BY <4>1 DEF SnapshotOf
      <4> QED
        BY <4>1, <4>2 DEF ConfigInv, SnapshotInv
    <3> QED
      BY <3>1, <3>2
  <2> QED
    BY <1>4, <2>1 DEF SnapshotInv
<1>8. RevisionIdentifies'
  BY DEF ConfigInv, RevisionIdentifies
<1> QED
  BY <1>2, <1>5, <1>6, <1>7, <1>8 DEF ConfigInv

\* An update writes the agent's row.
LEMMA UpdateAgentStep ==
    ASSUME ConfigInv, NEW q \in ConfigRequests, NEW a \in AgentIds, UpdateAgent(q, a)
    PROVE  ConfigInv'
<1>1. /\ agent \in [AgentIds -> AgentRow] /\ bound \in [AgentIds -> BindingRows]
      /\ configReq \in [ConfigRequests -> ConfigRequest]
  BY DEF ConfigInv, ConfigTypes
<1>2. /\ UNCHANGED <<bound, orgRow, credential, answering, snapshots>>
      /\ agent[a].status = "active" /\ a \in Rows
  <2>1. agent[a].status = "active" /\ NoAgentRow.status = "absent"
    BY DEF UpdateAgent, NoAgentRow
  <2> QED
    BY <2>1 DEF UpdateAgent, AgentStill, Rows
<1>3. PICK upd \in AgentUpdates :
         /\ agent' = [agent EXCEPT ![a] = UpdatedAgent(agent[a], upd)]
         /\ \/ UNCHANGED configReq
            \/ \E w \in upd.bindings : configReq' = [configReq EXCEPT ![q] =
                  [NoConfigReq EXCEPT !.op = "list", !.a = a, !.engine = upd.engine, !.want = w]]
  BY <1>1 DEF UpdateAgent
<1>4. upd.engine \in Engines /\ upd.bindings \subseteq BindingRows
  <2>1. PICK e \in Engines : upd \in {[engine |-> e, bindings |-> b] : b \in {{}} \cup {{w} : w \in Wanted(e)}}
    BY <1>3 DEF AgentUpdates, Engines
  <2>2. PICK b \in {{}} \cup {{w} : w \in Wanted(e)} : upd = [engine |-> e, bindings |-> b]
    BY <2>1
  <2>3. Wanted(e) \subseteq BindingRows
    BY RequestTypes
  <2>4. b \subseteq BindingRows
    BY <2>2, <2>3
  <2> QED
    BY <2>1, <2>2, <2>4
<1>. DEFINE row == UpdatedAgent(agent[a], upd)
<1>5. row \in AgentRow /\ row.revision > agent[a].revision
  <2>1. row = [agent[a] EXCEPT !.engine = upd.engine, !.revision = agent[a].revision + 1]
    BY DEF UpdatedAgent
  <2>2. /\ agent[a] \in [status: {"absent", "active", "disabled"}, engine: Engines, revision: Nat]
        /\ agent[a].revision \in Nat
    BY <1>1 DEF AgentRow
  <2>. HIDE DEF row
  <2>3. row = [status |-> agent[a].status, engine |-> upd.engine, revision |-> agent[a].revision + 1]
    BY <2>1, <2>2
  <2>4. agent[a].revision + 1 \in Nat /\ agent[a].status \in {"absent", "active", "disabled"}
    BY <2>2
  <2>5. row.revision = agent[a].revision + 1 /\ row \in AgentRow
    BY <1>4, <2>3, <2>4 DEF AgentRow
  <2> QED
    BY <2>2, <2>5
<1>6. /\ configReq' \in [ConfigRequests -> ConfigRequest]
      /\ \A p \in ConfigRequests :
            /\ \/ Made(p)' = {}
               \/ Made(p)' = Made(p) /\ configReq'[p] = configReq[p]
            /\ configReq'[p].op \in {"list", "bind"} => configReq'[p].a \in Rows
  <2>1. CASE UNCHANGED configReq
    BY <1>1, <2>1 DEF ConfigInv, CountInv, Made
  <2>2. CASE ~UNCHANGED configReq
    <3>1. PICK w \in upd.bindings : configReq' = [configReq EXCEPT ![q] =
             [NoConfigReq EXCEPT !.op = "list", !.a = a, !.engine = upd.engine, !.want = w]]
      BY <1>3, <2>2
    <3>. DEFINE r == [NoConfigReq EXCEPT !.op = "list", !.a = a, !.engine = upd.engine, !.want = w]
    <3>2. r \in ConfigRequest /\ r.made = {} /\ r.a = a
      BY <1>4, <3>1, RequestTypes DEF ConfigRequest
    <3>. HIDE DEF r
    <3>3. configReq' = [configReq EXCEPT ![q] = r]
      BY <3>1 DEF r
    <3> QED
      BY <1>2, <3>2, <3>3, RequestGoes
  <2> QED
    BY <2>1, <2>2
<1>7. \A r \in AgentRoles : bound[a][r] # NoCredential => Present(bound[a][r])
  BY DEF ConfigInv, CredentialInv, BoundCredentialExists
<1>8. bound' = [bound EXCEPT ![a] = bound[a]] /\ bound[a] \in BindingRows
  BY <1>1, <1>2
<1>. HIDE DEF row
<1>9. agent' = [agent EXCEPT ![a] = row]
  BY <1>3 DEF row
<1> QED
  BY <1>2, <1>5, <1>6, <1>7, <1>8, <1>9, RevisionGrows

\* A request that writes bindings has the row of its agent, and none uncommitted.
LEMMA Binder ==
    ASSUME ConfigInv, NEW q \in ConfigRequests, configReq[q].op = "bind"
    PROVE  /\ configReq[q] \in ConfigRequest /\ configReq[q].a \in Rows /\ Made(q) = {}
           /\ configReq[q].a \in AgentIds
           /\ agent \in [AgentIds -> AgentRow] /\ bound \in [AgentIds -> BindingRows]
           /\ configReq \in [ConfigRequests -> ConfigRequest]
BY DEF ConfigInv, ConfigTypes, CountInv, Rows

\* The request of a binding goes on with the roles left, or ends.
LEMMA BinderGoes ==
    ASSUME ConfigInv, NEW q \in ConfigRequests, configReq[q].op = "bind",
           NEW put \in SUBSET AgentRoles, NEW drop \in SUBSET AgentRoles,
           \/ configReq' = [configReq EXCEPT ![q] = NoConfigReq]
           \/ configReq' = [configReq EXCEPT ![q] = [configReq[q] EXCEPT !.put = put, !.drop = drop]]
    PROVE  /\ configReq' \in [ConfigRequests -> ConfigRequest]
           /\ \A p \in ConfigRequests :
                 /\ \/ Made(p)' = {}
                    \/ Made(p)' = Made(p) /\ configReq'[p] = configReq[p]
                 /\ configReq'[p].op \in {"list", "bind"} => configReq'[p].a \in Rows
<1>. DEFINE r == [configReq[q] EXCEPT !.put = put, !.drop = drop]
<1>1. /\ r \in ConfigRequest /\ r.made = {} /\ r.a \in Rows /\ r.op = "bind"
  BY ZenonT(40), Binder DEF ConfigRequest, Made
<1>2. configReq' \in {[configReq EXCEPT ![q] = NoConfigReq], [configReq EXCEPT ![q] = r]}
  OBVIOUS
<1>. HIDE DEF r
<1>3. CASE configReq' = [configReq EXCEPT ![q] = r]
  BY <1>1, <1>3, RequestGoes
<1>4. CASE configReq' = [configReq EXCEPT ![q] = NoConfigReq]
  BY <1>4, RequestGoes, RequestTypes
<1> QED
  BY <1>2, <1>3, <1>4

\* A binding is removed.
LEMMA DeleteBindingStep ==
    ASSUME ConfigInv, NEW q \in ConfigRequests, DeleteBinding(q)
    PROVE  ConfigInv'
<1>. DEFINE r == configReq[q]
            a == configReq[q].a
<1>1. PICK role \in r.drop :
         /\ r.op = "bind" /\ bound' = [bound EXCEPT ![a][role] = NoCredential]
         /\ agent' = IF bound[a][role] = NoCredential THEN agent ELSE [agent EXCEPT ![a].revision = @ + 1]
         /\ \/ configReq' = [configReq EXCEPT ![q] = NoConfigReq]
            \/ configReq' = [configReq EXCEPT ![q] = [r EXCEPT !.drop = @ \ {role}]]
         /\ UNCHANGED <<orgRow, credential, answering, snapshots>>
  BY DEF DeleteBinding, End, Continue, Bump, AgentStill
<1>2. /\ r \in ConfigRequest /\ a \in Rows /\ a \in AgentIds /\ role \in AgentRoles
      /\ agent \in [AgentIds -> AgentRow] /\ bound \in [AgentIds -> BindingRows]
      /\ r.put \in SUBSET AgentRoles /\ r.drop \ {role} \in SUBSET AgentRoles
  BY <1>1, Binder DEF ConfigRequest
<1>3. [r EXCEPT !.drop = @ \ {role}] = [r EXCEPT !.put = r.put, !.drop = r.drop \ {role}]
  BY <1>2 DEF ConfigRequest
<1>4. /\ configReq' \in [ConfigRequests -> ConfigRequest]
      /\ \A p \in ConfigRequests :
            /\ \/ Made(p)' = {}
               \/ Made(p)' = Made(p) /\ configReq'[p] = configReq[p]
            /\ configReq'[p].op \in {"list", "bind"} => configReq'[p].a \in Rows
  <2>1. \/ configReq' = [configReq EXCEPT ![q] = NoConfigReq]
        \/ configReq' = [configReq EXCEPT ![q] =
              [configReq[q] EXCEPT !.put = configReq[q].put, !.drop = configReq[q].drop \ {role}]]
    BY <1>1, <1>3
  <2>. HIDE DEF r
  <2>2. configReq[q].put \in SUBSET AgentRoles /\ configReq[q].drop \ {role} \in SUBSET AgentRoles /\ configReq[q].op = "bind"
    BY <1>1, <1>2 DEF r
  <2> QED
    BY <2>1, <2>2, BinderGoes
<1>5. CASE bound[a][role] = NoCredential
  <2>1. UNCHANGED <<agent, bound>>
    BY <1>1, <1>2, <1>5 DEF BindingRows
  <2>2. \A p \in ConfigRequests : Made(p)' = {} \/ (Made(p)' = Made(p) /\ configReq'[p] = configReq[p])
    BY <1>4
  <2> QED
    BY <1>1, <1>4, <2>1, <2>2, ConfigKept DEF ConfigInv, ConfigTypes, Present
<1>6. CASE bound[a][role] # NoCredential
  <2>. DEFINE row == [agent[a] EXCEPT !.revision = @ + 1]
              b == [bound[a] EXCEPT ![role] = NoCredential]
  <2>1. row \in AgentRow /\ row.revision > agent[a].revision /\ agent' = [agent EXCEPT ![a] = row]
    BY <1>1, <1>2, <1>6 DEF AgentRow
  <2>2. b \in BindingRows /\ bound' = [bound EXCEPT ![a] = b]
    BY <1>1, <1>2 DEF BindingRows
  <2>3. \A x \in AgentRoles : b[x] # NoCredential => b[x] = bound[a][x]
    BY <1>2 DEF BindingRows
  <2>4. \A x \in AgentRoles : b[x] # NoCredential => Present(b[x])
    BY <1>2, <2>3 DEF ConfigInv, CredentialInv, BoundCredentialExists
  <2>. HIDE DEF row, b
  <2> QED
    BY <1>1, <1>2, <1>4, <2>1, <2>2, <2>4, RevisionGrows
<1> QED
  BY <1>5, <1>6

\* A binding is written, unless its credential is gone.
LEMMA UpsertBindingStep ==
    ASSUME ConfigInv, NEW q \in ConfigRequests, UpsertBinding(q)
    PROVE  ConfigInv'
<1>. DEFINE r == configReq[q]
            a == configReq[q].a
<1>1. PICK role \in r.put :
         /\ r.op = "bind"
         /\ \/ UNCHANGED <<agent, bound>> /\ configReq' = [configReq EXCEPT ![q] = NoConfigReq]
            \/ /\ Present(r.want[role])
               /\ bound' = [bound EXCEPT ![a] = WithBinding(bound[a], role, r.want[role])]
               /\ agent' = [agent EXCEPT ![a].revision = @ + 1]
               /\ \/ configReq' = [configReq EXCEPT ![q] = NoConfigReq]
                  \/ configReq' = [configReq EXCEPT ![q] = [r EXCEPT !.put = @ \ {role}]]
         /\ UNCHANGED <<orgRow, credential, answering, snapshots>>
  <2>1. bound \in [AgentIds -> BindingRows]
    BY DEF ConfigInv, ConfigTypes
  <2> QED
    BY <2>1 DEF UpsertBinding, End, Continue, Bump, AgentStill
<1>2. /\ r \in ConfigRequest /\ a \in Rows /\ a \in AgentIds /\ role \in AgentRoles
      /\ agent \in [AgentIds -> AgentRow] /\ bound \in [AgentIds -> BindingRows]
      /\ r.drop \in SUBSET AgentRoles /\ r.put \ {role} \in SUBSET AgentRoles
      /\ r.put \in SUBSET AgentRoles /\ r.want \in BindingRows
  BY <1>1, Binder DEF ConfigRequest
<1>3. [r EXCEPT !.put = @ \ {role}] = [r EXCEPT !.put = r.put \ {role}, !.drop = r.drop]
  BY <1>2 DEF ConfigRequest
<1>4. /\ configReq' \in [ConfigRequests -> ConfigRequest]
      /\ \A p \in ConfigRequests :
            /\ \/ Made(p)' = {}
               \/ Made(p)' = Made(p) /\ configReq'[p] = configReq[p]
            /\ configReq'[p].op \in {"list", "bind"} => configReq'[p].a \in Rows
  <2>1. \/ configReq' = [configReq EXCEPT ![q] = NoConfigReq]
        \/ configReq' = [configReq EXCEPT ![q] =
              [configReq[q] EXCEPT !.put = configReq[q].put \ {role}, !.drop = configReq[q].drop]]
    BY <1>1, <1>3
  <2>. HIDE DEF r
  <2>2. configReq[q].put \ {role} \in SUBSET AgentRoles /\ configReq[q].drop \in SUBSET AgentRoles /\ configReq[q].op = "bind"
    BY <1>1, <1>2 DEF r
  <2> QED
    BY <2>1, <2>2, BinderGoes
<1>5. CASE UNCHANGED <<agent, bound>>
  BY <1>1, <1>4, <1>5, ConfigKept DEF ConfigInv, ConfigTypes, Present
<1>6. CASE ~UNCHANGED <<agent, bound>>
  <2>. DEFINE row == [agent[a] EXCEPT !.revision = @ + 1]
              b == WithBinding(bound[a], role, r.want[role])
  <2>1. row \in AgentRow /\ row.revision > agent[a].revision /\ agent' = [agent EXCEPT ![a] = row]
    BY <1>1, <1>2, <1>6 DEF AgentRow
  <2>2. b \in BindingRows /\ bound' = [bound EXCEPT ![a] = b]
    BY <1>1, <1>2, <1>6 DEF BindingRows, WithBinding
  <2>3. \A x \in AgentRoles : b[x] # NoCredential => b[x] = bound[a][x] \/ b[x] = r.want[role]
    BY <1>2 DEF BindingRows, WithBinding
  <2>4. \A x \in AgentRoles : b[x] # NoCredential => Present(b[x])
    BY <1>1, <1>2, <1>6, <2>3 DEF ConfigInv, CredentialInv, BoundCredentialExists
  <2>. HIDE DEF row, b
  <2> QED
    BY <1>1, <1>2, <1>4, <2>1, <2>2, <2>4, RevisionGrows
<1> QED
  BY <1>5, <1>6

\* A new revision or a new row leaves the sessions' snapshots alone where the agent is the same.
LEMMA SnapshotsKept ==
    ASSUME ConfigInv, UNCHANGED snapshots, Rows \subseteq Rows',
           \A a \in Rows : SnapshotOf(a)' = SnapshotOf(a)
    PROVE  SnapshotInv' /\ RevisionIdentifies'
<1>1. RevisionIdentifies'
  BY DEF ConfigInv, RevisionIdentifies
<1>2. ASSUME NEW a \in AgentIds
      PROVE  /\ snapshots'[a] # {} => a \in Rows'
             /\ \A s \in snapshots'[a] :
                   /\ s.revision \in Nat /\ s.revision <= agent'[a].revision
                   /\ s.revision = agent'[a].revision => s = SnapshotOf(a)'
  <2>1. CASE a \in Rows
    <3>1. SnapshotOf(a)' = SnapshotOf(a) /\ agent'[a].revision = agent[a].revision
      BY <2>1 DEF SnapshotOf
    <3> QED
      BY <2>1, <3>1 DEF ConfigInv, SnapshotInv
  <2>2. CASE a \notin Rows
    BY <2>2 DEF ConfigInv, SnapshotInv
  <2> QED
    BY <2>1, <2>2
<1> QED
  BY <1>1, <1>2 DEF SnapshotInv

\* An agent is disabled.
LEMMA DisableAgentStep == ASSUME ConfigInv, NEW a \in AgentIds, DisableAgent(a) PROVE ConfigInv'
<1>1. /\ agent \in [AgentIds -> AgentRow] /\ agent[a].status = "active"
      /\ agent' = [agent EXCEPT ![a].status = "disabled"]
      /\ UNCHANGED <<bound, orgRow, configReq, credential, answering, snapshots>>
  BY DEF DisableAgent, AgentStill, ConfigInv, ConfigTypes
<1>2. /\ agent' \in [AgentIds -> AgentRow]
      /\ \A b \in AgentIds : /\ agent'[b].revision = agent[b].revision
                             /\ agent'[b].engine = agent[b].engine
      /\ agent'[a].status = "disabled" /\ NoAgentRow.status = "absent"
      /\ \A b \in AgentIds \ {a} : agent'[b] = agent[b]
  BY <1>1 DEF AgentRow, NoAgentRow
<1>3. ConfigTypes'
  BY <1>1, <1>2 DEF ConfigInv, ConfigTypes
<1>4. Rows' = Rows
  <2>1. agent[a] # NoAgentRow /\ agent'[a] # NoAgentRow
    BY <1>1, <1>2
  <2> QED
    BY <1>2, <2>1 DEF Rows
<1>5. CountInv'
  <2>1. \A q \in ConfigRequests :
           /\ Made(q)' = Made(q) /\ configReq'[q].op = configReq[q].op
           /\ configReq'[q].op \in {"list", "bind"} => configReq'[q].a \in Rows
    BY <1>1 DEF Made, ConfigInv, CountInv
  <2> QED
    BY <1>1, <1>4, <2>1, AgentsCounted
<1>6. CredentialInv'
  BY <1>1 DEF ConfigInv, CredentialInv, BoundCredentialExists, Made, Present
<1>7. \A b \in Rows : SnapshotOf(b)' = SnapshotOf(b)
  BY <1>1, <1>2 DEF SnapshotOf, Rows
<1> QED
  BY <1>1, <1>3, <1>4, <1>5, <1>6, <1>7, SnapshotsKept DEF ConfigInv

\* A session takes a snapshot.
LEMMA TakeSnapshotStep == ASSUME ConfigInv, NEW a \in AgentIds, TakeSnapshot(a) PROVE ConfigInv'
<1>. DEFINE s == SnapshotOf(a)
<1>1. /\ agent[a].status = "active" /\ snapshots' = [snapshots EXCEPT ![a] = @ \cup {s}]
      /\ UNCHANGED <<credential, agent, bound, answering, orgRow, configReq>>
  BY DEF TakeSnapshot
<1>2. Rows' = Rows /\ a \in Rows
  <2>1. agent[a].status = "active" /\ NoAgentRow.status = "absent"
    BY <1>1 DEF NoAgentRow
  <2> QED
    BY <1>1, <2>1 DEF Rows
<1>3. ConfigTypes' /\ CredentialInv'
  BY <1>1 DEF ConfigInv, ConfigTypes, CredentialInv, BoundCredentialExists, Made, Present
<1>4. CountInv'
  <2>1. \A q \in ConfigRequests :
           /\ Made(q)' = Made(q) /\ configReq'[q].op = configReq[q].op
           /\ configReq'[q].op \in {"list", "bind"} => configReq'[q].a \in Rows
    BY <1>1 DEF Made, ConfigInv, CountInv
  <2> QED
    BY <1>1, <1>2, <2>1, AgentsCounted
<1>5. s.revision = agent[a].revision /\ s.revision \in Nat /\ s = SnapshotOf(a)' /\ s = SnapshotOf(a)
  BY <1>1 DEF SnapshotOf, ConfigInv, ConfigTypes, AgentRow
<1>. HIDE DEF s
<1>6. \A b \in AgentIds : \A x \in snapshots'[b] : x \in snapshots[b] \/ (b = a /\ x = s)
  BY <1>1
<1>7. \A b \in AgentIds : SnapshotOf(b)' = SnapshotOf(b)
  BY <1>1 DEF SnapshotOf
<1>8. SnapshotInv'
  <2>1. ASSUME NEW b \in AgentIds, NEW x \in snapshots'[b]
        PROVE  /\ b \in Rows /\ x.revision \in Nat /\ x.revision <= agent[b].revision
               /\ x.revision = agent[b].revision => x = SnapshotOf(b)
    BY <1>2, <1>5, <1>6 DEF ConfigInv, SnapshotInv
  <2> QED
    BY <1>1, <1>2, <1>7, <2>1 DEF SnapshotInv
<1>9. RevisionIdentifies'
  <2>1. ASSUME NEW b \in AgentIds, NEW x \in snapshots'[b], NEW y \in snapshots'[b],
               x.revision = y.revision
        PROVE  x = y
    BY <1>5, <1>6, <2>1 DEF ConfigInv, SnapshotInv, RevisionIdentifies
  <2> QED
    BY <2>1 DEF RevisionIdentifies
<1> QED
  BY <1>3, <1>4, <1>8, <1>9 DEF ConfigInv

\* Nobody but a deployment that holds the organisation's row has uncommitted agents: none when
\* the row is free, or held by a request without any.
LEMMA NoneUncommitted ==
    ASSUME ConfigInv, NEW q \in ConfigRequests, OrgRowFree(q)
    PROVE  \A p \in ConfigRequests \ {q} : Made(p) = {}
BY AgentConfigAssumption DEF OrgRowFree, ConfigInv, CountInv, AgentConfigAssumption

\* A creation counts the rows and inserts its own.
LEMMA CreateWithLimitStep ==
    ASSUME ConfigInv, NEW q \in ConfigRequests, CreateWithLimit(q)
    PROVE  ConfigInv'
<1>1. /\ configReq[q].op = "create" /\ OrgRowFree(q)
      /\ UNCHANGED <<bound, orgRow, credential, answering, snapshots>>
      /\ agent \in [AgentIds -> AgentRow] /\ configReq[q] \in ConfigRequest
      /\ configReq \in [ConfigRequests -> ConfigRequest]
  BY DEF CreateWithLimit, AgentStill, ConfigInv, ConfigTypes
<1>2. \A p \in ConfigRequests : Made(p) = {}
  BY <1>1, NoneUncommitted DEF ConfigInv, CountInv
<1>3. CASE UNCHANGED agent /\ configReq' = [configReq EXCEPT ![q] = NoConfigReq]
  <2>1. /\ configReq' \in [ConfigRequests -> ConfigRequest] /\ Made(q)' = {}
        /\ \A p \in ConfigRequests \ {q} : configReq'[p] = configReq[p] /\ Made(p)' = Made(p)
        /\ \A p \in ConfigRequests : configReq'[p].op \in {"list", "bind"} => configReq'[p].a \in Rows
    BY <1>3, RequestTypes, RequestGoes
  <2> QED
    BY <1>1, <1>3, <2>1, ConfigKept DEF ConfigInv, ConfigTypes, Present
<1>4. CASE /\ Cardinality(Rows) < PlanAgents
           /\ \E a \in Fresh :
                 /\ agent' = [agent EXCEPT ![a] =
                       [status |-> "active", engine |-> configReq[q].engine, revision |-> 1]]
                 /\ Bind(q, a)
  <2>1. PICK a \in Fresh :
           /\ agent' = [agent EXCEPT ![a] =
                 [status |-> "active", engine |-> configReq[q].engine, revision |-> 1]]
           /\ Bind(q, a)
    BY <1>4
  <2>. DEFINE row == [status |-> "active", engine |-> configReq[q].engine, revision |-> 1]
  <2>2. /\ row \in AgentRow /\ row # NoAgentRow /\ a \in AgentIds \ Rows
    BY <1>1, <2>1 DEF AgentRow, NoAgentRow, Fresh, ConfigRequest
  <2>3. agent' = [agent EXCEPT ![a] = row]
    BY <2>1
  <2>. HIDE DEF row
  <2>4. Rows' = Rows \cup {a}
    BY <1>1, <2>2, <2>3 DEF Rows
  <2>5. PICK r \in ConfigRequest :
           /\ r.made = {} /\ (r.op \in {"list", "bind"} => r.a = a)
           /\ configReq' = [configReq EXCEPT ![q] = r]
    <3>. DEFINE x == [configReq[q] EXCEPT !.op = "bind", !.a = a]
    <3>1. x \in ConfigRequest /\ x.made = {} /\ x.a = a
      BY <1>1, <1>2, <2>2 DEF ConfigRequest, Made
    <3>2. configReq' \in {[configReq EXCEPT ![q] = x], [configReq EXCEPT ![q] = NoConfigReq]}
      BY <2>1 DEF Bind, End, Continue
    <3>. HIDE DEF x
    <3> QED
      BY <3>1, <3>2, RequestTypes
  <2>6. /\ configReq' \in [ConfigRequests -> ConfigRequest]
        /\ \A p \in ConfigRequests : Made(p)' = {}
        /\ \A p \in ConfigRequests : configReq'[p].op \in {"list", "bind"} => configReq'[p].a \in Rows'
    BY <1>1, <1>2, <2>4, <2>5 DEF ConfigInv, CountInv, Made
  <2>7. ConfigTypes'
    BY <1>1, <2>2, <2>3, <2>6 DEF ConfigInv, ConfigTypes
  <2>8. CountInv'
    <3>1. /\ IsFiniteSet(Rows) /\ Cardinality(Rows) \in Nat /\ PlanAgents \in Nat
          /\ Cardinality({}) = 0 /\ IsFiniteSet({})
      BY FS_CardinalityType, FS_EmptySet, AgentConfigAssumption DEF ConfigInv, CountInv, AgentConfigAssumption
    <3>2. IsFiniteSet(Rows') /\ Cardinality(Rows') = Cardinality(Rows) + 1
      BY <2>2, <2>4, <3>1, FS_AddElement
    <3>3. Cardinality(Rows)' <= PlanAgents /\ Cardinality(Rows)' \in Nat
      BY <1>4, <3>1, <3>2
    <3>4. \A p \in ConfigRequests :
             IsFiniteSet(Made(p))' /\ Cardinality(Made(p))' = 0 /\ (Made(p) \cap Rows)' = {}
      BY <2>6, <3>1
    <3>5. \A p \in ConfigRequests : (Cardinality(Rows) + Cardinality(Made(p)))' <= PlanAgents
      BY <3>3, <3>4
    <3> QED
      BY <2>6, <3>2, <3>3, <3>4, <3>5 DEF CountInv
  <2>9. CredentialInv'
    <3>1. \A c \in AgentIds, x \in AgentRoles :
             bound[c][x] # NoCredential => credential[bound[c][x]].state # "absent"
      BY DEF ConfigInv, CredentialInv, BoundCredentialExists, Present
    <3> QED
      BY <1>1, <2>6, <3>1 DEF CredentialInv, BoundCredentialExists, Present
  <2>10. \A b \in Rows : SnapshotOf(b)' = SnapshotOf(b)
    BY <1>1, <2>2, <2>3 DEF SnapshotOf, Rows
  <2> QED
    BY <1>1, <2>4, <2>7, <2>8, <2>9, <2>10, SnapshotsKept DEF ConfigInv
<1>5. Cardinality(Rows) \in Nat /\ PlanAgents \in Nat
  BY FS_CardinalityType, AgentConfigAssumption DEF ConfigInv, CountInv, AgentConfigAssumption
<1>6. Cardinality(Rows) >= PlanAgents \/ Cardinality(Rows) < PlanAgents
  BY <1>5
<1> QED
  BY <1>3, <1>4, <1>6 DEF CreateWithLimit, End, Continue

\* A deployment inserts one more agent, or is rolled back.
LEMMA DeployAgentStep ==
    ASSUME ConfigInv, NEW q \in ConfigRequests, DeployAgent(q)
    PROVE  ConfigInv'
<1>. DEFINE r == configReq[q]
<1>1. /\ r.op = "deploy" /\ OrgRowFree(q)
      /\ UNCHANGED <<agent, bound, credential, answering, snapshots>>
      /\ r \in ConfigRequest /\ configReq \in [ConfigRequests -> ConfigRequest]
  BY DEF DeployAgent, AgentStill, ConfigInv, ConfigTypes
<1>2. \A p \in ConfigRequests \ {q} : Made(p) = {}
  BY <1>1, NoneUncommitted
<1>3. CASE configReq' = [configReq EXCEPT ![q] = NoConfigReq] /\ orgRow' = NoOwner
  <2>1. /\ configReq' \in [ConfigRequests -> ConfigRequest] /\ Made(q)' = {}
        /\ \A p \in ConfigRequests \ {q} : configReq'[p] = configReq[p] /\ Made(p)' = Made(p)
        /\ \A p \in ConfigRequests : configReq'[p].op \in {"list", "bind"} => configReq'[p].a \in Rows
    BY <1>3, RequestTypes, RequestGoes
  <2>2. \A p \in ConfigRequests : Made(p)' = {}
    BY <1>2, <2>1
  <2> QED
    BY <1>1, <1>3, <2>1, <2>2, ConfigKept DEF ConfigInv, ConfigTypes, Present
<1>4. CASE /\ ~(Cardinality(Rows) + Cardinality(r.made) >= PlanAgents) /\ orgRow' = q
           /\ \A role \in RolesOf(r.want) : Present(r.want[role])
           /\ \E a \in Fresh : configReq' = [configReq EXCEPT ![q] = [r EXCEPT !.made = @ \cup {a}]]
  <2>1. PICK a \in Fresh : configReq' = [configReq EXCEPT ![q] = [r EXCEPT !.made = @ \cup {a}]]
    BY <1>4
  <2>2. a \in AgentIds \ Rows /\ a \notin r.made
    BY <2>1 DEF Fresh, Uncommitted
  <2>. DEFINE x == [r EXCEPT !.made = @ \cup {a}]
  <2>3. x \in ConfigRequest /\ x.made = Made(q) \cup {a} /\ x.op = "deploy" /\ x.want = r.want
    BY <1>1, <2>2 DEF ConfigRequest, Made
  <2>4. configReq' = [configReq EXCEPT ![q] = x]
    BY <2>1
  <2>. HIDE DEF x
  <2>5. /\ configReq' \in [ConfigRequests -> ConfigRequest] /\ Made(q)' = Made(q) \cup {a}
        /\ configReq'[q].op = "deploy" /\ configReq'[q].want = r.want
        /\ \A p \in ConfigRequests \ {q} : configReq'[p] = configReq[p] /\ Made(p)' = {}
    BY <1>1, <1>2, <2>3, <2>4 DEF Made
  <2>6. Rows' = Rows
    BY <1>1 DEF Rows
  <2>7. ConfigTypes'
    BY <1>1, <1>4, <2>5 DEF ConfigInv, ConfigTypes
  <2>8. CountInv'
    <3>1. /\ IsFiniteSet(Rows) /\ Cardinality(Rows) \in Nat /\ PlanAgents \in Nat
          /\ Cardinality({}) = 0 /\ IsFiniteSet({}) /\ Cardinality(Rows) <= PlanAgents
          /\ IsFiniteSet(Made(q)) /\ Cardinality(Made(q)) \in Nat /\ Made(q) \cap Rows = {}
      BY FS_CardinalityType, FS_EmptySet, AgentConfigAssumption DEF ConfigInv, CountInv, AgentConfigAssumption
    <3>2. IsFiniteSet(Made(q) \cup {a}) /\ Cardinality(Made(q) \cup {a}) = Cardinality(Made(q)) + 1
      <4>1. a \notin Made(q) /\ IsFiniteSet(Made(q))
        BY <2>2, <3>1 DEF Made
      <4> QED
        BY <4>1, FS_AddElement
    <3>3. /\ IsFiniteSet(Made(q))' /\ (Made(q) \cap Rows)' = {}
          /\ (Cardinality(Rows) + Cardinality(Made(q)))' <= PlanAgents
      <4>1. IsFiniteSet(Made(q))' /\ Cardinality(Made(q))' = Cardinality(Made(q)) + 1
        BY <2>5, <3>2
      <4>2. Cardinality(Rows)' = Cardinality(Rows) /\ (Made(q) \cap Rows)' = {}
        BY <2>2, <2>5, <2>6, <3>1
      <4>3. ~(Cardinality(Rows) + Cardinality(Made(q)) >= PlanAgents)
        BY <1>4 DEF Made
      <4> QED
        BY <3>1, <4>1, <4>2, <4>3
    <3>4. \A p \in ConfigRequests \ {q} :
             /\ IsFiniteSet(Made(p))' /\ (Made(p) \cap Rows)' = {}
             /\ (Cardinality(Rows) + Cardinality(Made(p)))' <= PlanAgents
      <4>1. \A p \in ConfigRequests \ {q} :
               IsFiniteSet(Made(p))' /\ Cardinality(Made(p))' = 0 /\ (Made(p) \cap Rows)' = {}
        BY <2>5, <3>1
      <4>2. Cardinality(Rows)' <= PlanAgents /\ Cardinality(Rows)' \in Nat
        BY <2>6, <3>1
      <4> QED
        BY <4>1, <4>2
    <3>5. \A p \in ConfigRequests :
             /\ Made(p)' # {} => configReq'[p].op = "deploy" /\ orgRow' = p
             /\ configReq'[p].op \in {"list", "bind"} => configReq'[p].a \in Rows
      BY <1>4, <2>5 DEF ConfigInv, CountInv
    <3> QED
      BY <2>6, <3>1, <3>2, <3>3, <3>4, <3>5 DEF CountInv
  <2>9. CredentialInv'
    <3>1. \A c \in AgentIds, y \in AgentRoles :
             bound[c][y] # NoCredential => credential[bound[c][y]].state # "absent"
      BY DEF ConfigInv, CredentialInv, BoundCredentialExists, Present
    <3>2. \A y \in AgentRoles : r.want[y] # NoCredential => credential[r.want[y]].state # "absent"
      BY <1>4 DEF RolesOf, Present
    <3> QED
      BY <1>1, <2>5, <3>1, <3>2 DEF CredentialInv, BoundCredentialExists, Present
  <2>10. \A b \in Rows : SnapshotOf(b)' = SnapshotOf(b)
    BY <1>1 DEF SnapshotOf
  <2> QED
    BY <1>1, <2>6, <2>7, <2>8, <2>9, <2>10, SnapshotsKept DEF ConfigInv
<1> QED
  BY <1>3, <1>4 DEF DeployAgent, End, Continue

\* A deployment commits: its agents, with their bindings, are rows.
LEMMA DeployCommitsStep ==
    ASSUME ConfigInv, NEW q \in ConfigRequests, DeployCommits(q)
    PROVE  ConfigInv'
<1>. DEFINE r == configReq[q]
            row == [status |-> "active", engine |-> r.engine, revision |-> 1 + Cardinality(RolesOf(r.want))]
<1>1. /\ r.op = "deploy" /\ r.made # {} /\ orgRow' = NoOwner
      /\ configReq' = [configReq EXCEPT ![q] = NoConfigReq]
      /\ UNCHANGED <<credential, answering, snapshots>>
      /\ agent' = [a \in AgentIds |-> IF a \in r.made THEN row ELSE agent[a]]
      /\ bound' = [a \in AgentIds |-> IF a \in r.made THEN r.want ELSE bound[a]]
      /\ r \in ConfigRequest /\ configReq \in [ConfigRequests -> ConfigRequest]
      /\ agent \in [AgentIds -> AgentRow] /\ bound \in [AgentIds -> BindingRows]
  BY DEF DeployCommits, End, Continue, AgentStill, ConfigInv, ConfigTypes
<1>2. orgRow = q /\ r.made \cap Rows = {} /\ r.made \subseteq AgentIds
  BY <1>1 DEF ConfigInv, CountInv, Made, ConfigRequest
<1>3. /\ configReq' \in [ConfigRequests -> ConfigRequest]
      /\ \A p \in ConfigRequests : Made(p)' = {}
      /\ \A p \in ConfigRequests : configReq'[p].op \in {"list", "bind"} => configReq'[p].a \in Rows
  <2>1. /\ configReq' \in [ConfigRequests -> ConfigRequest] /\ Made(q)' = {}
        /\ \A p \in ConfigRequests \ {q} : configReq'[p] = configReq[p] /\ Made(p)' = Made(p)
        /\ \A p \in ConfigRequests : configReq'[p].op \in {"list", "bind"} => configReq'[p].a \in Rows
    BY <1>1, RequestTypes, RequestGoes
  <2>2. \A p \in ConfigRequests \ {q} : Made(p) = {}
    BY <1>2, NoneUncommitted DEF OrgRowFree
  <2> QED
    BY <2>1, <2>2
<1>4. row \in AgentRow /\ row # NoAgentRow
  <2>1. IsFiniteSet(AgentRoles)
    BY AgentConfigAssumption, FS_AddElement DEF AgentRoles, AgentConfigAssumption
  <2>2. RolesOf(r.want) \in SUBSET AgentRoles
    BY DEF RolesOf
  <2>3. Cardinality(RolesOf(r.want)) \in Nat
    BY <2>1, <2>2, FS_Subset, FS_CardinalityType
  <2>4. r.engine \in Engines /\ 1 + Cardinality(RolesOf(r.want)) \in Nat
    BY <1>1, <2>3 DEF ConfigRequest
  <2>5. row.status = "active" /\ NoAgentRow.status = "absent"
    BY DEF NoAgentRow
  <2> QED
    BY <2>4, <2>5 DEF AgentRow
<1>5. r.made # {} /\ r.made = Made(q) /\ r.want \in BindingRows
  BY <1>1 DEF Made, ConfigRequest
<1>. HIDE DEF row
<1>6. Rows' = Rows \cup r.made
  <2>1. \A a \in AgentIds : agent'[a] = IF a \in r.made THEN row ELSE agent[a]
    BY <1>1
  <2> QED
    BY <1>2, <1>4, <2>1 DEF Rows
<1>7. ConfigTypes'
  <2>1. agent' \in [AgentIds -> AgentRow] /\ bound' \in [AgentIds -> BindingRows]
    BY <1>1, <1>4, <1>5
  <2> QED
    BY <1>1, <1>3, <2>1 DEF ConfigInv, ConfigTypes
<1>8. CountInv'
  <2>1. /\ IsFiniteSet(Rows) /\ Cardinality(Rows) \in Nat /\ PlanAgents \in Nat
        /\ Cardinality({}) = 0 /\ IsFiniteSet({}) /\ Rows \cap r.made = {}
        /\ IsFiniteSet(r.made) /\ Cardinality(r.made) \in Nat
        /\ Cardinality(Rows) + Cardinality(r.made) <= PlanAgents
    BY <1>2, FS_CardinalityType, FS_EmptySet, AgentConfigAssumption
      DEF ConfigInv, CountInv, Made, AgentConfigAssumption
  <2>2. /\ IsFiniteSet(Rows \cup r.made)
        /\ Cardinality(Rows \cup r.made) = Cardinality(Rows) + Cardinality(r.made)
    <3>1. /\ IsFiniteSet(Rows \cup r.made)
          /\ Cardinality(Rows \cup r.made)
               = Cardinality(Rows) + Cardinality(r.made) - Cardinality(Rows \cap r.made)
      BY <2>1, FS_Union
    <3>2. Cardinality(Rows \cap r.made) = 0
      BY <2>1
    <3> QED
      BY <2>1, <3>1, <3>2
  <2>3. /\ IsFiniteSet(Rows)' /\ Cardinality(Rows)' \in Nat
        /\ Cardinality(Rows)' = Cardinality(Rows) + Cardinality(r.made)
    BY <1>6, <2>1, <2>2
  <2>4. Cardinality(Rows)' <= PlanAgents
    BY <2>1, <2>3
  <2>5. \A p \in ConfigRequests :
           IsFiniteSet(Made(p))' /\ Cardinality(Made(p))' = 0 /\ (Made(p) \cap Rows)' = {}
    BY <1>3, <2>1
  <2>6. \A p \in ConfigRequests : (Cardinality(Rows) + Cardinality(Made(p)))' <= PlanAgents
    BY <2>3, <2>4, <2>5
  <2>7. \A p \in ConfigRequests : configReq'[p].op \in {"list", "bind"} => configReq'[p].a \in Rows'
    BY <1>3, <1>6
  <2> QED
    BY <1>3, <2>3, <2>4, <2>5, <2>6, <2>7 DEF CountInv
<1>9. CredentialInv'
  <2>1. \A c \in AgentIds, y \in AgentRoles :
           bound[c][y] # NoCredential => credential[bound[c][y]].state # "absent"
    BY DEF ConfigInv, CredentialInv, BoundCredentialExists, Present
  <2>2. \A y \in AgentRoles : r.want[y] # NoCredential => credential[r.want[y]].state # "absent"
    BY <1>5 DEF ConfigInv, CredentialInv, Present
  <2>3. \A c \in AgentIds : bound'[c] = IF c \in r.made THEN r.want ELSE bound[c]
    BY <1>1
  <2>4. \A c \in AgentIds, y \in AgentRoles :
           bound'[c][y] # NoCredential => credential'[bound'[c][y]].state # "absent"
    BY <1>1, <2>1, <2>2, <2>3
  <2> QED
    BY <1>3, <2>4 DEF CredentialInv, BoundCredentialExists, Present
<1>10. \A b \in Rows : SnapshotOf(b)' = SnapshotOf(b)
  <2>1. \A b \in Rows : b \in AgentIds /\ agent'[b] = agent[b] /\ bound'[b] = bound[b]
    BY <1>1, <1>2 DEF Rows
  <2> QED
    BY <2>1 DEF SnapshotOf
<1>11. SnapshotInv' /\ RevisionIdentifies'
  BY <1>1, <1>6, <1>10, SnapshotsKept
<1> QED
  BY <1>7, <1>8, <1>9, <1>11 DEF ConfigInv

\* Every request of ai/agents, ai/manifest and ai/providers keeps the invariant, a step at a time.
THEOREM ConfigInductive == ConfigSafety => []ConfigInv
<1>1. ASSUME ConfigInv, [AgentConfigNext]_configVars PROVE ConfigInv'
  <2>. USE <1>1
  <2>1. CASE \E k \in Credentials : CreateCredential(k) \/ RotateCredential(k) \/ DeleteCredential(k)
    BY <2>1, CredentialStep
  <2>2. CASE \/ \E q \in ConfigRequests, k \in Credentials : VerifyBegins(q, k)
             \/ \E q \in ConfigRequests : VerifyEnds(q)
    BY <2>2, VerifyStep
  <2>3. CASE \E q \in ConfigRequests : CreateBegins(q) \/ DeployBegins(q)
    BY <2>3, BeginsStep
  <2>4. CASE \E q \in ConfigRequests : ListBindings(q) \/ RequestBreaks(q)
    BY <2>4, ListOrBreakStep
  <2>5. CASE \E q \in ConfigRequests : CreateWithLimit(q)
    BY <2>5, CreateWithLimitStep
  <2>6. CASE \E q \in ConfigRequests : DeleteBinding(q)
    BY <2>6, DeleteBindingStep
  <2>7. CASE \E q \in ConfigRequests : UpsertBinding(q)
    BY <2>7, UpsertBindingStep
  <2>8. CASE \E q \in ConfigRequests : DeployAgent(q)
    BY <2>8, DeployAgentStep
  <2>9. CASE \E q \in ConfigRequests : DeployCommits(q)
    BY <2>9, DeployCommitsStep
  <2>10. CASE \E q \in ConfigRequests, a \in AgentIds : UpdateAgent(q, a)
    BY <2>10, UpdateAgentStep
  <2>11. CASE \E a \in AgentIds : DisableAgent(a)
    BY <2>11, DisableAgentStep
  <2>12. CASE \E a \in AgentIds : TakeSnapshot(a)
    BY <2>12, TakeSnapshotStep
  <2>13. CASE \/ \E n \in AgentNumbers, a \in AgentIds : BindNumber(n, a)
              \/ \E n \in AgentNumbers : UnbindNumber(n)
    BY <2>13, NumberBindingStep
  <2>14. CASE UNCHANGED configVars
    <3>1. /\ Rows' = Rows /\ UNCHANGED configVars
          /\ \A q \in ConfigRequests :
                Made(q)' = Made(q) /\ (configReq[q].op \in {"list", "bind"} => configReq[q].a \in Rows)
      BY <2>14 DEF configVars, Rows, Made, ConfigInv, CountInv
    <3> QED
      BY <3>1, ConfigKept DEF configVars, ConfigInv, ConfigTypes, Present
  <2> QED
    BY <2>1, <2>2, <2>3, <2>4, <2>5, <2>6, <2>7, <2>8, <2>9, <2>10, <2>11, <2>12, <2>13, <2>14
      DEF AgentConfigNext
<1> QED
  BY <1>1, ConfigStart, PTL DEF ConfigSafety

\* What the configuration promises: the plan's limit on agents, no binding without its credential,
\* one configuration for a revision, and an agent that is ready starts.
THEOREM ConfigurationIsSound == ConfigSafety => []AgentConfigSound
<1>1. ConfigInv => AgentConfigSound
  <2>. SUFFICES ASSUME ConfigInv PROVE AgentConfigSound
    OBVIOUS
  <2>1. AgentsWithinPlan /\ BoundCredentialExists /\ RevisionIdentifies
    BY DEF ConfigInv, CountInv, CredentialInv, AgentsWithinPlan
  <2>2. ASSUME NEW a \in AgentIds, AgentReady(a)
        PROVE  /\ SnapshotResolves(SnapshotOf(a))
               /\ DOMAIN ResolveSnapshot(SnapshotOf(a)) = ExpectedRoles(agent[a].engine)
    <3>1. SnapshotOf(a).providers = bound[a]
      BY DEF SnapshotOf
    <3>2. SnapshotResolves(SnapshotOf(a))
      BY <2>1, <3>1 DEF SnapshotResolves, RolesOf, BoundCredentialExists
    <3>3. DOMAIN BindingStatuses(a) = RolesOf(bound[a])
      BY DEF BindingStatuses
    <3>4. /\ DOMAIN BindingStatuses(a) \ ExpectedRoles(agent[a].engine) = {}
          /\ ExpectedRoles(agent[a].engine) \ DOMAIN BindingStatuses(a) = {}
      BY <2>2 DEF AgentReady, ReadinessIssues
    <3>5. DOMAIN ResolveSnapshot(SnapshotOf(a)) = RolesOf(bound[a])
      BY <3>1 DEF ResolveSnapshot
    <3> QED
      BY <3>2, <3>3, <3>4, <3>5
  <2> QED
    BY <2>1, <2>2 DEF AgentConfigSound, ReadyResolves
<1> QED
  BY <1>1, ConfigInductive, PTL

(***************************************************************************)
(* Recordings: types, and how many attempts an upload takes                *)
(***************************************************************************)
\* Workers that would put the row back for another attempt: the number of attempts is read with
\* the lease and written after the upload.
Eager(r) == {w \in Ingesters : r \in DOMAIN RecJob(w).rows /\ ~LastAttempt(RecJob(w).rows[r])}

\* Each worker that holds the row may add one attempt to what the limit allows, and no more.
AttemptsInv ==
    \A r \in RecIds :
        recording[r].attempts + Cardinality(Eager(r)) + 2 <= MaxUploads + Cardinality(Ingesters)

\* The row a worker is busy with is not in its queue any more.
QueueInv == \A w \in Ingesters : RecJob(w).at \notin {"idle", "next"} => RecJob(w).r \notin RecJob(w).queue

\* One integration is active at most, and the bounds.
SettingsInv ==
    /\ integration \in [Integrations -> {"absent", "active", "disabled"}]
    /\ \A i, j \in Integrations : integration[i] = "active" /\ integration[j] = "active" => i = j
    /\ policy \in [row: BOOLEAN, plan: BOOLEAN]
    /\ recFaults \in 0..RecFaults /\ recChanges \in 0..RecChanges

\* There are as many eager workers as workers, at most.
LEMMA EagerTypes ==
    /\ Cardinality(Ingesters) \in Nat /\ MaxUploads \in Nat \ {0, 1}
    /\ \A r : /\ Cardinality(Eager(r)) \in Nat /\ IsFiniteSet(Eager(r))
              /\ Cardinality(Eager(r)) <= Cardinality(Ingesters)
    /\ \A S \in SUBSET Ingesters : /\ IsFiniteSet(S) /\ Cardinality(S) \in Nat
                                   /\ Cardinality(S) <= Cardinality(Ingesters)
<1>1. IsFiniteSet(Ingesters) /\ MaxUploads \in Nat \ {0, 1}
  BY RecAssumption DEF RecAssumption
<1>2. \A S \in SUBSET Ingesters : /\ IsFiniteSet(S) /\ Cardinality(S) \in Nat
                                  /\ Cardinality(S) <= Cardinality(Ingesters)
  BY <1>1, FS_Subset, FS_CardinalityType
<1>3. \A r : Eager(r) \in SUBSET Ingesters
  BY DEF Eager
<1> QED
  BY <1>1, <1>2, <1>3, FS_CardinalityType

\* No worker becomes eager for a row that has had all but its last attempt.
LEMMA EagerStays ==
    ASSUME UploadInv, AttemptsInv, NEW r \in RecIds, recording'[r].attempts = recording[r].attempts,
           \A w \in Ingesters : w \in Eager(r)' => w \in Eager(r) \/ recording[r].attempts + 2 <= MaxUploads
    PROVE  recording'[r].attempts + Cardinality(Eager(r)') + 2 <= MaxUploads + Cardinality(Ingesters)
<1>1. recording[r].attempts \in Nat
  BY DEF UploadInv, RecordingTypes, Row
<1>2. Eager(r)' \subseteq Ingesters
  BY DEF Eager
<1>3. /\ Cardinality(Eager(r)') \in Nat /\ Cardinality(Eager(r)') <= Cardinality(Ingesters)
      /\ Cardinality(Ingesters) \in Nat /\ MaxUploads \in Nat
  BY <1>2, EagerTypes
<1>4. CASE recording[r].attempts + 2 <= MaxUploads
  BY <1>1, <1>3, <1>4
<1>5. CASE ~(recording[r].attempts + 2 <= MaxUploads)
  <2>1. Eager(r)' \subseteq Eager(r)
    BY <1>2, <1>5
  <2>2. Cardinality(Eager(r)') <= Cardinality(Eager(r)) /\ Cardinality(Eager(r)) \in Nat
    BY <2>1, EagerTypes, FS_Subset
  <2>3. recording[r].attempts + Cardinality(Eager(r)) + 2 <= MaxUploads + Cardinality(Ingesters)
    BY DEF AttemptsInv
  <2> QED
    BY <1>1, <1>3, <2>2, <2>3
<1> QED
  BY <1>4, <1>5

\* A worker goes on with rows it has, or with what it has just read.
JobGoesOn(w, job) ==
    /\ ingester' = [ingester EXCEPT ![w] = job]
    /\ \A r \in DOMAIN job.rows :
          \/ r \in DOMAIN RecJob(w).rows /\ job.rows[r].attempts = RecJob(w).rows[r].attempts
          \/ job.rows[r].attempts = recording[r].attempts
    /\ job.at \notin {"idle", "next"} => job.r \notin job.queue

LEMMA JobKeepsAttempts ==
    ASSUME UploadInv, AttemptsInv, QueueInv, \A r \in RecIds : recording'[r].attempts = recording[r].attempts,
           NEW w \in Ingesters, NEW job, JobGoesOn(w, job)
    PROVE  AttemptsInv' /\ QueueInv'
<1>1. ingester \in [Ingesters -> UploadJob]
  BY DEF UploadInv, RecordingTypes
<1>2. \A x \in Ingesters : RecJob(x)' = IF x = w THEN job ELSE RecJob(x)
  BY <1>1 DEF JobGoesOn, RecJob
<1>3. QueueInv'
  BY <1>2 DEF QueueInv, JobGoesOn
<1>4. ASSUME NEW r \in RecIds, NEW x \in Ingesters, x \in Eager(r)'
      PROVE  x \in Eager(r) \/ recording[r].attempts + 2 <= MaxUploads
  <2>1. CASE x # w
    <3>1. RecJob(x)' = RecJob(x)
      BY <1>2, <2>1
    <3> QED
      BY <1>4, <3>1 DEF Eager, LastAttempt
  <2>2. CASE x = w
    <3>1. r \in DOMAIN job.rows /\ ~(job.rows[r].attempts + 1 >= MaxUploads)
      BY <1>2, <1>4, <2>2 DEF Eager, LastAttempt
    <3>2. CASE r \in DOMAIN RecJob(w).rows /\ job.rows[r].attempts = RecJob(w).rows[r].attempts
      BY <2>2, <3>1, <3>2 DEF Eager, LastAttempt
    <3>3. CASE job.rows[r].attempts = recording[r].attempts
      <4>1. recording[r].attempts \in Nat /\ MaxUploads \in Nat
        BY EagerTypes DEF UploadInv, RecordingTypes, Row
      <4> QED
        BY <3>1, <3>3, <4>1
    <3> QED
      BY <3>1, <3>2, <3>3 DEF JobGoesOn
  <2> QED
    BY <2>1, <2>2
<1>5. \A r \in RecIds : recording'[r].attempts + Cardinality(Eager(r)') + 2 <= MaxUploads + Cardinality(Ingesters)
  BY <1>4, EagerStays
<1> QED
  BY <1>3, <1>5 DEF AttemptsInv

\* A step that leaves the jobs and the attempts alone.
LEMMA JobsRest ==
    ASSUME UploadInv, AttemptsInv, QueueInv, UNCHANGED ingester,
           \A r \in RecIds : recording'[r].attempts = recording[r].attempts
    PROVE  AttemptsInv' /\ QueueInv'
<1>1. \A w : RecJob(w)' = RecJob(w)
  BY DEF RecJob
<1>2. \A r : Eager(r)' = Eager(r)
  BY <1>1 DEF Eager
<1> QED
  BY <1>1, <1>2 DEF AttemptsInv, QueueInv

\* A worker gives up all it has.
LEMMA GivingUp == \A w \in Ingesters : ingester' = [ingester EXCEPT ![w] = NoUpload] => JobGoesOn(w, NoUpload)
BY DEF JobGoesOn, NoUpload

\* A worker goes to the next row: the one it was busy with is not in its hands any more.
LEMMA NextGoesOn ==
    ASSUME UploadInv, QueueInv, NEW w \in Ingesters, NextRow(w)
    PROVE  \E job : /\ JobGoesOn(w, job)
                    /\ RecJob(w).at \notin {"idle", "next"} => RecJob(w).r \notin DOMAIN job.rows
<1>1. /\ RecJob(w) \in UploadJob /\ RecJob(w).queue \subseteq DOMAIN RecJob(w).rows
      /\ RecJob(w).at \notin {"idle", "next"} => RecJob(w).r \notin RecJob(w).queue
  BY DEF UploadInv, RecordingTypes, JobInv, RecJob, QueueInv
<1>2. CASE RecJob(w).queue = {}
  <2>1. DOMAIN NoUpload.rows = {} /\ ingester' = [ingester EXCEPT ![w] = NoUpload]
    BY <1>2 DEF NextRow, SetJob, NoUpload
  <2> QED
    BY <2>1, GivingUp
<1>3. CASE RecJob(w).queue # {}
  <2>. DEFINE job == [RecJob(w) EXCEPT !.at = "next", !.r = NoIntegration, !.dest = NoIntegration,
                                       !.rows = [r \in RecJob(w).queue |-> RecJob(w).rows[r]]]
  <2>1. /\ job.at = "next" /\ DOMAIN job.rows = RecJob(w).queue
        /\ \A r \in RecJob(w).queue : job.rows[r] = RecJob(w).rows[r]
    BY <1>1 DEF UploadJob
  <2>2. ingester' = [ingester EXCEPT ![w] = job]
    BY <1>3 DEF NextRow, SetJob
  <2>. HIDE DEF job
  <2>3. JobGoesOn(w, job)
    BY <1>1, <2>1, <2>2 DEF JobGoesOn
  <2> QED
    BY <1>1, <2>1, <2>3
<1> QED
  BY <1>2, <1>3

\* The ingestion job.
LEMMA IngestAttempts ==
    ASSUME UploadInv, AttemptsInv, QueueInv, NEW w \in Ingesters,
           IngesterStep(w) \/ PutFails(w) \/ PassFails(w) \/ IngesterCrashes(w)
    PROVE  AttemptsInv' /\ QueueInv'
<1>1. /\ RecJob(w) \in UploadJob /\ recording \in [RecIds -> Row] /\ ingester \in [Ingesters -> UploadJob]
      /\ RecJob(w).at \notin {"idle", "next"} => RecJob(w).r \in RecIds /\ RecJob(w).r \in DOMAIN RecJob(w).rows
      /\ RecJob(w).at \notin {"idle", "next"} => RecJob(w).r \notin RecJob(w).queue
      /\ RecJob(w).queue \subseteq DOMAIN RecJob(w).rows
  BY JobTypes DEF UploadInv, RecordingTypes, RecJob, QueueInv, JobInv, UploadJob
<1>2. CASE Ingest(w)
  <2>1. PICK batch \in SUBSET DueForUpload :
           /\ recording' = [r \in RecIds |-> IF r \in batch THEN [recording[r] EXCEPT !.due = FALSE]
                                             ELSE recording[r]]
           /\ SetJob(w, [NoUpload EXCEPT !.at = "next", !.queue = batch,
                                         !.rows = [r \in batch |-> InHand(recording[r])]])
    BY <1>2 DEF Ingest
  <2>. DEFINE job == [NoUpload EXCEPT !.at = "next", !.queue = batch,
                                      !.rows = [r \in batch |-> InHand(recording[r])]]
  <2>2. /\ job.at = "next" /\ DOMAIN job.rows = batch
        /\ \A r \in batch : job.rows[r].attempts = recording[r].attempts
    BY DEF NoUpload, InHand
  <2>3. ingester' = [ingester EXCEPT ![w] = job]
    BY <2>1 DEF SetJob
  <2>. HIDE DEF job
  <2>4. JobGoesOn(w, job)
    BY <2>2, <2>3 DEF JobGoesOn
  <2>5. \A r \in RecIds : recording'[r].attempts = recording[r].attempts
    BY <1>1, <2>1 DEF Row
  <2> QED
    BY <2>4, <2>5, JobKeepsAttempts
<1>3. ASSUME NEW r \in RecIds, OpenStaged(w, r) PROVE AttemptsInv' /\ QueueInv'
  <2>1. PICK at, dest : SetJob(w, [RecJob(w) EXCEPT !.at = at, !.r = r, !.dest = dest, !.queue = @ \ {r}])
    BY <1>3 DEF OpenStaged
  <2>. DEFINE job == [RecJob(w) EXCEPT !.at = at, !.r = r, !.dest = dest, !.queue = @ \ {r}]
  <2>2. job.r = r /\ r \notin job.queue /\ job.rows = RecJob(w).rows
    BY <1>1 DEF UploadJob
  <2>3. ingester' = [ingester EXCEPT ![w] = job] /\ UNCHANGED recording
    BY <1>3, <2>1 DEF SetJob, OpenStaged
  <2>. HIDE DEF job
  <2>4. JobGoesOn(w, job)
    BY <2>2, <2>3 DEF JobGoesOn
  <2> QED
    BY <2>3, <2>4, JobKeepsAttempts
<1>4. ASSUME NEW at, RecJob(w).at \notin {"idle", "next"}, SetJob(w, [RecJob(w) EXCEPT !.at = at]),
             \A r \in RecIds : recording'[r].attempts = recording[r].attempts
      PROVE  AttemptsInv' /\ QueueInv'
  <2>. DEFINE job == [RecJob(w) EXCEPT !.at = at]
  <2>2. job.r = RecJob(w).r /\ job.queue = RecJob(w).queue /\ job.rows = RecJob(w).rows
    BY <1>1 DEF UploadJob
  <2>3. ingester' = [ingester EXCEPT ![w] = job]
    BY <1>4 DEF SetJob
  <2>. HIDE DEF job
  <2>4. JobGoesOn(w, job)
    BY <1>1, <1>4, <2>2, <2>3 DEF JobGoesOn
  <2> QED
    BY <1>4, <2>4, JobKeepsAttempts
<1>5. ASSUME ingester' = [ingester EXCEPT ![w] = NoUpload],
             \A r \in RecIds : recording'[r].attempts = recording[r].attempts
      PROVE  AttemptsInv' /\ QueueInv'
  BY <1>5, GivingUp, JobKeepsAttempts
<1>6. CASE PinUpload(w)
  <2>1. CASE ~CanPin(recording[RecJob(w).r])
    BY <1>5, <1>6, <2>1 DEF PinUpload, EndPass, SetJob
  <2>2. CASE CanPin(recording[RecJob(w).r])
    <3>. DEFINE r == RecJob(w).r
                job == [RecJob(w) EXCEPT !.at = "put", !.rows[r] = InHand(recording'[r])]
    <3>1. /\ recording' = [recording EXCEPT ![r].pin = RecJob(w).dest] /\ ingester' = [ingester EXCEPT ![w] = job]
          /\ RecJob(w).at = "pin"
      BY <1>6, <2>2 DEF PinUpload, SetJob
    <3>2. \A q \in RecIds : recording'[q].attempts = recording[q].attempts
      BY <1>1, <3>1 DEF Row
    <3>3. /\ job.r = r /\ job.queue = RecJob(w).queue
          /\ job.rows = [RecJob(w).rows EXCEPT ![r] = InHand(recording'[r])]
      BY <1>1 DEF UploadJob
    <3>4. r \in RecIds /\ InHand(recording'[r]).attempts = recording[r].attempts
      BY <1>1, <3>1, <3>2 DEF InHand
    <3>. HIDE DEF job
    <3>5. \A q \in DOMAIN job.rows :
             /\ q \in DOMAIN RecJob(w).rows
             /\ job.rows[q] = IF q = r THEN InHand(recording'[r]) ELSE RecJob(w).rows[q]
      BY <3>3
    <3>6. JobGoesOn(w, job)
      BY <1>1, <3>1, <3>3, <3>4, <3>5 DEF JobGoesOn
    <3> QED
      BY <3>2, <3>6, JobKeepsAttempts
  <2> QED
    BY <2>1, <2>2
<1>7. CASE PutObject(w) \/ PutFails(w)
  BY <1>4, <1>7 DEF PutObject, PutFails
<1>8. CASE CompleteUpload(w)
  <2>1. CASE ~CanComplete(recording[RecJob(w).r])
    BY <1>5, <1>8, <2>1 DEF CompleteUpload, EndPass, SetJob
  <2>2. CASE CanComplete(recording[RecJob(w).r])
    <3>1. /\ recording' = [recording EXCEPT ![RecJob(w).r] = Completed(@)] /\ RecJob(w).at = "complete"
          /\ SetJob(w, [RecJob(w) EXCEPT !.at = "remove"])
      BY <1>8, <2>2 DEF CompleteUpload
    <3>2. \A q \in RecIds : recording'[q].attempts = recording[q].attempts
      BY <1>1, <3>1 DEF Row, Completed, Announced
    <3> QED
      BY <1>4, <3>1, <3>2
  <2> QED
    BY <2>1, <2>2
<1>9. CASE RemoveStaged(w)
  <2>1. UNCHANGED recording /\ NextRow(w)
    BY <1>9 DEF RemoveStaged
  <2> QED
    BY <2>1, NextGoesOn, JobKeepsAttempts
<1>10. CASE RetryOrFail(w)
  <2>1. RecJob(w).at = "retry" /\ RecJob(w).r \in RecIds
    BY <1>1, <1>10 DEF RetryOrFail
  <2>. PICK r \in RecIds : r = RecJob(w).r
    BY <2>1
  <2>2. CASE EndPass(w) /\ UNCHANGED recording
    BY <1>5, <2>2 DEF EndPass, SetJob
  <2>3. CASE NextRow(w) /\ recording' = [recording EXCEPT ![r] = IF CanFail(@) THEN Failed(@) ELSE @]
    <3>1. \A q \in RecIds : recording'[q].attempts = recording[q].attempts
      BY <1>1, <2>3 DEF Row, Failed, Announced
    <3> QED
      BY <2>3, <3>1, NextGoesOn, JobKeepsAttempts
  <2>4. CASE NextRow(w) /\ ~LastAttempt(RecJob(w).rows[r]) /\ recording' = [recording EXCEPT ![r] = Retried(@)]
    <3>1. PICK job : JobGoesOn(w, job) /\ r \notin DOMAIN job.rows
      BY <2>1, <2>4, NextGoesOn
    <3>2. \A x \in Ingesters : RecJob(x)' = IF x = w THEN job ELSE RecJob(x)
      BY <1>1, <3>1 DEF JobGoesOn, RecJob
    <3>3. QueueInv'
      BY <3>1, <3>2 DEF QueueInv, JobGoesOn
    <3>4. w \in Eager(r) /\ Eager(r)' \subseteq Eager(r) \ {w}
      <4>1. w \in Eager(r)
        BY <1>1, <2>1, <2>4 DEF Eager
      <4>2. ASSUME NEW x \in Eager(r)' PROVE x \in Eager(r) \ {w}
        <5>1. x \in Ingesters /\ x # w
          BY <3>1, <3>2, <4>2 DEF Eager
        <5>2. RecJob(x)' = RecJob(x)
          BY <3>2, <5>1
        <5> QED
          BY <4>2, <5>1, <5>2 DEF Eager, LastAttempt
      <4> QED
        BY <4>1, <4>2
    <3>5. recording'[r].attempts = recording[r].attempts + 1 /\ recording[r].attempts \in Nat
          /\ \A q \in RecIds \ {r} : recording'[q] = recording[q]
      BY <1>1, <2>1, <2>4 DEF Row, Retried
    <3>6. recording'[r].attempts + Cardinality(Eager(r)') + 2 <= MaxUploads + Cardinality(Ingesters)
      <4>1. Cardinality(Eager(r) \ {w}) = Cardinality(Eager(r)) - 1 /\ IsFiniteSet(Eager(r) \ {w})
        BY <3>4, EagerTypes, FS_RemoveElement
      <4>2. Cardinality(Eager(r)') <= Cardinality(Eager(r) \ {w}) /\ Cardinality(Eager(r)') \in Nat
        BY <3>4, <4>1, FS_Subset, FS_CardinalityType
      <4>3. recording[r].attempts + Cardinality(Eager(r)) + 2 <= MaxUploads + Cardinality(Ingesters)
        BY <2>1 DEF AttemptsInv
      <4>4. Cardinality(Eager(r)) \in Nat /\ Cardinality(Ingesters) \in Nat /\ MaxUploads \in Nat
        BY EagerTypes
      <4> QED
        BY <3>5, <4>1, <4>2, <4>3, <4>4
    <3>7. ASSUME NEW q \in RecIds \ {r}
          PROVE  recording'[q].attempts + Cardinality(Eager(q)') + 2 <= MaxUploads + Cardinality(Ingesters)
      <4>1. ASSUME NEW x \in Ingesters, x \in Eager(q)'
            PROVE  x \in Eager(q) \/ recording[q].attempts + 2 <= MaxUploads
        <5>1. CASE x # w
          <6>1. RecJob(x)' = RecJob(x)
            BY <3>2, <5>1
          <6> QED
            BY <4>1, <6>1 DEF Eager, LastAttempt
        <5>2. CASE x = w
          <6>1. q \in DOMAIN job.rows /\ ~(job.rows[q].attempts + 1 >= MaxUploads)
            BY <3>2, <4>1, <5>2 DEF Eager, LastAttempt
          <6>2. recording[q].attempts \in Nat /\ MaxUploads \in Nat
            BY <1>1, EagerTypes DEF Row
          <6>3. CASE q \in DOMAIN RecJob(w).rows /\ job.rows[q].attempts = RecJob(w).rows[q].attempts
            BY <5>2, <6>1, <6>3 DEF Eager, LastAttempt
          <6> QED
            BY <3>1, <6>1, <6>2, <6>3 DEF JobGoesOn
        <5> QED
          BY <5>1, <5>2
      <4> QED
        BY <3>5, <4>1, EagerStays
    <3> QED
      BY <3>3, <3>6, <3>7 DEF AttemptsInv
  <2> QED
    BY <1>10, <2>2, <2>3, <2>4 DEF RetryOrFail
<1>11. CASE PassFails(w) \/ IngesterCrashes(w)
  BY <1>5, <1>11 DEF PassFails, IngesterCrashes, EndPass, SetJob, WorkerStops
<1> QED
  BY <1>2, <1>3, <1>6, <1>7, <1>8, <1>9, <1>10, <1>11 DEF IngesterStep

\* FreeSWITCH, reconciliation, deletion and administration.
LEMMA OtherAttempts ==
    ASSUME UploadInv, AttemptsInv, QueueInv,
           \/ \E r \in RecIds :
                \/ MediaStarts(r) \/ (\E how \in {"stopped", "over"} : MediaStops(r, how))
                \/ ObserveStarted(r) \/ ObserveStopped(r) \/ ReconcileRecording(r)
                \/ LeaseOver(r) \/ Expires(r)
                \/ \E d \in Deleters : DeleteBegins(d, r)
           \/ \E d \in Deleters : DeleterStep(d) \/ DeleteFails(d)
           \/ \E i \in Integrations :
                \/ CreateIntegration(i) \/ DisableIntegration(i)
                \/ \E status \in {"active", "disabled"} : UpdateIntegration(i, status)
           \/ DeletePolicy \/ (\E enabled \in BOOLEAN : UpsertPolicy(enabled))
    PROVE  AttemptsInv' /\ QueueInv'
<1>1. recording \in [RecIds -> Row]
  BY DEF UploadInv, RecordingTypes
<1>2. ASSUME NEW r \in RecIds, MediaStarts(r) \/ (\E how \in {"stopped", "over"} : MediaStops(r, how))
                               \/ Expires(r) \/ \E d \in Deleters : DeleteBegins(d, r)
      PROVE  AttemptsInv' /\ QueueInv'
  <2>1. UNCHANGED <<recording, ingester>>
    BY <1>2 DEF MediaStarts, MediaStops, Expires, DeleteBegins, EventsUnchanged, SettingsUnchanged, DeleteUnchanged
  <2> QED
    BY <2>1, JobsRest
<1>3. ASSUME NEW r \in RecIds, ObserveStarted(r) \/ ObserveStopped(r) \/ ReconcileRecording(r) \/ LeaseOver(r)
      PROVE  AttemptsInv' /\ QueueInv'
  <2>1. UNCHANGED ingester
    BY <1>3 DEF ObserveStarted, ObserveStopped, ReconcileRecording, LeaseOver, EventsUnchanged
  <2>2. \E new : new.attempts = recording[r].attempts /\ recording' = [recording EXCEPT ![r] = new]
    <3>1. CASE ObserveStarted(r)
      BY <1>1, <3>1 DEF ObserveStarted, Created, Announced, Row
    <3>2. CASE ObserveStopped(r) \/ ReconcileRecording(r)
      <4>1. \A row \in Row : Ready(row).attempts = row.attempts /\ Ready(Created(row)).attempts = row.attempts
        BY DEF Ready, Created, Announced, Row
      <4>2. \E new \in {Ready(recording[r]), Ready(Created(recording[r]))} :
                recording' = [recording EXCEPT ![r] = new]
        BY <3>2 DEF ObserveStopped, ReconcileRecording
      <4> QED
        BY <1>1, <4>1, <4>2
    <3>3. CASE LeaseOver(r)
      BY <1>1, <3>3 DEF LeaseOver, Row
    <3> QED
      BY <1>3, <3>1, <3>2, <3>3
  <2>3. \A q \in RecIds : recording'[q].attempts = recording[q].attempts
    BY <1>1, <2>2
  <2> QED
    BY <2>1, <2>3, JobsRest
<1>4. ASSUME NEW d \in Deleters, DeleterStep(d) PROVE AttemptsInv' /\ QueueInv'
  <2>1. UNCHANGED ingester
    BY <1>4 DEF DeleterStep, DeleteObject, DeleteRow, DeleteUnchanged
  <2>2. \A q \in RecIds : recording'[q].attempts = recording[q].attempts
    <3>1. CASE DeleteObject(d)
      BY <3>1 DEF DeleteObject
    <3>2. CASE DeleteRow(d)
      <4>1. \A row \in Row : Deleted(row).attempts = row.attempts
        BY DEF Deleted, Announced, Row
      <4>2. recording' = [recording EXCEPT ![deleter[d].r] = IF @.status # "deleted" THEN Deleted(@) ELSE @]
        BY <3>2 DEF DeleteRow
      <4> QED
        BY <1>1, <4>1, <4>2
    <3> QED
      BY <1>4, <3>1, <3>2 DEF DeleterStep
  <2> QED
    BY <2>1, <2>2, JobsRest
<1>5. ASSUME NEW d \in Deleters, DeleteFails(d) PROVE AttemptsInv' /\ QueueInv'
  <2>1. UNCHANGED recording
    BY <1>5 DEF DeleteFails
  <2>2. CASE d \in Ingesters
    BY <1>5, <2>1, <2>2, GivingUp, JobKeepsAttempts DEF DeleteFails, WorkerStops
  <2>3. CASE d \notin Ingesters
    BY <1>5, <2>1, <2>3, JobsRest DEF DeleteFails
  <2> QED
    BY <2>2, <2>3
<1>6. ASSUME \/ \E i \in Integrations :
                  \/ CreateIntegration(i) \/ DisableIntegration(i)
                  \/ \E status \in {"active", "disabled"} : UpdateIntegration(i, status)
             \/ DeletePolicy \/ (\E enabled \in BOOLEAN : UpsertPolicy(enabled))
      PROVE  AttemptsInv' /\ QueueInv'
  <2>1. UNCHANGED <<recording, ingester>>
    BY <1>6 DEF CreateIntegration, DisableIntegration, UpdateIntegration, SetIntegration, DeletePolicy, UpsertPolicy,
       SetPolicy, SettingsUnchanged
  <2> QED
    BY <2>1, JobsRest
<1> QED
  BY <1>2, <1>3, <1>4, <1>5, <1>6

\* Settings change one at a time; a second active integration is refused.
LEMMA SettingsKept == SettingsInv /\ [RecNext]_recVars => SettingsInv'
<1> SUFFICES ASSUME SettingsInv, [RecNext]_recVars PROVE SettingsInv'
  OBVIOUS
<1>1. /\ integration \in [Integrations -> {"absent", "active", "disabled"}]
      /\ \A i, j \in Integrations : integration[i] = "active" /\ integration[j] = "active" => i = j
      /\ policy \in [row: BOOLEAN, plan: BOOLEAN]
      /\ recFaults \in 0..RecFaults /\ recChanges \in 0..RecChanges /\ RecFaults \in Nat /\ RecChanges \in Nat
  BY RecAssumption DEF RecAssumption, SettingsInv
<1>2. ASSUME UNCHANGED <<integration, policy, recChanges>>, UNCHANGED recFaults \/ RecFault PROVE SettingsInv'
  BY <1>1, <1>2 DEF SettingsInv, RecFault
<1>3. ASSUME NEW i \in Integrations, NEW status \in {"active", "disabled"}, SetIntegration(i, status)
      PROVE  SettingsInv'
  <2>1. /\ integration' = [integration EXCEPT ![i] = status] /\ UNCHANGED <<policy, recFaults>>
        /\ recChanges' \in 0..RecChanges
        /\ status = "active" => \A j \in Integrations : integration[j] = "active" => j = i
    BY <1>1, <1>3 DEF SetIntegration, RecChange, SettingsUnchanged, ActiveIntegrations
  <2>2. \A j, k \in Integrations : integration'[j] = "active" /\ integration'[k] = "active" => j = k
    BY <1>1, <2>1
  <2> QED
    BY <1>1, <2>1, <2>2 DEF SettingsInv
<1>4. ASSUME NEW enabled \in BOOLEAN, SetPolicy(enabled) PROVE SettingsInv'
  <2>1. policy' = [policy EXCEPT !.row = enabled] /\ UNCHANGED <<integration, recFaults>> /\ recChanges' \in 0..RecChanges
    BY <1>1, <1>4 DEF SetPolicy, RecChange, SettingsUnchanged
  <2> QED
    BY <1>1, <2>1 DEF SettingsInv
<1>5. ASSUME NEW r \in RecIds,
             \/ MediaStarts(r) \/ (\E how \in {"stopped", "over"} : MediaStops(r, how))
             \/ ObserveStarted(r) \/ ObserveStopped(r) \/ ReconcileRecording(r)
             \/ LeaseOver(r) \/ Expires(r)
             \/ \E d \in Deleters : DeleteBegins(d, r)
      PROVE  SettingsInv'
  BY <1>2, <1>5 DEF MediaStarts, MediaStops, ObserveStarted, ObserveStopped, ReconcileRecording, LeaseOver, Expires,
     DeleteBegins, EventsUnchanged, SettingsUnchanged, IngestUnchanged, DeleteUnchanged
<1>6. ASSUME NEW w \in Ingesters, IngesterStep(w) \/ PutFails(w) \/ PassFails(w) \/ IngesterCrashes(w)
      PROVE  SettingsInv'
  BY <1>2, <1>6 DEF IngesterStep, Ingest, OpenStaged, PinUpload, PutObject, CompleteUpload, RemoveStaged, RetryOrFail,
     PutFails, PassFails, IngesterCrashes, IngestUnchanged
<1>7. ASSUME NEW d \in Deleters, DeleterStep(d) \/ DeleteFails(d) PROVE SettingsInv'
  BY <1>2, <1>7 DEF DeleterStep, DeleteObject, DeleteRow, DeleteFails, DeleteUnchanged
<1>8. CASE UNCHANGED recVars
  BY <1>2, <1>8 DEF recVars
<1> QED
  BY <1>3, <1>4, <1>5, <1>6, <1>7, <1>8
     DEF RecNext, CreateIntegration, DisableIntegration, UpdateIntegration, UpsertPolicy, DeletePolicy

\* Rows, files, jobs and settings keep their types; an upload is tried at most once more per worker
\* than its limit says (RetryRecordingUpload, retryOrFail).
THEOREM RecordingsTypeCorrect == RecordingSafety => []RecTypeOK
<1>1. RecInit => AttemptsInv /\ QueueInv /\ SettingsInv
  <2>. SUFFICES ASSUME RecInit PROVE AttemptsInv /\ QueueInv /\ SettingsInv
    OBVIOUS
  <2>1. SettingsInv
    <3>1. policy \in [row: BOOLEAN, plan: BOOLEAN]
      BY DEF RecInit
    <3>2. PICK i \in Integrations : integration = [j \in Integrations |-> IF j = i THEN "active" ELSE "absent"]
      BY DEF RecInit
    <3>3. recFaults = 0 /\ recChanges = 0 /\ RecFaults \in Nat /\ RecChanges \in Nat
      BY RecAssumption DEF RecAssumption, RecInit
    <3> QED
      BY <3>1, <3>2, <3>3 DEF SettingsInv
  <2>2. QueueInv
    BY DEF RecInit, QueueInv, RecJob, NoUpload
  <2>3. \A r \in RecIds : recording[r].attempts = 0
    BY DEF RecInit
  <2>4. AttemptsInv
    BY <2>3, EagerTypes DEF AttemptsInv
  <2> QED
    BY <2>1, <2>2, <2>4
<1>2. UploadInv /\ AttemptsInv /\ QueueInv /\ [RecNext]_recVars => AttemptsInv' /\ QueueInv'
  <2>1. UploadInv /\ AttemptsInv /\ QueueInv /\ UNCHANGED recVars => AttemptsInv' /\ QueueInv'
    BY JobsRest DEF recVars
  <2> QED
    BY <2>1, IngestAttempts, OtherAttempts DEF RecNext
<1>3. ASSUME UploadInv, AttemptsInv, SettingsInv PROVE RecTypeOK
  <2>1. RecordingTypes /\ \A w \in Ingesters : JobInv(w)
    BY <1>3 DEF UploadInv
  <2>2. recording \in [RecIds -> RecordingRow]
    <3>1. \A r \in RecIds : recording[r].attempts \in 0..(MaxUploads + Cardinality(Ingesters))
      BY <1>3, <2>1, EagerTypes DEF AttemptsInv, RecordingTypes, Row
    <3> QED
      BY <2>1, <3>1 DEF RecordingTypes, Row, RecordingRow
  <2>3. Cardinality({i \in Integrations : integration[i] = "active"}) <= 1
    <3>. DEFINE A == {i \in Integrations : integration[i] = "active"}
    <3>1. CASE A = {}
      BY <3>1, FS_EmptySet
    <3>2. CASE A # {}
      <4>1. PICK i \in A : TRUE
        BY <3>2
      <4>2. A = {i}
        BY <1>3, <4>1 DEF SettingsInv
      <4> QED
        BY <4>2, FS_Singleton
    <3> QED
      BY <3>1, <3>2
  <2>4. \A w \in Ingesters :
           /\ ingester[w].at \in UploadAt /\ ingester[w].queue \subseteq DOMAIN ingester[w].rows
           /\ ingester[w].at \in {"pin", "put", "complete"} => ingester[w].dest \in Integrations
    BY <2>1 DEF RecordingTypes, UploadJob, JobInv, RecJob
  <2> QED
    BY <1>3, <2>1, <2>2, <2>3, <2>4 DEF RecTypeOK, RecordingTypes, DeleteJob, SettingsInv
<1> QED
  BY <1>1, <1>2, <1>3, SettingsKept, UploadInductive, PTL DEF RecordingSafety

(***************************************************************************)
(* The components together. MCVoiceAgents lets one of them move in each    *)
(* behaviour; a step is then a step of each component or leaves it alone,  *)
(* so that what was proved of a component is true of the whole.            *)
(***************************************************************************)
voiceVars == <<mediaNodesVars, mediaVars, engineVars, agentVars, toolVars, configVars, eslVars,
               recVars, focus>>
VoiceSafety == VoiceInit /\ [][VoiceNext]_voiceVars
Focuses == {"nodes", "media", "engine", "session", "tools", "config", "esl", "recordings"}

\* The behaviours of the whole are behaviours of each component.
LEMMA VoiceComponents ==
    VoiceSafety => /\ MediaNodesSpec /\ MediaSpec /\ EngineSafety /\ AgentSpec /\ ToolSpec
                   /\ ConfigSafety /\ EslSafety /\ RecordingSafety /\ [](focus \in Focuses)
<1>1. VoiceInit => /\ MediaNodesInit /\ MediaInit /\ EngineInit /\ AgentInit /\ ToolInit
                   /\ AgentConfigInit /\ EslInit /\ RecInit /\ focus \in Focuses
  BY DEF VoiceInit, Focuses
<1>2. [VoiceNext]_voiceVars =>
          /\ [MediaNodesNext]_mediaNodesVars /\ [MediaNext]_mediaVars /\ [EngineNext]_engineVars
          /\ [AgentNext]_agentVars /\ [ToolNext]_toolVars /\ [AgentConfigNext]_configVars
          /\ [EslNext]_eslVars /\ [RecNext]_recVars /\ UNCHANGED focus
  <2>1. VoiceNext =>
          /\ [MediaNodesNext]_mediaNodesVars /\ [MediaNext]_mediaVars /\ [EngineNext]_engineVars
          /\ [AgentNext]_agentVars /\ [ToolNext]_toolVars /\ [AgentConfigNext]_configVars
          /\ [EslNext]_eslVars /\ [RecNext]_recVars /\ UNCHANGED focus
    BY DEF VoiceNext
  <2>2. UNCHANGED voiceVars =>
          /\ UNCHANGED mediaNodesVars /\ UNCHANGED mediaVars /\ UNCHANGED engineVars
          /\ UNCHANGED agentVars /\ UNCHANGED toolVars /\ UNCHANGED configVars
          /\ UNCHANGED eslVars /\ UNCHANGED recVars /\ UNCHANGED focus
    BY DEF voiceVars
  <2> QED
    BY <2>1, <2>2
<1>3. focus \in Focuses /\ UNCHANGED focus => (focus \in Focuses)'
  BY DEF Focuses
<1> QED
  BY <1>1, <1>2, <1>3, PTL
     DEF VoiceSafety, MediaNodesSpec, MediaSpec, EngineSafety, AgentSpec, ToolSpec, ConfigSafety, EslSafety,
         RecordingSafety

\* Every variable of every component has its type, whichever of them moves.
THEOREM VoiceTypeCorrect == VoiceSafety => []VoiceTypeOK
<1>1. AgentSpec => []AgentTypeOK
  <2>1. AgentInv => AgentTypeOK
    BY DEF AgentInv
  <2> QED
    BY <2>1, SessionsInductive, PTL
<1>2. ConfigSafety => []AgentConfigTypeOK
  <2>1. ConfigInv => AgentConfigTypeOK
    BY DEF ConfigInv, ConfigTypes, CredentialRow, AgentRow, BindingRows, AgentConfigTypeOK
  <2> QED
    BY <2>1, ConfigInductive, PTL
<1>3. /\ focus \in Focuses /\ MediaNodesTypeOK /\ MediaTypeOK /\ EngineTypeOK /\ AgentTypeOK
      /\ ToolTypeOK /\ AgentConfigTypeOK /\ EslTypeOK /\ RecTypeOK
      => VoiceTypeOK
  BY DEF Focuses, VoiceTypeOK
<1> QED
  BY <1>1, <1>2, <1>3, VoiceComponents, NodesTypeCorrect, MediaTypeCorrect, EngineTypeCorrect,
     ToolTypeCorrect, EslTypeCorrect, RecordingsTypeCorrect, PTL

\* The whole keeps what each component promises: fences of responses, sessions and streams, one fork
\* and one sequence of turns per call, tool calls that take effect once, configurations that keep
\* their limits, replies that match, recordings that can be played, leases that are placed once.
THEOREM VoiceIsSound ==
    VoiceSafety => /\ [](MediaSound /\ EngineSound /\ NoDuplicateFork /\ TurnsNeverCollide)
                   /\ [](ToolEffectsSound /\ AgentConfigSound /\ EslSound /\ RecordingsSound)
                   /\ PlacementSound /\ TimeoutSparesAttached
<1> QED
  BY VoiceComponents, MediaSessionsAreSound, EngineIsSound, OneForkPerChannel, TurnsDoNotCollide,
     ToolEffectsAreSound, ConfigurationIsSound, RepliesAndSubscriptions, UploadsAreSound,
     PlacementIsSound, TimerSparesAttached, PTL
=============================================================================
