------------------------------ MODULE MCLiveness ------------------------------
(***************************************************************************)
(* What must happen in the end, in one run: each behaviour is one of the   *)
(* component that the initial state chooses, under the fairness of its     *)
(* processes; the others stay as they start.                               *)
(***************************************************************************)
EXTENDS EventPipeline, MediaNodes, MediaSession, VoiceEngine, AgentSession, ToolExecution,
        Recordings, Billing, EslClient, Trunks, Tenancy

VARIABLE focus

allVars == <<vars, mediaNodesVars, mediaVars, engineVars, agentVars, toolVars, recVars, billingVars,
             eslVars, trunksVars, tenancyVars, focus>>

\* The component is the one that runs.
At(component) == focus = component

\* Where a component has several initial states, one is enough unless it is looked at.
LivenessInit ==
    /\ Init /\ MediaNodesInit /\ MediaInit /\ EngineInit /\ AgentInit /\ ToolInit
    /\ RecInit /\ BillingInit /\ EslInit /\ TrunksInit /\ TenancyInit
    /\ focus \in {"events", "nodes", "media", "engine", "session", "tools", "recordings",
                  "billing", "esl", "trunks", "tenancy"}
    /\ At("engine") \/ tools = {}
    /\ At("events") \/ \A p \in Endpoints : endpoint[p].enabled
    /\ At("tools") \/ \A t \in ToolIds : ~Exists(t)
    /\ At("esl") \/ reconnecting
    /\ At("recordings") \/ policy.plan

LivenessNext ==
    /\ UNCHANGED focus
    /\ \/ At("events") /\ Next
       \/ ~At("events") /\ UNCHANGED vars
    /\ \/ At("nodes") /\ MediaNodesNext
       \/ ~At("nodes") /\ UNCHANGED mediaNodesVars
    /\ \/ At("media") /\ MediaNext
       \/ ~At("media") /\ UNCHANGED mediaVars
    /\ \/ At("engine") /\ EngineNext
       \/ ~At("engine") /\ UNCHANGED engineVars
    /\ \/ At("session") /\ AgentNext
       \/ ~At("session") /\ UNCHANGED agentVars
    /\ \/ At("tools") /\ ToolNext
       \/ ~At("tools") /\ UNCHANGED toolVars
    /\ \/ At("recordings") /\ RecNext
       \/ ~At("recordings") /\ UNCHANGED recVars
    /\ \/ At("billing") /\ BillingNext
       \/ ~At("billing") /\ UNCHANGED billingVars
    /\ \/ At("esl") /\ EslNext
       \/ ~At("esl") /\ UNCHANGED eslVars
    /\ \/ At("trunks") /\ TrunksNext
       \/ ~At("trunks") /\ UNCHANGED trunksVars
    /\ \/ At("tenancy") /\ TenancyNext
       \/ ~At("tenancy") /\ UNCHANGED tenancyVars

\* The loops, jobs, goroutines and timers of each component go on. Callers, carriers,
\* administrators and the other systems owe nothing.
LivenessFairness ==
    /\ \A w \in Workers : /\ WF_vars(At("events") /\ PublisherStep(w))
                          /\ WF_vars(At("events") /\ ConsumerStep(w))
                          /\ WF_vars(At("events") /\ SenderStep(w))
    /\ \A e \in Events : WF_vars(At("events") /\ ReleaseStaleLocks(e))
    /\ WF_mediaNodesVars(At("nodes") /\ MediaNodesSystem)
    /\ WF_mediaVars(At("media") /\ ManagerStep)
    /\ WF_engineVars(At("engine") /\ ~panicked /\ RunStep)
    /\ WF_engineVars(At("engine") /\ ~panicked /\ SubmitStep)
    /\ WF_engineVars(At("engine") /\ ~panicked /\ PumpStep)
    /\ \A g \in Gens : WF_engineVars(At("engine") /\ ~panicked /\ GenStep(g))
    /\ WF_agentVars(At("session") /\ HandlerStep) /\ WF_agentVars(At("session") /\ RecoveryStep)
    /\ WF_agentVars(At("session") /\ ReconcileTerminated)
    /\ WF_agentVars(At("session") /\ CallReconciled)
    /\ WF_agentVars(At("session") /\ BackgroundStep)
    /\ \A x \in Executors : WF_toolVars(At("tools") /\ ExecutorStep(x))
    /\ \A c \in ToolCallIds : WF_toolVars(At("tools") /\ ReconcileUncertain(c))
    /\ \A w \in Ingesters : WF_recVars(At("recordings") /\ IngesterStep(w))
    /\ \A r \in RecIds : /\ WF_recVars(At("recordings") /\ ReconcileRecording(r))
                         /\ WF_recVars(At("recordings") /\ LeaseOver(r))
    /\ \A w \in BillingWorkers : WF_billingVars(At("billing") /\ WebhookJobStep(w))
    /\ WF_billingVars(At("billing") /\ ReconcilerStep)
    /\ \A n \in 1..MaxMoments : /\ WF_billingVars(At("billing") /\ LeaseGetsStale(n))
                                /\ WF_billingVars(At("billing") /\ ReapExhausted(n))
    /\ \A i \in Conns : WF_eslVars(At("esl") /\ ReaderStep(i))
    /\ WF_eslVars(At("esl") /\ LoopStep) /\ WF_eslVars(At("esl") /\ MainStep)
    /\ WF_eslVars(At("esl") /\ CloserStep)
    /\ \A x \in Commanders : WF_eslVars(At("esl") /\ CommandStep(x))
    /\ \A w \in HealthWorkers :
           /\ WF_trunksVars(At("trunks") /\ ClaimDue(w))
           /\ \A p \in EndpointIds \X Addresses : WF_trunksVars(At("trunks") /\ ProbeNext(w, p))
    /\ \A e \in EndpointIds : /\ WF_trunksVars(At("trunks") /\ IntervalPasses(e))
                              /\ WF_trunksVars(At("trunks") /\ CooldownPasses(e))
    /\ \A w \in MailWorkers : WF_tenancyVars(At("tenancy") /\ MailerStep(w))
    /\ \A i \in Invites : /\ WF_tenancyVars(At("tenancy") /\ LeaseLapses(i))
                          /\ WF_tenancyVars(At("tenancy") /\ DelayPasses(i))

LivenessSpec == LivenessInit /\ [][LivenessNext]_allVars /\ LivenessFairness

\* The voice agents come to rest: leases nobody uses come back, sessions end with their call, an
\* answered call is controlled again after a restart, tool calls do not stay in processing.
VoiceSettles ==
    []<>(/\ AbandonedLeases = {} /\ OutlivingSessions = {} /\ UncontrolledSessions = {}
         /\ OpenExecutions = {})

\* A media session that is finished completes, a drain empties its node, and a voice engine that
\* is closed ends with all its responses.
MediaSettles == []<>(UncompletedObjects = {} /\ ~DrainWaits /\ ~EngineLingers)

\* The jobs come to rest: recordings, receipts and mails are settled, the last purchase is found,
\* endpoints recover, and the connection to FreeSWITCH can be closed.
PlatformSettles ==
    []<>(/\ UnsettledRecordings = {} /\ OpenReceipts = {} /\ MissedPurchases = {}
         /\ UnrecoveredEndpoints = {} /\ OpenMails = {} /\ ~CloseWaits)
=============================================================================
