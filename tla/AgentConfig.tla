----------------------------- MODULE AgentConfig -----------------------------
(***************************************************************************)
(* Configuration of the voice agents of one organisation: agents and their *)
(* provider bindings (ai/agents), the provider credentials the bindings    *)
(* name (ai/providers), deployment of packages (ai/manifest), phone        *)
(* numbers bound to agents, and the snapshot a session takes of all this   *)
(* (CreateVoiceAgentSession).                                              *)
(*                                                                         *)
(* Create and Update write the agent and then its bindings one statement   *)
(* at a time; a deployment writes everything in one transaction that holds *)
(* the organisation's row.  The database's foreign keys and triggers are   *)
(* part of the statements: a row that names the organisation waits for     *)
(* that lock, a bound credential cannot be deleted, and every change of a  *)
(* binding raises the agent's revision.                                    *)
(***************************************************************************)
EXTENDS Naturals, FiniteSets

CONSTANTS
    AgentIds, NoAgent,        \* voice agents
    ComposableRoles,          \* "stt", "llm" and "tts"; a smaller set bounds the instance
    Credentials, NoCredential,
    AgentNumbers,             \* phone numbers
    ConfigRequests, NoOwner,  \* concurrent requests; nobody holds the organisation's row
    PlanAgents,               \* max_voice_agents of the plan
    MaxSecrets,               \* bound: secrets a credential goes through
    ConfigOps, ConfigFaults   \* bounds: requests; broken connections

ASSUME AgentConfigAssumption ==
    /\ IsFiniteSet(ComposableRoles)
    /\ NoAgent \notin AgentIds /\ NoCredential \notin Credentials /\ NoOwner \notin ConfigRequests
    /\ PlanAgents \in Nat \ {0} /\ MaxSecrets \in Nat \ {0}
    /\ ConfigOps \in Nat /\ ConfigFaults \in Nat

VARIABLES
    credential,  \* Credentials -> row of ai_provider_credentials
    agent,       \* AgentIds -> row of voice_agents
    bound,       \* AgentIds -> rows of voice_agent_provider_bindings, by role
    answering,   \* AgentNumbers -> voice_agent_bindings: the agent of the number
    orgRow,      \* the request whose transaction holds the organisation's row
    configReq,   \* ConfigRequests -> what each request is doing
    snapshots,   \* AgentIds -> revision and configuration of its sessions
    configOps, configFaults

configVars == <<credential, agent, bound, answering, orgRow, configReq, snapshots, configOps,
                configFaults>>

AgentRoles == ComposableRoles \cup {"realtime"}
ConnectionStates == {"unchecked", "ready", "invalid", "unavailable"}
NoRowOf == [state |-> "absent", secret |-> 0]
NoAgentRow == [status |-> "absent", engine |-> "realtime", revision |-> 0]
Unbound == [r \in AgentRoles |-> NoCredential]

\* op, the agent or credential it is about, the bindings still to write and to remove, and the
\* agents a deployment has written and not committed.
NoConfigReq == [op |-> "none", a |-> NoAgent, k |-> NoCredential, secret |-> 0,
                engine |-> "realtime", want |-> Unbound, put |-> {}, drop |-> {},
                made |-> {}]

AgentConfigInit ==
    /\ credential = [k \in Credentials |-> NoRowOf]
    /\ agent = [a \in AgentIds |-> NoAgentRow] /\ bound = [a \in AgentIds |-> Unbound]
    /\ answering = [n \in AgentNumbers |-> NoAgent]
    /\ orgRow = NoOwner
    /\ configReq = [q \in ConfigRequests |-> NoConfigReq]
    /\ snapshots = [a \in AgentIds |-> {}]
    /\ configOps = 0 /\ configFaults = 0

ConfigOp == configOps < ConfigOps /\ configOps' = configOps + 1
Begin(q, r) == configReq[q] = NoConfigReq /\ configReq' = [configReq EXCEPT ![q] = r]
Continue(q, r) == configReq' = [configReq EXCEPT ![q] = r]
End(q) == Continue(q, NoConfigReq)

\* Agents a deployment has inserted and not committed.
Uncommitted == UNION {configReq[q].made : q \in ConfigRequests}
Rows == {a \in AgentIds : agent[a] # NoAgentRow}
Fresh == (AgentIds \ Rows) \ Uncommitted

\* Mutant: the capacity check does not wait for the organisation's row.
OrgRowFreeAlways(q) == TRUE
\* FOR UPDATE, and the key share lock of a row that names the organisation.
OrgRowFree(q) == orgRow \in {NoOwner, q}

RolesOf(wanted) == {r \in AgentRoles : wanted[r] # NoCredential}

\* expectedRoles: what the engine of an agent needs.
ExpectedRoles(engine) == IF engine = "realtime" THEN {"realtime"} ELSE ComposableRoles

\* The bindings of a request: none, or the roles of the engine, all from one integration.
Wanted(engine) ==
    {Unbound} \cup {[r \in AgentRoles |-> IF r \in ExpectedRoles(engine) THEN k ELSE NoCredential]
                       : k \in Credentials}

Present(k) == credential[k].state # "absent"

-----------------------------------------------------------------------------
(* Credentials                                                             *)

ConfigStill == UNCHANGED <<agent, bound, answering, orgRow, snapshots, configFaults>>

\* CreateAIProviderCredential
NewCredential == [state |-> "unchecked", secret |-> 1]

\* CreateCredential
CreateCredential(k) ==
    /\ ConfigOp /\ ~Present(k) /\ orgRow = NoOwner
    /\ credential' = [credential EXCEPT ![k] = NewCredential]
    /\ UNCHANGED configReq /\ ConfigStill

\* RotateAIProviderCredential: the verification of the old secret no longer counts.
Rotated(row) == [row EXCEPT !.state = "unchecked", !.secret = @ + 1]

\* RotateCredential
RotateCredential(k) ==
    /\ ConfigOp /\ Present(k) /\ credential[k].secret < MaxSecrets
    /\ credential' = [credential EXCEPT ![k] = Rotated(@)]
    /\ UNCHANGED configReq /\ ConfigStill

\* VerifyIntegration reads the secret ...
VerifyBegins(q, k) ==
    /\ ConfigOp /\ Present(k)
    /\ Begin(q, [NoConfigReq EXCEPT !.op = "verify", !.k = k, !.secret = credential[k].secret])
    /\ UNCHANGED credential /\ ConfigStill

\* ... asks the provider, and writes the answer to whatever secret the row holds by then.
VerifyEnds(q) ==
    LET k == configReq[q].k
    IN  /\ configReq[q].op = "verify" /\ End(q)
        /\ \E verdict \in ConnectionStates \ {"unchecked"} :
              credential' = IF Present(k) THEN [credential EXCEPT ![k].state = verdict]
                            ELSE credential
        /\ UNCHANGED configOps /\ ConfigStill

\* Credentials that bindings name, of uncommitted agents too.
Named(k) ==
    \/ \E a \in AgentIds, r \in AgentRoles : bound[a][r] = k
    \/ \E q \in ConfigRequests, r \in AgentRoles :
          configReq[q].made # {} /\ configReq[q].want[r] = k

\* DeleteAIProviderCredential: the foreign key of a binding refuses, or waits for a deployment.
DeleteCredential(k) ==
    /\ ConfigOp /\ Present(k) /\ ~Named(k)
    /\ credential' = [credential EXCEPT ![k] = NoRowOf]
    /\ UNCHANGED configReq /\ ConfigStill

-----------------------------------------------------------------------------
(* Agents and their bindings                                               *)

AgentStill == UNCHANGED <<credential, answering, snapshots>>

\* Create: the plan's limit has been read.
CreateBegins(q) ==
    /\ ConfigOp
    /\ \E e \in {"realtime", "composable"} : \E w \in Wanted(e) :
          Begin(q, [NoConfigReq EXCEPT !.op = "create", !.engine = e, !.want = w,
                                       !.put = RolesOf(w)])
    /\ UNCHANGED <<agent, bound, orgRow, configFaults>> /\ AgentStill

\* What is left of a request once its agent row is written: the bindings, or nothing.
Bind(q, a) ==
    LET r == [configReq[q] EXCEPT !.op = "bind", !.a = a]
    IN  IF r.put \cup r.drop = {} THEN End(q) ELSE Continue(q, r)

\* CreateWithLimit: lock, count and insert in one short transaction.  The limit counts disabled
\* agents too.
CreateWithLimit(q) ==
    /\ configReq[q].op = "create" /\ OrgRowFree(q)
    /\ IF Cardinality(Rows) >= PlanAgents
       THEN End(q) /\ UNCHANGED agent
       ELSE \E a \in Fresh :
              /\ agent' = [agent EXCEPT ![a] =
                    [status |-> "active", engine |-> configReq[q].engine, revision |-> 1]]
              /\ Bind(q, a)
    /\ UNCHANGED <<bound, orgRow, configOps, configFaults>> /\ AgentStill

\* normalizeUpdate: an engine, and the bindings when the request has a list of them.
AgentUpdates ==
    UNION {{[engine |-> e, bindings |-> b] : b \in {{}} \cup {{w} : w \in Wanted(e)}}
              : e \in {"realtime", "composable"}}

\* UpdateVoiceAgent: every update is a new revision.
UpdatedAgent(row, upd) == [row EXCEPT !.engine = upd.engine, !.revision = @ + 1]

\* Update: the row; then the bindings, in statements of their own.
UpdateAgent(q, a) ==
    /\ ConfigOp /\ configReq[q] = NoConfigReq /\ agent[a].status = "active"
    /\ \E upd \in AgentUpdates :
          /\ agent' = [agent EXCEPT ![a] = UpdatedAgent(@, upd)]
          /\ \/ upd.bindings = {} /\ UNCHANGED configReq
             \/ \E w \in upd.bindings : configReq' = [configReq EXCEPT ![q] =
                   [NoConfigReq EXCEPT !.op = "list", !.a = a, !.engine = upd.engine, !.want = w]]
    /\ UNCHANGED <<bound, orgRow, configFaults>> /\ AgentStill

\* applyBindings with replace: ListBindings
ListBindings(q) ==
    LET r == configReq[q]
        put == RolesOf(r.want)
        drop == {role \in AgentRoles : bound[r.a][role] # NoCredential} \ put
    IN  /\ r.op = "list"
        /\ IF put \cup drop = {} THEN End(q)
           ELSE Continue(q, [r EXCEPT !.op = "bind", !.put = put, !.drop = drop])
        /\ UNCHANGED <<agent, bound, orgRow, configOps, configFaults>> /\ AgentStill

\* bump_voice_agent_configuration_revision
Bump(a) == [agent EXCEPT ![a].revision = @ + 1]

\* DeleteVoiceAgentProviderBinding, one role at a time.
DeleteBinding(q) ==
    LET r == configReq[q]
    IN  /\ r.op = "bind" /\ r.drop # {}
        /\ \E role \in r.drop :
              /\ bound' = [bound EXCEPT ![r.a][role] = NoCredential]
              /\ agent' = IF bound[r.a][role] = NoCredential THEN agent ELSE Bump(r.a)
              /\ IF r.put \cup (r.drop \ {role}) = {} THEN End(q)
                 ELSE Continue(q, [r EXCEPT !.drop = @ \ {role}])
        /\ UNCHANGED <<orgRow, configOps, configFaults>> /\ AgentStill

\* UpsertVoiceAgentProviderBinding
WithBinding(bindings, role, k) == [bindings EXCEPT ![role] = k]

\* UpsertBinding, one role at a time: a credential that is gone ends the request and leaves the
\* bindings written so far.  Nothing looks at the agent's status.
UpsertBinding(q) ==
    LET r == configReq[q]
    IN  /\ r.op = "bind" /\ r.drop = {}
        /\ \E role \in r.put :
              IF ~Present(r.want[role])
              THEN End(q) /\ UNCHANGED <<agent, bound>>
              ELSE /\ bound[r.a][role] = NoCredential => OrgRowFree(q)
                   /\ bound' = [bound EXCEPT ![r.a] = WithBinding(@, role, r.want[role])]
                   /\ agent' = Bump(r.a)
                   /\ IF r.put = {role} THEN End(q)
                      ELSE Continue(q, [r EXCEPT !.put = @ \ {role}])
        /\ UNCHANGED <<orgRow, configOps, configFaults>> /\ AgentStill

\* DisableVoiceAgent: bindings and numbers stay.
DisableAgent(a) ==
    /\ ConfigOp /\ agent[a].status = "active"
    /\ agent' = [agent EXCEPT ![a].status = "disabled"]
    /\ UNCHANGED <<bound, orgRow, configReq, configFaults>> /\ AgentStill

\* The request breaks off: its connection or its process is gone.
RequestBreaks(q) ==
    /\ configFaults < ConfigFaults /\ configFaults' = configFaults + 1
    /\ configReq[q].op \in {"list", "bind", "deploy"} /\ End(q)
    /\ orgRow' = IF orgRow = q THEN NoOwner ELSE orgRow
    /\ UNCHANGED <<agent, bound, configOps>> /\ AgentStill

-----------------------------------------------------------------------------
(* Deployment of a package                                                 *)

\* DeployPortable: every integration is validated before the transaction begins.
DeployBegins(q) ==
    /\ ConfigOp
    /\ \E e \in {"realtime", "composable"} : \E w \in Wanted(e) :
          /\ \A r \in RolesOf(w) : Present(w[r])
          /\ Begin(q, [NoConfigReq EXCEPT !.op = "deploy", !.engine = e, !.want = w])
    /\ UNCHANGED <<agent, bound, orgRow, configFaults>> /\ AgentStill

\* The next agent of the package, its bindings and tools: the row of the organisation is taken
\* with the first and kept.  The limit, or a credential deleted meanwhile, rolls everything back.
DeployAgent(q) ==
    LET r == configReq[q]
    IN  /\ r.op = "deploy" /\ OrgRowFree(q)
        /\ IF \/ Cardinality(Rows) + Cardinality(r.made) >= PlanAgents
              \/ \E role \in RolesOf(r.want) : ~Present(r.want[role])
           THEN End(q) /\ orgRow' = NoOwner
           ELSE /\ orgRow' = q
                /\ \E a \in Fresh : Continue(q, [r EXCEPT !.made = @ \cup {a}])
        /\ UNCHANGED <<agent, bound, configOps, configFaults>> /\ AgentStill

\* tx.Commit
DeployCommits(q) ==
    LET r == configReq[q]
    IN  /\ r.op = "deploy" /\ r.made # {} /\ End(q) /\ orgRow' = NoOwner
        /\ agent' = [a \in AgentIds |->
              IF a \in r.made
              THEN [status |-> "active", engine |-> r.engine,
                    revision |-> 1 + Cardinality(RolesOf(r.want))]
              ELSE agent[a]]
        /\ bound' = [a \in AgentIds |-> IF a \in r.made THEN r.want ELSE bound[a]]
        /\ UNCHANGED <<configOps, configFaults>> /\ AgentStill

-----------------------------------------------------------------------------
(* Numbers and sessions                                                    *)

\* CreateVoiceAgentBinding: an active agent, and a number no agent answers yet.
BindNumber(n, a) ==
    /\ ConfigOp /\ agent[a].status = "active" /\ answering[n] = NoAgent /\ orgRow = NoOwner
    /\ answering' = [answering EXCEPT ![n] = a]
    /\ UNCHANGED <<credential, agent, bound, orgRow, configReq, snapshots, configFaults>>

\* DeleteVoiceAgentBinding: the agent may be disabled.
UnbindNumber(n) ==
    /\ ConfigOp /\ answering[n] # NoAgent
    /\ answering' = [answering EXCEPT ![n] = NoAgent]
    /\ UNCHANGED <<credential, agent, bound, orgRow, configReq, snapshots, configFaults>>

\* What a session records of its agent.
SnapshotOf(a) ==
    [revision |-> agent[a].revision, engine |-> agent[a].engine, providers |-> bound[a]]

\* CreateVoiceAgentSession: revision and configuration of an active agent, in one statement.
TakeSnapshot(a) ==
    LET s == SnapshotOf(a)
    IN  /\ agent[a].status = "active" /\ orgRow = NoOwner /\ s \notin snapshots[a]
        /\ ConfigOp /\ snapshots' = [snapshots EXCEPT ![a] = @ \cup {s}]
        /\ UNCHANGED <<credential, agent, bound, answering, orgRow, configReq, configFaults>>

-----------------------------------------------------------------------------
(* Decisions taken from the rows                                           *)

\* BindingStatuses: the roles an agent has a binding for, with the state of the credential.
BindingStatuses(a) == [r \in RolesOf(bound[a]) |-> credential[bound[a][r]].state]

\* Readiness, asked before a call to the agent is admitted: a role the engine does not use, a
\* role it lacks, a connection that is not ready.
ReadinessIssues(a) ==
    LET statuses == BindingStatuses(a)
        expected == ExpectedRoles(agent[a].engine)
    IN  {<<"unexpected", r>> : r \in DOMAIN statuses \ expected}
        \cup {<<"missing", r>> : r \in expected \ DOMAIN statuses}
        \cup {<<"connection", r>> :
                r \in {x \in DOMAIN statuses \cap expected : statuses[x] # "ready"}}

\* RequireReady, asked before a call to an active agent is placed or taken.
AgentReady(a) == agent[a].status = "active" /\ ReadinessIssues(a) = {}

\* ResolveSnapshot: the secrets of a session's providers as they are when it starts; a credential
\* that is gone makes it fail.
SnapshotResolves(s) == \A r \in RolesOf(s.providers) : Present(s.providers[r])
ResolveSnapshot(s) == [r \in RolesOf(s.providers) |-> credential[s.providers[r]].secret]

AgentConfigNext ==
    \/ \E k \in Credentials : CreateCredential(k) \/ RotateCredential(k) \/ DeleteCredential(k)
    \/ \E q \in ConfigRequests, k \in Credentials : VerifyBegins(q, k)
    \/ \E q \in ConfigRequests :
          \/ VerifyEnds(q) \/ CreateBegins(q) \/ CreateWithLimit(q)
          \/ ListBindings(q) \/ DeleteBinding(q) \/ UpsertBinding(q) \/ RequestBreaks(q)
          \/ DeployBegins(q) \/ DeployAgent(q) \/ DeployCommits(q)
    \/ \E q \in ConfigRequests, a \in AgentIds : UpdateAgent(q, a)
    \/ \E a \in AgentIds : DisableAgent(a) \/ TakeSnapshot(a)
    \/ \E n \in AgentNumbers, a \in AgentIds : BindNumber(n, a)
    \/ \E n \in AgentNumbers : UnbindNumber(n)

-----------------------------------------------------------------------------
(* Properties                                                              *)

\* The rows keep their types.
AgentConfigTypeOK ==
    /\ credential \in [Credentials -> [state : ConnectionStates, secret : 1..MaxSecrets]
                                          \cup {NoRowOf}]
    /\ \A a \in AgentIds :
          /\ agent[a].status \in {"absent", "active", "disabled"}
          /\ bound[a] \in [AgentRoles -> Credentials \cup {NoCredential}]
    /\ answering \in [AgentNumbers -> AgentIds \cup {NoAgent}]
    /\ orgRow \in ConfigRequests \cup {NoOwner}

\* The organisation never has more agents than its plan allows, however creations and deployments
\* of several agents overlap.
AgentsWithinPlan == Cardinality(Rows) <= PlanAgents

\* A binding names a credential that exists, also one committed by a deployment whose validation
\* came before the deletion of the credential.
BoundCredentialExists ==
    \A a \in AgentIds, r \in AgentRoles : bound[a][r] # NoCredential => Present(bound[a][r])

\* Sessions that report the same configuration revision of an agent run the same configuration,
\* whatever updates overlapped or broke off between them.
RevisionIdentifies ==
    \A a \in AgentIds : \A s, t \in snapshots[a] : s.revision = t.revision => s = t

\* An agent that readiness accepts starts: the session made at that moment resolves, with a secret
\* for each role of its engine and for no other, whatever requests are half done.
ReadyResolves ==
    \A a \in AgentIds :
        AgentReady(a) =>
            /\ SnapshotResolves(SnapshotOf(a))
            /\ DOMAIN ResolveSnapshot(SnapshotOf(a)) = ExpectedRoles(agent[a].engine)

\* What the voice agents' run checks of their configuration.
AgentConfigSound ==
    AgentsWithinPlan /\ BoundCredentialExists /\ RevisionIdentifies /\ ReadyResolves
=============================================================================
