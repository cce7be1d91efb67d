INIT VoiceInit
NEXT VoiceNext
CONSTANTS
    MediaNodeIds = {1, 2}
    PlacedIds = {a, b}
    Placers = {w1, w2}
    NodeCapacity = 1
    NodeFaults = 2
    NodeEvents = 3
    PlacerJobs = 2
    SessionIds = {s1}
    Objects = {o1}
    NoId = NoId
    NoObject = NoObject
    MediaCapacity = 1
    ToolCalls = {t1, t2}
    ControlBuffer = 1
    Requests = 3
    CallIds = {c1}
    NoCall = nocall
    SttEvents = 2
    GenItems = 2
    EngineFaults = 1
    EventRoom = 1
    OutputRoom = 1
    AgentSessionIds = {s1, s2}
    NoSession = none
    MaxTurns = 2
    AgentFaults = 2
    ToolIds = {t1, t2}
    WebhookTools = {t1}
    NoTool = notool
    ToolCallIds = {c1}
    Executors = {x1, x2}
    ToolVersions = 2
    ToolFaults = 2
    AgentIds = {g1, g2}
    NoAgent = noagent
    ComposableRoles = {"stt", "llm"}
    Credentials = {s1}
    NoCredential = nok
    AgentNumbers = {f1}
    ConfigRequests = {u1, u2}
    NoOwner = noowner
    PlanAgents = 1
    MaxSecrets = 2
    ConfigOps = 4
    ConfigFaults = 1
    EslCallers = {k1}
    NoOne = noone
    MaxConns = 2
    MaxCommands = 2
    EventDepth = 1
    EslFaults = 1
    RecIds = {r1}
    Ingesters = {w1, w2}
    ApiDeleter = api
    Integrations = {i1, i2}
    NoIntegration = noi
    MaxUploads = 2
    UploadBatch = 2
    RecFaults = 1
    RecChanges = 2
INVARIANTS VoiceTypeOK MediaSound EngineSound  TurnsNeverCollide
            AgentConfigSound EslSound RecordingsSound
PROPERTIES PlacementSound TimeoutSparesAttached
CHECK_DEADLOCK FALSE
