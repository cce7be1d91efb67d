SPECIFICATION LivenessSpec
CONSTANTS
    Workers = {w1}
    Events = {e1}
    Endpoints = {p1}
    MaxAttempts = 2
    AutoDisableAfter = 2
    MaxDeliver = 3
    Faults = 2
    AdminOps = 1
    MediaNodeIds = {1, 2}
    PlacedIds = {a, b}
    Placers = {w1}
    NodeCapacity = 1
    NodeFaults = 1
    NodeEvents = 3
    PlacerJobs = 2
    SessionIds = {s1}
    Objects = {o1}
    NoId = NoId
    NoObject = NoObject
    MediaCapacity = 1
    ToolCalls = {t1}
    ControlBuffer = 1
    Requests = 2
    CallIds = {c1, c2}
    NoCall = nocall
    SttEvents = 1
    GenItems = 2
    EngineFaults = 1
    EventRoom = 1
    OutputRoom = 1
    AgentSessionIds = {s1, s2}
    NoSession = none
    MaxTurns = 1
    AgentFaults = 1
    ToolIds = {t1}
    WebhookTools = {t1}
    NoTool = notool
    ToolCallIds = {c1}
    Executors = {x1, x2}
    ToolVersions = 2
    ToolFaults = 1
    RecIds = {r1}
    Ingesters = {w1, w2}
    ApiDeleter = api
    Integrations = {i1}
    NoIntegration = noi
    MaxUploads = 2
    UploadBatch = 2
    RecFaults = 1
    RecChanges = 1
    PolarSubs = {p1, p2}
    NoSub = nosub
    BillingWorkers = {b1}
    Reconciler = rc
    MaxMoments = 2
    MaxReceipts = 1
    WebhookAttempts = 2
    BillingFaults = 1
    ProviderPays = {"active", "past_due"}
    EslCallers = {k1}
    NoOne = noone
    MaxConns = 2
    MaxCommands = 1
    EventDepth = 1
    EslFaults = 1
    TrunkIds = {t1}
    EndpointIds = {e1}
    Addresses = {a1, a2}
    PhoneRows = {}
    PhoneNumbers = {}
    Administrators = {}
    HealthWorkers = {w1}
    NoTrunk = notrunk
    Provisioned = {t1}
    PlanTrunks = 1
    FailureThreshold = 2
    TrunkOps = 3
    TrunkFaults = 1
    Users = {o, u}
    Owner = o
    Invites = {j1}
    AdminRequests = {q1}
    MailWorkers = {w1}
    NoWorker = noy
    MailAttempts = 2
    TenancyOps = 2
    MailFaults = 2
PROPERTIES EventsReachEndpoints VoiceSettles MediaSettles PlatformSettles
CHECK_DEADLOCK FALSE
