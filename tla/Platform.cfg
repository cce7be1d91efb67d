INIT PlatformInit
NEXT PlatformNext
CONSTANTS
    TrunkIds = {t1, t2, t3}
    EndpointIds = {e1}
    Addresses = {a1, a2}
    PhoneRows = {n1, n2}
    PhoneNumbers = {m1}
    Administrators = {w1, w2}
    HealthWorkers = {v1}
    NoTrunk = notrunk
    Provisioned = {t1}
    PlanTrunks = 2
    FailureThreshold = 2
    TrunkOps = 3
    TrunkFaults = 1
    Users = {o, u}
    Owner = o
    Invites = {j1}
    AdminRequests = {q1}
    MailWorkers = {w1, w2}
    NoWorker = noy
    MailAttempts = 2
    TenancyOps = 3
    MailFaults = 1
    IdentityEvents = {1, 2}
    DisableEvents = {2}
    EventRequests = {w1, w2}
    Logins = {l1}
    Callbacks = {w1, w2}
    Resolvers = {w1, w2}
    MaxRotations = 2
    IdentityFaults = 1
    PolarSubs = {p1, p2}
    NoSub = nosub
    BillingWorkers = {w1, w2}
    Reconciler = rc
    MaxMoments = 2
    MaxReceipts = 2
    WebhookAttempts = 2
    BillingFaults = 1
    ProviderPays = {"active", "past_due"}
    IdemRequests = {h1, h2, h3}
    NoRequest = noreq
    Bodies = {d1, d2}
    IdemFaults = 2
INVARIANTS PlatformTypeOK  IdentitySound IdempotencySound
  
SYMMETRY PlatformSymmetry
CHECK_DEADLOCK FALSE
