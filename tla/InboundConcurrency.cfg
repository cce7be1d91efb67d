INIT ScenarioInit
NEXT Next
CONSTANTS
    Calls = {c1, c2}
    Channels = {u1, u2}
    NoCall = NoCall
    NoChannel = NoChannel
    Faults = 1
    Progress = {}
    Workers = {w1, w2}
    Handler = w1
    OrgLimit = 2
    TrunkLimit = 1
SYMMETRY Symmetry
INVARIANTS
    InboundLimitsRespected
    DialogsStayApart
PROPERTIES
    ImplementsLifecycle
