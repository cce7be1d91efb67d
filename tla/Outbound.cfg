INIT ScenarioInit
NEXT ScenarioNext
CONSTANTS
    Calls = {c1, c2}
    Channels = {u1, u2}
    NoCall = NoCall
    NoChannel = NoChannel
    Faults = 2
    Progress = {"ring", "hold"}
    OrgLimit = 1
    TrunkLimit = 2
    MaxRoutes = 2
SYMMETRY Symmetry
INVARIANTS
    TypeOK
    AtMostOneOriginate
    LiveChannelHoldsLeases
    ObservedIsBound
    OrgAdmissionRespected
PROPERTIES
    ImplementsLifecycle
