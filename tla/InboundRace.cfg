SPECIFICATION Spec
CONSTANTS
    Calls = {c1}
    Channels = {u1}
    NoCall = NoCall
    NoChannel = NoChannel
    Faults = 0
    Progress = {}
    Workers = {w1, w2}
    Handler = w1
    OrgLimit = 2
    TrunkLimit = 2
INVARIANTS
    ConcurrentAdmissionReuses
