SPECIFICATION FairSpec
CONSTANTS
    Calls = {c1}
    Channels = {u1}
    NoCall = NoCall
    NoChannel = NoChannel
    Faults = 2
    Progress = {"ring", "hold"}
    Workers = {w1}
    Handler = w1
    OrgLimit = 1
    TrunkLimit = 1
INVARIANTS
    TypeOK
    
    
PROPERTIES
    CapacityReturned
