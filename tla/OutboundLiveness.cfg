SPECIFICATION FairSpec
CONSTANTS
    Calls = {c1}
    Channels = {u1}
    NoCall = NoCall
    NoChannel = NoChannel
    Faults = 2
    Progress = {"ring"}
    OrgLimit = 1
    TrunkLimit = 1
    MaxRoutes = 1
PROPERTIES
    CapacityReturned
    CleanupCompletes
    ChannelRecovered
