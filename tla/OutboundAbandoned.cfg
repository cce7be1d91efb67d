SPECIFICATION FairSpec
CONSTANTS
    Calls = {c1}
    Channels = {u1}
    NoCall = NoCall
    NoChannel = NoChannel
    Faults = 1
    Progress = {"ring"}
    OrgLimit = 1
    TrunkLimit = 1
    MaxRoutes = 1
PROPERTIES
    AbandonedRequestReleases
