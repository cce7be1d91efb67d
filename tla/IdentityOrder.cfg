INIT IdentityInit
NEXT IdentityNext
CONSTANTS
    IdentityEvents = {1, 2}
    DisableEvents = {}
    EventRequests = {d1, d2}
    Logins = {l1}
    Callbacks = {c1}
    Resolvers = {r1}
    MaxRotations = 1
    IdentityFaults = 0
INVARIANTS NewestEventWins
CHECK_DEADLOCK FALSE
