INIT Init
NEXT BoundedNext
CONSTANTS
    Workers = {w1, w2}
    Events = {e1}
    Endpoints = {p1}
    MaxAttempts = 2
    AutoDisableAfter = 2
    MaxDeliver = 2
    Faults = 2
    AdminOps = 2
    Incidents = 3
SYMMETRY WorkerSymmetry
INVARIANTS TypeOK NoEventLost
PROPERTIES ImplementsDelivery
CHECK_DEADLOCK FALSE
