SPECIFICATION Spec
CONSTANTS
    Clients = {c1}
    MaxClients = 2
    ReplayBatch = 1
    MaxTicks = 5
    MaxStarts = 2
    MaxLosses = 2
INVARIANTS
    StoredBeforeSeen
    ResumeIsExact
CHECK_DEADLOCK FALSE
