SPECIFICATION Spec
CONSTANTS
    r1 = r1
    r2 = r2
    r3 = r3
    t1 = t1
    k1 = k1
    k2 = k2
    Requests = {r1, r2, r3}
    Tenants = {t1}
    Keys = {k1, k2}
    TenantOf <- OneTenant
    KeyOf <- SharedKey
    NoKey = none
    Pending = pending
    TTL = 1
    MaxSize = 1
    FinalStatuses = {"completed"}
    Durable = FALSE
    Evaluations = 1
    MaxSteps = 1
    MaxCalls = 0
    MaxClock = 3
    MaxFaults = 0
    Cancelled = {}
INVARIANTS
    NoConcurrentDuplicates
PROPERTIES
    DuplicateNamesFinishedRun
CHECK_DEADLOCK FALSE
