SPECIFICATION Spec
CONSTANTS
    r1 = r1
    r2 = r2
    r3 = r3
    t1 = t1
    k1 = k1
    k2 = k2
    Requests = {r1, r2}
    Tenants = {t1}
    Keys = {k1, k2}
    TenantOf <- OneTenant
    KeyOf <- SharedKey
    NoKey = none
    Pending = pending
    TTL = 1
    MaxSize = 1
    FinalStatuses = {"completed", "failed"}
    Durable = TRUE
    Evaluations = 1
    MaxSteps = 1
    MaxCalls = 1
    MaxClock = 1
    MaxFaults = 0
    Cancelled = {}
PROPERTIES
    DuplicateHasRun
CHECK_DEADLOCK FALSE
