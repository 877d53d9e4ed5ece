SPECIFICATION Spec
CONSTANTS
    TTL = 1
    MaxSize = 2
    Tenants = {t1}
    Keys = {k1, k2, k3}
    Callers = {c1, c2}
    Pending = pending
    MaxClock = 3
    MaxRestarts = 1
INVARIANTS
    TypeOK
    CapacityBound
    RememberedUntilExpiry
PROPERTIES
    AdmissionsSpaced
