\* Every call ends, so the system may stop.
CHECK_DEADLOCK FALSE
SPECIFICATION Spec
CONSTANTS
    Callers = {p1, p2, p3}
    Tenants = {t1, t2}
    NoTenant = NoTenant
    Collections = {c1}
    NoCollection = NoCollection
    Configurations <- DefaultDeployment
    MaxChunks = 2
    Limit = 1
    MaxFaults = 1
SYMMETRY NameSymmetry
INVARIANT EvidenceHasText
