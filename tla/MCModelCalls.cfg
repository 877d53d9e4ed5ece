\* Budgets around the lengths of base, header and entries: every cut occurs.
CHECK_DEADLOCK FALSE
SPECIFICATION Spec
CONSTANTS
    Runners = {r1}
    Critics = {c1}
    Judges = {j1}
    Tenants = {acme, globex}
    DefaultTenant = acme
    Keys = {k1, k2}
    NoKey = nokey
    SettingsChoices <- MCSettings
    CallerChoices <- MCCallers
    Budgets = {3, 6, 8}
    Bases = {3}
    Lengths = {1, 2}
    Header = 2
    MaxSummaries = 3
INVARIANTS
    TypeOK
    NewestKept
    CriticTellsTheTruth
    TenantsApart
PROPERTIES
    RequestsAnswered
