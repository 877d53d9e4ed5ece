\* An execution really ends, so it may stop.
CHECK_DEADLOCK FALSE
SPECIFICATION FairSpec
CONSTANTS
    note = note
    host = host
    danger = danger
    alien = alien
    ghost = ghost
    Tools <- AllTools
    Registered <- KnownTools
    NoteTool = note
    Agents <- AllAgents
    StepLimits <- SomeStepLimits
    TokenLimits <- SomeTokenLimits
    NoLimit = NoLimit
    MaxUsage = 2
    MaxRequests = 2
INVARIANTS TypeOK PolicyDecides CallsAccountedFor BudgetsRespected
           CompletedMeansDone EvaluationsCatchViolations
PROPERTY ExecutionEnds
