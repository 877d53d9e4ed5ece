\* An edit and an improvement run overlap in every order.
CHECK_DEADLOCK FALSE
SPECIFICATION Spec
CONSTANTS
    Reloaders = {}
    Editors = {e1}
    Others = {i1}
    ContractsDir = contracts
    Builtin = builtin
    AgentCount = 2
    Written = {"full", "partial", "broken"}
    Editable <- MCEditable
    MaxRestarts = 1
    TargetChoices <- MCTargetChoices
    Runs = {n1, n2}
    StartCounts <- MCStartCounts
    MaxSaves = 1
SYMMETRY MCSymmetry
INVARIANTS
    AutoresearchTypeOK
    KeptSurvivesRestart
    KeepCountsStored
