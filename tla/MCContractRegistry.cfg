\* Two reloads and two edits overlap in every order, across a restart.
CHECK_DEADLOCK FALSE
SPECIFICATION RegistrySpec
CONSTANTS
    Reloaders = {r1, r2}
    Editors = {e1, e2}
    Others = {}
    ContractsDir = contracts
    Builtin = builtin
    AgentCount = 2
    Written = {"full", "mistyped"}
    Editable <- MCEditable
    MaxRestarts = 1
SYMMETRY MCSymmetry
INVARIANTS
    TypeOK
    QuietReloadMirrorsDisk
    FailedReloadStopsHalfway
    NeverOlder
    
