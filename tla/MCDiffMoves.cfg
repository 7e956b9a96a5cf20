SPECIFICATION Spec
CONSTANTS
    MaxNodes = 4
    AliasNames = {"x"}
    Rebuilding = TRUE
    Instances <- MCInstances
    Updatable = {"Alias", "Column"}
    DeltaOnly = FALSE
CHECK_DEADLOCK FALSE
INVARIANT
    MovesLeaveTheirParents
