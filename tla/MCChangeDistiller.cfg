SPECIFICATION Spec
CONSTANTS
    MaxNodes = 4
    AliasNames = {"x"}
    Rebuilding = TRUE
    Instances <- MCInstances
    Updatable = {"Alias", "Column"}
    DeltaOnly = FALSE
CHECK_DEADLOCK FALSE
INVARIANTS
    TypeOK
    MatchingIsBijection
    PairsShareType
    LeafPairsAreBestFirst
    EveryNodeAccountedOnce
    SelfDiffOnlyKeeps
    ReorderingMovesAreFewest
PROPERTIES
    ImplementsGreedyMatching
    DiffReturns
