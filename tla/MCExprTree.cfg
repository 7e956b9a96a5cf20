CONSTANTS
    Parsed <- Trees
    Words = {"", "0", "_c", "_w", "_t", "%Y", "yyyy", "a", "b", "x"}
    Ops = {"copy", "simplify", "neutral", "tsql", "fabric", "databricks", "duckdb", "hive"}
    Kinds = {"spine", "cast", "interval", "format"}
    MaxCalls = 2
    MaxSpine = 3
SPECIFICATION FairSpec
INVARIANTS
    TypeOK
    CopyIsDeep
    ResultIsATree
    SimplifyIsExact
PROPERTIES
    ArgumentsKept
    CopiesLeaveParents
    CallsReturn
CHECK_DEADLOCK FALSE
