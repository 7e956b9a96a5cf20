CONSTANTS
    Parsed <- Trees
    Words = {"", "0", "_c", "_w", "_t", "%Y", "yyyy", "a", "b", "x"}
    Ops = {"copy", "tsql", "databricks", "hive"}
    Kinds = {"spine", "cast", "format", "conjunct", "qualify"}
    MaxCalls = 3
    MaxSpine = 1
SPECIFICATION Spec
INVARIANTS
    FilterHoldsNoWindow
    ReadsWhatIsProjected
PROPERTIES
    WritingIsRepeatable
CHECK_DEADLOCK FALSE
