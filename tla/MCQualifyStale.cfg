CONSTANTS
    Parsed <- Trees
    Words = {"", "0", "_c", "_w", "_t", "%Y", "yyyy", "a", "b", "x"}
    Ops = {"simplify", "hive"}
    Kinds = {"window"}
    MaxCalls = 2
    MaxSpine = 0
SPECIFICATION Spec
INVARIANTS
    FilterHoldsNoWindow
CHECK_DEADLOCK FALSE
