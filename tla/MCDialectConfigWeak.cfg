SPECIFICATION Spec
CONSTANTS
    g1 = g1
    g2 = g2
    g3 = g3
    neutral = neutral
    unknown = unknown
    group_by = group_by
    block_comment = block_comment
    NoTrie = NoTrie
    StoreOrder = FALSE
    Goroutines = {g1, g2}
    Configured = {neutral}
    Unconfigured = {unknown}
    Keys = {group_by, block_comment}
    Admitted <- MCAdmitted
INVARIANT
    ScansWithCompleteTrie
