CONSTANTS
    Statements <- MCStatements
    Alphabet <- TwoLetters
    Digits <- ThreeDigits
    MaxWidth = 4
    NestedComments = TRUE
    MaxLexemes = 3
    Lexemes = {"p", "q", "f", "pq", "qp", "paren", "keyword", "empty", "quoted_p", "spaced",
               "escaped", "n7", "n8", "decimal", "exponent", "long", "grouped", "typed",
               "comment", "nested", "hint", "payload"}
SPECIFICATION Spec
INVARIANTS
    TypeOK
    LengthKept
    SameTextSameAlias
    DistinctWhileRoom
    NothingSpilled
CHECK_DEADLOCK FALSE
