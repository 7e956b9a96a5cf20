CONSTANTS
    Statements <- MCStatements
    Alphabet <- TwoLetters
    Digits <- ThreeDigits
    MaxWidth = 4
    NestedComments = FALSE
    MaxLexemes = 1
    Lexemes = {"p", "n7", "typed", "escaped"}
SPECIFICATION Spec
INVARIANTS
    SameLength
CHECK_DEADLOCK FALSE
