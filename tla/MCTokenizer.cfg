SPECIFICATION Spec
CONSTANTS
    Inputs <- MCInputs
    MaxLexemes = 4
    Alphabet = {"word", "text", "cmd", "begin", "select", "semi", "comment", "spread", "hint", "line", "space", "nl", "dollar", "open"}
    MaxPayload = 6
    MaxAround = 3
    Nested = {"word", "cmd", "begin", "semi", "comment", "nl"}
INVARIANTS
    TypeOK
    PayloadStopsAtSemicolon
    NothingLost
    CommentsReachTheirToken
    LinesCountBreaks
PROPERTIES
    SettledTokensStay
    TokenizeReturns
CHECK_DEADLOCK FALSE
