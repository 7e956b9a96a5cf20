---------------------------- MODULE MCTokenizer ----------------------------
EXTENDS Tokenizer

CONSTANTS
    MaxLexemes, Alphabet,  \* every statement of up to MaxLexemes of Alphabet,
    MaxPayload, Nested,    \* those of up to MaxPayload of Nested after a command
    MaxAround              \* and those of up to MaxAround with a suffixed number

Statements(kinds, n) == UNION {[1..m -> kinds] : m \in 0..n}

\* A statement with a number and its suffix put in it at every place.
WithNumber(in) ==
    {SubSeq(in, 1, i) \o Suffixed \o SubSeq(in, i + 1, Len(in)) : i \in 0..Len(in)}

MCInputs ==
    {in \in Statements(Alphabet, MaxLexemes)
              \cup {<<"cmd">> \o in : in \in Statements(Nested, MaxPayload)}
              \cup UNION {WithNumber(in) : in \in Statements(Alphabet, MaxAround)} : WellFormed(in)}

=============================================================================
