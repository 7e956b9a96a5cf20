----------------------------- MODULE Anonymizer -----------------------------
(***************************************************************************)
(* Anonymize of sqlglot/anonymize.go: the tokens of a statement are given  *)
(* aliases, one loop over the tokens, and the statement is written again   *)
(* with each alias fitted into the characters its token was read from, a   *)
(* second loop.  The two loops meet only in the tokens, whose text need    *)
(* not be as long as the characters it was read from: an escape is two     *)
(* characters of the source and one of the text, and the payload of a      *)
(* command has the text of all its lexemes and the place of the last.      *)
(*                                                                         *)
(* A character is one of a few that the code treats alike.  The markers of *)
(* a comment and a delimiter of a string are one character each, whatever  *)
(* their width, with the tag of a heredoc part of its delimiter; comments  *)
(* are of one kind, with a marker at each end.  The comments recorded on   *)
(* the tokens are blanked as well, but nothing of the result is read from  *)
(* them: they are left out.                                                *)
(***************************************************************************)
EXTENDS Integers, Sequences, FiniteSets

CONSTANTS
    Statements,  \* what Anonymize is given, with what the tokenizer made of it
    Alphabet,    \* anonymizeAlphabet
    Digits,      \* the digits of a number, zero first
    MaxWidth,    \* bound: a longer number is blurred (4000 in the code)
    NestedComments  \* whether a comment may stand inside a comment, in the dialect

\* What a caller wants hidden; the other characters of the source.
Secret == {"p", "q", "7", "8"}
Shape  == {".", "e", "-"}
Source == Secret \cup Shape \cup {" ", "'", "open", "close", "k", "f", "(", "esc"}
Chars  == Source \cup {Alphabet[d] : d \in DOMAIN Alphabet} \cup {Digits[d] : d \in DOMAIN Digits}

\* quotedTypes are "string", which here is a quoted identifier too, and
\* anonymizedTypes those with "var" and "number"; rewrittenTypes are "hint" and
\* "unknown".  "paren" opens a call; "word" is any other token, and "marker"
\* the one that stands before the tokens of a statement Athena gives to Hive.
Anonymized == {"string", "var", "number"}
Rewritten  == {"hint", "unknown"}
Types      == Anonymized \cup Rewritten \cup {"word", "paren", "marker"}
Named      == {<<"f">>}  \* tables.NamedFunctions and extraCallNames

\* start and end as in the code: the first character is number 0.
Token == [type : Types, text : Seq(Chars), start : Nat, end : Nat]
Width(tok) == (tok.end + 1) - tok.start

\* What the tokenizer returns: a token lies inside the statement, though not
\* always after the one before it, a hint has the text it was read from, and a
\* number begins with a digit.  For a dialect nobody knows it is not called.
Tokenized(s) ==
    /\ s.sql \in Seq(Source) /\ s.tokens \in Seq(Token) /\ s.failed \in BOOLEAN
    /\ s.known \in BOOLEAN /\ (~s.known => s.tokens = <<>> /\ ~s.failed)
    /\ \A j \in 1..Len(s.tokens) :
          LET tok == s.tokens[j]
          IN  /\ tok.start <= tok.end + 1 /\ tok.end < Len(s.sql)
              /\ tok.type # "unknown"
              /\ tok.text \in Seq(Source)
              /\ tok.type = "hint" => Len(tok.text) = Width(tok)
              /\ tok.type = "number" => tok.text # <<>> /\ tok.text[1] \notin Shape

ASSUME StatementsAssumption == Statements # {} /\ \A s \in Statements : Tokenized(s)

\* The letters of an alphabet are distinct, and none is a character that is kept
\* or hidden.
Separate(letters) ==
    /\ \A a, b \in DOMAIN letters : letters[a] = letters[b] => a = b
    /\ \A a \in DOMAIN letters : letters[a] \notin Secret \cup Shape \cup {" "}
ASSUME LettersAssumption ==
    /\ Alphabet \in Seq(STRING) /\ Len(Alphabet) > 1 /\ Separate(Alphabet)
    /\ Digits \in Seq(STRING) /\ Len(Digits) > 1 /\ Separate(Digits)
    /\ MaxWidth \in Nat /\ NestedComments \in BOOLEAN

VARIABLES
    statement,  \* the arguments, and what t.Tokenize makes of the statement
    tokens,     \* the tokens, their text replaced by aliases one by one
    seen,       \* the alias of each text met
    counter,    \* how many aliases there are
    i,          \* the token the loop is at
    prev,       \* where the token last rendered ends
    out,        \* the text rendered
    phase       \* "tokenized", "naming", "rendering" or "done"

vars == <<statement, tokens, seen, counter, i, prev, out, phase>>

sql == statement.sql
Smaller(a, b) == IF a < b THEN a ELSE b
Larger(a, b) == IF a < b THEN b ELSE a

\* runes[from:to]
Slice(text, from, to) == [k \in 1..(to - from) |-> text[from + k]]

-----------------------------------------------------------------------------
(***************************************************************************)
(* What a text becomes.                                                    *)
(***************************************************************************)
\* blankText and, where the text begins or ends a comment or lies between two
\* tokens, blankComment and redact.
Marks(mark, text, from, to) == Cardinality({n \in from..to : text[n] = mark})

\* A comment is open before character k: from where it opens, none is closed, or
\* where they nest fewer are closed than opened.
InComment(text, k) ==
    \E j \in 1..(k - 1) :
       /\ text[j] = "open"
       /\ \A m \in j..(k - 1) :
             Marks("close", text, j, m) < IF NestedComments THEN Marks("open", text, j, m) ELSE 1

\* The markers of a comment stay, but not those in its body.
MarkStays(text, k) ==
    \/ text[k] = "open" /\ ~InComment(text, k)
    \/ text[k] = "close" /\ InComment(text, k) /\ ~InComment(text, k + 1)

\* Mutant of Blanked: what stands inside a comment is kept.
BlankedOutside(text) == text
Blanked(text) ==
    [k \in 1..Len(text) |-> IF text[k] = " " \/ MarkStays(text, k) THEN text[k] ELSE "."]

Count(text, set, k) == Cardinality({j \in 1..k : text[j] \in set})
Letters(text, k) == Count(text, Chars \ {" "}, k)

\* How many numbers n digits of a base spell.
Power(base, n) == LET p[k \in 0..n] == IF k = 0 THEN 1 ELSE base * p[k - 1] IN p[n]

\* How many digits spell c in a base, and the digit that stands before the
\* last n of them.
Spelled(c, base) == Cardinality({n \in 0..c : Power(base, n) <= c})
DigitAt(c, base, n) == (c \div Power(base, n)) % base

\* aliasFor: a text with fewer letters than the counter has digits takes the
\* first of them.
\* Mutant of AliasFor: a short spelling is filled from the right.
AliasFilledRight(c, text) ==
    [k \in 1..Len(text) |->
       IF text[k] = " " THEN " "
       ELSE IF Letters(text, k) > Spelled(c, Len(Alphabet)) THEN Alphabet[1]
       ELSE Alphabet[1 + DigitAt(c, Len(Alphabet), Spelled(c, Len(Alphabet)) - Letters(text, k))]]
AliasFor(c, text) ==
    LET width == Larger(Spelled(c, Len(Alphabet)), Letters(text, Len(text)))
    IN  [k \in 1..Len(text) |->
           IF text[k] = " " THEN " "
           ELSE Alphabet[1 + DigitAt(c, Len(Alphabet), width - Letters(text, k))]]

\* The smallest number of n digits; how many numbers have n digits.
Least(n) == Power(Len(Digits), n - 1)
Span(n) == (Len(Digits) - 1) * Least(n)

\* The digits of a number before its exponent, and in it.
InExponent(text, k) == \E j \in 1..k : text[j] = "e"
DigitsUpTo(text, k, exponent) ==
    Cardinality({j \in 1..k : text[j] \notin Shape /\ InExponent(text, j) = exponent})

\* numberAlias: the digits of a number of the same width, part by part.
NumberAlias(c, text) ==
    LET value(exponent) ==
            LET n == DigitsUpTo(text, Len(text), exponent)
                rest == IF exponent THEN c \div Span(DigitsUpTo(text, Len(text), FALSE)) ELSE c
            IN  Least(n) + (rest % Span(n))
        digit(k) ==
            LET exponent == InExponent(text, k)
                after == DigitsUpTo(text, Len(text), exponent) - DigitsUpTo(text, k, exponent)
            IN  Digits[1 + DigitAt(value(exponent), Len(Digits), after)]
    IN  [k \in 1..Len(text) |-> IF text[k] \in Shape THEN text[k] ELSE digit(k)]

\* The other path of numberAlias.
Blurred(text) ==
    [k \in 1..Len(text) |->
       IF text[k] \in Shape THEN text[k]
       ELSE IF \E j \in 1..(k - 1) : text[j] \notin Shape THEN Digits[1] ELSE Digits[2]]

Alias(c, tok) ==
    IF tok.type # "number" THEN AliasFor(c, tok.text)
    ELSE IF Len(tok.text) > MaxWidth THEN Blurred(tok.text)
    ELSE NumberAlias(c, tok.text)

\* fitAlias: delimiters are kept, an alias that is too long is cut and one that
\* is too short is filled from the left.
\* Mutant of Fitted: the alias is not cut.
FittedUncut(span, tok) == tok.text
Fitted(span, tok) ==
    LET n == Len(span)
        q == IF tok.type = "string" /\ n > 1 /\ span[1] = "'" /\ span[n] = "'" THEN 1 ELSE 0
        fill == Larger((n - (2 * q)) - Len(tok.text), 0)
        zero == IF tok.type = "number" THEN Digits[1] ELSE Alphabet[1]
    IN  [k \in 1..n |->
           IF k <= q \/ k > n - q THEN span[k]
           ELSE IF k - q <= fill THEN zero ELSE tok.text[k - q - fill]]

-----------------------------------------------------------------------------
Init ==
    /\ statement \in Statements
    /\ tokens = statement.tokens
    /\ seen = <<>> /\ counter = 0
    /\ i = 1 /\ prev = 0 /\ out = <<>>
    /\ phase = "tokenized"

\* Where the token before token j ends.
EndBefore(ts, j) == IF j = 1 THEN 0 ELSE ts[j - 1].end + 1
EndOf(ts) == EndBefore(ts, Len(ts) + 1)

\* Token j was read from characters the token before it was read from.
Overlaps(ts, j) == ts[j].start < EndBefore(ts, j)

\* A token that is written as it stands.
Verbatim(tok) == tok.type \notin Anonymized \cup Rewritten

\* What is to be hidden is a name, a value, a hint or a comment: no other token is
\* read from it, except where the type of a number stands in its place.
ASSUME SecretAssumption ==
    \A s \in Statements :
       \A j \in 1..Len(s.tokens) : Verbatim(s.tokens[j]) /\ ~Overlaps(s.tokens, j) =>
          \A k \in (s.tokens[j].start + 1)..(s.tokens[j].end + 1) : s.sql[k] \notin Secret

\* What is left after the last token, its blanks skipped; Len(sql) if nothing.
Unread(s) ==
    EndOf(s.tokens) + Cardinality({k \in (EndOf(s.tokens) + 1)..Len(s.sql) :
                                     \A m \in (EndOf(s.tokens) + 1)..k : s.sql[m] = " "})

\* The delimiter and one character are left to see.
\* Mutant of Leftover: the token ends where the statement does, and not before.
LeftoverPastEnd(s) ==
    [type |-> "unknown", start |-> Unread(s), end |-> Len(s.sql),
     text |-> [k \in 1..(Len(s.sql) - Unread(s)) |-> IF k <= 2 THEN s.sql[Unread(s) + k] ELSE "."]]
Leftover(s) ==
    [type |-> "unknown", start |-> Unread(s), end |-> Len(s.sql) - 1,
     text |-> [k \in 1..(Len(s.sql) - Unread(s)) |-> IF k <= 2 THEN s.sql[Unread(s) + k] ELSE "."]]

\* The statement is returned as it is for a dialect nobody knows.
UnknownDialect ==
    /\ phase = "tokenized" /\ ~statement.known
    /\ out' = sql
    /\ phase' = "done"
    /\ UNCHANGED <<statement, tokens, seen, counter, i, prev>>

\* anonymizeTokenize: what the tokenizer could not read becomes a token.
AddTail ==
    /\ phase = "tokenized" /\ statement.known
    /\ tokens' = IF statement.failed /\ Unread(statement) < Len(sql)
                 THEN Append(tokens, Leftover(statement)) ELSE tokens
    /\ phase' = "naming"
    /\ UNCHANGED <<statement, seen, counter, i, prev, out>>

AtToken(loop) == phase = loop /\ i <= Len(tokens)

\* The name of a function the reference knows is not sensitive.
NamesFunction(ts, j) ==
    /\ ts[j].type = "var" /\ ts[j].text \in Named
    /\ j < Len(ts) /\ ts[j + 1].type = "paren"

Sensitive(ts, j) ==
    ts[j].type \in Anonymized /\ ts[j].text # <<>> /\ ~NamesFunction(ts, j)

\* seenKey: a number and a string of the same text are two.
Key(tok) == <<tok.type = "number", tok.text>>

\* Mutant of Remember: the alias of a text is not recorded.
RememberNothing(key, alias) == seen
Remember(key, alias) ==
    [k \in DOMAIN seen \cup {key} |-> IF k = key THEN alias ELSE seen[k]]

BlankHint ==
    /\ AtToken("naming")
    /\ tokens[i].type = "hint"
    /\ tokens' = [tokens EXCEPT ![i].text = Blanked(@)]
    /\ i' = i + 1
    /\ UNCHANGED <<statement, seen, counter, prev, out, phase>>

LeaveToken ==
    /\ AtToken("naming")
    /\ tokens[i].type # "hint" /\ ~Sensitive(tokens, i)
    /\ i' = i + 1
    /\ UNCHANGED <<statement, tokens, seen, counter, prev, out, phase>>

UseAlias ==
    /\ AtToken("naming")
    /\ Sensitive(tokens, i) /\ Key(tokens[i]) \in DOMAIN seen
    /\ tokens' = [tokens EXCEPT ![i].text = seen[Key(tokens[i])]]
    /\ i' = i + 1
    /\ UNCHANGED <<statement, seen, counter, prev, out, phase>>

NewAlias ==
    /\ AtToken("naming")
    /\ Sensitive(tokens, i) /\ Key(tokens[i]) \notin DOMAIN seen
    /\ seen' = Remember(Key(tokens[i]), Alias(counter, tokens[i]))
    /\ tokens' = [tokens EXCEPT ![i].text = Alias(counter, tokens[i])]
    /\ counter' = counter + 1
    /\ i' = i + 1
    /\ UNCHANGED <<statement, prev, out, phase>>

EndNaming ==
    /\ phase = "naming" /\ i > Len(tokens)
    /\ phase' = "rendering" /\ i' = 1
    /\ UNCHANGED <<statement, tokens, seen, counter, prev, out>>

\* The gap before token i and what it is rendered as.  A token that starts
\* before the one before it ends has no gap.
Gap(tok) == Blanked(Slice(sql, Smaller(prev, tok.start), tok.start))
Rendered(tok) ==
    LET span == Slice(sql, tok.start, tok.end + 1)
    IN  IF tok.type \in Rewritten THEN tok.text
        ELSE IF tok.type \in Anonymized THEN Fitted(span, tok) ELSE span

RenderToken ==
    /\ AtToken("rendering")
    /\ out' = out \o Gap(tokens[i]) \o Rendered(tokens[i])
    /\ prev' = tokens[i].end + 1
    /\ i' = i + 1
    /\ UNCHANGED <<statement, tokens, seen, counter, phase>>

RenderRest ==
    /\ phase = "rendering" /\ i > Len(tokens)
    /\ out' = out \o Blanked(Slice(sql, prev, Len(sql)))
    /\ phase' = "done"
    /\ UNCHANGED <<statement, tokens, seen, counter, i, prev>>

Next == \/ UnknownDialect \/ AddTail \/ BlankHint \/ LeaveToken \/ UseAlias \/ NewAlias \/ EndNaming
        \/ RenderToken \/ RenderRest

Spec == Init /\ [][Next]_vars

-----------------------------------------------------------------------------
TypeOK ==
    /\ Tokenized(statement)
    /\ tokens \in Seq(Token)
    /\ \A k \in DOMAIN seen : k \in BOOLEAN \X Seq(Source) /\ seen[k] \in Seq(Chars)
    /\ counter \in Nat
    /\ i \in 1..(Len(tokens) + 1)
    /\ prev \in 0..Len(sql)
    /\ out \in Seq(Chars)
    /\ phase \in {"tokenized", "naming", "rendering", "done"}

Given == statement.tokens

\* What is returned is exactly as long as the statement (anonymize.go:58, 420).
\* The code does not keep this: a token that was read from characters the token
\* before it was read from (the type that follows the number of 7L, the first
\* token after Athena's marker) is written all the same.
SameLength == phase = "done" => Len(out) = Len(sql)

\* Where every token begins after the one before it, what is returned is exactly
\* as long as the statement, whatever the length of the texts: an escape is
\* shorter than its characters, a payload longer than the place it is given.
LengthKept ==
    phase = "done" /\ (\A j \in 1..Len(Given) : ~Overlaps(Given, j)) => Len(out) = Len(sql)

\* Every occurrence of a text has the same alias, wherever in the statement
\* and whatever was met in between.
SameTextSameAlias ==
    phase \in {"rendering", "done"} =>
      \A j, k \in 1..Len(Given) :
         Sensitive(Given, j) /\ Sensitive(Given, k) /\ Key(Given[j]) = Key(Given[k])
            => tokens[j].text = tokens[k].text

\* How many texts stand before the first occurrence of the one of token j, and
\* how many aliases there are of its width.
First(j) == CHOOSE k \in 1..j : /\ Sensitive(Given, k) /\ Key(Given[k]) = Key(Given[j])
                               /\ \A m \in 1..(k - 1) : Sensitive(Given, m) => Key(Given[m]) # Key(Given[j])
Rank(j) == Cardinality({Key(Given[k]) : k \in {m \in 1..(First(j) - 1) : Sensitive(Given, m)}})
Room(tok) ==
    IF tok.type # "number" THEN Power(Len(Alphabet), Letters(tok.text, Len(tok.text)))
    ELSE LET n(exponent) == DigitsUpTo(tok.text, Len(tok.text), exponent)
         IN  IF Len(tok.text) > MaxWidth THEN 0
             ELSE Span(n(FALSE)) * (IF n(TRUE) = 0 THEN 1 ELSE Span(n(TRUE)))

\* Two texts have two aliases for as long as there are aliases of their width:
\* the n-th text of a statement is told from those before it while n is one of
\* them, even where other texts of other widths came between.
DistinctWhileRoom ==
    phase \in {"rendering", "done"} =>
      \A j, k \in 1..Len(Given) :
         /\ Sensitive(Given, j) /\ Sensitive(Given, k) /\ Key(Given[j]) # Key(Given[k])
         /\ (Given[j].type = "number") = (Given[k].type = "number")
         /\ Rank(j) < Room(Given[j]) /\ Rank(k) < Room(Given[k])
       => tokens[j].text # tokens[k].text

\* The characters of tokens up to the j-th that the token before it was read
\* from too: each is written once more than it was read.
Shared(ts, j) ==
    {p \in (1..j) \X (0..Len(sql)) : ts[p[1]].start <= p[2] /\ p[2] < EndBefore(ts, p[1])}

\* Character k of the result stands where a token is written as it stands whose
\* characters the token before it was read from too.
ReadTwice(k) ==
    \E j \in 1..Len(Given) :
       LET at == Given[j].start + Cardinality(Shared(Given, j))
       IN  /\ Verbatim(Given[j]) /\ Overlaps(Given, j)
           /\ k \in (at + 1)..(at + Width(Given[j]))

\* Character k of the result is one of the two that show what could not be read.
ShowsUnread(k) ==
    LET at == Unread(statement) + Cardinality(Shared(Given, Len(Given)))
    IN  statement.failed /\ k \in (at + 1)..(at + 2)

\* Nothing to hide is left of the statement, whichever token, comment, hint or
\* payload it was in, with three exceptions: for a dialect nobody knows the
\* statement is returned as it is (anonymize.go:67); the two characters that
\* show what could not be read; and the type of a number, which is written with
\* the characters of the number (7L becomes a number, 7L and 7L).  Those are
\* the only places of the result: the number itself is hidden where it stands.
NothingSpilled ==
    phase = "done" =>
      \A k \in 1..Len(out) :
         out[k] \in Secret => ~statement.known \/ ShowsUnread(k) \/ ReadTwice(k)
=============================================================================
