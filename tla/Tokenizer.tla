----------------------------- MODULE Tokenizer -----------------------------
(***************************************************************************)
(* The scan loop of sqlglot/tokenizer.go, one action per iteration.        *)
(*                                                                         *)
(* The statement is a sequence of lexemes rather than of characters: what  *)
(* one iteration of scan consumes is one element of the input, and the     *)
(* text of a token is the set of the lexemes it spells.  What is kept is   *)
(* the control that spans iterations: which token a comment is given to,   *)
(* the verbatim payload of a command (a nested scan whose tokens are       *)
(* thrown away), hints, line numbers, the scan-ahead for a heredoc tag     *)
(* that is then backed over, and the panic an unterminated lexeme raises.  *)
(* The exception is a number with a type's suffix (7L), from which one     *)
(* iteration adds three tokens: it is three lexemes, and three steps that  *)
(* no other step can come between.                                         *)
(***************************************************************************)
EXTENDS Integers, Sequences, FiniteSets

CONSTANT Inputs  \* the statements, sequences of lexemes

(***************************************************************************)
(* "word" is a token of no special role; "text" a token that contains a    *)
(* line break; "cmd" a word in cfg.Commands; "begin" a word in             *)
(* CommandPrefixTokens; "select" one in TokensPrecedingHint; "dollar" the  *)
(* $ of a positional parameter; "typed", "cast" and "type" are the number, *)
(* the :: and the type a number with a suffix is added as; "comment" a     *)
(* block comment, "spread" one over two lines, "hint" one that opens with  *)
(* cfg.HintStart, "line" a comment up to the end of the line; "open" a     *)
(* string or block comment that is never closed.                           *)
(***************************************************************************)
Suffixed == <<"typed", "cast", "type">>
Plain    == {"word", "text", "cmd", "begin", "select", "semi", "typed", "cast", "type"}
Comments == {"comment", "spread", "hint", "line"}
Blanks   == {"space", "nl"}
Lexemes  == Plain \cup Comments \cup Blanks \cup {"dollar", "open"}

\* What the lexemes of a statement can look like: a line comment ends at a
\* break or at the end, a parameter's $ is followed by its number, a number
\* with a suffix is its three lexemes, and nothing follows one never closed.
WellFormed(in) ==
    \A i \in 1..Len(in) :
        /\ in[i] \in Lexemes
        /\ in[i] = "line" /\ i < Len(in) => in[i + 1] = "nl"
        /\ in[i] = "dollar" => i < Len(in) /\ in[i + 1] = "word"
        /\ \A k \in 1..Len(Suffixed) : in[i] = Suffixed[k] =>
               \A m \in 1..Len(Suffixed) : i - k + m \in 1..Len(in) /\ in[i - k + m] = Suffixed[m]
        /\ in[i] = "open" => i = Len(in)

ASSUME InputsAssumption ==
    Inputs # {} /\ \A in \in Inputs : in \in Seq(Lexemes) /\ WellFormed(in)

VARIABLES
    input,          \* t.sql
    cur,            \* t.current: how many lexemes are consumed
    start,          \* t.start
    line,           \* t.line, the line of the last lexeme consumed
    prevTokenLine,  \* t.prevTokenLine
    comments,       \* t.comments, waiting for a token
    tokens,         \* t.tokens
    frames,         \* the calls of add that are inside their scan(true)
    result          \* "scanning", "tokens" or "error"

vars == <<input, cur, start, line, prevTokenLine, comments, tokens, frames, result>>

Token ==
    [type : Lexemes \cup {"string"}, text : SUBSET Nat, line : Nat,
     start : Nat, end : Nat, comments : Seq(Nat)]

Frame == [n : Nat, start : Nat]

----------------------------------------------------------------------------

AtEnd == cur = Len(input)
Next1 == input[cur + 1]
PeekIs(i, kind) == i < Len(input) /\ input[i + 1] = kind

\* advance counts a line break when it leaves it, not when it reaches it.
\* Mutant of LineNow: a break that advance leaves is not counted.
LineKept == line
LineNow == IF cur > 0 /\ input[cur] = "nl" THEN line + 1 ELSE line

Breaks(from, to) ==
    Cardinality({i \in from..to : input[i] \in {"nl", "spread", "text"}})

\* appendComments.
\* Mutant of Attach: the new comments replace those the token has.
AttachOnly(ts, cs) == [ts EXCEPT ![Len(ts)].comments = cs]
Attach(ts, cs) == [ts EXCEPT ![Len(ts)].comments = @ \o cs]

\* add: pending comments go to the token being added, except that those
\* before a semicolon go to the token before it.
\* Mutant of Add: the comments before a semicolon stay with it.
AddToSemicolon(type, text, ln, st, end) ==
    Append(tokens, [type |-> type, text |-> text, line |-> ln, start |-> st,
                    end |-> end, comments |-> comments])
Add(type, text, ln, st, end) ==
    LET tok(cs) == [type |-> type, text |-> text, line |-> ln, start |-> st,
                    end |-> end, comments |-> cs]
    IN  IF comments # <<>> /\ type = "semi" /\ tokens # <<>>
        THEN Append(Attach(tokens, comments), tok(<<>>))
        ELSE Append(tokens, tok(comments))

\* Where a word in cfg.Commands takes what follows verbatim.
\* Mutant of StartsCommand: the look at the next character is dropped.
StartsCommandBlindly(i) ==
    input[i] = "cmd" /\ (tokens = <<>> \/ tokens[Len(tokens)].type \in {"semi", "begin"})
StartsCommand(i) ==
    /\ input[i] = "cmd"
    /\ ~PeekIs(i, "semi")
    /\ tokens = <<>> \/ tokens[Len(tokens)].type \in {"semi", "begin"}

----------------------------------------------------------------------------

Init ==
    /\ input \in Inputs
    /\ cur = 0 /\ start = 0
    /\ line = 1 /\ prevTokenLine = -1
    /\ comments = <<>> /\ tokens = <<>> /\ frames = <<>>
    /\ result = "scanning"

\* The loop of the innermost scan is over.  A nested scan looks for the
\* semicolon after each lexeme, so not before its first one.
LoopEnds ==
    \/ AtEnd
    \/ frames # <<>> /\ cur > frames[Len(frames)].start /\ PeekIs(cur, "semi")

Scanning == result = "scanning" /\ ~LoopEnds

\* What scan advances by: the blanks it skipped, or one character.
\* Mutant of Offset: without blanks it does not advance.
BlanksSkipped == IF Next1 = "space" THEN 1 ELSE 0
Offset == 1

\* A run of blanks leaves t.start behind it; a line break does not.
ScanBlank ==
    /\ Scanning
    /\ Next1 \in Blanks
    /\ cur' = cur + Offset
    /\ start' = IF Next1 = "space" THEN cur + 2 ELSE cur + 1
    /\ line' = LineNow
    /\ UNCHANGED <<input, prevTokenLine, comments, tokens, frames, result>>

\* Mutant of Opened: the token count is taken before the command is added.
OpenedBefore(i) == Append(frames, [n |-> Len(tokens), start |-> i])
Opened(i) == Append(frames, [n |-> Len(tokens) + 1, start |-> i])

\* scanKeywords, scanVar, scanNumber, scanString, scanIdentifier: one token,
\* and one of the three of a number with a suffix.
ScanToken ==
    LET i == cur + 1
        ln == LineNow + Breaks(i, i)
    IN  /\ Scanning
        /\ Next1 \in Plain
        /\ cur' = i /\ start' = i
        /\ line' = ln /\ prevTokenLine' = ln
        /\ tokens' = Add(Next1, {i}, ln, i, i)
        /\ comments' = <<>>
        /\ frames' = IF StartsCommand(i) THEN Opened(i) ELSE frames
        /\ UNCHANGED <<input, result>>

\* The breaks a heredoc tag's scan counts before it is backed over: those up
\* to the next $ or the end, and once more the one it backs over first.
TagLines(i) ==
    LET tag == {j \in (i + 1)..Len(input) : \A m \in (i + 1)..j : input[m] # "dollar"}
        again == \E j \in tag : input[j] = "nl" /\ PeekIs(j, "dollar")
    IN  Cardinality({j \in tag : input[j] \in {"nl", "spread", "text"}})
            + (IF again THEN 1 ELSE 0)

\* scanString on a $ that turns out to open no heredoc.
ScanParameter ==
    LET i == cur + 1
        ln == LineNow + TagLines(i)
    IN  /\ Scanning
        /\ Next1 = "dollar"
        /\ cur' = i /\ start' = i
        /\ line' = ln /\ prevTokenLine' = ln
        /\ tokens' = Add("dollar", {i}, ln, i, i)
        /\ comments' = <<>>
        /\ UNCHANGED <<input, frames, result>>

IsHint(i) ==
    input[i] = "hint" /\ tokens # <<>> /\ tokens[Len(tokens)].type = "select"

\* Mutant of SameLine: a comment trails a token it is one line below.
SameLineOrNext(ln) == ln \in {prevTokenLine, prevTokenLine + 1}
SameLine(ln) == ln = prevTokenLine

\* A comment on the line of the previous token is that token's; another waits.
ScanComment ==
    LET i == cur + 1
        endLine == LineNow + Breaks(i, i)
        pending == Append(comments, i)
    IN  /\ Scanning
        /\ Next1 \in Comments
        /\ cur' = i /\ start' = i
        /\ line' = endLine
        /\ ~IsHint(i)
        /\ IF SameLine(LineNow)
           THEN /\ tokens' = Attach(tokens, pending)
                /\ comments' = <<>>
                /\ prevTokenLine' = endLine
           ELSE /\ comments' = pending
                /\ UNCHANGED <<tokens, prevTokenLine>>
        /\ UNCHANGED <<input, frames, result>>

\* After SELECT and its like a hint is a token, and its own comment.
ScanHint ==
    LET i == cur + 1
        endLine == LineNow + Breaks(i, i)
    IN  /\ Scanning
        /\ Next1 = "hint"
        /\ IsHint(i)
        /\ cur' = i /\ start' = i
        /\ line' = endLine /\ prevTokenLine' = endLine
        /\ tokens' = Append(tokens,
               [type |-> "hint", text |-> {i}, line |-> endLine, start |-> i,
                end |-> i, comments |-> Append(comments, i)])
        /\ comments' = <<>>
        /\ UNCHANGED <<input, frames, result>>

\* The panic of an unterminated lexeme is recovered in tokenizeRaw: no tokens.
Fail ==
    /\ Scanning
    /\ Next1 = "open"
    /\ result' = "error"
    /\ UNCHANGED <<input, cur, start, line, prevTokenLine, comments, tokens, frames>>

\* The payload of a command with its blanks trimmed.
Payload(from, to) == {i \in from..to : input[i] \notin Blanks}

\* Mutant of Kept: one token of the nested scan survives.
KeptOneMore(ts, n) == SubSeq(ts, 1, IF n < Len(ts) THEN n + 1 ELSE n)
Kept(ts, n) == SubSeq(ts, 1, n)

\* The nested scan of add returns, at a semicolon or at the end: pending
\* comments go to the last token, the nested tokens are dropped and the text
\* they stood for becomes one string.
EndPayload ==
    LET f == frames[Len(frames)]
        payload == Payload(f.start + 1, cur)
        kept == Kept(IF comments = <<>> THEN tokens ELSE Attach(tokens, comments), f.n)
    IN  /\ result = "scanning"
        /\ frames # <<>>
        /\ LoopEnds
        /\ frames' = SubSeq(frames, 1, Len(frames) - 1)
        /\ IF payload = {}
           THEN /\ tokens' = kept
                /\ UNCHANGED <<comments, prevTokenLine>>
           ELSE /\ tokens' = Append(kept,
                       [type |-> "string", text |-> payload, line |-> line,
                        start |-> start, end |-> cur, comments |-> comments])
                /\ comments' = <<>>
                /\ prevTokenLine' = line
        /\ UNCHANGED <<input, cur, start, line, result>>

\* The outermost scan ends: pending comments go to the last token.
\* Mutant of Flushed: comments at the end of the statement are forgotten.
Unflushed == tokens
Flushed == IF tokens # <<>> /\ comments # <<>> THEN Attach(tokens, comments) ELSE tokens

Return ==
    /\ result = "scanning"
    /\ AtEnd
    /\ frames = <<>>
    /\ tokens' = Flushed
    /\ result' = "tokens"
    /\ UNCHANGED <<input, cur, start, line, prevTokenLine, comments, frames>>

Next ==
    \/ ScanBlank \/ ScanToken \/ ScanParameter \/ ScanComment \/ ScanHint
    \/ Fail \/ EndPayload \/ Return

\* The loop runs on the caller's goroutine without waiting for anyone.
Spec == Init /\ [][Next]_vars /\ WF_vars(Next)

----------------------------------------------------------------------------
\* Properties

TypeOK ==
    /\ input \in Seq(Lexemes) /\ WellFormed(input)
    /\ cur \in 0..Len(input)
    /\ start \in 0..(Len(input) + 1)
    /\ line \in Nat \ {0}
    /\ prevTokenLine \in {-1} \cup Nat
    /\ comments \in Seq(Nat)
    /\ tokens \in Seq(Token)
    /\ frames \in Seq(Frame)
    /\ \A k \in 1..Len(frames) : frames[k].n \in 1..Len(tokens) /\ frames[k].start \in 1..cur
    /\ result \in {"scanning", "tokens", "error"}

Spelled == UNION {tokens[k].text : k \in 1..Len(tokens)}

\* tokenizer.go:376-397.  The verbatim string of a command never contains a
\* semicolon outside a comment or a string, however deep commands nest, and
\* reaches up to the semicolon or the end of the statement.
PayloadStopsAtSemicolon ==
    \A k \in 1..Len(tokens) :
        tokens[k].type = "string" =>
            /\ \A i \in tokens[k].text : input[i] # "semi"
            /\ tokens[k].end = Len(input) \/ input[tokens[k].end + 1] = "semi"

\* tokenizer.go:388-397.  Once scanned, every lexeme that is neither blank nor
\* comment is spelled by exactly one token, and the tokens stand in the order
\* of the statement: the tokens dropped from a payload are all in its string.
NothingLost ==
    result = "tokens" =>
        /\ \A i \in 1..Len(input) : input[i] \notin Blanks \cup Comments => i \in Spelled
        /\ \A k, m \in 1..Len(tokens) : k < m =>
               \A i \in tokens[k].text, j \in tokens[m].text : i < j

Holders(c) == {k \in 1..Len(tokens) : \E p \in 1..Len(tokens[k].comments) :
                                          tokens[k].comments[p] = c}

\* The token the comment c is about: the one before it when it is on its line,
\* at a semicolon or at the end, otherwise the one after it.
Owner(c) ==
    LET before == {k \in 1..Len(tokens) : \A i \in tokens[k].text : i < c}
        after  == {k \in 1..Len(tokens) : \A i \in tokens[k].text : i > c}
        prev   == CHOOSE k \in before : \A m \in before : m <= k
        next   == CHOOSE k \in after : \A m \in after : k <= m
        trails == \E i \in tokens[prev].text :
                      \A j \in (i + 1)..c : j \notin tokens[prev].text /\ input[j] # "nl"
    IN  IF before = {} THEN next
        ELSE IF after = {} \/ trails \/ tokens[next].type = "semi" THEN prev
        ELSE next

\* tokenizer.go:14, 362-365, 523-527.  Every comment outside a payload is given
\* once, to the token it is about, whatever line numbers the scan computes.
CommentsReachTheirToken ==
    result = "tokens" /\ tokens # <<>> =>
        \A c \in 1..Len(input) : input[c] \in Comments /\ c \notin Spelled =>
            /\ Holders(c) = {Owner(c)}
            /\ \A k \in Holders(c) :
                   Cardinality({p \in 1..Len(tokens[k].comments) : tokens[k].comments[p] = c}) = 1

\* tokenizer.go:300-307.  Without a parameter to scan ahead for, a token's line
\* is one more than the line breaks the scan has left behind.
LinesCountBreaks ==
    result = "tokens" /\ (\A i \in 1..Len(input) : input[i] # "dollar") =>
        \A k \in 1..Len(tokens) :
            LET e == tokens[k].end
            IN  tokens[k].line = 1 + Breaks(1, e) - (IF input[e] = "nl" THEN 1 ELSE 0)

\* tokenizer.go:392.  What was scanned before the outermost open command is
\* never dropped or rewritten; it can only be given more comments.
SettledTokensStay ==
    [][LET n == IF frames = <<>> THEN Len(tokens) ELSE frames[1].n
       IN  /\ Len(tokens') >= n
           /\ \A k \in 1..n :
                  /\ [tokens'[k] EXCEPT !.comments = <<>>] = [tokens[k] EXCEPT !.comments = <<>>]
                  /\ \E m \in 0..Len(tokens'[k].comments) :
                         SubSeq(tokens'[k].comments, 1, m) = tokens[k].comments]_vars

\* tokenizer.go:221-259, 699-706.  Every statement is tokenized or refused:
\* whatever the scan skips or backs over, it goes on.
TokenizeReturns == <>(result # "scanning")

=============================================================================
