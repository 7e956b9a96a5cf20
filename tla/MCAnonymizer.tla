---------------------------- MODULE MCAnonymizer ----------------------------
EXTENDS Anonymizer, SequencesExt

CONSTANTS MaxLexemes,  \* bound: lexemes of a statement
          Lexemes      \* which lexemes there are

TwoLetters == <<"a", "b">>
ThreeDigits == <<"0", "1", "2">>

\* The tokens of a lexeme, the places of each counted from the lexeme's start.
At(type, text, from, to) == [type |-> type, text |-> text, start |-> from, end |-> to]
Whole(type, text) == [span |-> text, tokens |-> <<At(type, text, 0, Len(text) - 1)>>]
Read(type, text, span) == [span |-> span, tokens |-> <<At(type, text, 0, Len(span) - 1)>>]

Spelling ==
  [p        |-> Whole("var", <<"p">>),
   q        |-> Whole("var", <<"q">>),
   f        |-> Whole("var", <<"f">>),
   pq       |-> Whole("var", <<"p", "q">>),
   qp       |-> Whole("var", <<"q", "p">>),
   paren    |-> Whole("paren", <<"(">>),
   keyword  |-> Whole("word", <<"k", "k">>),
   empty    |-> Read("string", <<>>, <<"'", "'">>),
   quoted_p |-> Read("string", <<"p">>, <<"'", "p", "'">>),
   spaced   |-> Read("string", <<"q", " ", "p">>, <<"'", "q", " ", "p", "'">>),
   escaped  |-> Read("string", <<"q">>, <<"'", "esc", "q", "'">>),
   n7       |-> Whole("number", <<"7">>),
   n8       |-> Whole("number", <<"8">>),
   decimal  |-> Whole("number", <<"7", ".", "8">>),
   exponent |-> Whole("number", <<"8", "e", "-", "7">>),
   long     |-> Whole("number", <<"7", "8", "7", "8", "7">>),
   grouped  |-> Read("number", <<"7", "8">>, <<"7", "esc", "8">>),
   typed    |-> [span |-> <<"7", "k">>,
                 tokens |-> <<At("number", <<"7">>, 0, 1), At("word", <<"k">>, 0, 1),
                              At("word", <<"k">>, 0, 1)>>],
   comment  |-> [span |-> <<"open", "p", " ", "q", "close">>, tokens |-> <<>>],
   nested   |-> [span |-> <<"open", "p", "open", "q", "close", "7", "close">>, tokens |-> <<>>],
   hint     |-> Whole("hint", <<"open", "q", " ", "close">>),
   payload  |-> [span |-> <<"k", " ", "p", " ", "q">>,
                 tokens |-> <<At("word", <<"k">>, 0, 0), At("string", <<"p", " ", "q">>, 4, 4)>>]]

\* Each lexeme after a blank: the statement, and the tokens in their places.
Shifted(toks, n) == [k \in DOMAIN toks |-> [toks[k] EXCEPT !.start = @ + n, !.end = @ + n]]
Written(lexemes) ==
  FoldLeft(LAMBDA acc, x :
             [sql |-> acc.sql \o <<" ">> \o Spelling[x].span,
              tokens |-> acc.tokens \o Shifted(Spelling[x].tokens, Len(acc.sql) + 1)],
           [sql |-> <<>>, tokens |-> <<>>], lexemes)

\* A hint follows a keyword; a command begins a statement and takes the rest.
Possible(lexemes) ==
  \A j \in DOMAIN lexemes :
     /\ lexemes[j] = "hint" => j > 1 /\ lexemes[j - 1] = "keyword"
     /\ lexemes[j] = "payload" =>
          j = Len(lexemes) /\ \A k \in 1..(j - 1) : lexemes[k] \in {"comment", "nested", "keyword"}

Sequences == {ls \in UNION {[1..n -> Lexemes] : n \in 0..MaxLexemes} : Possible(ls)}

Statement(w, rest, failed) ==
  [sql |-> w.sql \o rest, tokens |-> w.tokens, failed |-> failed, known |-> TRUE]

\* A statement Athena gives to Hive: it begins with a keyword, with or without the
\* blank before it, and its tokens follow a marker that is placed at the first
\* character.
GivenToHive(w) ==
  [w EXCEPT !.tokens = <<At("marker", <<>>, 0, 0)>> \o @]
Unindented(w) == [sql |-> Tail(w.sql), tokens |-> Shifted(w.tokens, -1)]

\* A statement in a dialect nobody knows.
Unknown(w) == [sql |-> w.sql, tokens |-> <<>>, failed |-> FALSE, known |-> FALSE]

MCStatements ==
  LET read == {Written(ls) : ls \in Sequences}
      short == {Written(<<x>>) : x \in Lexemes \ {"hint"}}
      hive == {Written(ls) : ls \in {ls \in Sequences : Len(ls) \in {1, 2} /\ ls[1] = "keyword"}}
      unread == {Written(ls) : ls \in {ls \in Sequences : "payload" \notin ToSet(ls)}}
  IN  {Statement(w, <<>>, FALSE) : w \in read}
      \cup {Statement(GivenToHive(w), <<>>, FALSE) : w \in hive \cup {Unindented(w) : w \in hive}}
      \cup {Statement(w, <<" ", "'", "p", " ", "q">>, TRUE) : w \in unread}
      \cup {Unknown(w) : w \in short}
=============================================================================
