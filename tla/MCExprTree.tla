----------------------------- MODULE MCExprTree -----------------------------
EXTENDS ExprTree

CONSTANTS MaxSpine,   \* bound: operators stacked over a projected leaf
          Kinds       \* which families of trees are parsed

Col(a) == <<"Column", <<a, 0>>, <<>>>>
Leaf(class) == <<class, NoName, <<>>>>
Over(class, kids) == <<class, NoName, kids>>
Text(word) == <<"Literal", <<word, 0>>, <<>>>>
Named(name, kid) == <<"Alias", <<name, 0>>, <<kid>>>>

\* A heap from the class, name and children of its nodes.
Tree(s) ==
  [n \in DOMAIN s |->
     [class |-> s[n][1], name |-> s[n][2], kids |-> s[n][3],
      parent |-> IF \E m \in DOMAIN s : n \in Range(s[m][3])
                 THEN CHOOSE m \in DOMAIN s : n \in Range(s[m][3]) ELSE Nil]]

\* SELECT <ops over leaf> FROM t [WHERE cond]
Spine(ops, leaf, cond) ==
  LET k == Len(ops)
      where == IF cond = "none" THEN 0 ELSE 4 + k
  IN <<Over("Select", <<2, where, 0, 3>>), Leaf("From")>>
     \o [i \in 1..k |-> Over(ops[i], <<3 + i>>)]
     \o <<IF leaf = "Column" THEN Col("a") ELSE Leaf(leaf)>>
     \o (IF cond = "none" THEN <<>>
         ELSE <<Over("Where", <<5 + k>>), IF cond = "True" THEN Leaf("True") ELSE Col("b")>>)

Spines ==
  {Spine(ops, leaf, cond) :
     ops \in UNION {[1..k -> {"Neg", "Paren"}] : k \in 0..MaxSpine},
     leaf \in {"Column", "Add"}, cond \in {"none", "True", "Column"}}

\* SELECT LEN(CAST(a AS TEXT)), BOOL_OR(b) FROM t, and the amount of an INTERVAL.
Casts == {Spine(<<"Length", "Cast">>, "Column", "Column"),
          Spine(<<"LogicalOr">>, "Column", "True"),
          Spine(<<"Neg", "LogicalOr", "Cast">>, "Column", "none")}
Intervals == {Spine(<<"Interval", "Neg">>, "Literal", "none"),
              Spine(<<"Neg", "Paren", "Neg", "Interval", "Neg", "Neg">>, "Column", "True")}

\* SELECT TIME_TO_STR(a, format) FROM t, the format a text or read from a column, and
\* TIME_TO_STR(-TIME_TO_STR(a, '%Y'), '%Y').
Formatted(format) ==
  <<Over("Select", <<2, 0, 0, 3>>), Leaf("From"), Over("TimeToStr", <<4, 5>>), Col("a"), format>>
FormattedTwice ==
  <<Over("Select", <<2, 0, 0, 3>>), Leaf("From"), Over("TimeToStr", <<4, 5>>), Over("Neg", <<6>>),
    Text("%Y"), Over("TimeToStr", <<7, 8>>), Col("a"), Text("%Y")>>
Formats == {Formatted(f) : f \in {Text("%Y"), Text("x"), Col("b")}} \cup {FormattedTwice}

\* SELECT a FROM t WHERE b AND a, b AND b = 1.
Conjoined(rest) ==
  <<Over("Select", <<2, 4, 0, 3>>), Leaf("From"), Col("a"), Over("Where", <<5>>),
    Over("And", <<6, 7>>), Col("b")>> \o rest
Conjuncts == {Conjoined(<<Col("a")>>), Conjoined(<<Over("EQ", <<8, 9>>), Col("b"), Leaf("Literal")>>)}

\* SELECT p FROM t QUALIFY filter, the nodes of the filter from number 6 on.
Qualified(projection, filter) ==
  <<Over("Select", <<2, 0, 4, 3>>), Leaf("From"), projection, Over("Qualify", <<6>>), Col("x")>>
  \o filter

\* ROW_NUMBER() OVER (ORDER BY a) [= 1], alone and beside a column.
Windowed == <<Over("Window", <<7>>), Col("a")>>
WindowIsOne == <<Over("EQ", <<7, 9>>), Over("Window", <<8>>), Col("a"), Leaf("Literal")>>
OneIsWindow == <<Over("EQ", <<9, 7>>), Over("Window", <<8>>), Col("a"), Leaf("Literal")>>
WindowAndColumn(c) ==
  <<Over("And", <<7, 10>>), Over("EQ", <<8, 12>>), Over("Window", <<9>>), Col("a"),
    Over("EQ", <<11, 13>>), Col(c), Leaf("Literal"), Leaf("Literal")>>
ColumnTwice ==
  <<Over("And", <<7, 10>>), Over("EQ", <<8, 9>>), Col("b"), Leaf("Literal"),
    Over("EQ", <<11, 12>>), Col("b"), Leaf("Literal")>>
TwoWindows ==
  <<Over("And", <<7, 11>>), Over("EQ", <<8, 10>>), Over("Window", <<9>>), Col("a"), Leaf("Literal"),
    Over("EQ", <<12, 14>>), Over("Window", <<13>>), Col("a"), Leaf("Literal")>>

Qualifies ==
  {Qualified(p, f) :
     p \in {Col("a"), Named("a", 5), Named("_w", 5), Over("Neg", <<5>>), Leaf("Star")},
     f \in {Windowed, WindowIsOne, OneIsWindow, WindowAndColumn("b"), WindowAndColumn("a"),
           ColumnTwice, TwoWindows}}
OneWindow == {Qualified(Named("a", 5), WindowIsOne)}
Shapes == [spine |-> Spines, cast |-> Casts, interval |-> Intervals,
           format |-> Formats, conjunct |-> Conjuncts, qualify |-> Qualifies, window |-> OneWindow]
Trees == {Tree(s) : s \in UNION {Shapes[k] : k \in Kinds}}
=============================================================================
