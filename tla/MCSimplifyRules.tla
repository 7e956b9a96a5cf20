--------------------------- MODULE MCSimplifyRules ---------------------------
(***************************************************************************)
(* Small instances of SimplifyRules: for each group of rules the trees,    *)
(* over four columns, small enough for every combination of its operands   *)
(* to be tried. p and q are conditions, x is a number and t a date with a  *)
(* clock, each may be NULL. The year has four months of 4, 2, 3 and 2      *)
(* days, the week three days and the day two instants.                     *)
(***************************************************************************)
EXTENDS SimplifyRules

p == Column(1)
q == Column(2)
x == Column(3)

t == Column(4)

MCMonthStarts == <<0, 4, 6, 9>>
BeforeTheFirst == -1

\* A table of p, q and x, and one of t.
MCRows ==
  LET truths == {NULL, <<0>>, <<1>>}
      numbers == {NULL} \cup {<<n>> : n \in 0..3}
      instants == {NULL} \cup {<<n>> : n \in 4..30}
  IN  {<<a, b, c>> : a, b \in truths, c \in numbers} \cup {[k \in {4} |-> d] : d \in instants}

N(n) == Literal(n)
P(e) == Unary("Paren", e)
Not(e) == Unary("Not", e)
IsNull(e) == Binary("Is", e, Null)
AndOr == {"And", "Or"}
Pairs(classes, A, B) == {Binary(c, a, b) : c \in classes, a \in A, b \in B}
Parens(S) == {P(e) : e \in S}
Nots(S) == {Not(e) : e \in S}

-----------------------------------------------------------------------------
(* Connectors: constants, repeated operands, complements, subsets, pairs   *)
(* that differ in one complement.                                          *)

Conditions == {p, q, IsNull(x), Not(IsNull(x)), boolLit(TRUE), boolLit(FALSE),
               Null, N(0), N(1)}
Operands == {p, q, Not(p), IsNull(x), Not(IsNull(x)), Null}
Nonnull == {IsNull(x), Not(IsNull(x)), IsNull(q), Not(IsNull(q))}

Twos == Pairs(Connector, Conditions, Conditions)
Threes == Pairs(AndOr, Operands, Parens(Pairs(AndOr, Operands, Operands)))
Negations == Nots(Conditions \cup Parens(Twos)) \cup Nots(Nots(Conditions))

Chains ==
  UNION {LET Group(A, B) == Parens(Pairs({Opposite(c)}, A, B))
             Pair == Pairs({Opposite(c)}, {p}, {q})
         IN  \* (A OR B) AND (C OR D)
             Pairs({c}, Group(Nonnull, {p} \cup Nonnull), Group({p} \cup Nonnull, {p} \cup Nonnull))
             \* A AND B AND (C OR D), where C is no negation
             \cup Pairs({c}, Pairs({c}, Operands, {p} \cup Nonnull),
                             Group({p, IsNull(q)}, {p} \cup Nonnull))
             \* (p OR q OR A) AND (p OR q OR B) AND C
             \cup Pairs({c}, Pairs({c}, Group(Pair, Nonnull), Group(Pair, Nonnull)),
                             {p, IsNull(x), Binary("EQ", x, N(1))})
         : c \in AndOr}

Connected == Twos \cup Threes \cup Negations \cup Chains

-----------------------------------------------------------------------------
(* Comparisons of one column with constants, two or three of them.         *)

Bounds == Pairs(Comparing, {x}, {N(1), N(2)})
BoundPairs == Pairs(AndOr, Bounds, Bounds)
Compared ==
  Pairs(Comparing, {p, x}, {p, x}) \cup BoundPairs \cup Nots(Bounds \cup Parens(BoundPairs))
    \cup UNION {Pairs({c}, Pairs({c}, Bounds, Bounds),
                           Pairs({"LT", "EQ"}, {x}, {N(2)})) : c \in AndOr}

-----------------------------------------------------------------------------
(* COALESCE, CASE, IF and BETWEEN.                                         *)

Coalesce(args) == Node("Coalesce", args)
Coalesced ==
  LET calls == {Coalesce(<<x>>), Coalesce(<<x, N(1)>>), Coalesce(<<x, Null, N(2)>>),
                Coalesce(<<x, q, N(1)>>)}
      compared == Pairs(Comparing, calls, {N(1), Null}) \cup Pairs(Comparing, {N(1)}, calls)
                    \cup {IsNull(c) : c \in calls}
  IN  compared \cup Nots(compared)
        \cup Nots(Parens(Pairs({"And"}, compared, {p})))
        \cup Pairs(AndOr, compared, {IsNull(x), Binary("LT", x, N(2))})

Branch(condition, value) == Node("If", <<condition, value>>)
Chosen ==
  LET conditions == {p, boolLit(TRUE), boolLit(FALSE), Null, N(0), Binary("EQ", x, Null),
                     Binary("LT", N(1), N(2)), Binary("GT", x, N(1))}
      whens == {N(1), N(2), Null, x}
      defaults == {None, N(3)}
      searched == {Node("Case", <<None, d, Branch(a, N(1)), Branch(b, N(2))>>) :
                     d \in defaults, a, b \in conditions}
      simple == {Node("Case", <<s, d, Branch(a, N(1)), Branch(b, Binary("Add", x, N(2)))>>) :
                     s \in {x, N(1), Binary("Add", x, N(1))}, d \in defaults, a, b \in whens}
      ifs == {Node("If", <<a, N(1), b>>) : a \in conditions, b \in defaults}
      choices == searched \cup simple \cup ifs
  IN  choices \cup Pairs({"Mul"}, simple \cup ifs, {N(2)}) \cup Nots(Parens(searched \cup ifs))

\* Their operand is the column or a constant; the bounds beside a comparison
\* are constants.
Between(e, low, high) == Node("Between", <<e, low, high>>)
InRange ==
  LET ends == {N(0), N(2), Null}
      ranges == {Between(e, a, b) : e \in {x, N(1), Coalesce(<<x, N(1)>>)}, a, b \in ends}
  IN  ranges \cup Nots(ranges \cup Parens(ranges))
        \cup {Between(N(1), a, b) : a, b \in ends \cup {x}}
        \cup Pairs(AndOr, ranges, {p, Binary("LT", x, N(2))})

-----------------------------------------------------------------------------
(* Arithmetic of integers, and comparisons of it.                          *)

Calculated ==
  LET sides == {N(1), N(2), x}
      simple == Pairs(Arithmetic, {x}, {N(1), N(2)}) \cup Pairs(Arithmetic, {N(1), N(2)}, {x})
      grouped == Parens(simple \cup Pairs(Arithmetic, {N(2)}, {N(1)}))
      minus == {Unary("Neg", e) : e \in grouped \cup {N(1), x}}
      nested == Pairs(Arithmetic, grouped, {x, N(2)}) \cup Pairs({"Sub", "Mul"}, {x, N(2)}, grouped)
  IN  nested \cup minus \cup {Unary("Neg", P(m)) : m \in minus}
        \cup Pairs(Comparing, simple \cup nested, {N(3), Unary("Neg", N(1)), x})
        \cup Pairs(Comparing, {N(3), x}, simple)

-----------------------------------------------------------------------------
(* Dates: truncated, compared, moved by intervals.                         *)

On(day) == dateValueLiteral(day * HoursADay, "Date")
At(instant) == dateValueLiteral(instant, "Datetime")
Unit(name) == Node(name, <<>>)
Trunc(unit, e) == Binary("DateTrunc", e, Unit(unit))
In(e, members) == Node("In", <<e>> \o members)
By(n, unit) == Interval(numberLit(n), Unit(unit))
Moments == {On(day) : day \in {3, 4, 5, 6, 8, 9, 11}} \cup {At(9), At(13)}

Truncated ==
  LET calls == {Trunc(u, t) : u \in truncUnits}
      compared == Pairs(Comparing, calls, Moments)
      some == Pairs({"EQ", "NEQ", "LT", "GTE"}, {Trunc("MONTH", t), Trunc("WEEK", t)}, {On(4), On(6)})
      bounds == Pairs({"LT", "GT", "EQ"}, {t}, {On(5), On(9), At(13)})
      lists == {In(c, <<On(a), On(b), d>>) : c \in calls, a, b \in {4, 6, 9}, d \in {On(4), On(8), At(22)}}
  IN  compared \cup Nots(compared \cup lists) \cup lists
        \cup Pairs(Comparing, {On(6), At(13)}, calls)
        \cup Pairs(AndOr, some, some \cup bounds \cup {In(Trunc("MONTH", t), <<On(4), On(9)>>)})
        \cup Nots(Parens(Pairs(AndOr, some, bounds)))
        \cup {Between(Trunc(u, t), On(5), d) : u \in truncUnits, d \in {On(9), At(13)}}
        \cup {Binary("LTE", t, Trunc(u, d)) : u \in truncUnits, d \in Moments}

\* An INTERVAL that leads is a duration; a literal without a clock is not moved
\* by less than a day; no comparison stands beside such a one.
Moved ==
  LET days == {By(n, u) : n \in {1, 2, -1}, u \in {"DAY", "WEEK"}}
      months == {By(n, u) : n \in {1, 3, -1}, u \in {"MONTH", "QUARTER"}}
      sums == Pairs({"Add", "Sub"}, {t}, days \cup months) \cup Pairs({"Add"}, days, {t})
      hours == Pairs({"Add", "Sub"}, {t}, {By(1, "HOUR")})
      calls == {Node(c, <<t, numberLit(n), Unit(u)>>) :
                  c \in AddsDays, n \in {1, -2}, u \in {"DAY", "MONTH", "YEAR"}}
      literals == Pairs({"Add", "Sub"}, {On(8), At(13), At(33)}, days \cup months)
                    \cup {Node(c, <<At(9), N(n), Unit(u)>>) : c \in AddsDays, n \in {1, 9}, u \in {"DAY", "MONTH"}}
  IN  Pairs(Comparing, sums \cup calls, Moments) \cup Pairs(Comparing, hours, {At(9), At(12)})
        \cup Pairs({"LT", "NEQ"}, Moments, sums)
        \cup Pairs({"LT", "EQ"}, {t}, literals)
        \cup Nots(Pairs({"LT", "EQ"}, sums, {On(6), At(13)}))

Trees == Connected \cup Compared \cup Coalesced \cup Chosen \cup InRange \cup Calculated
           \cup Truncated \cup Moved

-----------------------------------------------------------------------------
(* NOT A OR NOT B beside A and B, where neither A nor B is ever NULL.      *)

BothDenied == Pairs({"And"}, Pairs({"And"}, {IsNull(q)}, {IsNull(x)}),
                             Parens(Pairs({"Or"}, {Not(IsNull(q)), Not(p)},
                                                  {Not(IsNull(x)), Not(p)})))
=============================================================================
