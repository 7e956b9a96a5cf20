---------------------------- MODULE SimplifyRules ----------------------------
(***************************************************************************)
(* The rules Simplify applies to conditions, comparisons, COALESCE, CASE,  *)
(* integer arithmetic (simplify.go), dates and intervals (date_arith.go,   *)
(* date_trunc.go), as functions from trees to trees, and the loop that     *)
(* applies them until nothing changes.                                     *)
(*                                                                         *)
(* A node is its class, its children in order and, for a name, a number or *)
(* a boolean, its value. An absent child is None. A simple CASE holds its  *)
(* subject first, its default second and its branches after them. A date   *)
(* literal is a node of its own, whatever casts it is written with, and    *)
(* names its type; a unit is a node, as in the code.                       *)
(***************************************************************************)
EXTENDS Integers, Sequences, FiniteSets, SequencesExt, DateRules

CONSTANTS
  Inputs,         \* the trees Simplify is called on
  Rows,           \* the rows of the tables they are asked of
  MaxPasses,      \* how often the loop may apply the rules (32)
  ExactIntegers   \* the integers float64 holds exactly reach this far (2^53)

ASSUME MaxPassesAssumption == MaxPasses \in Nat \ {0}
ASSUME ExactIntegersAssumption == ExactIntegers \in Nat /\ ExactIntegers % 4 = 0

VARIABLES
  origin,         \* the tree of the call
  expr,           \* what the rules have made of it so far
  pass,           \* how often they were applied
  done            \* Simplify has returned expr

vars == <<origin, expr, pass, done>>

-----------------------------------------------------------------------------
(* Trees. *)

Node(class, kids) == [class |-> class, kids |-> kids, value |-> 0]
None == Node("None", <<>>)
Null == Node("Null", <<>>)
boolLit(b) == [class |-> "Boolean", kids |-> <<>>, value |-> IF b THEN 1 ELSE 0]
Column(i) == [class |-> "Column", kids |-> <<>>, value |-> i]
Literal(n) == [class |-> "Literal", kids |-> <<>>, value |-> n]
Unary(class, e) == Node(class, <<e>>)
Binary(class, a, b) == Node(class, <<a, b>>)
this(e) == e.kids[1]
expression(e) == e.kids[2]

Connector == {"And", "Or", "Xor"}
Arithmetic == {"Add", "Sub", "Mul"}
DateClasses == {"Date", "Datetime"}
AddsDays == {"DateAdd", "DateSub"}
Units == DOMAIN monthUnits \cup DOMAIN durationUnits
BinaryClasses == Connector \cup Arithmetic \cup Comparing \cup {"Is"}
Predicate == Comparing \cup {"Is", "Between", "In"}
comparisons == Comparing \cup {"Is"}
booleanClasses == {"And", "Or", "Not", "Boolean", "Between", "In"} \cup comparisons

IsNullNode(e) == e.class = "Null"
isFalse(e) == e = boolLit(FALSE)

RECURSIVE isNumberLiteral(_)
isNumberLiteral(e) == e.class = "Literal" \/ (e.class = "Neg" /\ isNumberLiteral(this(e)))

\* The text of a Neg is not looked into: no negated number is a zero.
isZero(e) == e.class = "Literal" /\ e.value = 0
alwaysTrue(e) == e = boolLit(TRUE) \/ (isNumberLiteral(e) /\ ~ isZero(e))
alwaysFalse(e) == isFalse(e) \/ IsNullNode(e) \/ isZero(e)
isKnownBoolean(e) == e.class \in booleanClasses
isDateLiteral(e) == e.class \in DateClasses
isNonnullConstant(e) == e.class \in {"Literal", "Boolean"} \/ isDateLiteral(e)

RECURSIVE isConstant(_)
isConstant(e) ==
  \/ e.class \in {"Literal", "Boolean", "Null"} \/ isDateLiteral(e)
  \/ e.class = "Neg" /\ isConstant(this(e))

RECURSIVE unnest(_)
unnest(e) == IF e.class = "Paren" THEN unnest(this(e)) ELSE e

RECURSIVE isKnownNonnull(_)
isKnownNonnull(e) ==
  LET u == unnest(e)
  IN  \/ u.class \in {"Is", "Literal", "Boolean"}
      \/ u.class = "Not" /\ isKnownNonnull(this(u))
      \/ /\ u.class \in BinaryClasses
         /\ isNonnullConstant(this(u)) /\ isNonnullConstant(expression(u))

RECURSIVE chainOperands(_, _)
chainOperands(e, class) ==
  IF e.class # class THEN <<e>>
  ELSE chainOperands(this(e), class) \o chainOperands(expression(e), class)

\* A chain that leans left, and one that leans right.
RECURSIVE LeftChain(_, _)
LeftChain(class, ops) ==
  IF Len(ops) = 1 THEN ops[1] ELSE Binary(class, LeftChain(class, Front(ops)), Last(ops))

RECURSIVE RightChain(_, _)
RightChain(class, ops) ==
  IF Len(ops) = 1 THEN ops[1] ELSE Binary(class, ops[1], RightChain(class, Tail(ops)))

\* The first of some rewrites that found something to do, or else e.
OrElse(out, e) == IF out = None THEN e ELSE out
FirstOf(outs) ==
  LET found == {i \in DOMAIN outs : outs[i] # None}
  IN  IF found = {} THEN None ELSE outs[CHOOSE i \in found : \A j \in found : i <= j]

\* The sequence f, as TLC keeps it: its elements, not how to compute them.
Listed(f) == SubSeq(f, 1, Len(f))

-----------------------------------------------------------------------------
(* The text a node is written as, as far as sorting goes: a sequence of    *)
(* words that sorts as the text does.                                      *)

Space == 1
Rank == [LT |-> 20, LTE |-> 21, NEQ |-> 22, EQ |-> 23, GT |-> 24, GTE |-> 25,
         And |-> 30, Or |-> 44, Xor |-> 47, Is |-> 41, Add |-> 5, Sub |-> 7, Mul |-> 4]
Word == [open |-> 2, close |-> 3, comma |-> 6, minus |-> 7, Between |-> 31, Case |-> 32,
         Date |-> 33, Datetime |-> 33, Coalesce |-> 34, DateAdd |-> 35, DateSub |-> 36,
         DateTrunc |-> 37, false |-> 38, In |-> 39, Interval |-> 40, Not |-> 42, Null |-> 43,
         true |-> 45, If |-> 46,
         DAY |-> 50, HOUR |-> 51, MONTH |-> 52, QUARTER |-> 53, WEEK |-> 54, YEAR |-> 55]

RECURSIVE Text(_)
Text(e) ==
  LET kid(i) == Text(e.kids[i])
  IN  CASE e.class \in BinaryClasses ->
             kid(1) \o <<Space, Rank[e.class], Space>> \o kid(2)
        [] e.class = "Column" -> <<100 + e.value>>
        [] e.class = "Literal" -> <<8 + e.value>>
        [] e.class = "Boolean" -> <<IF e.value = 1 THEN Word.true ELSE Word.false>>
        [] e.class = "Null" -> <<Word.Null>>
        [] e.class = "None" -> <<>>
        [] e.class = "Paren" -> <<Word.open>> \o kid(1) \o <<Word.close>>
        [] e.class = "Not" -> <<Word.Not, Space>> \o kid(1)
        [] e.class = "Neg" -> <<Word.minus>> \o kid(1)
        [] isDateLiteral(e) -> <<Word[e.class], e.value, IF e.class = "Date" THEN 0 ELSE 1>>
        [] e.class = "In" -> kid(1) \o <<Space, Word.In>>
                               \o FlattenSeq([i \in DOMAIN e.kids |-> <<Word.comma>> \o kid(i)])
        [] OTHER -> <<Word[e.class]>> \o FlattenSeq([i \in DOMAIN e.kids |-> <<Word.comma>> \o kid(i)])

SortsBefore(s, t) ==
  \E i \in 1..(Len(t)) :
    /\ i <= Len(s) + 1
    /\ \A j \in 1..(i - 1) : s[j] = t[j]
    /\ i = Len(s) + 1 \/ s[i] < t[i]

\* The positions of a sequence of texts, in the order of the texts.
Sorted(keys) ==
  SortSeq([i \in DOMAIN keys |-> i],
          LAMBDA i, j : SortsBefore(keys[i], keys[j]) \/ (keys[i] = keys[j] /\ i < j))
Permuted(s, order) == Listed([i \in DOMAIN order |-> s[order[i]]])
SortKeys(ops) == Listed([i \in DOMAIN ops |-> Text(unnest(ops[i]))])

-----------------------------------------------------------------------------
(* Where a fold may leave a value, or a connector without its parentheses. *)

\* Mutant of parenthesizeNestedConnector: the connector is spliced in bare.
leaveNestedConnector(e, parent) == e

parenthesizeNestedConnector(e, parent) ==
  IF e.class \in Connector /\ (parent = "Not" \/ parent \in Connector \ {e.class})
  THEN Unary("Paren", e) ELSE e

keepCondition(folded, parent) ==
  IF folded.class \in {"And", "Or"} THEN parenthesizeNestedConnector(folded, parent)
  ELSE IF \/ folded.class = "Paren" /\ this(folded).class \in Connector
          \/ isKnownBoolean(folded) \/ parent \in Connector
  THEN folded
  ELSE parenthesizeNestedConnector(Binary("And", folded, boolLit(TRUE)), parent)

rebuildConnector(class, ops, parent) ==
  LET rebuilt == RightChain(class, ops)
  IN  IF rebuilt.class \in {"And", "Or"} THEN rebuilt
      ELSE keepCondition(unnest(rebuilt), parent)

wrapParenAlways(e) ==
  IF e = None THEN Null ELSE IF e.class = "Paren" THEN e ELSE Unary("Paren", e)

\* Mutant of elseArm: an absent arm is not looked for.
presentArm(e) == IF e.class = "Paren" THEN e ELSE Unary("Paren", e)

\* What a CASE or an IF of which no condition holds comes to.
elseArm(e) == IF e = None THEN Unary("Paren", Null) ELSE wrapParenAlways(e)

wrapBinary(e) == IF e.class \in BinaryClasses THEN Unary("Paren", e) ELSE e

-----------------------------------------------------------------------------
(* Numbers and comparisons. *)

\* float64: beyond ExactIntegers, and up to twice as far, every other integer.
Float(n) ==
  IF (n <= ExactIntegers /\ -n <= ExactIntegers) \/ n % 2 = 0 THEN n
  ELSE IF (n - 1) % 4 = 0 THEN n - 1 ELSE n + 1

RECURSIVE numberOf(_)
numberOf(e) == IF e.class = "Neg" THEN -numberOf(this(e)) ELSE Float(e.value)

numberLit(n) == IF n < 0 THEN Unary("Neg", Literal(-n)) ELSE Literal(n)

foldIntegerArithmetic(class, a, b) ==
  LET x == numberOf(a)
      y == numberOf(b)
  IN  numberLit(Float(CASE class = "Add" -> x + y [] class = "Sub" -> x - y
                        [] class = "Mul" -> x * y))

foldNumbers(class, a, b) ==
  IF ~ isNumberLiteral(a) \/ ~ isNumberLiteral(b) THEN None
  ELSE IF class \in Arithmetic THEN foldIntegerArithmetic(class, a, b)
  ELSE boolLit(Holds(class, numberOf(a), numberOf(b)))

\* The order of two constants of a kind.
AreComparable(a, b) ==
  (isNumberLiteral(a) /\ isNumberLiteral(b)) \/ (isDateLiteral(a) /\ isDateLiteral(b))
compareConstants(a, b) ==
  IF isDateLiteral(a) THEN sign(a.value, b.value) ELSE sign(numberOf(a), numberOf(b))

\* Two comparisons of one operand that is no constant.
simplifyComparison(left, right, or) ==
  LET shared == {i \in {1, 2} : \E j \in {1, 2} : /\ left.kids[i] = right.kids[j]
                                                  /\ ~ isConstant(left.kids[i])}
  IN  IF left.class \notin comparisons \/ right.class \notin comparisons \/ shared = {}
      THEN None
      ELSE LET s == left.kids[CHOOSE i \in shared : \A j \in shared : j <= i]
               Others(e) == {i \in {1, 2} : e.kids[i] # s}
               Other(e) == e.kids[CHOOSE i \in Others(e) : \A j \in Others(e) : i <= j]
           IN  IF \/ Others(left) = {} \/ Others(right) = {}
                  \/ ~ AreComparable(Other(left), Other(right))
               THEN None
               ELSE foldComparisons(left.class, right.class,
                      compareConstants(Other(left), Other(right)), or, left, right,
                      IF isKnownNonnull(left) /\ isKnownNonnull(right)
                      THEN boolLit(FALSE) ELSE None,
                      None)

Merged(class, a, b) ==
  IF class \in {"And", "Or"} THEN simplifyComparison(a, b, class = "Or")
                             ELSE foldNumbers(class, a, b)

\* What combines goes back to the front, where it may combine again.
RECURSIVE Unmerged(_, _)
Unmerged(class, queue) ==
  IF queue = <<>> THEN <<>>
  ELSE LET a == Head(queue)
           with == {i \in 2..Len(queue) : Merged(class, a, queue[i]) # None}
       IN  IF with = {} THEN <<a>> \o Unmerged(class, Tail(queue))
           ELSE LET i == CHOOSE i \in with : \A j \in with : i <= j
                IN  Unmerged(class, <<Merged(class, a, queue[i])>> \o Tail(RemoveAt(queue, i)))

Shortened(class, kept, ops) ==
  IF Len(kept) = Len(ops) THEN None ELSE LeftChain(class, kept)
flatMerge(ops, class) == Shortened(class, Unmerged(class, ops), ops)

flatFold(e) == OrElse(flatMerge(chainOperands(e, e.class), e.class), e)

flatFoldComparisons(e) ==
  LET ops == chainOperands(e, e.class)
  IN  IF Len(ops) < 3 THEN None ELSE flatMerge(ops, e.class)

simplifyIs(e) ==
  IF this(e).class \in {"Literal", "Boolean"} THEN boolLit(FALSE)
  ELSE IF IsNullNode(this(e)) THEN boolLit(TRUE) ELSE e

simplifyLiterals(e, parent) ==
  LET inner == unnest(this(e))
  IN  IF e.class = "Neg" THEN IF inner.class = "Neg" THEN this(inner) ELSE e
      ELSE IF e.class \notin BinaryClasses \ Connector THEN e
      ELSE IF e.class = "Is" THEN simplifyIs(e)
      ELSE IF parent = "If" /\ (IsNullNode(this(e)) \/ IsNullNode(expression(e))) THEN Null
      ELSE IF e.class \in {"Add", "Mul"} THEN IF parent = e.class THEN e ELSE flatFold(e)
      ELSE IF e.class \in Comparing /\ isDateLiteral(this(e)) /\ isDateLiteral(expression(e))
      THEN boolLit(Holds(e.class, this(e).value, expression(e).value))
      ELSE OrElse(foldNumbers(e.class, this(e), expression(e)), e)

\* Mutant of sortComparison: a column on the right always goes left.
columnFirst(e) ==
  IF e.class \in Comparing /\ expression(e).class = "Column"
  THEN Binary(inverseComparison[e.class], expression(e), this(e)) ELSE e

\* A constant goes to the right of a column; two of a kind stand in order.
sortComparison(e) ==
  IF e.class \notin Comparing THEN e
  ELSE LET left == this(e)
           right == expression(e)
           lCol == left.class = "Column"
           rCol == right.class = "Column"
           lConst == isConstant(left)
           rConst == isConstant(right)
       IN  IF (lCol /\ ~ rCol) \/ (rConst /\ ~ lConst) THEN e
           ELSE IF (rCol /\ ~ lCol) \/ (lConst /\ ~ rConst)
                     \/ SortsBefore(Text(right), Text(left))
                THEN Binary(inverseComparison[e.class], right, left)
                ELSE e

-----------------------------------------------------------------------------
(* Dates and intervals. A date that is none of these is a column. *)

\* A literal of type DATE has no clock.
dateValueLiteral(t, type) ==
  [class |-> type, kids |-> <<>>, value |-> IF type = "Date" THEN dayOnly(t) ELSE t]

Interval(amount, unit) == Binary("Interval", amount, unit)
intervalAmount(e) == IF e.class = "Neg" THEN -this(e).value ELSE e.value

foldDateResult(date, unit, n) ==
  LET result == addCalendarInterval(date.value, unit, n)
  IN  IF result \in 0..LastDate THEN dateValueLiteral(result, date.class) ELSE None

\* A date literal and an INTERVAL, or a call with a date literal and an amount.
\* An INTERVAL may lead an addition, and never a subtraction.
foldDateArithmetic(e) ==
  LET By(date, amount, unit) ==
        foldDateResult(date, unit.class,
                       IF e.class \in {"Sub", "DateSub"} THEN -intervalAmount(amount)
                                                         ELSE intervalAmount(amount))
      Of(date, interval) ==
        IF interval.class = "Interval" THEN By(date, this(interval), expression(interval)) ELSE None
  IN  CASE ~ isDateLiteral(this(e)) /\ e.class = "Add" /\ isDateLiteral(expression(e)) ->
             Of(expression(e), this(e))
        [] ~ isDateLiteral(this(e)) /\ ~ (e.class = "Add" /\ isDateLiteral(expression(e))) -> None
        [] isDateLiteral(this(e)) /\ e.class \in AddsDays -> By(this(e), expression(e), e.kids[3])
        [] isDateLiteral(this(e)) /\ e.class \notin AddsDays -> Of(this(e), expression(e))

foldDateTruncLiteral(e) ==
  IF isDateLiteral(this(e)) /\ expression(e).class \in truncUnits
  THEN dateValueLiteral(dateTruncFloor(this(e).value, expression(e).class), this(e).class)
  ELSE None

\* x is in the span that begins at low and ends before high.
dateTruncRangeAnd(x, low, high, type) ==
  Binary("And", Binary("GTE", x, dateValueLiteral(low, type)),
                Binary("LT", x, dateValueLiteral(high, type)))

\* A comparison of a truncated date becomes one of the date itself, with where
\* the constant's span begins or ends. Nothing equals a constant inside a span.
foldDateTruncComparison(e, parent) ==
  LET x == this(this(e))
      d == expression(e)
      unit == expression(this(e)).class
      floor == dateTruncFloor(d.value, unit)
      next == dateTruncNextFloor(d.value, unit)
      With(class, bound) == Binary(class, x, dateValueLiteral(bound, d.class))
  IN  IF this(e).class # "DateTrunc" \/ unit \notin truncUnits \/ ~ isDateLiteral(d) THEN None
      ELSE IF e.class \in Ordering
      THEN With(truncComparison[e.class], truncBound(e.class, floor, next, d.value))
      ELSE IF floor # d.value THEN None
      ELSE parenthesizeNestedConnector(
             IF e.class = "EQ" THEN dateTruncRangeAnd(x, floor, next, d.class)
             ELSE Binary("Or", With("LT", floor), With("GTE", next)), parent)

\* The members that begin a span decide, those that stand inside one do not.
foldDateTruncIn(e, parent) ==
  LET members == Tail(e.kids)
      unit == expression(this(e)).class
      floors == {f \in {members[i].value : i \in DOMAIN members} : dateTruncFloor(f, unit) = f}
      lows == SetToSortSeq(mergedLows(floors, unit), LAMBDA a, b : a < b)
      Span(low) == dateTruncRangeAnd(this(this(e)), low, mergedHigh(low, floors, unit),
                                     members[1].class)
  IN  IF \/ this(e).class # "DateTrunc" \/ unit \notin truncUnits
         \/ \E i \in DOMAIN members : ~ isDateLiteral(members[i])
         \/ floors = {}
      THEN None
      ELSE parenthesizeNestedConnector(
             IF Len(lows) = 1 THEN Span(lows[1])
             ELSE LeftChain("Or", Listed([i \in DOMAIN lows |-> Unary("Paren", Span(lows[i]))])),
             parent)

foldDates(e, parent) ==
  CASE e.class \in {"Add", "Sub"} \cup AddsDays -> foldDateArithmetic(e)
    [] e.class = "DateTrunc" -> foldDateTruncLiteral(e)
    [] e.class \in Comparing -> foldDateTruncComparison(e, parent)
    [] e.class = "In" -> foldDateTruncIn(e, parent)
    [] OTHER -> None

\* The INTERVAL that DATE_ADD adds moves to the other side of a comparison.
moveDateAddAcross(e) ==
  LET call == this(e)
      right == expression(e)
      n == intervalAmount(expression(call))
  IN  IF \/ call.class \notin AddsDays \/ ~ isDateLiteral(right) \/ isDateLiteral(this(call))
         \/ ~ isExactIntervalMove(call.kids[3].class, IF call.class = "DateSub" THEN -n ELSE n,
                                  right.value)
      THEN None
      ELSE Binary(e.class, this(call),
                  Binary(IF call.class = "DateAdd" THEN "Sub" ELSE "Add", right,
                         Interval(expression(call), call.kids[3])))

\* A number, or an INTERVAL beside a date, moves across + and -, so that the
\* column stands alone. Whether the move is exact is asked of an INTERVAL that
\* stands on the right.
simplifyEquality(e) ==
  IF e.class \notin Comparing THEN e
  ELSE IF moveDateAddAcross(e) # None THEN moveDateAddAcross(e)
  ELSE LET left == this(e)
           right == expression(e)
           a == this(left)
           b == expression(left)
           inverse == IF left.class = "Add" THEN "Sub" ELSE "Add"
           IsA(k) == IF isDateLiteral(right) THEN isDateLiteral(k) ELSE isNumberLiteral(k)
           IsB(k) == IF isDateLiteral(right) THEN k.class = "Interval" ELSE isNumberLiteral(k)
           Exact == b.class = "Interval" =>
                      LET n == intervalAmount(this(b))
                      IN  isExactIntervalMove(expression(b).class,
                                              IF left.class = "Sub" THEN -n ELSE n, right.value)
       IN  CASE \/ left.class \notin {"Add", "Sub"}
                \/ ~ isNumberLiteral(right) /\ ~ (isDateLiteral(right) /\ Exact) -> e
             [] OTHER ->
                  IF ~ IsA(a) /\ IsB(b) THEN Binary(e.class, a, Binary(inverse, right, b))
                  ELSE IF ~ (~ IsA(b) /\ IsB(a)) THEN e
                  ELSE IF left.class = "Sub"
                  THEN Binary(inverseComparison[e.class], b, Binary("Sub", a, right))
                  ELSE Binary(e.class, b, Binary("Sub", right, a))

-----------------------------------------------------------------------------
(* NOT, AND, OR and XOR. *)

\* NOT of e as an operand of a rewrite, resolved at once.
RECURSIVE negate(_)
negate(e) ==
  CASE e.class \in Comparing -> Binary(complementComparison[e.class], this(e), expression(e))
    [] e.class = "Not" /\ isKnownBoolean(this(e)) -> this(e)
    [] e.class \in {"And", "Or"} ->
         Unary("Paren", Binary(IF e.class = "Or" THEN "And" ELSE "Or",
                               negate(this(e)), negate(expression(e))))
    [] OTHER -> Unary("Not", e)

\* NULL, or the `NULL AND TRUE` keepCondition writes for it.
isNullShaped(e) ==
  LET u == unnest(e)
  IN  IsNullNode(u) \/ (u.class = "And" /\ IsNullNode(this(u)) /\ alwaysTrue(expression(u)))

simplifyNot(e, parent) ==
  IF e.class # "Not" THEN e
  ELSE LET inner == this(e)
           condition == unnest(inner)
       IN  IF isNullShaped(inner) THEN keepCondition(Null, parent)
           ELSE IF inner.class \in Comparing THEN Unary("Paren", negate(inner))
           ELSE IF inner.class = "Paren" /\ condition.class \in {"And", "Or"}
                THEN negate(condition)
           ELSE IF alwaysTrue(inner) THEN boolLit(FALSE)
           ELSE IF isFalse(inner) THEN boolLit(TRUE)
           ELSE IF inner.class = "Not" /\ isKnownBoolean(this(inner)) THEN this(inner)
           ELSE e

\* An operand that is the same connector, behind parentheses or not, is hoisted.
flattenConnectors(e) ==
  IF e.class \notin Connector THEN e
  ELSE LET Hoisted(k) == IF unnest(k).class = e.class THEN unnest(k) ELSE k
       IN  Binary(e.class, Hoisted(this(e)), Hoisted(expression(e)))

IsInOrder(keys) == \A i \in 1..(Len(keys) - 1) : ~ SortsBefore(keys[i + 1], keys[i])

sortXor(e) ==
  IF e.class # "Xor" THEN e
  ELSE LET ops == chainOperands(e, "Xor")
           keys == SortKeys(ops)
       IN  IF IsInOrder(keys) THEN e ELSE LeftChain("Xor", Permuted(ops, Sorted(keys)))

\* A chain of AND or OR loses its repeated operands and is put in order.
uniqSort(e, parent) ==
  IF e.class \notin {"And", "Or"} THEN e
  ELSE LET ops == chainOperands(e, e.class)
           keys == SortKeys(ops)
           first == SelectSeq([i \in DOMAIN ops |-> i],
                              LAMBDA i : \A j \in 1..(i - 1) : keys[j] # keys[i])
           deduped == Permuted(ops, first)
           dedupedKeys == Permuted(keys, first)
       IN  IF IsInOrder(dedupedKeys) /\ Len(deduped) = Len(ops) THEN e
           ELSE IF Len(deduped) = 1 THEN keepCondition(deduped[1], parent)
           ELSE rebuildConnector(e.class, Permuted(deduped, Sorted(dedupedKeys)), parent)

Opposite(class) == IF class = "And" THEN "Or" ELSE "And"
\* Mutant of IsNegationOf: the repeated operand may be NULL.
IsNegationOfAny(e, target) == e.class = "Not" /\ unnest(this(e)) = target

IsNegationOf(e, target) ==
  e.class = "Not" /\ isKnownNonnull(this(e)) /\ unnest(this(e)) = target

\* A AND NOT A, A OR NOT A, for an A that is never null.
removeComplements(class, ops) ==
  IF \E i, j \in DOMAIN ops : i # j /\ IsNegationOf(unnest(ops[i]), unnest(ops[j]))
  THEN boolLit(class = "Or") ELSE None

\* (A OR C) AND (A OR C OR B): the longer one says nothing more.
absorbSupersets(class, ops, parent) ==
  LET set(i) == chainOperands(unnest(ops[i]), Opposite(class))
      IsProperSubset(a, b) == Len(a) < Len(b) /\ ToSet(a) \subseteq ToSet(b)
      larger == {i \in DOMAIN ops : /\ unnest(ops[i]).class = Opposite(class)
                                    /\ \E j \in DOMAIN ops \ {i} : IsProperSubset(set(j), set(i))}
  IN  IF larger = {} THEN None
      ELSE rebuildConnector(class,
             [i \in DOMAIN ops |-> IF i \in larger THEN boolLit(class = "And") ELSE ops[i]], parent)

\* {a1, b1} and {a2, b2} are {common, x} and {common, NOT x}, x never null.
complementaryPair(a1, b1, a2, b2) ==
  LET Rest(common) == IF a2 = common THEN b2 ELSE IF b2 = common THEN a2 ELSE None
      Negates(rest, x) == rest.class = "Not" /\ isKnownNonnull(this(rest)) /\ this(rest) = x
  IN  IF Negates(Rest(a1), b1) THEN a1 ELSE IF Negates(Rest(b1), a1) THEN b1 ELSE None

\* (A AND B) OR (A AND NOT B) is A, for a B that is never null.
eliminateComplementPairs(class, ops, parent) ==
  LET inner(i) == unnest(ops[i])
      Common(i, j) == complementaryPair(this(inner(i)), expression(inner(i)),
                                        this(inner(j)), expression(inner(j)))
      groups == {i \in DOMAIN ops : inner(i).class = Opposite(class)}
      pairs == {p \in groups \X groups : p[1] # p[2] /\ Common(p[1], p[2]) # None}
      \* The pair met last decides what an operand becomes.
      IsLast(p, k) == /\ k \in {p[1], p[2]}
                      /\ \A q \in pairs : k \in {q[1], q[2]} =>
                           q[1] < p[1] \/ (q[1] = p[1] /\ q[2] <= p[2])
  IN  IF pairs = {} THEN None
      ELSE rebuildConnector(class,
             [k \in DOMAIN ops |->
                IF \E p \in pairs : k \in {p[1], p[2]}
                THEN LET p == CHOOSE p \in pairs : IsLast(p, k) IN Common(p[1], p[2])
                ELSE ops[k]], parent)

\* What A AND (A OR B) and A AND (NOT A OR B) leave of their second operand.
absorbOperands(e, ops, parent) ==
  LET opposite == Opposite(e.class)
      subs(i) == chainOperands(unnest(ops[i]), opposite)
      Repeats(sub, j) == unnest(sub) = unnest(ops[j])
      \* The first other operand that decides a sub-operand, or 0.
      Decider(i, sub) ==
        LET js == {j \in DOMAIN ops \ {i} :
                     Repeats(sub, j) \/ IsNegationOf(unnest(sub), unnest(ops[j]))}
        IN  IF js = {} THEN 0 ELSE CHOOSE j \in js : \A k \in js : j <= k
      Leftover(i) == SelectSeq(subs(i), LAMBDA sub : Decider(i, sub) = 0)
      Absorbed(i) == \E k \in DOMAIN subs(i) :
                       LET j == Decider(i, subs(i)[k]) IN j # 0 /\ Repeats(subs(i)[k], j)
      Kept(i) ==
        CASE unnest(ops[i]).class # opposite -> <<ops[i]>>
          [] unnest(ops[i]).class = opposite /\ Absorbed(i) -> <<>>
          [] OTHER -> LET rest == Leftover(i)
                      IN  CASE Len(rest) = Len(subs(i)) -> <<ops[i]>>
                            [] Len(rest) <= 1 -> rest
                            [] OTHER -> <<Unary("Paren", LeftChain(opposite, rest))>>
      kept == FlattenSeq(Listed([i \in DOMAIN ops |-> Kept(i)]))
  IN  IF kept = ops \/ kept = <<>> THEN e ELSE rebuildConnector(e.class, kept, parent)

absorb(e, parent) ==
  IF e.class = "Paren" /\ this(e).class = "Case" /\ parent = "Not" THEN this(e)
  ELSE IF e.class \notin {"And", "Or"} THEN e
  ELSE LET ops == chainOperands(e, e.class)
       IN  FirstOf(<<removeComplements(e.class, ops), absorbSupersets(e.class, ops, parent),
                     eliminateComplementPairs(e.class, ops, parent),
                     absorbOperands(e, ops, parent)>>)

simplifyConnectors(e, parent) ==
  IF e.class \notin {"And", "Or"} THEN e
  ELSE LET left == this(e)
           right == expression(e)
           Either(P(_)) == P(left) \/ P(right)
           Both(P(_)) == P(left) /\ P(right)
           NullWith(P(_)) == Both(IsNullNode) \/ (IsNullNode(left) /\ P(right))
                                              \/ (P(left) /\ IsNullNode(right))
           decided ==
             IF e.class = "And"
             THEN IF Either(isFalse) \/ Either(isZero) THEN boolLit(FALSE)
                  ELSE IF NullWith(alwaysTrue) THEN Null
                  ELSE IF Both(alwaysTrue) THEN boolLit(TRUE)
                  ELSE IF alwaysTrue(left) THEN right
                  ELSE IF alwaysTrue(right) THEN left ELSE None
             ELSE IF Either(alwaysTrue) THEN boolLit(TRUE)
                  ELSE IF NullWith(alwaysFalse) THEN Null
                  ELSE IF isFalse(left) THEN right
                  ELSE IF isFalse(right) THEN left ELSE None
           Kept(out) == IF out = None THEN e ELSE keepCondition(out, parent)
       IN  IF left = right THEN Kept(left)
           ELSE Kept(FirstOf(<<decided, simplifyComparison(left, right, e.class = "Or"),
                               flatFoldComparisons(e)>>))

-----------------------------------------------------------------------------
(* COALESCE, CASE, IF, BETWEEN and the parentheses. *)

\* A comparison of COALESCE with a constant becomes a choice: the first
\* argument is there, or it is NULL and the first constant stands in for it.
simplifyCoalesce(e, parent) ==
  IF e.class = "Coalesce"
  THEN IF isNonnullConstant(this(e)) \/ (Len(e.kids) = 1 /\ this(e).class = "Column")
       THEN this(e) ELSE e
  ELSE IF e.class \notin comparisons THEN e
  ELSE LET side == IF this(e).class = "Coalesce" THEN 1 ELSE 2
           args == e.kids[side].kids
           fallbacks == {i \in 2..Len(args) : isNonnullConstant(args[i])}
           at == CHOOSE i \in fallbacks : \A j \in fallbacks : i <= j
           first == IF at = 2 THEN args[1] ELSE Node("Coalesce", SubSeq(args, 1, at - 1))
           isNull == Binary("Is", first, Null)
           With(k) == [e EXCEPT !.kids[side] = k]
       IN  IF \/ e.kids[side].class # "Coalesce" \/ ~ isConstant(e.kids[3 - side])
              \/ fallbacks = {}
           THEN e
           ELSE parenthesizeNestedConnector(
                  Binary("Or", Binary("And", Unary("Not", isNull), With(first)),
                               Binary("And", isNull, With(args[at]))), parent)

\* Each WHEN of a simple CASE gets its comparison; a WHEN that is decided
\* ends the CASE or leaves it.
simplifyCase(e) ==
  LET subject == e.kids[1]
      default == e.kids[2]
      ifs == SubSeq(e.kids, 3, Len(e.kids))
      branches == IF subject = None THEN ifs
                  ELSE Listed([i \in DOMAIN ifs |->
                                 [ifs[i] EXCEPT !.kids[1] =
                                    Binary("EQ", wrapBinary(subject), wrapBinary(@))]])
      sure == {i \in DOMAIN branches : alwaysTrue(branches[i].kids[1])}
      last == CHOOSE i \in sure : \A j \in sure : i <= j
      kept == SelectSeq(IF sure = {} THEN branches ELSE SubSeq(branches, 1, last - 1),
                        LAMBDA b : ~ alwaysFalse(b.kids[1]))
  IN  IF sure # {}
      THEN IF kept = <<>> THEN wrapParenAlways(branches[last].kids[2])
           ELSE Node("Case", <<None, branches[last].kids[2]>> \o kept)
      ELSE IF kept = ifs THEN e
      ELSE IF kept = <<>> THEN elseArm(default)
      ELSE Node("Case", <<None, default>> \o kept)

\* A branch of a CASE is simplifyCase's, an IF of its own has both arms here.
simplifyConditionals(e, parent) ==
  IF e.class = "Case" THEN simplifyCase(e)
  ELSE IF e.class # "If" \/ parent = "Case" THEN e
  ELSE IF alwaysTrue(e.kids[1]) THEN wrapParenAlways(e.kids[2])
  ELSE IF alwaysFalse(e.kids[1]) THEN elseArm(e.kids[3])
  ELSE e

rewriteBetween(e, parent) ==
  LET result == Binary("And", Binary("GTE", e.kids[1], e.kids[2]),
                              Binary("LTE", e.kids[1], e.kids[3]))
  IN  IF parent = "Not" THEN Unary("Paren", result) ELSE result

simplifyParens(e, parent) ==
  LET inner == this(e)
      needed ==
        IF inner.class \in Predicate \cup {"Not"}
        THEN parent \in Predicate \cup {"Neg"} \cup (BinaryClasses \ Connector)
        ELSE /\ parent \notin {"None", "Paren"} /\ inner.class \in BinaryClasses
             /\ ~ (inner.class = "Add" /\ parent = "Add")
             /\ ~ (inner.class = "Mul" /\ parent \in Arithmetic)
  IN  IF e.class # "Paren" \/ needed THEN e ELSE inner

-----------------------------------------------------------------------------
(* One application of the rules, the children first, and the loop. *)

\* The rules, in the order in which each is given what the one before it left.
OfValues(e, parent) ==
  simplifyCoalesce(simplifyLiterals(simplifyConditionals(e, parent), parent), parent)
Ordered(e, parent) == uniqSort(sortXor(flattenConnectors(simplifyNot(e, parent))), parent)
OfConnectors(e, parent) ==
  simplifyParens(simplifyConnectors(absorb(Ordered(e, parent), parent), parent), parent)
ApplyRules(e, parent) ==
  simplifyEquality(sortComparison(OfConnectors(OfValues(e, parent), parent)))

\* What an INTERVAL holds is never looked at.
RECURSIVE simplifyNode(_, _)
simplifyNode(e, parent) ==
  LET kids == Listed([i \in DOMAIN e.kids |-> simplifyNode(e.kids[i], e.class)])
      out == IF e.class = "Interval" THEN e ELSE [e EXCEPT !.kids = kids]
  IN  IF foldDates(out, parent) # None THEN foldDates(out, parent)
      ELSE IF e.class = "Between" THEN rewriteBetween(out, parent) ELSE ApplyRules(out, parent)

Init == origin \in Inputs /\ expr = origin /\ pass = 0 /\ done = FALSE

\* One turn of the loop, which ends when the rules found nothing more to do or
\* were applied as often as it allows.
Pass ==
  /\ ~ done
  /\ expr' \in {simplifyNode(expr, "None")}
  /\ pass' = pass + 1
  /\ done' = (expr' = expr \/ pass' = MaxPasses)
  /\ UNCHANGED origin

Next == Pass

Spec == Init /\ [][Next]_vars

-----------------------------------------------------------------------------
(* What a tree answers: <<>> for NULL, <<n>> for a number, a boolean being *)
(* 1 or 0 and a date its instant, given the value of each column.          *)

NULL == <<>>
Truth(v) == IF v = NULL THEN NULL ELSE <<IF v[1] = 0 THEN 0 ELSE 1>>
TRUTH(b) == <<IF b THEN 1 ELSE 0>>

AndV(a, b) == IF <<0>> \in {a, b} THEN <<0>> ELSE IF NULL \in {a, b} THEN NULL ELSE <<1>>
OrV(a, b) == IF <<1>> \in {a, b} THEN <<1>> ELSE IF NULL \in {a, b} THEN NULL ELSE <<0>>

RECURSIVE Meaning(_, _)
Meaning(e, row) ==
  LET v == Listed([i \in DOMAIN e.kids |-> Meaning(e.kids[i], row)])
      Strict(answer) == IF NULL \in {v[1], v[2]} THEN NULL ELSE answer
      present == {i \in DOMAIN v : v[i] # NULL}
      Compared(class, a, b) ==
        IF NULL \in {a, b} THEN NULL ELSE TRUTH(Holds(class, a[1], b[1]))
      \* A branch of a CASE answers a pair: its condition and its value.
      Matches(b) == IF e.kids[1] = None THEN Truth(b[1]) = <<1>>
                    ELSE Compared("EQ", v[1], b[1]) = <<1>>
      matched == {i \in 3..Len(e.kids) : Matches(v[i])}
      First(S) == CHOOSE i \in S : \A j \in S : i <= j
      Moved(date, amount, unit) ==
        IF date = NULL THEN NULL
        ELSE <<MovedBy(date[1], unit.class,
                 IF e.class \in {"Sub", "DateSub"} THEN -intervalAmount(amount)
                                                   ELSE intervalAmount(amount))>>
      side == IF e.kids[1].class = "Interval" THEN 1 ELSE 2
  IN  CASE e.class = "Column" -> row[e.value]
        [] e.class \in {"Literal", "Boolean"} -> <<e.value>>
        [] e.class \in {"Null", "None"} -> NULL
        [] e.class = "Paren" -> v[1]
        [] e.class = "Neg" -> IF v[1] = NULL THEN NULL ELSE <<-v[1][1]>>
        [] e.class = "Not" -> IF v[1] = NULL THEN NULL ELSE TRUTH(v[1][1] = 0)
        [] e.class = "And" -> AndV(Truth(v[1]), Truth(v[2]))
        [] e.class = "Or" -> OrV(Truth(v[1]), Truth(v[2]))
        [] e.class = "Xor" -> Strict(TRUTH(Truth(v[1]) # Truth(v[2])))
        [] e.class \in Comparing -> Compared(e.class, v[1], v[2])
        [] e.class = "Is" -> TRUTH(v[1] = v[2])
        [] e.class \in {"Add", "Sub"} /\ e.kids[side].class = "Interval" ->
             Moved(v[3 - side], this(e.kids[side]), expression(e.kids[side]))
        [] e.class \in AddsDays -> Moved(v[1], e.kids[2], e.kids[3])
        [] isDateLiteral(e) -> <<e.value>>
        [] e.class \in Units \cup {"Interval"} -> NULL
        [] e.class = "DateTrunc" ->
             IF v[1] = NULL THEN NULL ELSE <<dateTruncFloor(v[1][1], e.kids[2].class)>>
        [] e.class = "In" ->
             LET answers == {Compared("EQ", v[1], v[i]) : i \in 2..Len(v)}
             IN  IF <<1>> \in answers THEN <<1>> ELSE IF NULL \in answers THEN NULL ELSE <<0>>
        [] e.class = "Add" -> Strict(<<v[1][1] + v[2][1]>>)
        [] e.class = "Sub" -> Strict(<<v[1][1] - v[2][1]>>)
        [] e.class = "Mul" -> Strict(<<v[1][1] * v[2][1]>>)
        [] e.class = "Between" -> AndV(Compared("GTE", v[1], v[2]), Compared("LTE", v[1], v[3]))
        [] e.class = "Coalesce" -> IF present = {} THEN NULL ELSE v[First(present)]
        [] e.class = "If" /\ Len(v) = 2 -> v
        [] e.class = "If" /\ Len(v) = 3 -> IF Truth(v[1]) = <<1>> THEN v[2] ELSE v[3]
        [] e.class = "Case" -> IF matched = {} THEN v[2] ELSE v[First(matched)][2]

RECURSIVE NodesOf(_)
NodesOf(e) == {e} \cup UNION {NodesOf(e.kids[i]) : i \in DOMAIN e.kids}

\* The rows that have the columns e reads.
RowsFor(e) ==
  LET columns == {k.value : k \in {k \in NodesOf(e) : k.class = "Column"}}
  IN  {row \in Rows : columns \subseteq DOMAIN row}

ASSUME RowsAssumption == \A e \in Inputs : RowsFor(e) # {}

\* How tightly the parser binds what a class writes (parse_expr.go:132-209).
Binds(class) ==
  CASE class \in {"Or", "Xor"} -> 1
    [] class = "And" -> 2
    [] class = "Not" -> 3
    [] class \in {"EQ", "NEQ"} -> 4
    [] class \in Ordering -> 5
    [] class \in {"Is", "Between", "In"} -> 6
    [] class \in {"Add", "Sub"} -> 7
    [] class = "Mul" -> 8
    [] class = "Neg" -> 9
    [] OTHER -> 10

Associative == {"And", "Or", "Xor", "Add", "Mul"}

\* The text of e, which is written without any parentheses but those of its
\* Paren nodes, is read as a node of e's class with e's children.
Grouped(e) ==
  LET Left(k) == Binds(k.class) >= Binds(e.class)
      Right(k) == Binds(k.class) > Binds(e.class) \/ (k.class = e.class /\ k.class \in Associative)
  IN  /\ e.class \in BinaryClasses => Left(this(e)) /\ Right(expression(e))
      /\ e.class \in {"Not", "Neg"} => Left(this(e))
      /\ e.class \in {"Between", "In"} => \A i \in DOMAIN e.kids : Binds(e.kids[i].class) > Binds(e.class)

-----------------------------------------------------------------------------
(* Properties. *)

\* A class has its number of children; only a CASE or an IF may lack one.
RECURSIVE WellFormed(_)
WellFormed(e) ==
  /\ \/ e.class \in {"Column", "Literal", "Boolean", "Null"} \cup Units /\ e.kids = <<>>
     \/ isDateLiteral(e) /\ e.value \in Int /\ (e.class = "Date" => e.value = dayOnly(e.value))
     \/ e.class \in {"Not", "Neg", "Paren"} /\ Len(e.kids) = 1
     \/ e.class \in BinaryClasses \cup {"Interval", "DateTrunc"} /\ Len(e.kids) = 2
     \/ e.class \in {"Between"} \cup AddsDays /\ Len(e.kids) = 3
     \/ e.class = "In" /\ Len(e.kids) > 1
     \/ e.class = "If" /\ Len(e.kids) \in {2, 3}
     \/ e.class \in {"Coalesce", "Case"} /\ Len(e.kids) > 0
  /\ \A i \in DOMAIN e.kids :
       IF e.kids[i] = None THEN e.class \in {"If", "Case"} ELSE WellFormed(e.kids[i])

\* The state is a tree of the classes the rules write and a count of passes.
TypeOK == WellFormed(expr) /\ pass \in 0..MaxPasses /\ done \in BOOLEAN

\* Whatever rules were applied, in each row and with NULLs in any column, the
\* tree answers what the tree of the call answers (simplify.go:12-22).
SameAnswer ==
  expr # origin =>
    \A row \in RowsFor(origin) : Meaning(expr, row) = Meaning(origin, row)

\* Every tree between two passes is one whose text is read back as itself: no
\* rewrite leaves a connector bare where another binds tighter
\* (simplify.go:2084-2092).
ReadsBack == \A e \in NodesOf(expr) : Grouped(e)

\* The loop ends because the rules find nothing more, never at its bound with
\* a tree half rewritten (simplify.go:32-37).
SettlesBeforeTheBound == done => pass < MaxPasses

=============================================================================
