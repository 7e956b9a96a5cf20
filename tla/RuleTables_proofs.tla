-------------------------- MODULE RuleTables_proofs ---------------------------
(***************************************************************************)
(* What the rules of simplify.go promise of comparisons and of dates.      *)
(*                                                                         *)
(* The comparison tables are right for all integers. What Simplify does    *)
(* with dates is right on every calendar: a comparison of a truncated date *)
(* becomes a comparison of the date, and the interval added to a date      *)
(* moves to the other side. The first is shown for every way of cutting    *)
(* time into spans, and then that the calendar's units cut time so; the    *)
(* second where the code finds the move exact.                             *)
(***************************************************************************)
EXTENDS DateRules, FiniteSetTheorems, WellFoundedInduction, TLAPS

-----------------------------------------------------------------------------
(* Comparisons.                                                            *)

(* The tables, entry by entry.                                             *)
LEMMA HoldsCases ==
  ASSUME NEW v, NEW n
  PROVE  /\ Holds("LT", v, n) <=> v < n
         /\ Holds("LTE", v, n) <=> v <= n
         /\ Holds("GT", v, n) <=> v > n
         /\ Holds("GTE", v, n) <=> v >= n
         /\ Holds("EQ", v, n) <=> v = n
         /\ Holds("NEQ", v, n) <=> v # n
BY DEF Holds

LEMMA InverseCases ==
  /\ inverseComparison["LT"] = "GT" /\ inverseComparison["GT"] = "LT"
  /\ inverseComparison["LTE"] = "GTE" /\ inverseComparison["GTE"] = "LTE"
  /\ inverseComparison["EQ"] = "EQ" /\ inverseComparison["NEQ"] = "NEQ"
BY DEF inverseComparison

LEMMA ComplementCases ==
  /\ complementComparison["LT"] = "GTE" /\ complementComparison["GTE"] = "LT"
  /\ complementComparison["LTE"] = "GT" /\ complementComparison["GT"] = "LTE"
  /\ complementComparison["EQ"] = "NEQ" /\ complementComparison["NEQ"] = "EQ"
BY DEF complementComparison

LEMMA Classes == Comparing = {"LT", "GT", "LTE", "GTE", "EQ", "NEQ"}
BY DEF Comparing, Ordering

(* Swapping the operands of a comparison and inverting its class changes   *)
(* no answer (sortComparison, simplifyEquality).                           *)
THEOREM InverseIsSound ==
  ASSUME NEW class \in Comparing, NEW v \in Int, NEW n \in Int
  PROVE  Holds(inverseComparison[class], n, v) <=> Holds(class, v, n)
BY Classes, HoldsCases, InverseCases

(* The complement of a comparison answers what NOT of it answers, and      *)
(* taking it twice gives it back (simplifyNot, negate).                    *)
THEOREM ComplementIsSound ==
  ASSUME NEW class \in Comparing, NEW v \in Int, NEW n \in Int
  PROVE  /\ Holds(complementComparison[class], v, n) <=> ~ Holds(class, v, n)
         /\ complementComparison[complementComparison[class]] = class
<1>1. Holds(complementComparison[class], v, n) <=> ~ Holds(class, v, n)
  <2>1. CASE class \in {"LT", "GTE", "EQ"}
    BY <2>1, HoldsCases, ComplementCases
  <2>2. CASE class \in {"GT", "LTE", "NEQ"}
    BY <2>2, HoldsCases, ComplementCases
  <2> QED
    BY <2>1, <2>2, Classes
<1>2. complementComparison[complementComparison[class]] = class
  BY Classes, ComplementCases
<1> QED
  BY <1>1, <1>2

-----------------------------------------------------------------------------
(* The fold of two comparisons of v, with m and with n.                    *)

\* What the two answer together.
Together(lc, m, rc, n, or, v) ==
  IF or THEN Holds(lc, v, m) \/ Holds(rc, v, n) ELSE Holds(lc, v, m) /\ Holds(rc, v, n)

\* What the node a rule returns answers: the left one, the right one, or FALSE.
Answers(out, lc, m, rc, n, v) ==
  \/ out = "left" /\ Holds(lc, v, m)
  \/ out = "right" /\ Holds(rc, v, n)

\* Of two bounds on one constant the strict one stands left, where uniqSort
\* leaves it: "x < 1" sorts before "x <= 1".
StrictFirst(lc, m, rc, n) ==
  m = n => <<lc, rc>> \notin {<<"LTE", "LT">>, <<"GTE", "GT">>}

Pair(ac, bc, av, or, a) ==
  foldComparisonPair(ac, bc, av, or, a, "left", "right", "contradiction", "none")

Fold(lc, m, rc, n, or) ==
  foldComparisons(lc, rc, sign(m, n), or, "left", "right", "contradiction", "none")

SameSide(ac, bc) == {ac, bc} \subseteq ltLTE \/ {ac, bc} \subseteq gtGTE

(* The sign compareConstants finds.                                        *)
LEMMA SignCases ==
  ASSUME NEW m \in Int, NEW n \in Int
  PROVE  /\ sign(m, n) \in Int
         /\ sign(m, n) < 0 <=> m < n
         /\ sign(m, n) = 0 <=> m = n
         /\ sign(m, n) > 0 <=> m > n
BY DEF sign

(* Two bounds of a kind: one of them is the tighter, one the looser.       *)
LEMMA BoundsOfAKind ==
  ASSUME NEW lc, NEW rc, SameSide(lc, rc),
         NEW m \in Int, NEW n \in Int, NEW or \in BOOLEAN, NEW v \in Int,
         StrictFirst(lc, m, rc, n)
  PROVE  /\ Pair(lc, rc, sign(m, n), or, "left") \in {"left", "right"}
         /\ Together(lc, m, rc, n, or, v)
              <=> Answers(Pair(lc, rc, sign(m, n), or, "left"), lc, m, rc, n, v)
<1> DEFINE s == sign(m, n)
           out == Pair(lc, rc, s, or, "left")
<1>0. s \in Int /\ (s < 0 <=> m < n) /\ (s = 0 <=> m = n)
  BY SignCases
<1> HIDE DEF s
<1>1. CASE lc \in ltLTE /\ rc \in ltLTE
  <2>1. out = IF or THEN (IF s > 0 THEN "left" ELSE "right")
                    ELSE (IF s <= 0 THEN "left" ELSE "right")
    BY <1>1 DEF Pair, foldComparisonPair, ltLTE, gtGTE
  <2>2. out = IF or THEN (IF m > n THEN "left" ELSE "right")
                    ELSE (IF m <= n THEN "left" ELSE "right")
    BY <1>0, <2>1
  <2>3. lc \in {"LT", "LTE"} /\ rc \in {"LT", "LTE"}
    BY <1>1 DEF ltLTE
  <2>4. m = n => ~ (lc = "LTE" /\ rc = "LT")
    BY DEF StrictFirst
  <2> HIDE DEF out
  <2>5. out \in {"left", "right"}
    BY <2>2
  <2>6. Together(lc, m, rc, n, or, v) <=> Answers(out, lc, m, rc, n, v)
    BY <2>2, <2>3, <2>4, HoldsCases DEF Together, Answers
  <2> QED
    BY <2>5, <2>6 DEF out, s
<1>2. CASE lc \in gtGTE /\ rc \in gtGTE
  <2>1. out = IF or THEN (IF s < 0 THEN "left" ELSE "right")
                    ELSE (IF s >= 0 THEN "left" ELSE "right")
    BY <1>2 DEF Pair, foldComparisonPair, ltLTE, gtGTE
  <2>2. out = IF or THEN (IF m < n THEN "left" ELSE "right")
                    ELSE (IF m >= n THEN "left" ELSE "right")
    BY <1>0, <2>1
  <2>3. lc \in {"GT", "GTE"} /\ rc \in {"GT", "GTE"}
    BY <1>2 DEF gtGTE
  <2>4. m = n => ~ (lc = "GTE" /\ rc = "GT")
    BY DEF StrictFirst
  <2> HIDE DEF out
  <2>5. out \in {"left", "right"}
    BY <2>2
  <2>6. Together(lc, m, rc, n, or, v) <=> Answers(out, lc, m, rc, n, v)
    BY <2>2, <2>3, <2>4, HoldsCases DEF Together, Answers
  <2> QED
    BY <2>5, <2>6 DEF out, s
<1> QED
  BY <1>1, <1>2 DEF SameSide

(* Two comparisons of different kinds fold, in either ordering, only where *)
(* the first implies the second or the two exclude each other.             *)
LEMMA TwoKinds ==
  ASSUME NEW ac \in Comparing, NEW bc \in Comparing, ~ SameSide(ac, bc),
         NEW i \in Int, NEW j \in Int, NEW av \in Int, NEW v \in Int,
         av < 0 <=> i < j, av = 0 <=> i = j,
         NEW or \in BOOLEAN, NEW a \in {"left", "right"}
  PROVE  LET out == Pair(ac, bc, av, or, a)
         IN  /\ out \in {a, "contradiction", "none"}
             /\ or => out = "none"
             /\ out = a /\ Holds(ac, v, i) => Holds(bc, v, j)
             /\ out = "contradiction" => ~ (Holds(ac, v, i) /\ Holds(bc, v, j))
<1> DEFINE out == Pair(ac, bc, av, or, a)
<1>1. ~ (ac \in ltLTE /\ bc \in ltLTE) /\ ~ (ac \in gtGTE /\ bc \in gtGTE)
  BY DEF SameSide
<1>2. CASE or
  BY <1>1, <1>2 DEF Pair, foldComparisonPair
<1>3. CASE ~ or /\ ac = "LT"
  BY <1>1, <1>3, Classes, HoldsCases DEF Pair, foldComparisonPair, ltLTE, gtGTE
<1>4. CASE ~ or /\ ac = "GT"
  BY <1>1, <1>4, Classes, HoldsCases DEF Pair, foldComparisonPair, ltLTE, gtGTE
<1>5. CASE ~ or /\ ac = "EQ"
  BY <1>1, <1>5, Classes, HoldsCases DEF Pair, foldComparisonPair, ltLTE, gtGTE
<1>6. CASE ~ or /\ ac \in {"LTE", "GTE", "NEQ"}
  BY <1>1, <1>6, Classes, HoldsCases DEF Pair, foldComparisonPair, ltLTE, gtGTE
<1> QED
  BY <1>2, <1>3, <1>4, <1>5, <1>6, Classes

(* The comparison of one operand with two constants folds to what both     *)
(* answer, for all integers: the tighter bound under AND, the looser under *)
(* OR, and FALSE only for a pair nothing satisfies (simplifyComparison).   *)
THEOREM FoldIsSound ==
  ASSUME NEW lc \in Comparing, NEW rc \in Comparing, NEW m \in Int, NEW n \in Int,
         NEW or \in BOOLEAN, NEW v \in Int,
         StrictFirst(lc, m, rc, n), Fold(lc, m, rc, n, or) # "none"
  PROVE  Together(lc, m, rc, n, or, v) <=> Answers(Fold(lc, m, rc, n, or), lc, m, rc, n, v)
<1> DEFINE s == sign(m, n)
           first == Pair(lc, rc, s, or, "left")
           second == Pair(rc, lc, -s, or, "right")
           out == Fold(lc, m, rc, n, or)
<1>1. out = IF first # "none" THEN first ELSE second
  BY DEF Fold, foldComparisons, Pair
<1>2. CASE SameSide(lc, rc)
  <2>1. /\ first \in {"left", "right"}
        /\ Together(lc, m, rc, n, or, v) <=> Answers(first, lc, m, rc, n, v)
    BY <1>2, BoundsOfAKind
  <2> HIDE DEF first, second
  <2> QED
    BY <1>1, <2>1 DEF out
<1>3. CASE ~ SameSide(lc, rc)
  <2>1. s \in Int /\ (s < 0 <=> m < n) /\ (s = 0 <=> m = n)
    BY SignCases
  <2> HIDE DEF s
  <2>2. -s \in Int /\ (-s < 0 <=> n < m) /\ (-s = 0 <=> n = m)
    BY <2>1
  <2>3. ~ SameSide(rc, lc)
    BY <1>3 DEF SameSide
  <2>4. /\ first \in {"left", "contradiction", "none"} /\ (or => first = "none")
        /\ first = "left" /\ Holds(lc, v, m) => Holds(rc, v, n)
        /\ first = "contradiction" => ~ (Holds(lc, v, m) /\ Holds(rc, v, n))
    BY <1>3, <2>1, TwoKinds
  <2>5. /\ second \in {"right", "contradiction", "none"} /\ (or => second = "none")
        /\ second = "right" /\ Holds(rc, v, n) => Holds(lc, v, m)
        /\ second = "contradiction" => ~ (Holds(rc, v, n) /\ Holds(lc, v, m))
    BY <2>2, <2>3, TwoKinds
  <2>6. ~ or
    BY <1>1, <2>4, <2>5
  <2> HIDE DEF first, second, out
  <2>7. out # "none"
    BY DEF out
  <2>8. out = "contradiction" => ~ Together(lc, m, rc, n, or, v)
    BY <1>1, <2>4, <2>5, <2>6 DEF Together
  <2>9. out = "left" => (Together(lc, m, rc, n, or, v) <=> Holds(lc, v, m))
    BY <1>1, <2>4, <2>5, <2>6 DEF Together
  <2>10. out = "right" => (Together(lc, m, rc, n, or, v) <=> Holds(rc, v, n))
    BY <1>1, <2>4, <2>5, <2>6 DEF Together
  <2>11. out \in {"left", "right", "contradiction"}
    BY <1>1, <2>4, <2>5, <2>7
  <2>12. Together(lc, m, rc, n, or, v) <=> Answers(out, lc, m, rc, n, v)
    BY <2>8, <2>9, <2>10, <2>11 DEF Answers
  <2> QED
    BY <2>12 DEF out
<1> QED
  BY <1>2, <1>3

-----------------------------------------------------------------------------
(* Spans of time. *)

\* Every instant lies in its span, with which it shares where that begins and
\* ends.
CutsTime(floor, next) ==
  /\ floor \in [Int -> Int] /\ next \in [Int -> Int]
  /\ \A t \in Int : floor[t] <= t /\ t < next[t]
  /\ \A t, u \in Int :
       floor[t] <= u /\ u < next[t] => floor[u] = floor[t] /\ next[u] = next[t]

\* What the spans of two instants say of each other.
LEMMA SpanFacts ==
  ASSUME NEW floor, NEW next, CutsTime(floor, next), NEW x \in Int, NEW d \in Int
  PROVE  /\ floor[x] \in Int /\ next[x] \in Int /\ floor[d] \in Int /\ next[d] \in Int
         /\ floor[x] <= x /\ x < next[x] /\ floor[d] <= d /\ d < next[d]
         /\ floor[x] <= d /\ d < next[x] => floor[d] = floor[x] /\ next[d] = next[x]
         /\ floor[d] <= x /\ x < next[d] => floor[x] = floor[d]
<1> QED BY DEF CutsTime

\* An instant is cut to before d exactly if it stands before d, where d begins
\* a span, or before the span after d's.
LEMMA CutBefore ==
  ASSUME NEW floor, NEW next, CutsTime(floor, next), NEW x \in Int, NEW d \in Int
  PROVE  floor[x] < d <=> x < IF floor[d] = d THEN d ELSE next[d]
<1>1. CASE floor[d] = d BY <1>1, SpanFacts
<1>2. CASE floor[d] # d BY <1>2, SpanFacts
<1> QED BY <1>1, <1>2

\* An instant is cut to d or before exactly if it stands before the span after
\* d's.
LEMMA CutAtMost ==
  ASSUME NEW floor, NEW next, CutsTime(floor, next), NEW x \in Int, NEW d \in Int
  PROVE  floor[x] <= d <=> x < next[d]
<1> QED BY SpanFacts

\* A comparison of DATE_TRUNC(x) with a constant answers what the comparison it
\* is replaced by answers, whatever the unit (date_trunc.go:195-243).
THEOREM TruncatedComparisonIsSound ==
  ASSUME NEW floor, NEW next, CutsTime(floor, next), NEW x \in Int, NEW d \in Int,
         NEW class \in Ordering
  PROVE  Holds(class, floor[x], d)
           <=> Holds(truncComparison[class], x, truncBound(class, floor[d], next[d], d))
<1> DEFINE ceil == IF floor[d] = d THEN d ELSE next[d]
<1>1. /\ floor[x] \in Int /\ floor[d] \in Int /\ next[d] \in Int /\ ceil \in Int BY SpanFacts
<1>2. floor[x] < d <=> x < ceil BY CutBefore
<1>3. floor[x] <= d <=> x < next[d] BY CutAtMost
<1> HIDE DEF ceil
<1>4. CASE class = "LT"
  <2>1. truncBound(class, floor[d], next[d], d) = ceil BY <1>4 DEF truncBound, ceil
  <2> QED BY <1>2, <1>4, <2>1 DEF Holds, truncComparison
<1>5. CASE class = "GTE"
  <2>1. truncBound(class, floor[d], next[d], d) = ceil BY <1>5 DEF truncBound, ceil
  <2> QED BY <1>1, <1>2, <1>5, <2>1 DEF Holds, truncComparison
<1>6. CASE class = "LTE"
  <2>1. truncBound(class, floor[d], next[d], d) = next[d] BY <1>6 DEF truncBound
  <2> QED BY <1>3, <1>6, <2>1 DEF Holds, truncComparison
<1>7. CASE class = "GT"
  <2>1. truncBound(class, floor[d], next[d], d) = next[d] BY <1>7 DEF truncBound
  <2> QED BY <1>1, <1>3, <1>7, <2>1 DEF Holds, truncComparison
<1> QED BY <1>4, <1>5, <1>6, <1>7 DEF Ordering

\* What is cut to the beginning of a span is what lies in it: the two bounds
\* DATE_TRUNC(x) = d and its negation become (date_trunc.go:238-256).
THEOREM TruncatedEqualityIsSound ==
  ASSUME NEW floor, NEW next, CutsTime(floor, next), NEW x \in Int, NEW d \in Int,
         floor[d] = d
  PROVE  floor[x] = d <=> Holds("GTE", x, d) /\ Holds("LT", x, next[d])
<1>1. floor[x] = d <=> x >= d /\ x < next[d] BY SpanFacts
<1> QED BY <1>1 DEF Holds

-----------------------------------------------------------------------------
(* Numbers. *)

\* The order of the naturals as a relation.
Less == {ss \in Nat \X Nat : ss[1] < ss[2]}

\* Every set of naturals that is not empty has a least element.
LEMMA LeastElement ==
  ASSUME NEW S, S \subseteq Nat, S # {}
  PROVE  \E x \in S : \A y \in S : x <= y
<1>1. IsWellFoundedOn(Less, Nat) BY NatLessThanWellFounded DEF OpToRel, Less
<1>2. PICK x \in S : \A y \in S : ~ (<<y, x>> \in Less) BY <1>1, WFMin
<1>3. ASSUME NEW y \in S PROVE x <= y
  <2>1. x \in Nat /\ y \in Nat OBVIOUS
  <2>2. <<y, x>> \notin Less BY <1>2
  <2>3. ~(y < x) BY <2>1, <2>2 DEF Less
  <2> QED BY <2>1, <2>3
<1> QED BY <1>3

\* Quotient and remainder of a sum.
LEMMA Division ==
  ASSUME NEW b \in Nat, b > 0, NEW q \in Int, NEW r \in 0..(b - 1)
  PROVE  ((q * b) + r) \div b = q /\ ((q * b) + r) % b = r
OBVIOUS

\* A number is what its quotient and its remainder make.
LEMMA DivisionFacts ==
  ASSUME NEW b \in Nat, b > 0, NEW a \in Int
  PROVE  /\ a \div b \in Int /\ a % b \in 0..(b - 1)
         /\ a = ((a \div b) * b) + (a % b)
OBVIOUS

\* Multiples keep the order of what is multiplied.
LEMMA Times ==
  ASSUME NEW b \in Nat, b > 0, NEW p \in Int, NEW q \in Int
  PROVE  /\ p <= q <=> p * b <= q * b
         /\ p < q <=> (p + 1) * b <= q * b
         /\ (p + 1) * b = (p * b) + b
OBVIOUS

-----------------------------------------------------------------------------
(* Months. *)

\* The assumption on the calendar, in the form the proofs use.
LEMMA CalendarFacts ==
  /\ HoursADay \in Nat /\ HoursADay > 0 /\ WeekDays \in Nat /\ WeekDays > 0
  /\ YearDays \in Nat /\ YearDays > 0 /\ QuarterMonths \in Nat /\ QuarterMonths > 0
  /\ weekOffset \in Int /\ Months \in Nat /\ Months > 0
  /\ \A m \in 1..Months : MonthStarts[m] \in Nat
  /\ MonthStarts[1] = 0
  /\ \A m \in 1..(Months - 1) : MonthStarts[m] < MonthStarts[m + 1]
  /\ \A m \in 1..Months : m = Months => MonthStarts[m] < YearDays
<1>1. /\ HoursADay \in Nat /\ HoursADay > 0 /\ WeekDays \in Nat /\ WeekDays > 0
      /\ YearDays \in Nat /\ YearDays > 0 /\ QuarterMonths \in Nat /\ QuarterMonths > 0
      /\ weekOffset \in Int /\ MonthStarts[1] = 0
  BY CalendarAssumption
<1>2. MonthStarts \in Seq(Nat) /\ MonthStarts # <<>> BY CalendarAssumption
<1>3. Months \in Nat /\ Months > 0 /\ DOMAIN MonthStarts = 1..Months BY <1>2 DEF Months
<1>4. \A m \in 1..Months : MonthStarts[m] \in Nat BY <1>2, <1>3
<1>5. \A m \in 1..Months :
        MonthStarts[m] < IF m = Months THEN YearDays ELSE MonthStarts[m + 1]
  BY <1>3, CalendarAssumption DEF Months
<1>6. \A m \in 1..(Months - 1) : m \in 1..Months /\ m # Months BY <1>3
<1>7. \A m \in 1..(Months - 1) : MonthStarts[m] < MonthStarts[m + 1] BY <1>5, <1>6
<1> QED BY <1>1, <1>3, <1>4, <1>5, <1>7

\* The months of a year begin one after the other.
LEMMA MonthsAscend ==
  ASSUME NEW a \in 1..Months, NEW b \in 1..Months, a < b
  PROVE  MonthStarts[a] < MonthStarts[b]
<1> DEFINE S == {n \in Nat : n \in 1..Months /\ a < n /\ ~(MonthStarts[a] < MonthStarts[n])}
<1>1. SUFFICES ASSUME S # {} PROVE FALSE
  <2>1. b \in Nat /\ b \in 1..Months BY CalendarFacts
  <2> QED BY <2>1
<1>2. PICK n \in S : \A m \in S : n <= m BY <1>1, LeastElement
<1>3. n \in 1..Months /\ a < n /\ ~(MonthStarts[a] < MonthStarts[n]) BY <1>2
<1>4. /\ n - 1 \in 1..(Months - 1) /\ n - 1 \in 1..Months /\ n - 1 \in Nat
      /\ a <= n - 1 /\ (n - 1) + 1 = n /\ ~(n <= n - 1)
  BY <1>3, CalendarFacts
<1>5. n - 1 \notin S BY <1>2, <1>4
<1>6. MonthStarts[n - 1] < MonthStarts[n] BY <1>4, CalendarFacts
<1>7. /\ MonthStarts[a] \in Nat /\ MonthStarts[n - 1] \in Nat /\ MonthStarts[n] \in Nat
  BY <1>3, <1>4, CalendarFacts
<1>8. CASE n - 1 = a BY <1>3, <1>6, <1>7, <1>8
<1>9. CASE n - 1 # a
  <2>0. a < n - 1 BY <1>4, <1>9, CalendarFacts
  <2>1. MonthStarts[a] < MonthStarts[n - 1] BY <1>4, <1>5, <2>0
  <2> QED BY <1>3, <1>6, <1>7, <2>1
<1> QED BY <1>8, <1>9

\* Where the month after month k of the year begins.
Following(k) == IF k = Months THEN YearDays ELSE MonthStarts[k + 1]

\* A day of the year lies in one month, the last that has begun.
LEMMA DayInMonth ==
  ASSUME NEW d \in 0..(YearDays - 1)
  PROVE  \E k \in 1..Months :
           /\ MonthStarts[k] <= d /\ d < Following(k)
           /\ Cardinality({m \in 1..Months : MonthStarts[m] <= d}) = k
<1> DEFINE S == {n \in Nat : n \in 1..Months /\ d < Following(n)}
<1>1. Months \in S BY CalendarFacts DEF Following
<1>2. PICK k \in S : \A n \in S : k <= n BY <1>1, LeastElement
<1>3. k \in 1..Months /\ d < Following(k) BY <1>2
<1>4. MonthStarts[k] <= d
  <2>1. CASE k = 1 BY <2>1, CalendarFacts
  <2>2. CASE k # 1
    <3>1. k - 1 \in 1..Months /\ k - 1 \in Nat /\ k - 1 # Months /\ (k - 1) + 1 = k
      BY <1>3, <2>2, CalendarFacts
    <3>2. k - 1 \notin S BY <1>2, <3>1
    <3>3. Following(k - 1) = MonthStarts[k] BY <3>1 DEF Following
    <3>4. MonthStarts[k] \in Nat BY <1>3, CalendarFacts
    <3> QED BY <3>1, <3>2, <3>3, <3>4
  <2> QED BY <2>1, <2>2
<1>5. {m \in 1..Months : MonthStarts[m] <= d} = 1..k
  <2>1. ASSUME NEW m \in 1..Months, m <= k PROVE MonthStarts[m] <= d
    <3>1. MonthStarts[m] \in Nat /\ MonthStarts[k] \in Nat BY <1>3, CalendarFacts
    <3>2. CASE m = k BY <1>4, <3>2
    <3>3. CASE m # k
      <4>1. MonthStarts[m] < MonthStarts[k] BY <1>3, <2>1, <3>3, MonthsAscend
      <4> QED BY <1>4, <3>1, <4>1
    <3> QED BY <3>2, <3>3
  <2>2. ASSUME NEW m \in 1..Months, k < m PROVE ~(MonthStarts[m] <= d)
    <3>1. k # Months /\ k + 1 \in 1..Months BY <1>3, <2>2, CalendarFacts
    <3>2. d < MonthStarts[k + 1] BY <1>3, <3>1 DEF Following
    <3>3. MonthStarts[m] \in Nat /\ MonthStarts[k + 1] \in Nat BY <3>1, CalendarFacts
    <3>4. CASE m = k + 1 BY <3>2, <3>3, <3>4
    <3>5. CASE m # k + 1
      <4>1. k + 1 < m BY <1>3, <2>2, <3>5
      <4>2. MonthStarts[k + 1] < MonthStarts[m] BY <3>1, <4>1, MonthsAscend
      <4> QED BY <3>2, <3>3, <4>2
    <3> QED BY <3>4, <3>5
  <2> QED BY <1>3, <2>1, <2>2, CalendarFacts
<1>6. Cardinality(1..k) = k BY <1>3, FS_Interval, CalendarFacts
<1> QED BY <1>3, <1>4, <1>5, <1>6

\* Where a month of year y begins, and where the month after it does.
LEMMA FirstDayOf ==
  ASSUME NEW y \in Int, NEW k \in 1..Months
  PROVE  /\ FirstDay((y * Months) + k - 1) = (y * YearDays) + MonthStarts[k]
         /\ FirstDay((y * Months) + k) = (y * YearDays) + Following(k)
<1>1. Months \in Nat /\ Months > 0 BY CalendarFacts
<1>2. k - 1 \in 0..(Months - 1) /\ (y * Months) + k - 1 = (y * Months) + (k - 1) /\ (k - 1) + 1 = k
  BY <1>1
<1>3. FirstDay((y * Months) + k - 1) = (y * YearDays) + MonthStarts[k]
  BY <1>1, <1>2, Division DEF FirstDay
<1>4. CASE k # Months
  <2>1. k \in 0..(Months - 1) BY <1>1, <1>4
  <2>2. ((y * Months) + k) \div Months = y /\ ((y * Months) + k) % Months = k
    BY <1>1, <2>1, Division
  <2> QED BY <1>3, <1>4, <2>2 DEF FirstDay, Following
<1>5. CASE k = Months
  <2>1. (y * Months) + k = ((y + 1) * Months) + 0 BY <1>1, <1>5
  <2>2. ((y * Months) + k) \div Months = y + 1 /\ ((y * Months) + k) % Months = 0
    <3>1. y + 1 \in Int /\ 0 \in 0..(Months - 1) BY <1>1
    <3> QED BY <1>1, <2>1, <3>1, Division
  <2>3. (y + 1) * YearDays = (y * YearDays) + YearDays BY CalendarFacts
  <2>4. MonthStarts[1] = 0 /\ y * YearDays \in Int BY CalendarFacts
  <2> QED BY <1>3, <1>5, <2>2, <2>3, <2>4, CalendarFacts DEF FirstDay, Following
<1> QED BY <1>3, <1>4, <1>5

\* No month is empty, nor goes beyond its year.
LEMMA FollowingFacts ==
  ASSUME NEW k \in 1..Months
  PROVE  Following(k) \in Nat /\ MonthStarts[k] < Following(k) /\ Following(k) <= YearDays
<1>1. CASE k = Months BY <1>1, CalendarFacts DEF Following
<1>2. CASE k # Months
  <2>1. k \in 1..(Months - 1) /\ k + 1 \in 1..Months /\ Months \in 1..Months BY <1>2, CalendarFacts
  <2>2. /\ MonthStarts[k] \in Nat /\ MonthStarts[k + 1] \in Nat /\ MonthStarts[Months] \in Nat
        /\ MonthStarts[k] < MonthStarts[k + 1] /\ MonthStarts[Months] < YearDays
    BY <2>1, CalendarFacts
  <2>3. CASE k + 1 = Months BY <1>2, <2>2, <2>3, CalendarFacts DEF Following
  <2>4. CASE k + 1 # Months
    <3>1. MonthStarts[k + 1] < MonthStarts[Months] BY <2>1, <2>4, MonthsAscend, CalendarFacts
    <3> QED BY <1>2, <2>2, <3>1, CalendarFacts DEF Following
  <2> QED BY <2>3, <2>4
<1> QED BY <1>1, <1>2

\* An instant lies in its month.
LEMMA MonthOf ==
  ASSUME NEW t \in Int
  PROVE  /\ Month(t) \in Int /\ Day(t) \in Int
         /\ FirstDay(Month(t)) \in Int /\ FirstDay(Month(t) + 1) \in Int
         /\ FirstDay(Month(t)) <= Day(t) /\ Day(t) < FirstDay(Month(t) + 1)
<1> DEFINE y == Day(t) \div YearDays
           d == Day(t) % YearDays
<1>1. Day(t) \in Int BY CalendarFacts DEF Day
<1>2. y \in Int /\ d \in 0..(YearDays - 1) /\ Day(t) = (y * YearDays) + d
  BY <1>1, DivisionFacts, CalendarFacts
<1>3. PICK k \in 1..Months :
        /\ MonthStarts[k] <= d /\ d < Following(k)
        /\ Cardinality({m \in 1..Months : MonthStarts[m] <= d}) = k
  BY <1>2, DayInMonth
<1>4. Month(t) = (y * Months) + k - 1 BY <1>3 DEF Month
<1> HIDE DEF y, d
<1>5. /\ FirstDay((y * Months) + k - 1) = (y * YearDays) + MonthStarts[k]
      /\ FirstDay((y * Months) + k) = (y * YearDays) + Following(k)
  BY <1>2, FirstDayOf
<1>6. y * Months \in Int /\ y * YearDays \in Int /\ k \in Int BY <1>2, CalendarFacts
<1>7. Month(t) \in Int /\ Month(t) + 1 = (y * Months) + k BY <1>4, <1>6
<1>8. MonthStarts[k] \in Nat /\ Following(k) \in Nat BY CalendarFacts, FollowingFacts
<1> QED BY <1>1, <1>2, <1>3, <1>4, <1>5, <1>6, <1>7, <1>8

\* A numbered month is a month of a year.
LEMMA YearAndMonth ==
  ASSUME NEW m \in Int
  PROVE  \E y \in Int, k \in 1..Months : m = (y * Months) + k - 1
<1>1. Months \in Nat /\ Months > 0 BY CalendarFacts
<1>2. /\ m \div Months \in Int /\ m % Months \in 0..(Months - 1)
      /\ m = ((m \div Months) * Months) + (m % Months)
  BY <1>1, DivisionFacts
<1>3. (m % Months) + 1 \in 1..Months BY <1>1, <1>2
<1>4. m = ((m \div Months) * Months) + ((m % Months) + 1) - 1 BY <1>1, <1>2
<1> QED BY <1>2, <1>3, <1>4

\* The month after a month begins later.
LEMMA MonthsFollow ==
  ASSUME NEW m \in Int
  PROVE  FirstDay(m) \in Int /\ FirstDay(m) < FirstDay(m + 1)
<1>1. PICK y \in Int, k \in 1..Months : m = (y * Months) + k - 1 BY YearAndMonth
<1>2. y * Months \in Int /\ y * YearDays \in Int /\ k \in Int BY CalendarFacts
<1>3. m + 1 = (y * Months) + k BY <1>1, <1>2
<1>4. /\ FirstDay(m) = (y * YearDays) + MonthStarts[k]
      /\ FirstDay(m + 1) = (y * YearDays) + Following(k)
  BY <1>1, <1>3, FirstDayOf
<1>5. MonthStarts[k] \in Nat /\ Following(k) \in Nat /\ MonthStarts[k] < Following(k)
  BY FollowingFacts, CalendarFacts
<1> QED BY <1>2, <1>4, <1>5

\* A later month begins after an earlier one has ended.
LEMMA MonthsGrow ==
  ASSUME NEW m \in Int, NEW n \in Int, m < n
  PROVE  FirstDay(m + 1) <= FirstDay(n)
<1>1. PICK y \in Int, k \in 1..Months : m = (y * Months) + k - 1 BY YearAndMonth
<1>2. PICK z \in Int, l \in 1..Months : n = (z * Months) + l - 1 BY YearAndMonth
<1>3. /\ y * Months \in Int /\ y * YearDays \in Int /\ k \in Int
      /\ z * Months \in Int /\ z * YearDays \in Int /\ l \in Int
  BY CalendarFacts
<1>4. m + 1 = (y * Months) + k BY <1>1, <1>3
<1>5. /\ FirstDay(m + 1) = (y * YearDays) + Following(k)
      /\ FirstDay(n) = (z * YearDays) + MonthStarts[l]
  BY <1>2, <1>4, FirstDayOf
<1>6. Following(k) \in Nat /\ Following(k) <= YearDays /\ MonthStarts[l] \in Nat
  BY FollowingFacts, CalendarFacts
<1>7. CASE y = z
  <2>1. k < l BY <1>1, <1>2, <1>3, <1>7
  <2>2. k # Months /\ k + 1 \in 1..Months BY <1>3, <2>1, CalendarFacts
  <2>3. CASE k + 1 = l BY <1>5, <1>6, <1>7, <1>3, <2>2, <2>3 DEF Following
  <2>4. CASE k + 1 # l
    <3>1. MonthStarts[k + 1] < MonthStarts[l] BY <1>3, <2>1, <2>2, <2>4, MonthsAscend
    <3>2. Following(k) = MonthStarts[k + 1] BY <2>2 DEF Following
    <3> QED BY <1>3, <1>5, <1>6, <1>7, <3>1, <3>2
  <2> QED BY <2>3, <2>4
<1>8. CASE y < z
  <2>1. (y + 1) * YearDays <= z * YearDays /\ (y + 1) * YearDays = (y * YearDays) + YearDays
    BY <1>8, Times, CalendarFacts
  <2> QED BY <1>3, <1>5, <1>6, <2>1, CalendarFacts
<1>9. CASE z < y
  <2>1. (z + 1) * Months <= y * Months /\ (z + 1) * Months = (z * Months) + Months
    BY <1>9, Times, CalendarFacts
  <2> QED BY <1>1, <1>2, <1>3, <2>1, CalendarFacts
<1> QED BY <1>7, <1>8, <1>9

\* The month an instant lies in is its month.
LEMMA MonthIs ==
  ASSUME NEW t \in Int, NEW m \in Int, FirstDay(m) <= Day(t), Day(t) < FirstDay(m + 1)
  PROVE  Month(t) = m
<1>1. /\ Month(t) \in Int /\ Day(t) \in Int
      /\ FirstDay(Month(t)) \in Int /\ FirstDay(Month(t) + 1) \in Int
      /\ FirstDay(Month(t)) <= Day(t) /\ Day(t) < FirstDay(Month(t) + 1)
  BY MonthOf
<1>2. FirstDay(m) \in Int /\ FirstDay(m + 1) \in Int BY MonthsFollow
<1>3. CASE Month(t) < m
  <2>1. FirstDay(Month(t) + 1) <= FirstDay(m) BY <1>1, <1>3, MonthsGrow
  <2> QED BY <1>1, <1>2, <2>1
<1>4. CASE m < Month(t)
  <2>1. FirstDay(m + 1) <= FirstDay(Month(t)) BY <1>1, <1>4, MonthsGrow
  <2> QED BY <1>1, <1>2, <2>1
<1> QED BY <1>1, <1>3, <1>4

\* An instant stands to the beginning of a day as its day stands to that day.
LEMMA DayBounds ==
  ASSUME NEW t \in Int, NEW a \in Int
  PROVE  /\ Day(t) \in Int /\ a * HoursADay \in Int
         /\ a * HoursADay <= t <=> a <= Day(t)
         /\ t < a * HoursADay <=> Day(t) < a
         /\ Day(a * HoursADay) = a /\ (a * HoursADay) % HoursADay = 0
<1>1. HoursADay \in Nat /\ HoursADay > 0 BY CalendarFacts
<1>2. Day(t) \in Int /\ t % HoursADay \in 0..(HoursADay - 1)
      /\ t = (Day(t) * HoursADay) + (t % HoursADay)
  BY <1>1, DivisionFacts DEF Day
<1>3. 0 \in 0..(HoursADay - 1) BY <1>1
<1>4. a * HoursADay \in Int /\ Day(t) * HoursADay \in Int BY <1>1, <1>2
<1>5. /\ ((a * HoursADay) + 0) \div HoursADay = a /\ ((a * HoursADay) + 0) % HoursADay = 0
  BY <1>1, <1>3, Division
<1>6. Day(a * HoursADay) = a /\ (a * HoursADay) % HoursADay = 0 BY <1>4, <1>5 DEF Day
<1>7. /\ a <= Day(t) <=> a * HoursADay <= Day(t) * HoursADay
      /\ Day(t) < a <=> (Day(t) + 1) * HoursADay <= a * HoursADay
      /\ (Day(t) + 1) * HoursADay = (Day(t) * HoursADay) + HoursADay
  BY <1>1, <1>2, Times
<1>8. /\ Day(t) >= a <=> ~(Day(t) < a) BY <1>2
<1>9. t < a * HoursADay <=> Day(t) < a
  <2>1. ASSUME Day(t) < a PROVE t < a * HoursADay BY <1>1, <1>2, <1>4, <1>7, <2>1
  <2>2. ASSUME a <= Day(t) PROVE ~(t < a * HoursADay) BY <1>1, <1>2, <1>4, <1>7, <2>2
  <2> QED BY <1>2, <2>1, <2>2
<1>10. a * HoursADay <= t <=> ~(t < a * HoursADay) BY <1>4
<1> QED BY <1>2, <1>4, <1>6, <1>8, <1>9, <1>10

\* The months before month m that are whole units of u months.
UnitMonth(m, u) == m - (m % u)

\* A number lies in its unit, with whatever else lies there.
LEMMA UnitMonthFacts ==
  ASSUME NEW m \in Int, NEW u \in Nat, u > 0
  PROVE  /\ UnitMonth(m, u) \in Int /\ UnitMonth(m, u) <= m /\ m < UnitMonth(m, u) + u
         /\ \A n \in Int : UnitMonth(m, u) <= n /\ n < UnitMonth(m, u) + u
                           => UnitMonth(n, u) = UnitMonth(m, u)
<1>1. /\ m \div u \in Int /\ m % u \in 0..(u - 1) /\ m = ((m \div u) * u) + (m % u)
  BY DivisionFacts
<1>2. (m \div u) * u \in Int BY <1>1
<1>3. UnitMonth(m, u) = (m \div u) * u BY <1>1, <1>2 DEF UnitMonth
<1>4. ASSUME NEW n \in Int, (m \div u) * u <= n, n < ((m \div u) * u) + u
      PROVE  UnitMonth(n, u) = (m \div u) * u
  <2>1. n - ((m \div u) * u) \in 0..(u - 1) /\ n = ((m \div u) * u) + (n - ((m \div u) * u))
    BY <1>2, <1>4
  <2>2. n % u = n - ((m \div u) * u) BY <1>1, <2>1, Division
  <2> QED BY <1>2, <2>2 DEF UnitMonth
<1> QED BY <1>1, <1>2, <1>3, <1>4

\* The floor of an instant in units of u months, and what comes u months after.
LEMMA MonthsFloor ==
  ASSUME NEW m \in Int, NEW u \in Nat, u > 0
  PROVE  /\ FirstDay(m) \in Int /\ FirstDay(m + u) \in Int
         /\ addMonthsClamped(FirstDay(m) * HoursADay, 1 * u) = FirstDay(m + u) * HoursADay
<1>1. FirstDay(m) \in Int /\ FirstDay(m) < FirstDay(m + 1) BY MonthsFollow
<1>2. FirstDay(m + u) \in Int /\ FirstDay(m + u) < FirstDay((m + u) + 1)
      /\ FirstDay((m + u) + 1) \in Int
  BY MonthsFollow
<1> DEFINE t == FirstDay(m) * HoursADay
<1>3. t \in Int /\ Day(t) = FirstDay(m) /\ t % HoursADay = 0 BY <1>1, DayBounds
<1> HIDE DEF t
<1>4. Month(t) = m BY <1>1, <1>3, MonthIs
<1>5. daysInMonth(m + u) - 1 \in Int /\ ~(0 > daysInMonth(m + u) - 1) BY <1>2 DEF daysInMonth
<1>6. Day(t) - FirstDay(Month(t)) = 0 /\ Month(t) + (1 * u) = m + u BY <1>1, <1>3, <1>4
<1>7. addMonthsClamped(t, 1 * u) = ((FirstDay(m + u) + 0) * HoursADay) + 0
  BY <1>3, <1>5, <1>6 DEF addMonthsClamped
<1>8. FirstDay(m + u) + 0 = FirstDay(m + u) /\ FirstDay(m + u) * HoursADay \in Int
  BY <1>2, DayBounds
<1> QED BY <1>1, <1>2, <1>7, <1>8 DEF t

\* Units of u months cut time.
LEMMA MonthsCut ==
  ASSUME NEW t \in Int, NEW u \in Nat, u > 0
  PROVE  LET low(x) == FirstDay(UnitMonth(Month(x), u)) * HoursADay
             high(x) == addMonthsClamped(low(x), 1 * u)
         IN  /\ low(t) \in Int /\ high(t) \in Int /\ low(t) <= t /\ t < high(t)
             /\ \A v \in Int : low(t) <= v /\ v < high(t) => low(v) = low(t)
<1> DEFINE m == UnitMonth(Month(t), u)
<1>1. /\ Month(t) \in Int /\ Day(t) \in Int
      /\ FirstDay(Month(t)) <= Day(t) /\ Day(t) < FirstDay(Month(t) + 1)
  BY MonthOf
<1>2. /\ m \in Int /\ m <= Month(t) /\ Month(t) < m + u
      /\ \A n \in Int : m <= n /\ n < m + u => UnitMonth(n, u) = m
  BY <1>1, UnitMonthFacts
<1> HIDE DEF m
<1>3. /\ FirstDay(m) \in Int /\ FirstDay(m + u) \in Int
      /\ addMonthsClamped(FirstDay(m) * HoursADay, 1 * u) = FirstDay(m + u) * HoursADay
  BY <1>2, MonthsFloor
<1>4. FirstDay(m) <= Day(t)
  <2>1. CASE m = Month(t) BY <1>1, <2>1
  <2>2. CASE m # Month(t)
    <3>1. m < Month(t) BY <1>1, <1>2, <2>2
    <3>2. FirstDay(m) < FirstDay(m + 1) /\ FirstDay(m + 1) \in Int BY <1>2, MonthsFollow
    <3>3. FirstDay(m + 1) <= FirstDay(Month(t)) /\ FirstDay(Month(t)) \in Int
      BY <1>1, <1>2, <3>1, MonthsGrow, MonthsFollow
    <3> QED BY <1>1, <1>3, <3>2, <3>3
  <2> QED BY <2>1, <2>2
<1>5. Day(t) < FirstDay(m + u)
  <2>1. m + u \in Int BY <1>2
  <2>2. FirstDay(Month(t) + 1) <= FirstDay(m + u) BY <1>1, <1>2, <2>1, MonthsGrow
  <2>3. FirstDay(Month(t) + 1) \in Int BY <1>1, MonthsFollow
  <2> QED BY <1>1, <1>3, <2>2, <2>3
<1>6. /\ FirstDay(m) * HoursADay \in Int /\ FirstDay(m + u) * HoursADay \in Int
      /\ FirstDay(m) * HoursADay <= t /\ t < FirstDay(m + u) * HoursADay
  BY <1>3, <1>4, <1>5, DayBounds
<1>7. ASSUME NEW v \in Int, FirstDay(m) * HoursADay <= v, v < FirstDay(m + u) * HoursADay
      PROVE  UnitMonth(Month(v), u) = m
  <2>1. FirstDay(m) <= Day(v) /\ Day(v) < FirstDay(m + u) BY <1>3, <1>7, DayBounds
  <2>2. /\ Month(v) \in Int /\ Day(v) \in Int
        /\ FirstDay(Month(v)) \in Int /\ FirstDay(Month(v) + 1) \in Int
        /\ FirstDay(Month(v)) <= Day(v) /\ Day(v) < FirstDay(Month(v) + 1)
    BY MonthOf
  <2>3. ~(Month(v) < m)
    <3>1. SUFFICES ASSUME Month(v) < m PROVE FALSE OBVIOUS
    <3>2. FirstDay(Month(v) + 1) <= FirstDay(m) BY <1>2, <2>2, <3>1, MonthsGrow
    <3> QED BY <1>3, <2>1, <2>2, <3>2
  <2>4. ~(m + u <= Month(v))
    <3>1. SUFFICES ASSUME m + u <= Month(v) PROVE FALSE OBVIOUS
    <3>2. CASE m + u = Month(v) BY <1>3, <2>1, <2>2, <3>2
    <3>3. CASE m + u # Month(v)
      <4>1. m + u \in Int /\ m + u < Month(v) BY <1>2, <2>2, <3>1, <3>3
      <4>2. FirstDay((m + u) + 1) <= FirstDay(Month(v)) BY <2>2, <4>1, MonthsGrow
      <4>3. FirstDay(m + u) < FirstDay((m + u) + 1) /\ FirstDay((m + u) + 1) \in Int
        BY <4>1, MonthsFollow
      <4> QED BY <1>3, <2>1, <2>2, <4>2, <4>3
    <3> QED BY <3>2, <3>3
  <2>5. m <= Month(v) /\ Month(v) < m + u BY <1>2, <2>2, <2>3, <2>4
  <2> QED BY <1>2, <2>2, <2>5
<1> QED BY <1>3, <1>6, <1>7 DEF m

\* Weeks cut time, whatever day they begin on.
LEMMA WeekCuts ==
  ASSUME NEW t \in Int
  PROVE  LET low(x) == (Day(x) - ((Day(x) - weekOffset) % WeekDays)) * HoursADay
             high(x) == low(x) + (1 * (WeekDays * HoursADay))
         IN  /\ low(t) \in Int /\ high(t) \in Int /\ low(t) <= t /\ t < high(t)
             /\ \A v \in Int : low(t) <= v /\ v < high(t) => low(v) = low(t)
<1> DEFINE w(x) == UnitMonth(Day(x) - weekOffset, WeekDays) + weekOffset
<1>0. WeekDays \in Nat /\ WeekDays > 0 /\ HoursADay \in Nat /\ HoursADay > 0 /\ weekOffset \in Int
  BY CalendarFacts
<1>1. ASSUME NEW x \in Int
      PROVE  /\ Day(x) \in Int /\ Day(x) - weekOffset \in Int /\ w(x) \in Int
             /\ w(x) = Day(x) - ((Day(x) - weekOffset) % WeekDays)
  <2>1. Day(x) \in Int /\ Day(x) - weekOffset \in Int BY <1>0, DayBounds
  <2>2. (Day(x) - weekOffset) % WeekDays \in Int BY <1>0, <2>1, DivisionFacts
  <2> QED BY <1>0, <2>1, <2>2 DEF UnitMonth
<1>2. /\ UnitMonth(Day(t) - weekOffset, WeekDays) \in Int
      /\ UnitMonth(Day(t) - weekOffset, WeekDays) <= Day(t) - weekOffset
      /\ Day(t) - weekOffset < UnitMonth(Day(t) - weekOffset, WeekDays) + WeekDays
      /\ \A n \in Int :
           /\ UnitMonth(Day(t) - weekOffset, WeekDays) <= n
           /\ n < UnitMonth(Day(t) - weekOffset, WeekDays) + WeekDays
           => UnitMonth(n, WeekDays) = UnitMonth(Day(t) - weekOffset, WeekDays)
  BY <1>0, <1>1, UnitMonthFacts
<1>3. w(t) <= Day(t) /\ Day(t) < w(t) + WeekDays BY <1>0, <1>1, <1>2
<1>4. ASSUME NEW v \in Int, w(t) <= Day(v), Day(v) < w(t) + WeekDays PROVE w(v) = w(t)
  <2>1. Day(v) \in Int /\ Day(v) - weekOffset \in Int BY <1>1
  <2>2. /\ UnitMonth(Day(t) - weekOffset, WeekDays) <= Day(v) - weekOffset
        /\ Day(v) - weekOffset < UnitMonth(Day(t) - weekOffset, WeekDays) + WeekDays
    BY <1>0, <1>2, <1>4, <2>1
  <2> QED BY <1>2, <2>1, <2>2
<1> HIDE DEF w
<1>5. /\ w(t) * HoursADay \in Int
      /\ (w(t) * HoursADay) + (1 * (WeekDays * HoursADay)) = (w(t) + WeekDays) * HoursADay
      /\ w(t) + WeekDays \in Int /\ (w(t) + WeekDays) * HoursADay \in Int
  BY <1>0, <1>1
<1>6. w(t) * HoursADay <= t /\ t < (w(t) + WeekDays) * HoursADay
  BY <1>1, <1>3, <1>5, DayBounds
<1>7. ASSUME NEW v \in Int, w(t) * HoursADay <= v, v < (w(t) + WeekDays) * HoursADay
      PROVE  w(v) = w(t)
  <2>1. w(t) <= Day(v) /\ Day(v) < w(t) + WeekDays BY <1>1, <1>5, <1>7, DayBounds
  <2> QED BY <1>4, <2>1
<1> QED BY <1>1, <1>5, <1>6, <1>7

\* A day cuts time, for days of any length (date_trunc.go:110-112).
LEMMA DayCuts ==
  ASSUME NEW t \in Int, NEW u \in Int
  PROVE  /\ dayOnly(t) \in Int /\ dayOnly(t) <= t /\ t < dayOnly(t) + HoursADay
         /\ dayOnly(t) <= u /\ u < dayOnly(t) + HoursADay => dayOnly(u) = dayOnly(t)
<1>1. HoursADay \in Nat /\ HoursADay > 0 BY CalendarAssumption
<1> QED BY <1>1 DEF dayOnly, Day

\* A duration within the reach of an int64 is what it says.
LEMMA NoWrap ==
  ASSUME NEW d \in Int, -DurationSpan <= d, d < DurationSpan
  PROVE  Duration(d) = d
<1> DEFINE b == 2 * DurationSpan
           r == d + DurationSpan
<1>1. DurationSpan \in Nat BY CalendarAssumption
<1>2. b \in Nat /\ b > 0 /\ r \in 0..(b - 1) BY <1>1
<1> HIDE DEF b, r
<1>3. ((0 * b) + r) % b = r BY <1>2, Division
<1>4. r % b = r BY <1>2, <1>3
<1> QED BY <1>1, <1>4 DEF Duration, b, r

\* A day and a week are within it.
LEMMA UnitsDoNotWrap ==
  /\ Duration(1 * (WeekDays * HoursADay)) = 1 * (WeekDays * HoursADay)
  /\ Duration(1 * HoursADay) = 1 * HoursADay
<1>1. HoursADay \in Nat \ {0} /\ WeekDays \in Nat \ {0} BY CalendarAssumption
<1>2. WeekDays * HoursADay \in Nat /\ HoursADay <= WeekDays * HoursADay BY <1>1
<1>3. WeekDays * HoursADay < DurationSpan /\ DurationSpan \in Nat BY CalendarAssumption
<1>4. Duration(WeekDays * HoursADay) = WeekDays * HoursADay BY <1>2, <1>3, NoWrap
<1>5. Duration(HoursADay) = HoursADay BY <1>1, <1>2, <1>3, NoWrap
<1> QED BY <1>1, <1>2, <1>4, <1>5

\* Every unit DATE_TRUNC knows cuts time, on any calendar: the floor of an
\* instant and the floor after it bound the instants of the same floor
\* (date_trunc.go:85-137).
THEOREM UnitsCutTime ==
  ASSUME NEW unit \in truncUnits
  PROVE  CutsTime([t \in Int |-> dateTruncFloor(t, unit)],
                  [t \in Int |-> dateTruncNextFloor(t, unit)])
<1>1. SUFFICES ASSUME NEW t \in Int
               PROVE  /\ dateTruncFloor(t, unit) \in Int /\ dateTruncNextFloor(t, unit) \in Int
                      /\ dateTruncFloor(t, unit) <= t /\ t < dateTruncNextFloor(t, unit)
                      /\ \A v \in Int :
                           dateTruncFloor(t, unit) <= v /\ v < dateTruncNextFloor(t, unit)
                             => dateTruncFloor(v, unit) = dateTruncFloor(t, unit)
  BY DEF CutsTime, dateTruncNextFloor
<1>2. CASE unit \in {"YEAR", "QUARTER", "MONTH"}
  <2> DEFINE u == monthUnits[unit]
             low(x) == FirstDay(UnitMonth(Month(x), u)) * HoursADay
  <2>1. unit \in DOMAIN monthUnits /\ u \in Nat /\ u > 0 BY <1>2, CalendarFacts DEF monthUnits
  <2>2. \A x : dateTruncFloor(x, unit) = low(x) BY <2>1 DEF dateTruncFloor, UnitMonth
  <2>3. \A x : dateTruncNextFloor(x, unit) = addMonthsClamped(low(x), 1 * u)
    BY <2>1, <2>2 DEF dateTruncNextFloor, addCalendarInterval
  <2>4. /\ low(t) \in Int /\ addMonthsClamped(low(t), 1 * u) \in Int
        /\ low(t) <= t /\ t < addMonthsClamped(low(t), 1 * u)
        /\ \A v \in Int : low(t) <= v /\ v < addMonthsClamped(low(t), 1 * u)
                          => low(v) = low(t)
    <3> HIDE DEF u
    <3> QED BY <2>1, MonthsCut
  <2> HIDE DEF low, u
  <2> QED BY <2>2, <2>3, <2>4
<1>3. CASE unit = "WEEK"
  <2> DEFINE low(x) == (Day(x) - ((Day(x) - weekOffset) % WeekDays)) * HoursADay
  <2>1. \A x : dateTruncFloor(x, unit) = low(x) BY <1>3 DEF dateTruncFloor, monthUnits
  <2>2. \A x : dateTruncNextFloor(x, unit) = low(x) + (1 * (WeekDays * HoursADay))
    BY <1>3, <2>1, UnitsDoNotWrap
    DEF dateTruncNextFloor, addCalendarInterval, monthUnits, durationUnits
  <2>3. /\ low(t) \in Int /\ low(t) + (1 * (WeekDays * HoursADay)) \in Int
        /\ low(t) <= t /\ t < low(t) + (1 * (WeekDays * HoursADay))
        /\ \A v \in Int : low(t) <= v /\ v < low(t) + (1 * (WeekDays * HoursADay))
                          => low(v) = low(t)
    BY WeekCuts
  <2> HIDE DEF low
  <2> QED BY <2>1, <2>2, <2>3
<1>4. CASE unit = "DAY"
  <2>1. \A x : dateTruncFloor(x, unit) = dayOnly(x) BY <1>4 DEF dateTruncFloor, monthUnits
  <2>2. \A x : dateTruncNextFloor(x, unit) = dayOnly(x) + (1 * HoursADay)
    BY <1>4, <2>1, UnitsDoNotWrap
    DEF dateTruncNextFloor, addCalendarInterval, monthUnits, durationUnits
  <2>3. HoursADay \in Nat /\ 1 * HoursADay = HoursADay BY CalendarFacts
  <2> QED BY <2>1, <2>2, <2>3, DayCuts
<1> QED BY <1>2, <1>3, <1>4 DEF truncUnits

\* A comparison of DATE_TRUNC(unit, x) with a date answers what the comparison
\* of x it is replaced by answers, for every unit and on any calendar
\* (date_trunc.go:195-243).
THEOREM DateTruncComparisonIsSound ==
  ASSUME NEW unit \in truncUnits, NEW x \in Int, NEW d \in Int, NEW class \in Ordering
  PROVE  Holds(class, dateTruncFloor(x, unit), d)
           <=> Holds(truncComparison[class], x,
                     truncBound(class, dateTruncFloor(d, unit), dateTruncNextFloor(d, unit), d))
<1> DEFINE floor == [t \in Int |-> dateTruncFloor(t, unit)]
           next == [t \in Int |-> dateTruncNextFloor(t, unit)]
<1>1. CutsTime(floor, next) BY UnitsCutTime
<1>2. /\ floor[x] = dateTruncFloor(x, unit) /\ floor[d] = dateTruncFloor(d, unit)
      /\ next[d] = dateTruncNextFloor(d, unit)
  OBVIOUS
<1> HIDE DEF floor, next
<1>3. Holds(class, floor[x], d)
        <=> Holds(truncComparison[class], x, truncBound(class, floor[d], next[d], d))
  BY <1>1, TruncatedComparisonIsSound
<1> QED BY <1>2, <1>3

-----------------------------------------------------------------------------
(* Spans that touch. *)

\* A finite set of integers that is not empty has a least element.
LEMMA FiniteLeast ==
  ASSUME NEW S, S \subseteq Int, S # {}, IsFiniteSet(S)
  PROVE  \E x \in S : \A y \in S : x <= y
<1> DEFINE HasLeast(T) == \E x \in T : \A y \in T : x <= y
           Sizes == {n \in Nat : \E T \in SUBSET S : T # {} /\ Cardinality(T) = n /\ ~ HasLeast(T)}
<1>1. SUFFICES ASSUME ~ HasLeast(S) PROVE FALSE OBVIOUS
<1>2. Cardinality(S) \in Sizes BY <1>1, FS_CardinalityType
<1>3. PICK n \in Sizes : \A k \in Sizes : n <= k BY <1>2, LeastElement
<1>4. PICK T \in SUBSET S : T # {} /\ Cardinality(T) = n /\ ~ HasLeast(T) BY <1>3
<1>5. PICK a \in T : TRUE BY <1>4
<1>6. IsFiniteSet(T) BY FS_Subset
<1>7. /\ IsFiniteSet(T \ {a}) /\ Cardinality(T \ {a}) = n - 1
  BY <1>4, <1>5, <1>6, FS_RemoveElement
<1>8. CASE T \ {a} = {}
  <2>1. a \in Int /\ \A y \in T : y = a BY <1>5, <1>8
  <2>2. a <= a BY <2>1
  <2> QED BY <1>4, <1>5, <2>1, <2>2
<1>9. CASE T \ {a} # {}
  <2>1. n - 1 \in Nat BY <1>7, FS_CardinalityType
  <2>2. n - 1 \notin Sizes BY <1>3, <2>1
  <2>3. HasLeast(T \ {a})
    <3>1. T \ {a} \in SUBSET S OBVIOUS
    <3> HIDE DEF HasLeast
    <3> QED BY <1>7, <1>9, <2>1, <2>2, <3>1
  <2>4. PICK b \in T \ {a} : \A y \in T \ {a} : b <= y BY <2>3
  <2>5. a \in Int /\ b \in Int /\ T \subseteq Int BY <1>5, <2>4
  <2>6. CASE a <= b
    <3>1. ASSUME NEW y \in T PROVE a <= y
      <4>1. CASE y = a BY <2>5, <4>1
      <4>2. CASE y # a
        <5>1. b <= y /\ y \in Int BY <2>4, <2>5, <4>2
        <5> QED BY <2>5, <2>6, <5>1
      <4> QED BY <4>1, <4>2
    <3> QED BY <1>4, <1>5, <3>1
  <2>7. CASE b <= a
    <3>1. ASSUME NEW y \in T PROVE b <= y BY <2>4, <2>7
    <3> QED BY <1>4, <2>4, <3>1
  <2> QED BY <2>5, <2>6, <2>7
<1> QED BY <1>8, <1>9

\* What a function makes of a finite set is finite.
LEMMA FiniteImage ==
  ASSUME NEW S, IsFiniteSet(S), NEW f
  PROVE  IsFiniteSet({f[s] : s \in S})
<1> DEFINE h == [s \in S |-> f[s]]
<1>1. h \in Surjection(S, {f[s] : s \in S}) BY DEF Surjection
<1> QED BY <1>1, FS_Surjection

\* A set of integers none of which is less than b has a least element.
LEMMA BoundedLeast ==
  ASSUME NEW S, S \subseteq Int, S # {}, NEW b \in Int, \A s \in S : b <= s
  PROVE  \E x \in S : \A y \in S : x <= y
<1> DEFINE N == {n \in Nat : b + n \in S}
<1>1. \A s \in S : s - b \in Nat /\ b + (s - b) = s OBVIOUS
<1>2. N # {}
  <2>1. PICK s \in S : TRUE OBVIOUS
  <2>2. s - b \in N BY <1>1
  <2> QED BY <2>2
<1>3. PICK n \in N : \A k \in N : n <= k BY <1>2, LeastElement
<1>4. b + n \in S /\ n \in Nat BY <1>3
<1>5. ASSUME NEW y \in S PROVE b + n <= y
  <2>1. y - b \in N /\ y \in Int BY <1>1
  <2>2. n <= y - b BY <1>3, <2>1
  <2> QED BY <1>4, <2>1, <2>2
<1> QED BY <1>4, <1>5

\* The span after a span begins where that ends.
LEMMA NextIsFloor ==
  ASSUME NEW floor, NEW next, CutsTime(floor, next), NEW t \in Int
  PROVE  floor[next[t]] = next[t]
<1> DEFINE n == next[t]
           f == floor[n]
<1>1. n \in Int /\ floor[t] \in Int /\ floor[t] <= t /\ t < n BY DEF CutsTime
<1>2. f \in Int /\ f <= n /\ next[n] \in Int /\ n < next[n] BY <1>1 DEF CutsTime
<1>3. \A u \in Int : f <= u /\ u < next[n] => next[u] = next[n] BY <1>1 DEF CutsTime
<1>4. \A u \in Int : floor[t] <= u /\ u < n => next[u] = n BY DEF CutsTime
<1> HIDE DEF n, f
<1>5. ~ (f < n)
  <2>1. SUFFICES ASSUME f < n PROVE FALSE OBVIOUS
  <2>2. CASE f <= t
    <3>1. next[t] = next[n] BY <1>1, <1>2, <1>3, <2>2
    <3> QED BY <1>2, <3>1 DEF n
  <2>3. CASE t < f
    <3>1. next[f] = n BY <1>1, <1>2, <1>4, <2>1, <2>3
    <3>2. next[f] = next[n] BY <1>1, <1>2, <1>3, <2>1
    <3> QED BY <1>2, <3>1, <3>2
  <2> QED BY <1>1, <1>2, <2>2, <2>3
<1>6. f = n BY <1>1, <1>2, <1>5
<1> QED BY <1>6 DEF f, n

\* From a floor to the first end that is no floor, every span is one of the
\* floors'.
LEMMA SpansUpTo ==
  ASSUME NEW floor, NEW next, CutsTime(floor, next),
         NEW floors \in SUBSET Int, NEW low \in floors, floor[low] = low, NEW e \in Int,
         \A g \in floors : g >= low /\ next[g] \notin floors => e <= next[g],
         NEW x \in Int, low <= x, x < e
  PROVE  floor[x] \in floors
<1> DEFINE Out == {t \in Int : low <= t /\ t < e /\ floor[t] \notin floors}
<1>1. SUFFICES ASSUME Out # {} PROVE FALSE OBVIOUS
<1>2. low \in Int /\ Out \subseteq Int /\ \A s \in Out : low <= s OBVIOUS
<1>3. PICK t \in Out : \A s \in Out : t <= s
  <2> HIDE DEF Out
  <2> QED BY <1>1, <1>2, BoundedLeast
<1>4. t \in Int /\ low <= t /\ t < e /\ floor[t] \notin floors BY <1>3
<1>5. t # low /\ t - 1 \in Int /\ low <= t - 1 /\ t - 1 < e /\ ~ (t <= t - 1) BY <1>2, <1>4
<1>6. floor[t - 1] \in floors BY <1>3, <1>5
<1> DEFINE g == floor[t - 1]
<1>7. /\ g \in Int /\ g <= t - 1 /\ next[t - 1] \in Int /\ t - 1 < next[t - 1]
      /\ floor[t] \in Int /\ floor[t] <= t
  BY <1>4, <1>5 DEF CutsTime
<1>8. \A u \in Int : g <= u /\ u < next[t - 1] => floor[u] = g /\ next[u] = next[t - 1]
  BY <1>5 DEF CutsTime
<1> HIDE DEF g
<1>9. next[g] = next[t - 1] BY <1>7, <1>8
<1>10. next[t - 1] = t
  <2>1. ~ (t < next[t - 1])
    <3>1. SUFFICES ASSUME t < next[t - 1] PROVE FALSE OBVIOUS
    <3>2. floor[t] = g BY <1>4, <1>7, <1>8, <3>1
    <3> QED BY <1>4, <1>6, <3>2 DEF g
  <2> QED BY <1>4, <1>7, <2>1
<1>11. floor[t] = t BY <1>5, <1>10, NextIsFloor
<1>12. low <= g
  <2>1. ~ (g < low)
    <3>1. SUFFICES ASSUME g < low PROVE FALSE OBVIOUS
    <3>2. low < next[t - 1] BY <1>2, <1>4, <1>5, <1>10
    <3>3. floor[low] = g BY <1>2, <1>8, <3>1, <3>2, <1>7
    <3> QED BY <1>2, <1>7, <3>1, <3>3
  <2> QED BY <1>2, <1>7, <2>1
<1>13. next[g] \notin floors BY <1>4, <1>9, <1>10, <1>11
<1>14. g \in floors BY <1>6 DEF g
<1>15. e <= t BY <1>2, <1>7, <1>9, <1>10, <1>12, <1>13, <1>14
<1> QED BY <1>4, <1>15

\* DATE_TRUNC(unit, x) IN (...) becomes the ranges of the floors listed, those
\* that touch merged into one: x lies in one of them exactly if it is cut to
\* one of the floors (date_trunc.go:283-371).
THEOREM MergedSpansAreExact ==
  ASSUME NEW unit \in truncUnits, NEW floors \in SUBSET Int, IsFiniteSet(floors),
         \A f \in floors : dateTruncFloor(f, unit) = f, NEW x \in Int
  PROVE  dateTruncFloor(x, unit) \in floors
           <=> \E low \in mergedLows(floors, unit) :
                 low <= x /\ x < mergedHigh(low, floors, unit)
<1> DEFINE floor == [t \in Int |-> dateTruncFloor(t, unit)]
           next == [t \in Int |-> dateTruncNextFloor(t, unit)]
           Ends(low) == {next[g] : g \in {g \in floors : g >= low}} \ floors
<1>1. CutsTime(floor, next) BY UnitsCutTime
<1>2. /\ \A t \in Int : floor[t] = dateTruncFloor(t, unit)
      /\ \A t \in Int : next[t] = dateTruncNextFloor(t, unit)
  OBVIOUS
<1>3. \A f \in floors : floor[f] = f BY <1>2
<1>4. ASSUME NEW low \in floors
      PROVE  mergedHigh(low, floors, unit) = CHOOSE e \in Ends(low) : \A f \in Ends(low) : e <= f
  <2>1. Ends(low) = {dateTruncNextFloor(g, unit) : g \in {g \in floors : g >= low}} \ floors
    BY <1>2
  <2> HIDE DEF Ends, floor, next
  <2> QED BY <2>1 DEF mergedHigh
<1>5. mergedLows(floors, unit) = {f \in floors : \A g \in floors : next[g] # f}
  BY <1>2 DEF mergedLows
<1> HIDE DEF floor, next
<1>6. \A t \in Int : /\ floor[t] \in Int /\ next[t] \in Int /\ floor[t] <= t /\ t < next[t]
  BY <1>1 DEF CutsTime
<1>7. ASSUME NEW low \in floors
      PROVE  /\ mergedHigh(low, floors, unit) \in Ends(low)
             /\ \A f \in Ends(low) : mergedHigh(low, floors, unit) <= f
             /\ Ends(low) \subseteq Int
  <2> DEFINE A == {g \in floors : g >= low}
  <2>1. IsFiniteSet(A) BY FS_Subset
  <2>2. IsFiniteSet({next[g] : g \in A})
    <3> HIDE DEF A
    <3> QED BY <2>1, FiniteImage
  <2>3. IsFiniteSet(Ends(low)) BY <2>2, FS_Subset
  <2>4. Ends(low) \subseteq Int BY <1>6
  <2>5. Ends(low) # {}
    <3>1. SUFFICES ASSUME Ends(low) = {} PROVE FALSE OBVIOUS
    <3> DEFINE Down == {-g : g \in A}
    <3>2. low \in A BY <1>6
    <3>3. IsFiniteSet(Down)
      <4> DEFINE minus == [i \in Int |-> -i]
      <4>1. IsFiniteSet({minus[g] : g \in A})
        <5> HIDE DEF A, minus
        <5> QED BY <2>1, FiniteImage
      <4>2. {minus[g] : g \in A} = Down OBVIOUS
      <4> QED BY <4>1, <4>2
    <3>4. Down \subseteq Int /\ Down # {} BY <3>2
    <3>5. PICK d \in Down : \A y \in Down : d <= y
      <4> HIDE DEF Down
      <4> QED BY <3>3, <3>4, FiniteLeast
    <3>6. PICK g \in A : d = -g BY <3>5
    <3>7. next[g] \in floors BY <3>1, <3>6
    <3>8. g \in Int /\ low \in Int /\ next[g] \in Int /\ g < next[g] /\ low <= g BY <1>6, <3>6
    <3>9. next[g] \in A BY <3>7, <3>8
    <3>10. -g <= -next[g] BY <3>5, <3>6, <3>9
    <3> QED BY <3>8, <3>10
  <2> HIDE DEF Ends
  <2>6. \E e \in Ends(low) : \A f \in Ends(low) : e <= f BY <2>3, <2>4, <2>5, FiniteLeast
  <2> QED BY <1>4, <2>4, <2>6
<1>8. ASSUME NEW low \in mergedLows(floors, unit), low <= x, x < mergedHigh(low, floors, unit)
      PROVE  floor[x] \in floors
  <2>1. low \in floors BY <1>5
  <2> DEFINE e == mergedHigh(low, floors, unit)
  <2>2. e \in Int /\ \A f \in Ends(low) : e <= f BY <1>7, <2>1
  <2>3. \A g \in floors : g >= low /\ next[g] \notin floors => next[g] \in Ends(low) OBVIOUS
  <2>4. x < e BY <1>8
  <2> HIDE DEF e, Ends
  <2>5. \A g \in floors : g >= low /\ next[g] \notin floors => e <= next[g] BY <2>2, <2>3
  <2> QED BY <1>1, <1>3, <1>8, <2>1, <2>2, <2>4, <2>5, SpansUpTo
<1>9. ASSUME floor[x] \in floors
      PROVE  \E low \in mergedLows(floors, unit) :
               low <= x /\ x < mergedHigh(low, floors, unit)
  <2> DEFINE C == {f \in floors : f <= x /\ \A t \in Int : f <= t /\ t <= x => floor[t] \in floors}
  <2>1. floor[x] \in C
    <3>1. \A t \in Int : floor[x] <= t /\ t <= x => floor[t] = floor[x] BY <1>1, <1>6 DEF CutsTime
    <3> QED BY <1>6, <1>9, <3>1
  <2>2. C \subseteq Int /\ C # {} /\ IsFiniteSet(C) BY <2>1, FS_Subset
  <2>3. PICK low \in C : \A f \in C : low <= f
    <3> HIDE DEF C
    <3> QED BY <2>2, FiniteLeast
  <2>4. /\ low \in floors /\ low \in Int /\ low <= x
        /\ \A t \in Int : low <= t /\ t <= x => floor[t] \in floors
    BY <2>3
  <2>5. low \in mergedLows(floors, unit)
    <3>1. SUFFICES ASSUME NEW g \in floors, next[g] = low PROVE FALSE BY <1>5, <2>4
    <3>2. g \in Int /\ g < low /\ floor[g] = g BY <1>3, <1>6, <3>1
    <3>3. ASSUME NEW t \in Int, g <= t, t <= x PROVE floor[t] \in floors
      <4>1. CASE low <= t BY <2>4, <3>3, <4>1
      <4>2. CASE t < low
        <5>1. floor[t] = floor[g] BY <1>1, <3>1, <3>2, <3>3, <4>2 DEF CutsTime
        <5> QED BY <3>2, <5>1
      <4> QED BY <2>4, <4>1, <4>2
    <3>4. g \in C BY <2>4, <3>2, <3>3
    <3>5. low <= g BY <2>3, <3>4
    <3> QED BY <2>4, <3>2, <3>5
  <2>6. x < mergedHigh(low, floors, unit)
    <3> DEFINE e == mergedHigh(low, floors, unit)
    <3>1. e \in Ends(low) /\ e \in Int BY <1>7, <2>4
    <3>2. PICK g \in floors : g >= low /\ e = next[g] /\ e \notin floors BY <3>1
    <3> HIDE DEF e, Ends
    <3>3. g \in Int /\ g < e /\ floor[e] = e BY <1>1, <1>6, <3>2, NextIsFloor
    <3>4. ~ (e <= x)
      <4>1. SUFFICES ASSUME e <= x PROVE FALSE OBVIOUS
      <4>2. low <= e BY <2>4, <3>1, <3>2, <3>3
      <4>3. floor[e] \in floors BY <2>4, <3>1, <4>1, <4>2
      <4> QED BY <3>2, <3>3, <4>3
    <3>5. x < e BY <3>1, <3>4
    <3> QED BY <3>5 DEF e
  <2> QED BY <2>4, <2>5, <2>6
<1> QED BY <1>2, <1>8, <1>9

-----------------------------------------------------------------------------
(* Moves. *)

\* The instant at hour h of day i of month m, both counted from 0.
At(m, i, h) == ((FirstDay(m) + i) * HoursADay) + h
DaysOf(m) == 0..(daysInMonth(m) - 1)
Clock == 0..(HoursADay - 1)

\* A month has days, and the next begins after them.
LEMMA MonthHasDays ==
  ASSUME NEW m \in Int
  PROVE  daysInMonth(m) \in Nat /\ daysInMonth(m) > 0 /\ FirstDay(m) \in Int
         /\ FirstDay(m + 1) = FirstDay(m) + daysInMonth(m)
<1>1. FirstDay(m) \in Int /\ FirstDay(m) < FirstDay(m + 1) BY MonthsFollow
<1>2. FirstDay(m + 1) \in Int BY MonthsFollow
<1> QED BY <1>1, <1>2 DEF daysInMonth

\* What such an instant is made of.
LEMMA AtFacts ==
  ASSUME NEW m \in Int, NEW i \in DaysOf(m), NEW h \in Clock
  PROVE  /\ At(m, i, h) \in Int /\ Month(At(m, i, h)) = m
         /\ Day(At(m, i, h)) = FirstDay(m) + i /\ At(m, i, h) % HoursADay = h
<1>1. HoursADay \in Nat /\ HoursADay > 0 BY CalendarFacts
<1>2. FirstDay(m) \in Int /\ FirstDay(m + 1) \in Int /\ FirstDay(m) + i \in Int
      /\ FirstDay(m) <= FirstDay(m) + i /\ FirstDay(m) + i < FirstDay(m + 1)
  BY MonthHasDays DEF DaysOf
<1>3. /\ At(m, i, h) \in Int
      /\ Day(At(m, i, h)) = FirstDay(m) + i /\ At(m, i, h) % HoursADay = h
  <2>1. ((FirstDay(m) + i) * HoursADay) + h \in Int BY <1>1, <1>2 DEF Clock
  <2> QED BY <1>1, <1>2, <2>1, Division DEF At, Day, Clock
<1>4. Month(At(m, i, h)) = m BY <1>2, <1>3, MonthIs
<1> QED BY <1>3, <1>4

\* Every instant is such an instant.
LEMMA AtOf ==
  ASSUME NEW t \in Int
  PROVE  \E m \in Int : \E i \in DaysOf(m), h \in Clock : t = At(m, i, h)
<1>1. HoursADay \in Nat /\ HoursADay > 0 BY CalendarFacts
<1>2. /\ Month(t) \in Int /\ Day(t) \in Int
      /\ FirstDay(Month(t)) <= Day(t) /\ Day(t) < FirstDay(Month(t) + 1)
  BY MonthOf
<1>3. FirstDay(Month(t)) \in Int /\ daysInMonth(Month(t)) \in Nat
      /\ FirstDay(Month(t) + 1) = FirstDay(Month(t)) + daysInMonth(Month(t))
  BY <1>2, MonthHasDays
<1>4. Day(t) - FirstDay(Month(t)) \in DaysOf(Month(t)) BY <1>2, <1>3 DEF DaysOf
<1>5. t % HoursADay \in Clock /\ t = (Day(t) * HoursADay) + (t % HoursADay)
  BY <1>1, DivisionFacts DEF Clock, Day
<1>6. FirstDay(Month(t)) + (Day(t) - FirstDay(Month(t))) = Day(t) BY <1>2, <1>3
<1>7. t = At(Month(t), Day(t) - FirstDay(Month(t)), t % HoursADay) BY <1>5, <1>6 DEF At
<1> QED BY <1>2, <1>4, <1>5, <1>7

\* Instants are ordered by month, then by day, then by hour.
LEMMA AtOrder ==
  ASSUME NEW m \in Int, NEW i \in DaysOf(m), NEW h \in Clock,
         NEW n \in Int, NEW j \in DaysOf(n), NEW g \in Clock,
         \/ m < n
         \/ m = n /\ i < j
         \/ m = n /\ i = j /\ h < g
  PROVE  At(m, i, h) < At(n, j, g)
<1>1. HoursADay \in Nat /\ HoursADay > 0 BY CalendarFacts
<1>2. FirstDay(m) + i \in Int /\ FirstDay(n) + j \in Int /\ FirstDay(m) + i < FirstDay(m + 1)
      /\ FirstDay(m + 1) \in Int /\ FirstDay(n) <= FirstDay(n) + j /\ FirstDay(n) \in Int
      /\ FirstDay(m) \in Int
  BY MonthHasDays DEF DaysOf
<1>3. ASSUME FirstDay(m) + i < FirstDay(n) + j PROVE At(m, i, h) < At(n, j, g)
  <2>1. /\ ((FirstDay(m) + i) + 1) * HoursADay <= (FirstDay(n) + j) * HoursADay
        /\ ((FirstDay(m) + i) + 1) * HoursADay = ((FirstDay(m) + i) * HoursADay) + HoursADay
    BY <1>1, <1>2, <1>3, Times
  <2>2. (FirstDay(m) + i) * HoursADay \in Int /\ (FirstDay(n) + j) * HoursADay \in Int
    BY <1>1, <1>2
  <2> QED BY <1>1, <2>1, <2>2 DEF At, Clock
<1>4. CASE m < n
  <2>1. FirstDay(m + 1) <= FirstDay(n) BY <1>4, MonthsGrow
  <2> QED BY <1>2, <1>3, <2>1
<1>5. CASE m = n /\ i < j
  <2>1. FirstDay(m) + i < FirstDay(n) + j BY <1>2, <1>5 DEF DaysOf
  <2> QED BY <1>3, <2>1
<1>6. CASE m = n /\ i = j /\ h < g
  <2>1. (FirstDay(m) + i) * HoursADay \in Int BY <1>1, <1>2
  <2> QED BY <1>6, <2>1 DEF At, Clock
<1> QED BY <1>4, <1>5, <1>6

\* The day of month m that a day is clamped to.
Clamped(i, m) == IF i > daysInMonth(m) - 1 THEN daysInMonth(m) - 1 ELSE i

\* A move by months keeps the hour, and the day where the month has it.
LEMMA MonthsMove ==
  ASSUME NEW m \in Int, NEW i \in DaysOf(m), NEW h \in Clock, NEW n \in Int
  PROVE  /\ addMonthsClamped(At(m, i, h), n) = At(m + n, Clamped(i, m + n), h)
         /\ Clamped(i, m + n) \in DaysOf(m + n)
<1>1. /\ At(m, i, h) \in Int /\ Month(At(m, i, h)) = m
      /\ Day(At(m, i, h)) = FirstDay(m) + i /\ At(m, i, h) % HoursADay = h
  BY AtFacts
<1>2. FirstDay(m) \in Int /\ i \in Nat BY MonthHasDays DEF DaysOf
<1>3. Day(At(m, i, h)) - FirstDay(Month(At(m, i, h))) = i BY <1>1, <1>2
<1>4. daysInMonth(m + n) \in Nat /\ daysInMonth(m + n) > 0 BY MonthHasDays
<1>5. Clamped(i, m + n) \in DaysOf(m + n) BY <1>2, <1>4 DEF Clamped, DaysOf
<1> QED BY <1>1, <1>3, <1>5 DEF addMonthsClamped, At, Clamped

\* An instant is so made in one way only.
LEMMA SameAt ==
  ASSUME NEW m \in Int, NEW i \in DaysOf(m), NEW h \in Clock,
         NEW n \in Int, NEW j \in DaysOf(n), NEW g \in Clock, At(m, i, h) = At(n, j, g)
  PROVE  m = n /\ i = j /\ h = g
<1>1. /\ Month(At(m, i, h)) = m /\ Day(At(m, i, h)) = FirstDay(m) + i
      /\ At(m, i, h) % HoursADay = h
      /\ Month(At(n, j, g)) = n /\ Day(At(n, j, g)) = FirstDay(n) + j
      /\ At(n, j, g) % HoursADay = g
  BY AtFacts
<1>2. m = n /\ h = g /\ FirstDay(m) + i = FirstDay(n) + j BY <1>1
<1>3. FirstDay(m) \in Int /\ i \in Int /\ j \in Int BY MonthHasDays DEF DaysOf
<1> QED BY <1>2, <1>3

\* What two tests of a move of k months say of the day.
LEMMA ExactMonths ==
  ASSUME NEW m \in Int, NEW i \in DaysOf(m), NEW h \in Clock, NEW k \in Int,
         addMonthsClamped(addMonthsClamped(At(m, i, h), -k), k) = At(m, i, h),
         addMonthsClamped(addMonthsClamped(At(m, i, h), -k) + HoursADay, k) # At(m, i, h)
  PROVE  /\ addMonthsClamped(At(m, i, h), -k) = At(m - k, i, h)
         /\ i \in DaysOf(m - k)
         /\ i + 1 \in DaysOf(m - k) => i + 1 \in DaysOf(m)
<1> DEFINE p == m - k
           c == Clamped(i, p)
<1>1. p \in Int /\ -k \in Int /\ m + (-k) = p /\ p + k = m OBVIOUS
<1>2. addMonthsClamped(At(m, i, h), -k) = At(p, c, h) /\ c \in DaysOf(p) BY <1>1, MonthsMove
<1> HIDE DEF p, c
<1>3. /\ addMonthsClamped(At(p, c, h), k) = At(m, Clamped(c, m), h)
      /\ Clamped(c, m) \in DaysOf(m)
  <2>1. /\ addMonthsClamped(At(p, c, h), k) = At(p + k, Clamped(c, p + k), h)
        /\ Clamped(c, p + k) \in DaysOf(p + k)
    BY <1>1, <1>2, MonthsMove
  <2> QED BY <1>1, <2>1
<1>4. Clamped(c, m) = i BY <1>2, <1>3, SameAt
<1>5. /\ daysInMonth(m) \in Nat /\ daysInMonth(p) \in Nat /\ i \in Nat /\ c \in Nat
      /\ daysInMonth(m) > 0
  BY <1>1, <1>2, MonthHasDays DEF DaysOf
<1>6. c = i
  <2>1. i <= c BY <1>4, <1>5 DEF Clamped
  <2>2. c <= i BY <1>5 DEF c, Clamped
  <2> QED BY <1>5, <2>1, <2>2
<1>7. ASSUME i + 1 \in DaysOf(p) PROVE i + 1 \in DaysOf(m)
  <2>1. At(p, i, h) + HoursADay = At(p, i + 1, h)
    <3>1. HoursADay \in Nat /\ FirstDay(p) \in Int BY <1>1, CalendarFacts, MonthHasDays
    <3>2. FirstDay(p) + (i + 1) = (FirstDay(p) + i) + 1 /\ FirstDay(p) + i \in Int BY <1>5, <3>1
    <3>3. ((FirstDay(p) + i) + 1) * HoursADay = ((FirstDay(p) + i) * HoursADay) + HoursADay
      BY <3>2, Times, CalendarFacts
    <3>4. (FirstDay(p) + i) * HoursADay \in Int /\ h \in Int BY <3>1, <3>2 DEF Clock
    <3> QED BY <3>1, <3>2, <3>3, <3>4 DEF At
  <2>2. addMonthsClamped(At(p, i + 1, h), k) = At(m, Clamped(i + 1, m), h)
    <3>1. addMonthsClamped(At(p, i + 1, h), k) = At(p + k, Clamped(i + 1, p + k), h)
      BY <1>1, <1>7, MonthsMove
    <3> QED BY <1>1, <3>1
  <2>3. Clamped(i + 1, m) # i BY <1>2, <1>6, <2>1, <2>2
  <2>4. i \in DaysOf(m) /\ i <= daysInMonth(m) - 1 BY DEF DaysOf
  <2> QED BY <1>5, <2>3, <2>4 DEF Clamped, DaysOf
<1> QED BY <1>2, <1>6, <1>7 DEF p

\* Where the move is exact, k months after an instant stands to d as the
\* instant stands to k months before d.
LEMMA ExactMonthsOrder ==
  ASSUME NEW x \in Int, NEW d \in Int, NEW k \in Int,
         addMonthsClamped(addMonthsClamped(d, -k), k) = d,
         addMonthsClamped(addMonthsClamped(d, -k) + HoursADay, k) # d
  PROVE  /\ addMonthsClamped(x, k) \in Int /\ addMonthsClamped(d, -k) \in Int
         /\ addMonthsClamped(x, k) < d <=> x < addMonthsClamped(d, -k)
         /\ addMonthsClamped(x, k) = d <=> x = addMonthsClamped(d, -k)
<1>1. PICK m \in Int : \E i \in DaysOf(m), h \in Clock : d = At(m, i, h) BY AtOf
<1>2. PICK i \in DaysOf(m), h \in Clock : d = At(m, i, h) BY <1>1
<1>3. PICK q \in Int : \E j \in DaysOf(q), g \in Clock : x = At(q, j, g) BY AtOf
<1>4. PICK j \in DaysOf(q), g \in Clock : x = At(q, j, g) BY <1>3
<1>5. /\ addMonthsClamped(d, -k) = At(m - k, i, h) /\ i \in DaysOf(m - k) /\ m - k \in Int
      /\ i + 1 \in DaysOf(m - k) => i + 1 \in DaysOf(m)
  BY <1>2, ExactMonths
<1>6. /\ addMonthsClamped(x, k) = At(q + k, Clamped(j, q + k), g)
      /\ Clamped(j, q + k) \in DaysOf(q + k) /\ q + k \in Int
  BY <1>4, MonthsMove
<1>7. At(m - k, i, h) \in Int /\ At(q + k, Clamped(j, q + k), g) \in Int BY <1>5, <1>6, AtFacts
<1>8. SUFFICES
        \/ /\ At(q + k, Clamped(j, q + k), g) < At(m, i, h)
           /\ At(q, j, g) < At(m - k, i, h)
        \/ /\ At(q + k, Clamped(j, q + k), g) = At(m, i, h)
           /\ At(q, j, g) = At(m - k, i, h)
        \/ /\ At(m, i, h) < At(q + k, Clamped(j, q + k), g)
           /\ At(m - k, i, h) < At(q, j, g)
  BY <1>2, <1>4, <1>5, <1>6, <1>7
<1>9. CASE q + k < m
  <2>1. q < m - k BY <1>9
  <2> QED BY <1>5, <1>6, <1>9, <2>1, AtOrder
<1>10. CASE m < q + k
  <2>1. m - k < q BY <1>10
  <2> QED BY <1>5, <1>6, <1>10, <2>1, AtOrder
<1>11. CASE q + k = m
  <2>1. q = m - k BY <1>11
  <2>2. /\ i \in Nat /\ j \in Nat /\ h \in Int /\ g \in Int /\ daysInMonth(m) \in Nat
        /\ i <= daysInMonth(m) - 1 /\ daysInMonth(q) \in Nat /\ j <= daysInMonth(q) - 1
    BY MonthHasDays DEF DaysOf, Clock
  <2>3. Clamped(j, m) \in DaysOf(m) BY <1>6, <1>11
  <2>4. CASE j <= i
    <3>1. Clamped(j, m) = j BY <2>2, <2>4 DEF Clamped
    <3>2. j \in DaysOf(m) /\ j \in DaysOf(m - k) BY <2>1, <2>3, <3>1
    <3>3. CASE j < i BY <1>5, <1>11, <2>1, <3>1, <3>2, <3>3, AtOrder
    <3>4. CASE j = i /\ h < g BY <1>5, <1>11, <2>1, <3>1, <3>2, <3>4, AtOrder
    <3>5. CASE j = i /\ g < h BY <1>5, <1>11, <2>1, <3>1, <3>2, <3>5, AtOrder
    <3>6. CASE j = i /\ g = h BY <1>11, <2>1, <3>1, <3>6
    <3> QED BY <2>2, <2>4, <3>3, <3>4, <3>5, <3>6
  <2>5. CASE i < j
    <3>1. i + 1 \in DaysOf(m - k) BY <2>1, <2>2, <2>5 DEF DaysOf
    <3>2. i + 1 <= daysInMonth(m) - 1 BY <1>5, <3>1 DEF DaysOf
    <3>3. i < Clamped(j, m) BY <2>2, <2>5, <3>2 DEF Clamped
    <3> QED BY <1>5, <1>11, <2>1, <2>3, <2>5, <3>3, AtOrder
  <2> QED BY <2>2, <2>4, <2>5
<1> QED BY <1>6, <1>9, <1>10, <1>11

\* The interval added to a date moves to the other side of any comparison where
\* the two tests of the code find the move exact, and the interval is one that a
\* time.Duration holds: the comparison answers the same for every date
\* (simplify.go:656-680, date_arith.go:151-159).
THEOREM ExactMoveIsSound ==
  ASSUME NEW unit \in (DOMAIN monthUnits) \cup (DOMAIN durationUnits),
         NEW n \in Int, NEW x \in Int, NEW d \in Int,
         unit \in DOMAIN durationUnits =>
           /\ -DurationSpan < n * durationUnits[unit]
           /\ n * durationUnits[unit] < DurationSpan,
         isExactIntervalMove(unit, n, d), NEW class \in Ordering \cup {"EQ", "NEQ"}
  PROVE  Holds(class, MovedBy(x, unit, n), d)
           <=> Holds(class, x, addCalendarInterval(d, unit, -n))
<1> DEFINE to == MovedBy(x, unit, n)
           from == addCalendarInterval(d, unit, -n)
<1>1. to \in Int /\ from \in Int /\ (to < d <=> x < from) /\ (to = d <=> x = from)
  <2>1. CASE unit \in DOMAIN monthUnits
    <3> DEFINE k == n * monthUnits[unit]
    <3>1. k \in Int /\ (-n) * monthUnits[unit] = -k BY <2>1, CalendarFacts DEF monthUnits
    <3>2. \A t : /\ addCalendarInterval(t, unit, n) = addMonthsClamped(t, k)
                 /\ addCalendarInterval(t, unit, -n) = addMonthsClamped(t, -k)
      BY <2>1, <3>1 DEF addCalendarInterval
    <3> HIDE DEF k
    <3>3. /\ addMonthsClamped(addMonthsClamped(d, -k), k) = d
          /\ addMonthsClamped(addMonthsClamped(d, -k) + HoursADay, k) # d
      BY <2>1, <3>2 DEF isExactIntervalMove
    <3>4. to = addMonthsClamped(x, k) /\ from = addMonthsClamped(d, -k)
      BY <2>1, <3>2 DEF MovedBy, k
    <3> HIDE DEF to, from
    <3> QED BY <3>1, <3>3, <3>4, ExactMonthsOrder
  <2>2. CASE unit \notin DOMAIN monthUnits
    <3> DEFINE k == n * durationUnits[unit]
    <3>1. k \in Int /\ (-n) * durationUnits[unit] = -k
      <4>1. durationUnits[unit] \in Int BY <2>2, CalendarFacts DEF durationUnits
      <4> QED BY <4>1
    <3>2. unit \in DOMAIN durationUnits BY <2>2
    <3>3. -DurationSpan <= -k /\ -k < DurationSpan BY <3>1, <3>2, CalendarAssumption
    <3>4. Duration(-k) = -k
      <4> HIDE DEF k
      <4> QED BY <3>1, <3>3, NoWrap
    <3>5. to = x + k BY <2>2 DEF MovedBy
    <3>6. from = d + (-k) BY <2>2, <3>1, <3>4 DEF addCalendarInterval
    <3> HIDE DEF k, to, from
    <3> QED BY <3>1, <3>5, <3>6
  <2> QED BY <2>1, <2>2
<1> HIDE DEF to, from
<1>2. Holds(class, to, d) <=> Holds(class, x, from) BY <1>1 DEF Holds, Ordering
<1> QED BY <1>2 DEF to, from
=============================================================================
