--------------------------- MODULE ComparisonRules ---------------------------
(***************************************************************************)
(* The tables by which Simplify turns, negates and merges comparisons of   *)
(* one value with constants (simplify.go), without the tree they are in.   *)
(* A comparison here is its class and its constant; what a rule returns is *)
(* one of the nodes it is given.                                           *)
(***************************************************************************)
EXTENDS Integers

\* The six classes the tables speak of (simplify.go:530-533, 869-871).
Ordering == {"LT", "GT", "LTE", "GTE"}
Comparing == Ordering \cup {"EQ", "NEQ"}

\* What swapping the operands does to a comparison.
inverseComparison ==
  [LT |-> "GT", GT |-> "LT", LTE |-> "GTE", GTE |-> "LTE", EQ |-> "EQ", NEQ |-> "NEQ"]

\* What NOT does to a comparison.
complementComparison ==
  [LT |-> "GTE", GT |-> "LTE", LTE |-> "GT", GTE |-> "LT", EQ |-> "NEQ", NEQ |-> "EQ"]

ltLTE == {"LT", "LTE"}
gtGTE == {"GT", "GTE"}

sign(x, y) == IF x < y THEN -1 ELSE IF x > y THEN 1 ELSE 0

(***************************************************************************)
(* The table for one ordering (a, b) of the two comparisons left and right *)
(* of one operand. av is the sign of a's constant against b's, none the    *)
(* answer "no rule", contradiction what an impossible pair folds to.       *)
(***************************************************************************)
foldComparisonPair(ac, bc, av, or, a, left, right, contradiction, none) ==
  CASE ac \in ltLTE /\ bc \in ltLTE ->
         IF or THEN (IF av > 0 THEN left ELSE right)
               ELSE (IF av <= 0 THEN left ELSE right)
    [] ac \in gtGTE /\ bc \in gtGTE ->
         IF or THEN (IF av < 0 THEN left ELSE right)
               ELSE (IF av >= 0 THEN left ELSE right)
    [] ~ or /\ ac = "LT" /\ bc \in gtGTE /\ av <= 0 -> contradiction
    [] ~ or /\ ac = "GT" /\ bc \in ltLTE /\ av >= 0 -> contradiction
    [] ~ or /\ ac = "EQ" /\ bc \in Comparing \ {"EQ"} ->
         IF \/ bc = "LT" /\ av >= 0
            \/ bc = "LTE" /\ av > 0
            \/ bc = "GT" /\ av <= 0
            \/ bc = "GTE" /\ av < 0
            \/ bc = "NEQ" /\ av = 0
         THEN contradiction ELSE a
    [] OTHER -> none

\* Both orderings, the second only where the first has no rule.
foldComparisons(lc, rc, cmp, or, left, right, contradiction, none) ==
  LET first == foldComparisonPair(lc, rc, cmp, or, left, left, right, contradiction, none)
  IN  IF first # none THEN first
      ELSE foldComparisonPair(rc, lc, -cmp, or, right, left, right, contradiction, none)

-----------------------------------------------------------------------------
\* What a comparison of the number v with the constant n answers.
Holds(class, v, n) ==
  CASE class = "LT"  -> v < n
    [] class = "LTE" -> v <= n
    [] class = "GT"  -> v > n
    [] class = "GTE" -> v >= n
    [] class = "EQ"  -> v = n
    [] class = "NEQ" -> v # n

=============================================================================
