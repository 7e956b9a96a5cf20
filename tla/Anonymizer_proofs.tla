------------------------- MODULE Anonymizer_proofs -------------------------
(***************************************************************************)
(* What Anonymize returns, for every set of statements and with any        *)
(* alphabet: its length, what it hides, and which alias each text has.     *)
(* First come powers, digits and places that are counted, then what an     *)
(* alias is and what is told from it.  The inductive invariant Inv says    *)
(* what the naming loop leaves of the tokens (their types and places, and  *)
(* all of those it has not reached), what the map of aliases says of those *)
(* it has reached, and, for the rendering loop, that the text is as long   *)
(* as the place reached and the characters that were read twice until      *)
(* there.  Four more are inductive beside it: Bounded, for the types,      *)
(* Hidden and Clean, for what each loop lets through, and Ranked, for the  *)
(* number each alias was made from.                                        *)
(***************************************************************************)
EXTENDS Anonymizer, FiniteSetTheorems, SequenceTheorems, WellFoundedInduction, TLAPS

-----------------------------------------------------------------------------
(* Numbers. *)

\* The order of the naturals as a relation.
Less == {pair \in Nat \X Nat : pair[1] < pair[2]}

\* Every set of naturals that is not empty has a least element.
LEMMA LeastElement ==
  ASSUME NEW S, S \subseteq Nat, S # {}
  PROVE  \E x \in S : \A y \in S : x <= y
<1>1. IsWellFoundedOn(Less, Nat) BY NatLessThanWellFounded DEF OpToRel, Less
<1>2. PICK x \in S : \A y \in S : ~ (<<y, x>> \in Less) BY <1>1, WFMin
<1>3. ASSUME NEW y \in S PROVE x <= y
  <2>1. x \in Nat /\ y \in Nat OBVIOUS
  <2>2. <<y, x>> \notin Less BY <1>2
  <2>3. ~(y < x) BY <2>1, <2>2 DEF Less
  <2> QED BY <2>1, <2>3
<1> QED BY <1>3

\* The powers of a base up to the n-th, which Power takes the last of.
Powers(p, b, n) == p = [k \in 0..n |-> IF k = 0 THEN 1 ELSE b * p[k - 1]]

\* There are such powers.
LEMMA PowersExist == ASSUME NEW b PROVE \A n \in Nat : \E p : Powers(p, b, n)
<1> DEFINE S == {n \in Nat : ~ \E p : Powers(p, b, n)}
<1> SUFFICES ASSUME S # {} PROVE FALSE OBVIOUS
<1>1. PICK n \in S : \A m \in S : n <= m BY LeastElement
<1>2. n \in Nat BY <1>1
<1>3. CASE n = 0
  <2> DEFINE p == [k \in 0..n |-> 1]
  <2>1. p = [k \in 0..n |-> IF k = 0 THEN 1 ELSE b * p[k - 1]] BY <1>3
  <2>2. Powers(p, b, n) BY <2>1 DEF Powers
  <2> HIDE DEF p
  <2> QED BY <2>2, <1>1
<1>4. CASE n # 0
  <2>1. n - 1 \in Nat /\ ~(n <= n - 1) BY <1>2, <1>4
  <2>2. n - 1 \notin S BY <2>1, <1>1
  <2>3. PICK q : Powers(q, b, n - 1) BY <2>1, <2>2
  <2> DEFINE p == [k \in 0..n |-> IF k = 0 THEN 1 ELSE b * q[k - 1]]
  <2>4. ASSUME NEW k \in 0..(n - 1) PROVE p[k] = q[k]
    BY <2>1, <2>3 DEF Powers
  <2>5. ASSUME NEW k \in 0..n, k # 0 PROVE p[k - 1] = q[k - 1]
    <3>1. k - 1 \in 0..(n - 1) BY <2>5, <1>2
    <3> QED BY <3>1, <2>4
  <2>6. p = [k \in 0..n |-> IF k = 0 THEN 1 ELSE b * p[k - 1]]
    <3> DEFINE r == [k \in 0..n |-> IF k = 0 THEN 1 ELSE b * p[k - 1]]
    <3>1. \A k \in 0..n : (IF k = 0 THEN 1 ELSE b * q[k - 1]) = IF k = 0 THEN 1 ELSE b * p[k - 1]
      BY <2>5
    <3> QED BY <3>1
  <2>7. Powers(p, b, n) BY <2>6 DEF Powers
  <2> HIDE DEF p
  <2> QED BY <2>7, <1>1
<1> QED BY <1>3, <1>4

\* Two tables of powers agree where both are defined.
LEMMA PowersAgree ==
  ASSUME NEW b, NEW n \in Nat, NEW m \in Nat, NEW p, NEW q, Powers(p, b, n), Powers(q, b, m),
         NEW k \in Nat, k <= n, k <= m
  PROVE  p[k] = q[k]
<1> DEFINE S == {j \in Nat : j <= n /\ j <= m /\ p[j] # q[j]}
<1> SUFFICES ASSUME S # {} PROVE FALSE OBVIOUS
<1>1. PICK j \in S : \A l \in S : j <= l BY LeastElement
<1>2. j \in 0..n /\ j \in 0..m /\ p[j] # q[j] /\ j \in Nat BY <1>1
<1>3. /\ p[j] = IF j = 0 THEN 1 ELSE b * p[j - 1]
      /\ q[j] = IF j = 0 THEN 1 ELSE b * q[j - 1]
  BY <1>2 DEF Powers
<1>4. j # 0 BY <1>2, <1>3
<1>5. j - 1 \in Nat /\ ~(j <= j - 1) /\ j - 1 <= n /\ j - 1 <= m BY <1>2, <1>4
<1>6. p[j - 1] = q[j - 1] BY <1>1, <1>5
<1> QED BY <1>2, <1>3, <1>4, <1>6

\* Power takes the last of them.
LEMMA PowerIs ==
  ASSUME NEW b, NEW n \in Nat
  PROVE  \E p : Powers(p, b, n) /\ Power(b, n) = p[n]
<1> DEFINE p == CHOOSE p : Powers(p, b, n)
<1>1. Powers(p, b, n) BY PowersExist
<1>2. Power(b, n) = p[n] BY DEF Power, Powers
<1> QED BY <1>1, <1>2

\* What the definition of a power says.
LEMMA PowerStep ==
  ASSUME NEW b
  PROVE  /\ Power(b, 0) = 1
         /\ \A n \in Nat : Power(b, n + 1) = b * Power(b, n)
<1>1. Power(b, 0) = 1
  <2>1. PICK p : Powers(p, b, 0) /\ Power(b, 0) = p[0] BY PowerIs
  <2> QED BY <2>1 DEF Powers
<1>2. ASSUME NEW n \in Nat PROVE Power(b, n + 1) = b * Power(b, n)
  <2>1. PICK p : Powers(p, b, n) /\ Power(b, n) = p[n] BY PowerIs
  <2>2. /\ n + 1 \in Nat /\ n + 1 # 0 /\ (n + 1) - 1 = n /\ n + 1 \in 0..(n + 1)
        /\ n <= n /\ n <= n + 1
    OBVIOUS
  <2>3. PICK q : Powers(q, b, n + 1) /\ Power(b, n + 1) = q[n + 1] BY <2>2, PowerIs
  <2>4. q[n + 1] = b * q[n] BY <2>2, <2>3 DEF Powers
  <2>5. p[n] = q[n] BY <2>1, <2>2, <2>3, PowersAgree
  <2> QED BY <2>1, <2>3, <2>4, <2>5
<1> QED BY <1>1, <1>2

\* Powers are positive.
LEMMA PowerNat ==
  ASSUME NEW b \in Nat, b > 0
  PROVE  \A n \in Nat : Power(b, n) \in Nat /\ Power(b, n) > 0
<1> DEFINE S == {n \in Nat : ~(Power(b, n) \in Nat /\ Power(b, n) > 0)}
<1> SUFFICES ASSUME S # {} PROVE FALSE OBVIOUS
<1>1. PICK n \in S : \A m \in S : n <= m BY LeastElement
<1>2. n \in Nat BY <1>1
<1>3. n # 0 BY <1>1, PowerStep
<1>4. n - 1 \in Nat /\ ~(n <= n - 1) /\ (n - 1) + 1 = n BY <1>2, <1>3
<1>5. n - 1 \notin S BY <1>1, <1>4
<1>6. Power(b, n - 1) \in Nat /\ Power(b, n - 1) > 0 BY <1>4, <1>5
<1>7. Power(b, n) = b * Power(b, n - 1) BY <1>4, PowerStep
<1>8. \A x \in Nat : x > 0 => b * x \in Nat /\ b * x > 0 OBVIOUS
<1> QED BY <1>1, <1>6, <1>7, <1>8

\* Quotient and remainder.
LEMMA QuotientFacts ==
  ASSUME NEW c \in Nat, NEW d \in Nat, d > 0
  PROVE  /\ c \div d \in Nat /\ c % d \in 0..(d - 1)
         /\ c = d * (c \div d) + (c % d)
OBVIOUS

LEMMA QuotientUnique ==
  ASSUME NEW d \in Nat, d > 0, NEW q \in Nat, NEW r \in 0..(d - 1)
  PROVE  (d * q + r) \div d = q /\ (d * q + r) % d = r
OBVIOUS

\* Powers do not shrink.
LEMMA PowerMonotone ==
  ASSUME NEW b \in Nat, b > 0, NEW m \in Nat, NEW n \in Nat, m <= n
  PROVE  Power(b, m) <= Power(b, n)
<1> DEFINE S == {k \in Nat : m <= k /\ ~(Power(b, m) <= Power(b, k))}
<1> SUFFICES ASSUME S # {} PROVE FALSE OBVIOUS
<1>1. PICK k \in S : \A l \in S : k <= l BY LeastElement
<1>2. k \in Nat /\ m <= k /\ ~(Power(b, m) <= Power(b, k)) BY <1>1
<1>3. Power(b, m) \in Nat BY PowerNat
<1>4. k # m BY <1>2, <1>3
<1>5. k - 1 \in Nat /\ ~(k <= k - 1) /\ (k - 1) + 1 = k /\ m <= k - 1 BY <1>2, <1>4
<1>6. k - 1 \notin S BY <1>1, <1>5
<1>7. Power(b, m) <= Power(b, k - 1) BY <1>5, <1>6
<1>8. Power(b, k) = b * Power(b, k - 1) BY <1>5, PowerStep
<1>9. Power(b, k - 1) \in Nat BY <1>5, PowerNat
<1>10. \A x \in Nat : b * x >= x /\ b * x \in Nat OBVIOUS
<1> QED BY <1>2, <1>3, <1>7, <1>8, <1>9, <1>10

\* A number less than a power has at most as many digits.
LEMMA SpelledFacts ==
  ASSUME NEW c \in Nat, NEW b \in Nat, b > 0
  PROVE  /\ Spelled(c, b) \in Nat
         /\ \A n \in Nat : c < Power(b, n) => Spelled(c, b) <= n
<1> DEFINE S == {n \in 0..c : Power(b, n) <= c}
<1>1. IsFiniteSet(S) /\ Cardinality(S) \in Nat
  <2>1. IsFiniteSet(0..c) BY FS_Interval
  <2>2. IsFiniteSet(S) BY <2>1, FS_Subset
  <2> QED BY <2>2, FS_CardinalityType
<1>2. Spelled(c, b) = Cardinality(S) BY DEF Spelled
<1>3. ASSUME NEW n \in Nat, c < Power(b, n) PROVE Cardinality(S) <= n
  <2> DEFINE T == 0..(n - 1)
  <2>1. ASSUME NEW m \in S PROVE m \in T
    <3>1. m \in Nat /\ Power(b, m) <= c BY <2>1
    <3>2. CASE n <= m
      <4>1. Power(b, n) <= Power(b, m) BY <3>1, <3>2, PowerMonotone
      <4>2. Power(b, n) \in Nat /\ Power(b, m) \in Nat BY <3>1, PowerNat
      <4> QED BY <1>3, <3>1, <4>1, <4>2
    <3>3. CASE ~(n <= m) BY <3>1, <3>3
    <3> QED BY <3>2, <3>3
  <2>2. S \subseteq T BY <2>1
  <2>3. IsFiniteSet(T) /\ Cardinality(T) = n BY FS_Interval
  <2> HIDE DEF S, T
  <2> QED BY <2>2, <2>3, FS_Subset
<1> QED BY <1>1, <1>2, <1>3

\* A digit is one of its base, and with what stands before it makes the number
\* that ends there.
LEMMA DigitFacts ==
  ASSUME NEW c \in Nat, NEW b \in Nat, b > 0, NEW n \in Nat
  PROVE  /\ DigitAt(c, b, n) \in 0..(b - 1)
         /\ c \div Power(b, n) \in Nat
         /\ c \div Power(b, n) = b * (c \div Power(b, n + 1)) + DigitAt(c, b, n)
<1> DEFINE d == Power(b, n)
           x == c \div d
           r == c % d
           y == x \div b
           s == x % b
<1>1. d \in Nat /\ d > 0 BY PowerNat
<1>2. Power(b, n + 1) = b * d BY PowerStep
<1>3. DigitAt(c, b, n) = s BY DEF DigitAt
<1> HIDE DEF d
<1>4. x \in Nat /\ r \in 0..(d - 1) /\ c = d * x + r BY <1>1, QuotientFacts
<1> HIDE DEF x, r
<1>5. y \in Nat /\ s \in 0..(b - 1) /\ x = b * y + s BY <1>4, QuotientFacts
<1> HIDE DEF y, s
<1>6. b * d \in Nat /\ b * d > 0 BY <1>1
<1>7. d * s + r \in 0..((b * d) - 1)
  <2>1. d * s \in Nat BY <1>1, <1>5
  <2>2. d * s <= d * (b - 1) BY <1>1, <1>5
  <2>3. d * (b - 1) = b * d - d BY <1>1
  <2> DEFINE u == d * s
             v == b * d
  <2>4. u \in Nat /\ v \in Nat /\ u <= v - d BY <1>6, <2>1, <2>2, <2>3
  <2> HIDE DEF u, v
  <2>5. u + r \in 0..(v - 1) BY <1>1, <1>4, <2>4
  <2> QED BY <2>5 DEF u, v
<1>8. c = (b * d) * y + (d * s + r)
  <2>1. d * x = d * (b * y + s) BY <1>5
  <2>2. d * (b * y + s) = (b * d) * y + d * s BY <1>1, <1>5
  <2>3. d * s \in Nat /\ (b * d) * y \in Nat BY <1>1, <1>5, <1>6
  <2> DEFINE u == d * s
             v == (b * d) * y
  <2>4. c = (v + u) + r BY <1>4, <2>1, <2>2
  <2> HIDE DEF u, v
  <2>5. u \in Nat /\ v \in Nat BY <2>3 DEF u, v
  <2>6. c = v + (u + r) BY <1>4, <2>4, <2>5
  <2> QED BY <2>6 DEF u, v
<1>9. c \div (b * d) = y
  <2> DEFINE e == b * d
             w == d * s + r
  <2>1. c = e * y + w /\ e \in Nat /\ e > 0 /\ w \in 0..(e - 1) BY <1>6, <1>7, <1>8
  <2> HIDE DEF e, w
  <2>2. c \div e = y BY <2>1, <1>5, QuotientUnique
  <2> QED BY <2>2 DEF e
<1> QED BY <1>2, <1>3, <1>4, <1>5, <1>9 DEF x, d

\* Numbers of n digits are told by their digits.
LEMMA DigitsTell ==
  ASSUME NEW b \in Nat, b > 0, NEW n \in Nat, NEW c \in Nat, NEW d \in Nat,
         c < Power(b, n), d < Power(b, n),
         \A m \in 0..(n - 1) : DigitAt(c, b, m) = DigitAt(d, b, m)
  PROVE  c = d
<1> DEFINE S == {m \in Nat : m <= n /\ c \div Power(b, n - m) # d \div Power(b, n - m)}
<1>1. c \div Power(b, n) = 0 /\ d \div Power(b, n) = 0
  <2> DEFINE e == Power(b, n)
  <2>1. e \in Nat /\ c < e /\ d < e BY PowerNat
  <2> HIDE DEF e
  <2>2. c \div e = 0 /\ d \div e = 0 BY <2>1
  <2> QED BY <2>2 DEF e
<1>2. S = {}
  <2> SUFFICES ASSUME S # {} PROVE FALSE OBVIOUS
  <2>1. PICK m \in S : \A l \in S : m <= l BY LeastElement
  <2>2. m \in Nat /\ m <= n BY <2>1
  <2>3. m # 0 BY <1>1, <2>1
  <2> DEFINE k == n - m
  <2>4. /\ k \in Nat /\ k \in 0..(n - 1) /\ m - 1 \in Nat /\ m - 1 <= n
        /\ ~(m <= m - 1) /\ n - (m - 1) = k + 1
    BY <2>2, <2>3
  <2>5. m - 1 \notin S BY <2>1, <2>4
  <2>6. c \div Power(b, k + 1) = d \div Power(b, k + 1) BY <2>4, <2>5
  <2>7. DigitAt(c, b, k) = DigitAt(d, b, k) BY <2>4
  <2> HIDE DEF k
  <2>8. c \div Power(b, k) = b * (c \div Power(b, k + 1)) + DigitAt(c, b, k)
    BY <2>4, DigitFacts
  <2>9. d \div Power(b, k) = b * (d \div Power(b, k + 1)) + DigitAt(d, b, k)
    BY <2>4, DigitFacts
  <2>10. c \div Power(b, k) # d \div Power(b, k) BY <2>1 DEF k
  <2> QED BY <2>6, <2>7, <2>8, <2>9, <2>10
<1>3. n \notin S BY <1>2
<1>4. n - n = 0 OBVIOUS
<1>5. c \div Power(b, 0) = d \div Power(b, 0) BY <1>3, <1>4
<1>6. Power(b, 0) = 1 BY PowerStep
<1> QED BY <1>5, <1>6

-----------------------------------------------------------------------------
(* Places counted. *)

\* How many of the first k places are in a set.
UpTo(P, k) == Cardinality({j \in 1..k : j \in P})

\* Counting place by place.
LEMMA UpToStep ==
  ASSUME NEW P
  PROVE  /\ UpTo(P, 0) = 0
         /\ \A k \in Nat : /\ UpTo(P, k) \in Nat
                           /\ UpTo(P, k + 1) = IF k + 1 \in P THEN UpTo(P, k) + 1 ELSE UpTo(P, k)
<1>1. UpTo(P, 0) = 0
  <2>1. {j \in 1..0 : j \in P} = {} OBVIOUS
  <2> QED BY <2>1, FS_EmptySet DEF UpTo
<1>2. ASSUME NEW k \in Nat
      PROVE  /\ UpTo(P, k) \in Nat
             /\ UpTo(P, k + 1) = IF k + 1 \in P THEN UpTo(P, k) + 1 ELSE UpTo(P, k)
  <2> DEFINE S == {j \in 1..k : j \in P}
             T == {j \in 1..(k + 1) : j \in P}
  <2>1. IsFiniteSet(1..k) BY FS_Interval
  <2>2. IsFiniteSet(S) BY <2>1, FS_Subset
  <2>3. Cardinality(S) \in Nat BY <2>2, FS_CardinalityType
  <2>4. k + 1 \notin S OBVIOUS
  <2>5. CASE k + 1 \in P
    <3>1. T = S \cup {k + 1} BY <2>5
    <3>2. Cardinality(S \cup {k + 1}) = Cardinality(S) + 1
      BY <2>2, <2>4, FS_AddElement
    <3> QED BY <2>3, <2>5, <3>1, <3>2 DEF UpTo
  <2>6. CASE k + 1 \notin P
    <3>1. T = S BY <2>6
    <3> QED BY <2>3, <2>6, <3>1 DEF UpTo
  <2> QED BY <2>5, <2>6
<1> QED BY <1>1, <1>2

LEMMA UpToBefore ==
  ASSUME NEW P, NEW k \in Nat, k > 0
  PROVE  /\ k - 1 \in Nat /\ UpTo(P, k - 1) \in Nat
         /\ UpTo(P, k) = IF k \in P THEN UpTo(P, k - 1) + 1 ELSE UpTo(P, k - 1)
<1> DEFINE m == k - 1
<1>1. m \in Nat /\ m + 1 = k OBVIOUS
<1> HIDE DEF m
<1>2. UpTo(P, m + 1) = IF m + 1 \in P THEN UpTo(P, m) + 1 ELSE UpTo(P, m) BY <1>1, UpToStep
<1>3. UpTo(P, m) \in Nat BY <1>1, UpToStep
<1> QED BY <1>1, <1>2, <1>3 DEF m

\* A count does not shrink.
LEMMA UpToGrows ==
  ASSUME NEW P, NEW m \in Nat, NEW n \in Nat, m <= n
  PROVE  UpTo(P, m) <= UpTo(P, n)
<1> DEFINE S == {k \in Nat : m <= k /\ ~(UpTo(P, m) <= UpTo(P, k))}
<1> SUFFICES ASSUME S # {} PROVE FALSE OBVIOUS
<1>1. PICK k \in S : \A l \in S : k <= l BY LeastElement
<1>2. k \in Nat /\ m <= k /\ ~(UpTo(P, m) <= UpTo(P, k)) BY <1>1
<1>3. UpTo(P, m) \in Nat BY UpToStep
<1>4. k # m BY <1>2, <1>3
<1>5. k - 1 \in Nat /\ ~(k <= k - 1) /\ (k - 1) + 1 = k /\ m <= k - 1 BY <1>2, <1>4
<1>6. k - 1 \notin S BY <1>1, <1>5
<1>7. UpTo(P, m) <= UpTo(P, k - 1) BY <1>5, <1>6
<1>8. /\ UpTo(P, k - 1) \in Nat
      /\ UpTo(P, k) = IF k \in P THEN UpTo(P, k - 1) + 1 ELSE UpTo(P, k - 1)
  BY <1>2, <1>4, UpToBefore
<1> QED BY <1>2, <1>3, <1>7, <1>8

\* A place counted is counted.
LEMMA UpToMember ==
  ASSUME NEW P, NEW k \in Nat, k > 0, k \in P
  PROVE  UpTo(P, k) > 0
<1> QED BY UpToBefore

\* A count takes every value up to its last.
LEMMA UpToReaches ==
  ASSUME NEW P, NEW n \in Nat, NEW v \in Nat, v > 0, v <= UpTo(P, n)
  PROVE  \E k \in 1..n : k \in P /\ UpTo(P, k) = v
<1> DEFINE S == {k \in Nat : UpTo(P, k) >= v}
<1>1. n \in S BY UpToStep
<1>2. PICK k \in S : \A l \in S : k <= l BY <1>1, LeastElement
<1>3. k \in Nat /\ UpTo(P, k) >= v /\ k <= n BY <1>1, <1>2
<1>4. k # 0 BY <1>3, UpToStep
<1>5. k - 1 \in Nat /\ ~(k <= k - 1) /\ (k - 1) + 1 = k BY <1>3, <1>4
<1>6. k - 1 \notin S BY <1>2, <1>5
<1>7. /\ UpTo(P, k - 1) \in Nat
      /\ UpTo(P, k) = IF k \in P THEN UpTo(P, k - 1) + 1 ELSE UpTo(P, k - 1)
  BY <1>3, <1>4, UpToBefore
<1>8. UpTo(P, k - 1) < v BY <1>5, <1>6, <1>7
<1>9. k \in P /\ UpTo(P, k) = v BY <1>3, <1>7, <1>8
<1> QED BY <1>3, <1>4, <1>9

-----------------------------------------------------------------------------
(* Aliases. *)

\* The characters of an alias: letters of the alphabets, and what is kept.
AliasChars ==
  {Alphabet[d] : d \in DOMAIN Alphabet} \cup {Digits[d] : d \in DOMAIN Digits} \cup {" "} \cup Shape

LEMMA AlphabetFacts ==
  /\ Len(Alphabet) \in Nat /\ Len(Alphabet) > 1 /\ DOMAIN Alphabet = 1..Len(Alphabet)
  /\ Len(Digits) \in Nat /\ Len(Digits) > 1 /\ DOMAIN Digits = 1..Len(Digits)
  /\ \A d \in 0..(Len(Alphabet) - 1) : Alphabet[1 + d] \in AliasChars
  /\ \A d \in 0..(Len(Digits) - 1) : Digits[1 + d] \in AliasChars
  /\ AliasChars \subseteq Chars /\ AliasChars \cap Secret = {}
<1>1. /\ Len(Alphabet) \in Nat /\ Len(Alphabet) > 1 /\ DOMAIN Alphabet = 1..Len(Alphabet)
      /\ Len(Digits) \in Nat /\ Len(Digits) > 1 /\ DOMAIN Digits = 1..Len(Digits)
  BY LettersAssumption
<1>2. ASSUME NEW d \in 0..(Len(Alphabet) - 1) PROVE Alphabet[1 + d] \in AliasChars
  <2>1. 1 + d \in DOMAIN Alphabet BY <1>1
  <2> QED BY <2>1 DEF AliasChars
<1>3. ASSUME NEW d \in 0..(Len(Digits) - 1) PROVE Digits[1 + d] \in AliasChars
  <2>1. 1 + d \in DOMAIN Digits BY <1>1
  <2> QED BY <2>1 DEF AliasChars
<1>4. AliasChars \subseteq Chars
  <2>1. Shape \subseteq Source /\ " " \in Source BY DEF Source
  <2> QED BY <2>1, Zenon DEF AliasChars, Chars
<1>5. AliasChars \cap Secret = {}
  <2> SUFFICES ASSUME NEW x \in AliasChars, x \in Secret PROVE FALSE OBVIOUS
  <2>1. CASE x \in {Alphabet[d] : d \in DOMAIN Alphabet} BY <2>1, LettersAssumption DEF Separate
  <2>2. CASE x \in {Digits[d] : d \in DOMAIN Digits} BY <2>2, LettersAssumption DEF Separate
  <2>3. CASE x \in {" "} \cup Shape BY <2>3 DEF Shape, Secret
  <2> QED BY <2>1, <2>2, <2>3 DEF AliasChars
<1> QED BY <1>1, <1>2, <1>3, <1>4, <1>5

\* The places of the letters of a text, and those of the digits of a number
\* before its exponent or in it.
LetterPlaces(text) == {j \in Nat : text[j] \in Chars \ {" "}}
DigitPlaces(text, exponent) ==
  {j \in Nat : text[j] \notin Shape /\ InExponent(text, j) = exponent}

\* Both are counts of places.
LEMMA CountsAre ==
  ASSUME NEW text, NEW k \in Nat, NEW exponent
  PROVE  /\ Letters(text, k) = UpTo(LetterPlaces(text), k)
         /\ DigitsUpTo(text, k, exponent) = UpTo(DigitPlaces(text, exponent), k)
<1>0. 1..k \subseteq Nat OBVIOUS
<1>1. {j \in 1..k : text[j] \in Chars \ {" "}} = {j \in 1..k : j \in LetterPlaces(text)}
  <2>1. \A j \in 1..k : text[j] \in Chars \ {" "} <=> j \in LetterPlaces(text)
    BY <1>0 DEF LetterPlaces
  <2> QED BY <2>1
<1>2. {j \in 1..k : text[j] \notin Shape /\ InExponent(text, j) = exponent}
      = {j \in 1..k : j \in DigitPlaces(text, exponent)}
  <2>1. \A j \in 1..k : (text[j] \notin Shape /\ InExponent(text, j) = exponent)
                        <=> j \in DigitPlaces(text, exponent)
    BY <1>0 DEF DigitPlaces
  <2> QED BY <2>1
<1> QED BY <1>1, <1>2 DEF Letters, Count, DigitsUpTo, UpTo

LEMMA LettersFacts ==
  ASSUME NEW text \in Seq(Chars), NEW k \in 1..Len(text)
  PROVE  /\ Letters(text, k) \in Nat /\ Letters(text, Len(text)) \in Nat
         /\ Letters(text, k) <= Letters(text, Len(text))
         /\ text[k] # " " => Letters(text, k) > 0
<1>1. Len(text) \in Nat /\ k \in Nat /\ k > 0 /\ k <= Len(text) OBVIOUS
<1>2. /\ Letters(text, k) = UpTo(LetterPlaces(text), k)
      /\ Letters(text, Len(text)) = UpTo(LetterPlaces(text), Len(text))
  BY <1>1, CountsAre
<1>3. text[k] # " " => k \in LetterPlaces(text)
  <2>1. text[k] \in Chars OBVIOUS
  <2> QED BY <1>1, <2>1 DEF LetterPlaces
<1> DEFINE P == LetterPlaces(text)
           n == Len(text)
<1> HIDE DEF P, n
<1>4. UpTo(P, k) \in Nat /\ UpTo(P, n) \in Nat BY <1>1, UpToStep DEF n
<1>5. UpTo(P, k) <= UpTo(P, n) BY <1>1, UpToGrows DEF n
<1>6. k \in P => UpTo(P, k) > 0 BY <1>1, UpToMember
<1> QED BY <1>2, <1>3, <1>4, <1>5, <1>6 DEF P, n

\* How wide an alias is spelled.
AliasWidth(c, text) == Larger(Spelled(c, Len(Alphabet)), Letters(text, Len(text)))

\* What aliasFor returns (anonymize.go:195-227).
LEMMA AliasForFacts ==
  ASSUME NEW c \in Nat, NEW text \in Seq(Chars)
  PROVE  /\ AliasFor(c, text) \in Seq(AliasChars) /\ Len(AliasFor(c, text)) = Len(text)
         /\ AliasWidth(c, text) \in Nat
         /\ \A k \in 1..Len(text) :
               /\ text[k] = " " => AliasFor(c, text)[k] = " "
               /\ text[k] # " " =>
                    LET n == AliasWidth(c, text) - Letters(text, k)
                    IN  /\ n \in Nat
                        /\ AliasFor(c, text)[k] = Alphabet[1 + DigitAt(c, Len(Alphabet), n)]
<1> DEFINE b == Len(Alphabet)
           w == AliasWidth(c, text)
           e(k) == IF text[k] = " " THEN " " ELSE Alphabet[1 + DigitAt(c, b, w - Letters(text, k))]
<1>1. b \in Nat /\ b > 1 BY AlphabetFacts
<1>2. Len(text) \in Nat OBVIOUS
<1>3. Letters(text, Len(text)) \in Nat
  <2>1. Letters(text, Len(text)) = UpTo(LetterPlaces(text), Len(text)) BY <1>2, CountsAre
  <2> DEFINE n == Len(text)
             P == LetterPlaces(text)
  <2>2. n \in Nat BY <1>2
  <2> HIDE DEF n, P
  <2>3. UpTo(P, n) \in Nat BY <2>2, UpToStep
  <2> QED BY <2>1, <2>3 DEF n, P
<1>4. w \in Nat /\ w >= Letters(text, Len(text))
  <2>0. b \in Nat /\ b > 0 BY <1>1
  <2>1. Spelled(c, b) \in Nat
    <3> HIDE DEF b
    <3> QED BY <2>0, SpelledFacts
  <2> QED BY <1>3, <2>1 DEF AliasWidth, Larger
<1>5. AliasFor(c, text) = [k \in 1..Len(text) |-> e(k)] BY DEF AliasFor, AliasWidth
<1> HIDE DEF w, b
<1>6. ASSUME NEW k \in 1..Len(text)
      PROVE  w - Letters(text, k) \in Nat /\ e(k) \in AliasChars
  <2>0. /\ Letters(text, k) \in Nat /\ Letters(text, Len(text)) \in Nat
        /\ Letters(text, k) <= Letters(text, Len(text))
    BY LettersFacts
  <2>1. w - Letters(text, k) \in Nat BY <1>4, <2>0
  <2> DEFINE m == w - Letters(text, k)
  <2> HIDE DEF m
  <2>2. DigitAt(c, b, m) \in 0..(b - 1)
    <3>1. m \in Nat /\ b \in Nat /\ b > 0 BY <1>1, <2>1 DEF m
    <3> QED BY <3>1, DigitFacts
  <2>3. " " \in AliasChars BY DEF AliasChars
  <2> QED BY <2>1, <2>2, <2>3, AlphabetFacts DEF b, m
<1>7. \A k \in 1..Len(text) : AliasFor(c, text)[k] = e(k) BY <1>5
<1>8. AliasFor(c, text) \in Seq(AliasChars) /\ Len(AliasFor(c, text)) = Len(text)
  <2> DEFINE n == Len(text)
             a == AliasFor(c, text)
  <2>1. n \in Nat /\ \A k \in 1..n : e(k) \in AliasChars BY <1>2, <1>6
  <2>2. a = [k \in 1..n |-> e(k)] BY <1>5
  <2> HIDE DEF n, e, a
  <2>3. a \in [1..n -> AliasChars] BY <2>1, <2>2
  <2>4. a \in Seq(AliasChars) /\ Len(a) = n BY <2>1, <2>3
  <2> QED BY <2>4 DEF n, a
<1> QED BY <1>4, <1>6, <1>7, <1>8 DEF w, b

\* The numbers of n digits are the Span(n) numbers from Least(n) on.
LEMMA SpanFacts ==
  ASSUME NEW n \in Nat, n > 0
  PROVE  /\ Least(n) \in Nat /\ Least(n) > 0 /\ Span(n) \in Nat /\ Span(n) > 0
         /\ Least(n) + Span(n) = Power(Len(Digits), n)
<1> DEFINE b == Len(Digits)
           m == n - 1
           x == Power(b, m)
<1>1. b \in Nat /\ b > 1 /\ m \in Nat /\ m + 1 = n BY AlphabetFacts
<1>2. Least(n) = x /\ Span(n) = (b - 1) * x BY DEF Least, Span
<1> HIDE DEF b, m
<1>3. Power(b, n) = b * x
  <2>1. Power(b, m + 1) = b * x BY <1>1, PowerStep
  <2> QED BY <1>1, <2>1
<1>4. x \in Nat /\ x > 0 BY <1>1, PowerNat
<1> HIDE DEF x
<1>5. (b - 1) * x \in Nat /\ (b - 1) * x > 0 /\ x + (b - 1) * x = b * x
  <2>1. (b - 1) * x = b * x - x BY <1>1, <1>4
  <2>2. b * x >= 2 * x /\ b * x \in Nat BY <1>1, <1>4
  <2> DEFINE y == b * x
  <2>3. y \in Nat /\ y >= 2 * x BY <2>2
  <2> HIDE DEF y
  <2>4. y - x \in Nat /\ y - x > 0 /\ x + (y - x) = y BY <1>4, <2>3
  <2> QED BY <2>1, <2>4 DEF y
<1> QED BY <1>2, <1>3, <1>4, <1>5 DEF b

\* How many digits a number has before its exponent or in it; the number that
\* is spelled there.
DigitCount(text, exponent) == DigitsUpTo(text, Len(text), exponent)
NumberValue(c, text, exponent) ==
  LET n == DigitCount(text, exponent)
      rest == IF exponent THEN c \div Span(DigitCount(text, FALSE)) ELSE c
  IN  Least(n) + (rest % Span(n))

\* A number as the tokenizer reads one.
IsNumber(text) == text \in Seq(Chars) /\ text # <<>> /\ text[1] \notin Shape

\* A number has a digit before its exponent, and each digit has its place in its
\* part.
LEMMA DigitCountFacts ==
  ASSUME NEW text, IsNumber(text)
  PROVE  /\ \A exponent \in BOOLEAN : DigitCount(text, exponent) \in Nat
         /\ DigitCount(text, FALSE) > 0
         /\ \A k \in 1..Len(text) : text[k] \notin Shape =>
               LET exponent == InExponent(text, k)
               IN  /\ DigitCount(text, exponent) > 0
                   /\ DigitCount(text, exponent) - DigitsUpTo(text, k, exponent)
                        \in 0..(DigitCount(text, exponent) - 1)
<1> DEFINE n == Len(text)
<1>1. n \in Nat /\ n > 0 BY DEF IsNumber
<1> HIDE DEF n
<1>2. ASSUME NEW e \in BOOLEAN, NEW k \in 1..n, k \in DigitPlaces(text, e)
      PROVE  /\ DigitCount(text, e) \in Nat /\ DigitCount(text, e) > 0
             /\ DigitCount(text, e) - DigitsUpTo(text, k, e) \in 0..(DigitCount(text, e) - 1)
  <2> DEFINE P == DigitPlaces(text, e)
  <2>1. DigitCount(text, e) = UpTo(P, n) /\ DigitsUpTo(text, k, e) = UpTo(P, k)
    <3>1. k \in Nat OBVIOUS
    <3> QED BY <3>1, <1>1, CountsAre DEF DigitCount, n
  <2> HIDE DEF P
  <2>2. k \in Nat /\ k > 0 /\ k <= n /\ k \in P BY <1>1, <1>2 DEF P
  <2>3. UpTo(P, k) \in Nat /\ UpTo(P, n) \in Nat BY <1>1, <2>2, UpToStep
  <2>4. UpTo(P, k) > 0 BY <2>2, UpToMember
  <2>5. UpTo(P, k) <= UpTo(P, n) BY <1>1, <2>2, UpToGrows
  <2> QED BY <2>1, <2>3, <2>4, <2>5
<1>3. ASSUME NEW e \in BOOLEAN PROVE DigitCount(text, e) \in Nat
  <2> DEFINE P == DigitPlaces(text, e)
  <2>1. DigitCount(text, e) = UpTo(P, n) BY <1>1, CountsAre DEF DigitCount, n
  <2> HIDE DEF P
  <2>2. UpTo(P, n) \in Nat BY <1>1, UpToStep
  <2> QED BY <2>1, <2>2
<1>4. DigitCount(text, FALSE) > 0
  <2>1. text[1] \notin Shape BY DEF IsNumber
  <2>2. "e" \in Shape BY DEF Shape
  <2>3. InExponent(text, 1) = FALSE BY <2>1, <2>2 DEF InExponent
  <2>4. 1 \in DigitPlaces(text, FALSE) /\ 1 \in 1..n BY <1>1, <2>1, <2>3 DEF DigitPlaces
  <2> QED BY <1>2, <2>4
<1>5. ASSUME NEW k \in 1..n, text[k] \notin Shape
      PROVE  LET exponent == InExponent(text, k)
             IN  /\ DigitCount(text, exponent) > 0
                 /\ DigitCount(text, exponent) - DigitsUpTo(text, k, exponent)
                      \in 0..(DigitCount(text, exponent) - 1)
  <2> DEFINE e == InExponent(text, k)
  <2>1. e \in BOOLEAN BY DEF InExponent
  <2>2. k \in DigitPlaces(text, e) BY <1>5 DEF DigitPlaces
  <2> HIDE DEF e
  <2>3. /\ DigitCount(text, e) > 0
        /\ DigitCount(text, e) - DigitsUpTo(text, k, e) \in 0..(DigitCount(text, e) - 1)
    BY <1>2, <2>1, <2>2
  <2> QED BY <2>3 DEF e
<1> QED BY <1>3, <1>4, <1>5 DEF n

\* A part is spelled in its digits.
LEMMA NumberValueFacts ==
  ASSUME NEW text, IsNumber(text), NEW c \in Nat, NEW e \in BOOLEAN, DigitCount(text, e) > 0
  PROVE  /\ NumberValue(c, text, e) \in Nat
         /\ NumberValue(c, text, e) < Power(Len(Digits), DigitCount(text, e))
<1> DEFINE n == DigitCount(text, e)
           m == DigitCount(text, FALSE)
           rest == IF e THEN c \div Span(m) ELSE c
<1>1. n \in Nat /\ n > 0 /\ m \in Nat /\ m > 0 BY DigitCountFacts
<1>2. NumberValue(c, text, e) = Least(n) + (rest % Span(n)) BY DEF NumberValue
<1> HIDE DEF n, m
<1>3. rest \in Nat
  <2>1. Span(m) \in Nat /\ Span(m) > 0 BY <1>1, SpanFacts
  <2> DEFINE d == Span(m)
  <2>2. c \div d \in Nat
    <3> HIDE DEF d
    <3>1. d \in Nat /\ d > 0 BY <2>1 DEF d
    <3> QED BY <3>1, QuotientFacts
  <2> QED BY <2>2
<1> HIDE DEF rest
<1> DEFINE l == Least(n)
           s == Span(n)
           p == Power(Len(Digits), n)
<1>4. l \in Nat /\ s \in Nat /\ s > 0 /\ l + s = p BY <1>1, SpanFacts
<1> HIDE DEF l, s, p
<1>5. rest % s \in 0..(s - 1) BY <1>3, <1>4, QuotientFacts
<1>6. l + (rest % s) \in Nat /\ l + (rest % s) < p BY <1>4, <1>5
<1> QED BY <1>2, <1>6 DEF l, s, p, n

\* The digit before place k of the alias of a number.
LEMMA NumberAliasFacts ==
  ASSUME NEW text, IsNumber(text), NEW c \in Nat
  PROVE  /\ NumberAlias(c, text) \in Seq(AliasChars) /\ Len(NumberAlias(c, text)) = Len(text)
         /\ \A k \in 1..Len(text) :
               /\ text[k] \in Shape => NumberAlias(c, text)[k] = text[k]
               /\ text[k] \notin Shape =>
                    LET exponent == InExponent(text, k)
                        after == DigitCount(text, exponent) - DigitsUpTo(text, k, exponent)
                    IN  NumberAlias(c, text)[k]
                          = Digits[1 + DigitAt(NumberValue(c, text, exponent), Len(Digits), after)]
<1> DEFINE place(k) == DigitCount(text, InExponent(text, k))
                         - DigitsUpTo(text, k, InExponent(text, k))
           d(k) == DigitAt(NumberValue(c, text, InExponent(text, k)), Len(Digits), place(k))
           e(k) == IF text[k] \in Shape THEN text[k] ELSE Digits[1 + d(k)]
           n == Len(text)
           a == NumberAlias(c, text)
<1>1. a = [k \in 1..n |-> e(k)] BY DEF NumberAlias, NumberValue, DigitCount
<1>2. n \in Nat BY DEF IsNumber
<1> HIDE DEF n
<1>3. ASSUME NEW k \in 1..n PROVE e(k) \in AliasChars
  <2>1. CASE text[k] \in Shape BY <2>1 DEF AliasChars
  <2>2. CASE text[k] \notin Shape
    <3> DEFINE x == InExponent(text, k)
    <3>1. x \in BOOLEAN BY DEF InExponent
    <3>2. DigitCount(text, x) > 0 /\ place(k) \in 0..(DigitCount(text, x) - 1)
          /\ DigitCount(text, x) \in Nat
      BY <2>2, <3>1, DigitCountFacts DEF n
    <3>3. NumberValue(c, text, x) \in Nat BY <3>1, <3>2, NumberValueFacts
    <3> DEFINE v == NumberValue(c, text, x)
               m == place(k)
               b == Len(Digits)
    <3>4. v \in Nat /\ m \in Nat /\ b \in Nat /\ b > 0 BY <3>2, <3>3, AlphabetFacts
    <3>5. d(k) \in 0..(b - 1)
      <4>1. d(k) = DigitAt(v, b, m) OBVIOUS
      <4> HIDE DEF v, m, b
      <4>2. DigitAt(v, b, m) \in 0..(b - 1) BY <3>4, DigitFacts
      <4> QED BY <4>1, <4>2
    <3>6. Digits[1 + d(k)] \in AliasChars BY <3>5, AlphabetFacts
    <3> QED BY <2>2, <3>6
  <2> QED BY <2>1, <2>2
<1>4. a \in Seq(AliasChars) /\ Len(a) = n
  <2> HIDE DEF a, e
  <2>1. a \in [1..n -> AliasChars] BY <1>1, <1>3
  <2> QED BY <1>2, <2>1
<1>5. \A k \in 1..n : a[k] = e(k) BY <1>1
<1> QED BY <1>4, <1>5 DEF n

\* What numberAlias returns of a number that is too long (anonymize.go:238-253).
LEMMA BlurredFacts ==
  ASSUME NEW text \in Seq(Chars)
  PROVE  Blurred(text) \in Seq(AliasChars) /\ Len(Blurred(text)) = Len(text)
<1> DEFINE n == Len(text)
           e(k) == IF text[k] \in Shape THEN text[k]
                   ELSE IF \E j \in 1..(k - 1) : text[j] \notin Shape THEN Digits[1] ELSE Digits[2]
           a == Blurred(text)
<1>1. a = [k \in 1..n |-> e(k)] BY DEF Blurred
<1>2. n \in Nat OBVIOUS
<1>3. Digits[1] \in AliasChars /\ Digits[2] \in AliasChars
  <2>1. 0 \in 0..(Len(Digits) - 1) /\ 1 \in 0..(Len(Digits) - 1) BY AlphabetFacts
  <2>2. Digits[1 + 0] \in AliasChars /\ Digits[1 + 1] \in AliasChars BY <2>1, AlphabetFacts
  <2> QED BY <2>2
<1>4. \A k \in 1..n : e(k) \in AliasChars BY <1>3 DEF AliasChars
<1> HIDE DEF a, e, n
<1>5. a \in [1..n -> AliasChars] BY <1>1, <1>4
<1>6. a \in Seq(AliasChars) /\ Len(a) = n BY <1>2, <1>5
<1> QED BY <1>6 DEF a, n

\* A token as the tokenizer returns one.
Readable(tok) == tok \in Token /\ (tok.type = "number" => IsNumber(tok.text))

\* An alias is as long as its text and has the letters of the alphabets.
LEMMA AliasFacts ==
  ASSUME NEW c \in Nat, NEW tok, Readable(tok)
  PROVE  Alias(c, tok) \in Seq(AliasChars) /\ Len(Alias(c, tok)) = Len(tok.text)
<1>1. tok.text \in Seq(Chars) BY DEF Readable, Token
<1>2. CASE tok.type # "number" BY <1>1, <1>2, AliasForFacts DEF Alias
<1>3. CASE tok.type = "number" /\ Len(tok.text) > MaxWidth BY <1>1, <1>3, BlurredFacts DEF Alias
<1>4. CASE tok.type = "number" /\ ~(Len(tok.text) > MaxWidth)
  BY <1>4, NumberAliasFacts DEF Alias, Readable
<1> QED BY <1>2, <1>3, <1>4

\* The letters of an alphabet are told from each other and from what is kept.
LEMMA SeparateFacts ==
  ASSUME NEW a, NEW d \in 1..Len(a), NEW e \in 1..Len(a), a \in {Alphabet, Digits}
  PROVE  /\ a[d] = a[e] => d = e
         /\ a[d] \notin Shape \cup {" "}
<1>1. DOMAIN a = 1..Len(a) BY LettersAssumption
<1>2. Separate(a) BY LettersAssumption
<1> QED BY <1>1, <1>2 DEF Separate

\* Two texts with room for their numbers have one alias only if those are one
\* (anonymize.go:195-227).
LEMMA WordsTell ==
  ASSUME NEW s \in Seq(Chars), NEW t \in Seq(Chars), NEW c \in Nat, NEW d \in Nat,
         c < Power(Len(Alphabet), Letters(s, Len(s))),
         d < Power(Len(Alphabet), Letters(t, Len(t))),
         AliasFor(c, s) = AliasFor(d, t)
  PROVE  c = d
<1> DEFINE b == Len(Alphabet)
           n == Len(s)
           l == Letters(s, n)
<1>1. b \in Nat /\ b > 1 /\ b > 0 BY AlphabetFacts
<1>2. n \in Nat /\ Len(t) = n
  <2>1. Len(AliasFor(c, s)) = Len(s) /\ Len(AliasFor(d, t)) = Len(t) BY AliasForFacts
  <2> QED BY <2>1
<1> HIDE DEF n, b
<1>3. ASSUME NEW u \in Seq(Chars), NEW e \in Nat, Len(u) = n, NEW k \in 1..n
      PROVE  u[k] = " " <=> AliasFor(e, u)[k] = " "
  <2>1. u[k] = " " => AliasFor(e, u)[k] = " " BY <1>3, AliasForFacts
  <2>2. ASSUME u[k] # " " PROVE AliasFor(e, u)[k] # " "
    <3> DEFINE m == AliasWidth(e, u) - Letters(u, k)
               x == DigitAt(e, b, m)
    <3>1. m \in Nat /\ AliasFor(e, u)[k] = Alphabet[1 + x] BY <1>3, <2>2, AliasForFacts DEF b
    <3> HIDE DEF m
    <3>2. x \in 0..(b - 1) BY <1>1, <3>1, DigitFacts
    <3> HIDE DEF x
    <3>3. 1 + x \in 1..Len(Alphabet) BY <1>1, <3>2 DEF b
    <3>4. Alphabet[1 + x] \notin Shape \cup {" "} BY <3>3, SeparateFacts
    <3> QED BY <3>1, <3>4
  <2> QED BY <2>1, <2>2
<1>4. \A k \in 1..n : s[k] = " " <=> t[k] = " "
  <2> TAKE k \in 1..n
  <2>1. s[k] = " " <=> AliasFor(c, s)[k] = " " BY <1>3 DEF n
  <2>2. t[k] = " " <=> AliasFor(d, t)[k] = " " BY <1>2, <1>3
  <2> QED BY <2>1, <2>2
<1>5. \A k \in 0..n : Letters(s, k) = Letters(t, k)
  <2> TAKE k \in 0..n
  <2>1. \A j \in 1..k : s[j] \in Chars \ {" "} <=> t[j] \in Chars \ {" "}
    <3> TAKE j \in 1..k
    <3>1. j \in 1..n BY <1>2
    <3>2. s[j] \in Chars /\ t[j] \in Chars BY <1>2, <3>1 DEF n
    <3> QED BY <1>4, <3>1, <3>2
  <2>2. {j \in 1..k : s[j] \in Chars \ {" "}} = {j \in 1..k : t[j] \in Chars \ {" "}} BY <2>1
  <2> QED BY <2>2 DEF Letters, Count
<1>6. l \in Nat /\ l = Letters(t, n)
  <2>1. l = UpTo(LetterPlaces(s), n) BY <1>2, CountsAre
  <2>2. UpTo(LetterPlaces(s), n) \in Nat BY <1>2, UpToStep
  <2>3. n \in 0..n BY <1>2
  <2> QED BY <1>5, <2>1, <2>2, <2>3
<1>7. c < Power(b, l) /\ d < Power(b, l) BY <1>2, <1>6 DEF b, n
<1> HIDE DEF l
<1>8. AliasWidth(c, s) = l /\ AliasWidth(d, t) = l
  <2>1. /\ Spelled(c, b) \in Nat /\ Spelled(c, b) <= l
        /\ Spelled(d, b) \in Nat /\ Spelled(d, b) <= l
    BY <1>1, <1>6, <1>7, SpelledFacts
  <2>2. AliasWidth(c, s) = Larger(Spelled(c, b), l) /\ AliasWidth(d, t) = Larger(Spelled(d, b), l)
    BY <1>2, <1>6 DEF AliasWidth, b, n, l
  <2> QED BY <1>6, <2>1, <2>2 DEF Larger
<1>9. ASSUME NEW m \in 0..(l - 1) PROVE DigitAt(c, b, m) = DigitAt(d, b, m)
  <2> DEFINE v == l - m
             P == LetterPlaces(s)
  <2>1. v \in Nat /\ v > 0 /\ v <= l /\ l - v = m /\ m \in Nat BY <1>6
  <2>2. l = UpTo(P, n) BY <1>2, CountsAre DEF l
  <2> HIDE DEF v
  <2>3. PICK k \in 1..n : k \in P /\ UpTo(P, k) = v
    <3> HIDE DEF P
    <3> QED BY <1>2, <2>1, <2>2, UpToReaches
  <2>4. s[k] # " " /\ t[k] # " " BY <1>4, <2>3 DEF LetterPlaces
  <2>5. Letters(s, k) = v /\ Letters(t, k) = v
    <3>1. k \in Nat /\ k \in 0..n OBVIOUS
    <3> QED BY <1>5, <2>3, <3>1, CountsAre
  <2>6a. AliasWidth(c, s) - Letters(s, k) = m /\ AliasWidth(d, t) - Letters(t, k) = m
    BY <1>8, <2>1, <2>5
  <2>6. AliasFor(c, s)[k] = Alphabet[1 + DigitAt(c, b, m)]
    <3>1. k \in 1..Len(s) BY DEF n
    <3> QED BY <2>4, <2>6a, <3>1, AliasForFacts DEF b
  <2>7. AliasFor(d, t)[k] = Alphabet[1 + DigitAt(d, b, m)]
    <3>1. k \in 1..Len(t) BY <1>2
    <3> QED BY <2>4, <2>6a, <3>1, AliasForFacts DEF b
  <2> DEFINE x == DigitAt(c, b, m)
             y == DigitAt(d, b, m)
  <2>8. x \in 0..(b - 1) /\ y \in 0..(b - 1) BY <1>1, <2>1, DigitFacts
  <2>9. Alphabet[1 + x] = Alphabet[1 + y] BY <2>6, <2>7
  <2> HIDE DEF x, y
  <2>10. 1 + x \in 1..Len(Alphabet) /\ 1 + y \in 1..Len(Alphabet) BY <1>1, <2>8 DEF b
  <2>11. 1 + x = 1 + y BY <2>9, <2>10, SeparateFacts
  <2>12. x = y BY <2>8, <2>11
  <2> QED BY <2>12 DEF x, y
<1> QED BY <1>1, <1>6, <1>7, <1>9, DigitsTell

\* The two parts of a number that is less than what they spell.
LEMMA PartsTell ==
  ASSUME NEW a \in Nat, a > 0, NEW b \in Nat, b > 0, NEW c \in Nat, NEW d \in Nat,
         c < a * b, d < a * b, c % a = d % a, (c \div a) % b = (d \div a) % b
  PROVE  c = d
<1>1. ASSUME NEW x \in Nat, x < a * b PROVE (x \div a) % b = x \div a
  <2> DEFINE q == x \div a
             r == x % a
  <2>1. q \in Nat /\ r \in 0..(a - 1) /\ x = a * q + r BY QuotientFacts
  <2> HIDE DEF q, r
  <2>2. q < b
    <3> SUFFICES ASSUME q >= b PROVE FALSE BY <2>1
    <3>1. a * q >= a * b BY <2>1
    <3>2. a * q \in Nat /\ a * b \in Nat BY <2>1
    <3> QED BY <1>1, <2>1, <3>1, <3>2
  <2>3. q % b = q BY <2>1, <2>2
  <2> QED BY <2>3 DEF q
<1>2. c \div a = d \div a BY <1>1
<1>3. c = a * (c \div a) + (c % a) BY QuotientFacts
<1>4. d = a * (d \div a) + (d % a) BY QuotientFacts
<1> QED BY <1>2, <1>3, <1>4

\* How many aliases a number has.
NumberRoom(text) ==
  Span(DigitCount(text, FALSE))
    * (IF DigitCount(text, TRUE) = 0 THEN 1 ELSE Span(DigitCount(text, TRUE)))

\* The digits of a number are told from what is kept.
LEMMA NumberPlaces ==
  ASSUME NEW s, IsNumber(s), NEW c \in Nat, NEW k \in 1..Len(s)
  PROVE  IF s[k] \in Shape THEN NumberAlias(c, s)[k] = s[k] ELSE NumberAlias(c, s)[k] \notin Shape
<1>1. CASE s[k] \in Shape BY <1>1, NumberAliasFacts
<1>2. CASE s[k] \notin Shape
  <2> DEFINE e == InExponent(s, k)
             after == DigitCount(s, e) - DigitsUpTo(s, k, e)
             v == NumberValue(c, s, e)
             x == DigitAt(v, Len(Digits), after)
  <2>1. e \in BOOLEAN BY DEF InExponent
  <2>2. DigitCount(s, e) \in Nat /\ DigitCount(s, e) > 0 /\ after \in 0..(DigitCount(s, e) - 1)
    BY <1>2, <2>1, DigitCountFacts
  <2>3. NumberAlias(c, s)[k] = Digits[1 + x] BY <1>2, NumberAliasFacts
  <2>4. v \in Nat BY <2>1, <2>2, NumberValueFacts
  <2>5. after \in Nat BY <2>2
  <2>6. Len(Digits) \in Nat /\ Len(Digits) > 0 BY AlphabetFacts
  <2> HIDE DEF v, after
  <2>7. x \in 0..(Len(Digits) - 1) BY <2>4, <2>5, <2>6, DigitFacts
  <2> HIDE DEF x
  <2>8. 1 + x \in 1..Len(Digits) BY <2>6, <2>7
  <2>9. Digits[1 + x] \notin Shape BY <2>8, SeparateFacts
  <2> QED BY <1>2, <2>3, <2>9
<1> QED BY <1>1, <1>2

\* Two numbers with one alias are written alike.
LEMMA NumbersAlike ==
  ASSUME NEW s, IsNumber(s), NEW t, IsNumber(t), NEW c \in Nat, NEW d \in Nat,
         NumberAlias(c, s) = NumberAlias(d, t)
  PROVE  /\ Len(s) = Len(t)
         /\ \A k \in 1..Len(s) : /\ s[k] \in Shape <=> t[k] \in Shape
                                 /\ InExponent(s, k) = InExponent(t, k)
         /\ \A e \in BOOLEAN : \A k \in 0..Len(s) : DigitsUpTo(s, k, e) = DigitsUpTo(t, k, e)
         /\ \A e \in BOOLEAN : DigitCount(s, e) = DigitCount(t, e)
<1> DEFINE n == Len(s)
<1>1. n \in Nat /\ Len(t) = n
  <2>1. Len(NumberAlias(c, s)) = Len(s) /\ Len(NumberAlias(d, t)) = Len(t) BY NumberAliasFacts
  <2> QED BY <2>1 DEF IsNumber
<1> HIDE DEF n
<1>2. ASSUME NEW k \in 1..n PROVE (s[k] \in Shape <=> t[k] \in Shape) /\ (s[k] = "e" <=> t[k] = "e")
  <2> DEFINE x == NumberAlias(c, s)[k]
  <2>1. IF s[k] \in Shape THEN x = s[k] ELSE x \notin Shape BY NumberPlaces DEF n
  <2>2. IF t[k] \in Shape THEN x = t[k] ELSE x \notin Shape
    <3>1. k \in 1..Len(t) BY <1>1
    <3> QED BY <3>1, NumberPlaces
  <2> HIDE DEF x
  <2>3. "e" \in Shape BY DEF Shape
  <2> QED BY <2>1, <2>2, <2>3
<1>3. ASSUME NEW k \in 1..n PROVE InExponent(s, k) = InExponent(t, k)
  <2>1. \A j \in 1..k : s[j] = "e" <=> t[j] = "e" BY <1>1, <1>2
  <2> QED BY <2>1 DEF InExponent
<1>4. ASSUME NEW e \in BOOLEAN, NEW k \in 0..n PROVE DigitsUpTo(s, k, e) = DigitsUpTo(t, k, e)
  <2>1. \A j \in 1..k : (s[j] \notin Shape /\ InExponent(s, j) = e)
                        <=> (t[j] \notin Shape /\ InExponent(t, j) = e)
    BY <1>1, <1>2, <1>3
  <2>2. {j \in 1..k : s[j] \notin Shape /\ InExponent(s, j) = e}
        = {j \in 1..k : t[j] \notin Shape /\ InExponent(t, j) = e}
    BY <2>1
  <2> QED BY <2>2 DEF DigitsUpTo
<1>5. ASSUME NEW e \in BOOLEAN PROVE DigitCount(s, e) = DigitCount(t, e)
  <2>1. n \in 0..n BY <1>1
  <2> QED BY <1>1, <1>4, <2>1 DEF DigitCount, n
<1> QED BY <1>1, <1>2, <1>3, <1>4, <1>5 DEF n

\* The digit of the alias of a number that stands before the last m of its part.
LEMMA DigitOfPart ==
  ASSUME NEW s, IsNumber(s), NEW e \in BOOLEAN, NEW m \in 0..(DigitCount(s, e) - 1)
  PROVE  \E k \in 1..Len(s) :
            /\ s[k] \notin Shape /\ InExponent(s, k) = e
            /\ DigitsUpTo(s, k, e) = DigitCount(s, e) - m
<1> DEFINE n == Len(s)
           P == DigitPlaces(s, e)
           v == DigitCount(s, e) - m
<1>0. n \in Nat BY DEF IsNumber
<1>1. n \in Nat /\ DigitCount(s, e) \in Nat BY <1>0, DigitCountFacts
<1> HIDE DEF n
<1>2. v \in Nat /\ v > 0 /\ v <= DigitCount(s, e) BY <1>1
<1> HIDE DEF v
<1>3. DigitCount(s, e) = UpTo(P, n) BY <1>1, CountsAre DEF DigitCount, n
<1> HIDE DEF P
<1>4. PICK k \in 1..n : k \in P /\ UpTo(P, k) = v BY <1>1, <1>2, <1>3, UpToReaches
<1>5. s[k] \notin Shape /\ InExponent(s, k) = e BY <1>4 DEF P, DigitPlaces
<1>6. DigitsUpTo(s, k, e) = v
  <2>1. k \in Nat BY <1>1
  <2> QED BY <1>4, <2>1, CountsAre DEF P
<1> QED BY <1>5, <1>6 DEF n, v

\* Two numbers with one alias spell one value in each of their parts.
LEMMA ValuesTell ==
  ASSUME NEW s, IsNumber(s), NEW t, IsNumber(t), NEW c \in Nat, NEW d \in Nat,
         NumberAlias(c, s) = NumberAlias(d, t)
  PROVE  \A e \in BOOLEAN :
            DigitCount(s, e) > 0 => NumberValue(c, s, e) = NumberValue(d, t, e)
<1> SUFFICES ASSUME NEW e \in BOOLEAN, DigitCount(s, e) > 0
             PROVE  NumberValue(c, s, e) = NumberValue(d, t, e)
  OBVIOUS
<1> DEFINE b == Len(Digits)
           n == DigitCount(s, e)
           x == NumberValue(c, s, e)
           y == NumberValue(d, t, e)
<1>1. b \in Nat /\ b > 0 BY AlphabetFacts
<1>2. n \in Nat /\ n = DigitCount(t, e) BY DigitCountFacts, NumbersAlike
<1>3. x \in Nat /\ x < Power(b, n) BY NumberValueFacts
<1>4. y \in Nat /\ y < Power(b, n)
  <2>1. DigitCount(t, e) > 0 BY <1>2
  <2> QED BY <1>2, <2>1, NumberValueFacts
<1>5. ASSUME NEW m \in 0..(n - 1) PROVE DigitAt(x, b, m) = DigitAt(y, b, m)
  <2>1. PICK k \in 1..Len(s) : /\ s[k] \notin Shape /\ InExponent(s, k) = e
                               /\ DigitsUpTo(s, k, e) = n - m
    BY DigitOfPart
  <2>2. /\ k \in 1..Len(t) /\ t[k] \notin Shape /\ InExponent(t, k) = e
        /\ DigitsUpTo(t, k, e) = n - m
    <3>1. k \in 0..Len(s) OBVIOUS
    <3> QED BY <2>1, <3>1, NumbersAlike
  <2>3. n - (n - m) = m BY <1>2
  <2>4. NumberAlias(c, s)[k] = Digits[1 + DigitAt(x, b, m)] BY <2>1, <2>3, NumberAliasFacts
  <2>5. NumberAlias(d, t)[k] = Digits[1 + DigitAt(y, b, m)]
    BY <1>2, <2>2, <2>3, NumberAliasFacts
  <2> DEFINE u == DigitAt(x, b, m)
             v == DigitAt(y, b, m)
  <2>6. Digits[1 + u] = Digits[1 + v] BY <2>4, <2>5
  <2>7. u \in 0..(b - 1) /\ v \in 0..(b - 1)
    <3>1. m \in Nat BY <1>2
    <3> HIDE DEF x, y, b
    <3> QED BY <1>1, <1>3, <1>4, <3>1, DigitFacts
  <2> HIDE DEF u, v
  <2>8. 1 + u \in 1..Len(Digits) /\ 1 + v \in 1..Len(Digits) BY <1>1, <2>7
  <2>9. 1 + u = 1 + v BY <2>6, <2>8, SeparateFacts
  <2>10. u = v BY <2>7, <2>9
  <2> QED BY <2>10 DEF u, v
<1> HIDE DEF b, n, x, y
<1>6. x = y BY <1>1, <1>2, <1>3, <1>4, <1>5, DigitsTell
<1> QED BY <1>6 DEF x, y

\* The same of numbers (anonymize.go:229-300).
LEMMA NumbersTell ==
  ASSUME NEW s, IsNumber(s), NEW t, IsNumber(t), NEW c \in Nat, NEW d \in Nat,
         c < NumberRoom(s), d < NumberRoom(t), NumberAlias(c, s) = NumberAlias(d, t)
  PROVE  c = d
<1> DEFINE m == DigitCount(s, FALSE)
           n == DigitCount(s, TRUE)
           a == Span(m)
           b == Span(n)
<1>1. m \in Nat /\ m > 0 /\ n \in Nat BY DigitCountFacts
<1>2. m = DigitCount(t, FALSE) /\ n = DigitCount(t, TRUE) BY NumbersAlike
<1> HIDE DEF m, n
<1>3. a \in Nat /\ a > 0 BY <1>1, SpanFacts
<1>4. c % a = d % a
  <2>0. \A e \in BOOLEAN : DigitCount(s, e) > 0 => NumberValue(c, s, e) = NumberValue(d, t, e)
    BY ValuesTell
  <2>1. NumberValue(c, s, FALSE) = NumberValue(d, t, FALSE) BY ONLY <1>1, <2>0, Zenon DEF m
  <2>2. NumberValue(c, s, FALSE) = Least(m) + (c % a) BY DEF NumberValue, m
  <2>3. NumberValue(d, t, FALSE) = Least(m) + (d % a) BY <1>2 DEF NumberValue, m
  <2>4. Least(m) \in Nat BY <1>1, SpanFacts
  <2> HIDE DEF a
  <2> DEFINE p == Least(m)
             u == c % a
             v == d % a
  <2>5. u \in Nat /\ v \in Nat BY <1>3
  <2>6. p + u = p + v /\ p \in Nat BY <2>1, <2>2, <2>3, <2>4
  <2> HIDE DEF p, u, v
  <2>7. u = v BY <2>5, <2>6
  <2> QED BY <2>7 DEF u, v
<1>5. CASE n = 0
  <2>1. NumberRoom(s) = a * 1 /\ NumberRoom(t) = a * 1 BY <1>2, <1>5 DEF NumberRoom, m, n
  <2> HIDE DEF a
  <2>2. c < a /\ d < a BY <1>3, <2>1
  <2>3. c % a = c /\ d % a = d BY <1>3, <2>2
  <2> QED BY <1>4, <2>3
<1>6. CASE n # 0
  <2>1. NumberRoom(s) = a * b /\ NumberRoom(t) = a * b BY <1>2, <1>6 DEF NumberRoom, m, n
  <2>2. n > 0 BY <1>1, <1>6
  <2>3. b \in Nat /\ b > 0 BY <1>1, <2>2, SpanFacts
  <2>4. (c \div a) % b = (d \div a) % b
    <3>0. \A e \in BOOLEAN : DigitCount(s, e) > 0 => NumberValue(c, s, e) = NumberValue(d, t, e)
      BY ValuesTell
    <3>1. NumberValue(c, s, TRUE) = NumberValue(d, t, TRUE) BY ONLY <2>2, <3>0, Zenon DEF n
    <3>2. NumberValue(c, s, TRUE) = Least(n) + ((c \div a) % b) BY DEF NumberValue, m, n
    <3>3. NumberValue(d, t, TRUE) = Least(n) + ((d \div a) % b) BY <1>2 DEF NumberValue, m, n
    <3>4. Least(n) \in Nat BY <1>1, <2>2, SpanFacts
    <3> HIDE DEF a, b
    <3> DEFINE u == c \div a
               v == d \div a
    <3>5. u \in Nat /\ v \in Nat BY <1>3, QuotientFacts
    <3> HIDE DEF u, v
    <3>6. u % b \in Nat /\ v % b \in Nat BY <2>3, <3>5
    <3> DEFINE p == Least(n)
               x == u % b
               y == v % b
    <3>7. p + x = p + y /\ p \in Nat /\ x \in Nat /\ y \in Nat
      BY <3>1, <3>2, <3>3, <3>4, <3>6 DEF u, v
    <3> HIDE DEF p, x, y
    <3>8. x = y BY <3>7
    <3> QED BY <3>8 DEF u, v, x, y
  <2> HIDE DEF a, b
  <2> QED BY <1>3, <1>4, <2>1, <2>3, <2>4, PartsTell
<1> QED BY <1>5, <1>6

-----------------------------------------------------------------------------
(* The two loops. *)

IsPlaced(tok) ==
    /\ tok.start <= tok.end + 1 /\ tok.end < Len(sql)
    /\ tok.type \in Rewritten => Len(tok.text) = Width(tok)

Typed ==
    /\ statement \in Statements
    /\ tokens \in Seq(Token)
    /\ \A k \in DOMAIN seen : k \in BOOLEAN \X Seq(Source) /\ seen[k] \in Seq(AliasChars)
    /\ counter \in Nat /\ i \in Nat \ {0} /\ prev \in Nat
    /\ out \in Seq(Chars)
    /\ phase \in {"tokenized", "naming", "rendering", "done"}

Placed == \A j \in 1..Len(tokens) : IsPlaced(tokens[j])

SamePlace(t, u) == t.type = u.type /\ t.start = u.start /\ t.end = u.end

\* The tokens are those of the statement, in their places, and perhaps one for
\* what could not be read.
Kept ==
    /\ Len(Given) <= Len(tokens)
    /\ \A j \in 1..Len(Given) : SamePlace(tokens[j], Given[j])
    /\ \A j \in 1..Len(tokens) : j > Len(Given) =>
          tokens[j].type = "unknown" /\ tokens[j].start >= EndBefore(tokens, j)

NotReached ==
    /\ phase = "tokenized" => tokens = Given /\ i = 1
    /\ phase = "naming" => \A j \in 1..Len(Given) : j >= i => tokens[j] = Given[j]

Reached(j) == phase \in {"rendering", "done"} \/ (phase = "naming" /\ j < i)

\* The map of aliases has the text of every token the loop has passed.
AliasesRecorded ==
    \A j \in 1..Len(Given) : Reached(j) /\ Sensitive(Given, j) =>
       Key(Given[j]) \in DOMAIN seen /\ tokens[j].text = seen[Key(Given[j])]

\* How many characters are written once more than they were read.
Excess(ts, n) == Cardinality(Shared(ts, n))

Measured ==
    /\ phase \in {"tokenized", "naming"} => out = <<>> /\ prev = 0
    /\ phase = "rendering" =>
         /\ i <= Len(tokens) + 1 /\ prev = EndBefore(tokens, i)
         /\ Len(out) = prev + Excess(tokens, i - 1)
    /\ phase = "done" => Len(out) = Len(sql) + Excess(Given, Len(Given))

Inv == Typed /\ Placed /\ Kept /\ NotReached /\ AliasesRecorded /\ Measured

-----------------------------------------------------------------------------
LEMMA CharFacts == Source \subseteq Chars /\ "." \in Chars
<1>1. Source \subseteq Chars BY Zenon DEF Chars
<1>2. "." \in Shape BY DEF Shape
<1>3. Shape \subseteq Source BY Zenon DEF Source
<1> QED BY <1>1, <1>2, <1>3

\* Blanking keeps the length of a text (anonymize.go:306-316).
LEMMA BlankedFacts ==
    ASSUME NEW text \in Seq(Chars)
    PROVE  Blanked(text) \in Seq(Chars) /\ Len(Blanked(text)) = Len(text)
<1>1. "." \in Chars BY CharFacts
<1>2. Len(text) \in Nat OBVIOUS
<1> DEFINE e(k) == IF text[k] = " " \/ MarkStays(text, k) THEN text[k] ELSE "."
<1>3. \A k \in 1..Len(text) : e(k) \in Chars
  <2> TAKE k \in 1..Len(text)
  <2>1. text[k] \in Chars OBVIOUS
  <2> QED BY <1>1, <2>1
<1>4. Blanked(text) = [k \in 1..Len(text) |-> e(k)] BY DEF Blanked
<1> HIDE DEF e
<1>5. Blanked(text) \in [1..Len(text) -> Chars] BY <1>3, <1>4
<1> QED BY <1>2, <1>5

\* A slice of the statement has the length of its bounds.
LEMMA SliceFacts ==
    ASSUME NEW text \in Seq(Source), NEW from \in Nat, NEW to \in Nat,
           from <= to, to <= Len(text)
    PROVE  Slice(text, from, to) \in Seq(Chars) /\ Len(Slice(text, from, to)) = to - from
<1>1. Source \subseteq Chars BY CharFacts
<1>2. to - from \in Nat /\ Len(text) \in Nat OBVIOUS
<1>3. \A k \in 1..(to - from) : text[from + k] \in Chars
  <2> TAKE k \in 1..(to - from)
  <2>1. from + k \in 1..Len(text) BY <1>2
  <2> QED BY <1>1, <2>1
<1>4. Slice(text, from, to) \in [1..(to - from) -> Chars] BY <1>3 DEF Slice
<1> QED BY <1>2, <1>4

\* A fitted alias fills the characters of its token (anonymize.go:473-518).
LEMMA FittedFacts ==
    ASSUME NEW span \in Seq(Chars), NEW tok \in Token
    PROVE  Fitted(span, tok) \in Seq(Chars) /\ Len(Fitted(span, tok)) = Len(span)
<1> DEFINE n == Len(span)
           q == IF tok.type = "string" /\ n > 1 /\ span[1] = "'" /\ span[n] = "'" THEN 1 ELSE 0
           w == Len(tok.text)
           fill == Larger((n - (2 * q)) - w, 0)
           zero == IF tok.type = "number" THEN Digits[1] ELSE Alphabet[1]
           e(k) == IF k <= q \/ k > n - q THEN span[k]
                   ELSE IF k - q <= fill THEN zero ELSE tok.text[k - q - fill]
<1>1. n \in Nat /\ w \in Nat /\ tok.text \in Seq(Chars) BY DEF Token
<1>2. zero \in Chars
  <2>1. Digits[1] \in Chars /\ Alphabet[1] \in Chars BY LettersAssumption DEF Chars
  <2> QED BY <2>1, CharFacts
<1>3. q \in Nat OBVIOUS
<1> HIDE DEF q
<1> HIDE DEF w
<1>4. fill \in Nat /\ fill >= (n - (2 * q)) - w
  <2> DEFINE d == (n - (2 * q)) - w
  <2>1. d \in Int BY <1>1, <1>3
  <2>2. fill = IF d < 0 THEN 0 ELSE d BY DEF Larger
  <2> HIDE DEF d, fill
  <2>3. fill \in Nat /\ fill >= d BY <2>1, <2>2
  <2> QED BY <2>3 DEF d
<1> HIDE DEF fill, zero
<1>5. ASSUME NEW k \in 1..n PROVE e(k) \in Chars
  <2>1. CASE k <= q \/ k > n - q BY <2>1, <1>1
  <2>2. CASE ~(k <= q \/ k > n - q) /\ k - q <= fill BY <2>2, <1>2
  <2>3. CASE ~(k <= q \/ k > n - q) /\ ~(k - q <= fill)
    <3>1. k - q - fill \in 1..w BY <2>3, <1>1, <1>3, <1>4
    <3> QED BY <2>3, <3>1, <1>1 DEF w
  <2> QED BY <2>1, <2>2, <2>3
<1>6. Fitted(span, tok) = [k \in 1..n |-> e(k)] BY DEF Fitted, q, fill, zero, w
<1>7. Fitted(span, tok) \in [1..n -> Chars] BY <1>5, <1>6
<1> QED BY <1>1, <1>7

\* What the statements of the model are.
LEMMA GivenFacts ==
    ASSUME statement \in Statements
    PROVE  /\ sql \in Seq(Source) /\ Len(sql) \in Nat
           /\ Given \in Seq(Token)
           /\ \A j \in 1..Len(Given) :
                 /\ IsPlaced(Given[j]) /\ Given[j].type # "unknown"
                 /\ Readable(Given[j]) /\ Given[j].text \in Seq(Source)
<1>1. Tokenized(statement) BY StatementsAssumption
<1>2. sql \in Seq(Source) /\ Given \in Seq(Token) BY <1>1 DEF Tokenized, sql, Given
<1>5. \A j \in 1..Len(Given) :
         /\ Given[j] \in Token /\ Given[j].start <= Given[j].end + 1
         /\ Given[j].end < Len(sql) /\ Given[j].type # "unknown"
         /\ Given[j].type = "hint" => Len(Given[j].text) = Width(Given[j])
         /\ Given[j].text \in Seq(Source)
         /\ Given[j].type = "number" => Given[j].text # <<>> /\ Given[j].text[1] \notin Shape
  BY <1>1, <1>2 DEF Tokenized, sql, Given
<1>6. \A j \in 1..Len(Given) : Readable(Given[j]) BY <1>5 DEF Readable, IsNumber, Token
<1> QED BY <1>2, <1>5, <1>6 DEF IsPlaced, Rewritten

\* The gap before a token is as long as the places between it and the last one,
\* and a token is rendered as long as the characters it was read from.
LEMMA RenderedFacts ==
    ASSUME Typed, NEW tok \in Token, IsPlaced(tok), prev <= Len(sql)
    PROVE  /\ Gap(tok) \in Seq(Chars)
           /\ Len(Gap(tok)) = IF prev < tok.start THEN tok.start - prev ELSE 0
           /\ Rendered(tok) \in Seq(Chars) /\ Len(Rendered(tok)) = Width(tok)
<1>1. sql \in Seq(Source) /\ Len(sql) \in Nat BY GivenFacts DEF Typed
<1>2. /\ tok.start \in Nat /\ tok.end \in Nat /\ tok.text \in Seq(Chars)
      /\ tok.start <= tok.end + 1 /\ tok.end + 1 <= Len(sql) /\ prev \in Nat
  BY <1>1 DEF Token, IsPlaced, Typed
<1> DEFINE from == Smaller(prev, tok.start)
           span == Slice(sql, tok.start, tok.end + 1)
<1>3. from \in Nat /\ from <= tok.start /\ tok.start <= Len(sql)
      /\ tok.start - from = IF prev < tok.start THEN tok.start - prev ELSE 0
  BY <1>1, <1>2 DEF Smaller
<1> HIDE DEF from
<1>4. Slice(sql, from, tok.start) \in Seq(Chars)
      /\ Len(Slice(sql, from, tok.start)) = tok.start - from
  BY <1>1, <1>2, <1>3, SliceFacts
<1>5. Gap(tok) \in Seq(Chars) /\ Len(Gap(tok)) = tok.start - from
  <2>1. Gap(tok) = Blanked(Slice(sql, from, tok.start)) BY DEF Gap, from
  <2> QED BY <2>1, <1>4, BlankedFacts
<1>6. span \in Seq(Chars) /\ Len(span) = Width(tok)
  <2>1. tok.end + 1 \in Nat BY <1>2
  <2>2. span \in Seq(Chars) /\ Len(span) = (tok.end + 1) - tok.start
    BY <2>1, <1>1, <1>2, SliceFacts
  <2> HIDE DEF span
  <2>3. Width(tok) = (tok.end + 1) - tok.start BY DEF Width
  <2> QED BY <2>2, <2>3
<1>7. Rendered(tok) \in Seq(Chars) /\ Len(Rendered(tok)) = Width(tok)
  <2>1. CASE tok.type \in Rewritten BY <2>1, <1>2 DEF Rendered, IsPlaced
  <2>2. CASE tok.type \notin Rewritten /\ tok.type \in Anonymized
    <3>1. Rendered(tok) = Fitted(span, tok) BY <2>2 DEF Rendered
    <3> HIDE DEF span
    <3> QED BY <3>1, <1>6, FittedFacts
  <2>3. CASE tok.type \notin Rewritten /\ tok.type \notin Anonymized
    <3>1. Rendered(tok) = span BY <2>3 DEF Rendered
    <3> QED BY <3>1, <1>6
  <2> QED BY <2>1, <2>2, <2>3
<1> QED BY <1>3, <1>5, <1>7

\* The token for what could not be read begins after the last one and ends with
\* the statement (anonymize.go:83-112).
LEMMA LeftoverFacts ==
    ASSUME Typed, Unread(statement) < Len(sql)
    PROVE  /\ Leftover(statement) \in Token /\ Leftover(statement).type = "unknown"
           /\ IsPlaced(Leftover(statement))
           /\ Leftover(statement).start >= EndOf(Given)
<1> DEFINE e == EndOf(Given)
           blanks == {k \in (e + 1)..Len(sql) : \A m \in (e + 1)..k : sql[m] = " "}
           u == Unread(statement)
           left == Leftover(statement)
<1>1. /\ sql \in Seq(Source) /\ Len(sql) \in Nat /\ Given \in Seq(Token)
      /\ \A j \in 1..Len(Given) : IsPlaced(Given[j])
  BY GivenFacts DEF Typed
<1>2. e \in Nat
  <2>1. Len(Given) \in Nat BY <1>1
  <2>2. CASE Len(Given) = 0 BY <2>2 DEF EndOf, EndBefore
  <2>3. CASE Len(Given) # 0
    <3>1. Len(Given) \in 1..Len(Given) BY <2>1, <2>3
    <3>2. Given[Len(Given)] \in Token BY <3>1, <1>1
    <3>3. Given[Len(Given)].end \in Nat BY <3>2 DEF Token
    <3> QED BY <2>1, <2>3, <3>3 DEF EndOf, EndBefore
  <2> QED BY <2>2, <2>3
<1>3. Cardinality(blanks) \in Nat
  <2>1. IsFiniteSet((e + 1)..Len(sql)) BY <1>1, <1>2, FS_Interval
  <2>2. IsFiniteSet(blanks) BY <2>1, FS_Subset
  <2> QED BY <2>2, FS_CardinalityType
<1>4. u = e + Cardinality(blanks) BY DEF Unread, Given, sql
<1> HIDE DEF e, blanks
<1>5. u \in Nat /\ u >= e BY <1>2, <1>3, <1>4
<1> HIDE DEF u
<1> DEFINE n == Len(sql) - u
           text == [k \in 1..n |-> IF k <= 2 THEN sql[u + k] ELSE "."]
<1>6. n \in Nat /\ n > 0 BY <1>1, <1>5 DEF u
<1>7. text \in Seq(Chars) /\ Len(text) = n
  <2>1. "." \in Chars /\ Source \subseteq Chars BY CharFacts
  <2>2. \A k \in 1..n : u + k \in 1..Len(sql) BY <1>1, <1>5
  <2>3. \A k \in 1..n : sql[u + k] \in Chars BY <2>1, <2>2, <1>1
  <2>4. text \in [1..n -> Chars] BY <2>1, <2>3
  <2> QED BY <2>4, <1>6
<1>8. left = [type |-> "unknown", start |-> u, end |-> Len(sql) - 1, text |-> text]
  BY DEF Leftover, u, sql
<1> HIDE DEF text, left
<1> QED BY <1>1, <1>5, <1>6, <1>7, <1>8
        DEF Token, Types, Anonymized, Rewritten, IsPlaced, Width, left, e

LEMMA InitInv == Init => Inv
<1> SUFFICES ASSUME Init PROVE Inv OBVIOUS
<1>1. /\ Given \in Seq(Token) /\ tokens = Given /\ Len(Given) \in Nat
      /\ \A j \in 1..Len(Given) : IsPlaced(Given[j])
  BY GivenFacts DEF Init, Given
<1>2. Typed BY <1>1, EmptySeq DEF Init, Typed
<1>3. Placed BY <1>1 DEF Placed
<1>4. Kept BY <1>1 DEF Kept, SamePlace
<1>5. NotReached BY <1>1 DEF Init, NotReached
<1>6. AliasesRecorded BY DEF Init, AliasesRecorded, Reached
<1>7. Measured BY DEF Init, Measured
<1> QED BY <1>2, <1>3, <1>4, <1>5, <1>6, <1>7 DEF Inv

LEMMA InvFacts ==
    ASSUME Inv
    PROVE  /\ Len(tokens) \in Nat /\ Len(Given) \in Nat /\ i \in Nat
           /\ \A j \in 1..Len(tokens) : tokens[j] \in Token
           /\ \A j \in 1..Len(Given) : Given[j] \in Token /\ Given[j].type # "unknown"
<1>1. Typed BY DEF Inv
<1>2. Given \in Seq(Token) /\ \A j \in 1..Len(Given) : Given[j].type # "unknown"
  BY <1>1, GivenFacts DEF Typed
<1>3. \A j \in 1..Len(tokens) : tokens[j] \in Token
  <2>1. tokens \in Seq(Token) BY <1>1 DEF Typed
  <2> QED BY <2>1
<1>4. \A j \in 1..Len(Given) : Given[j] \in Token BY <1>2
<1> QED BY <1>1, <1>2, <1>3, <1>4 DEF Typed

\* A new text leaves the places of the tokens, and the other tokens.
LEMMA TextSet ==
    ASSUME NEW ts \in Seq(Token), NEW k \in 1..Len(ts), NEW x \in Seq(Chars)
    PROVE  LET us == [ts EXCEPT ![k].text = x]
           IN  /\ us \in Seq(Token) /\ Len(us) = Len(ts)
               /\ \A j \in 1..Len(ts) : SamePlace(us[j], ts[j])
               /\ \A j \in 1..Len(ts) : j # k => us[j] = ts[j]
               /\ us[k].text = x
<1> DEFINE t == [ts[k] EXCEPT !.text = x]
           us == [ts EXCEPT ![k] = t]
<1>1. ts[k] \in Token OBVIOUS
<1>2. t \in Token /\ SamePlace(t, ts[k]) /\ t.text = x
  BY <1>1 DEF Token, SamePlace
<1>3. [ts EXCEPT ![k].text = x] = us OBVIOUS
<1> HIDE DEF t
<1>4. /\ us \in Seq(Token) /\ Len(us) = Len(ts)
      /\ \A j \in 1..Len(ts) : us[j] = IF j = k THEN t ELSE ts[j]
  BY <1>2, ExceptSeq
<1> HIDE DEF us
<1> QED BY <1>2, <1>3, <1>4 DEF SamePlace

\* What a step of the naming loop that replaces the text of its token keeps.
LEMMA NamingStep ==
    ASSUME Inv, AtToken("naming"), NEW x \in Seq(Chars),
           tokens[i].type \in Rewritten => Len(x) = Len(tokens[i].text),
           tokens' = [tokens EXCEPT ![i].text = x], i' = i + 1,
           UNCHANGED <<statement, prev, out, phase>>
    PROVE  /\ Given' = Given /\ tokens' \in Seq(Token) /\ Len(tokens') = Len(tokens)
           /\ Placed' /\ Kept' /\ NotReached' /\ Measured'
           /\ \A j \in 1..Len(Given) : j # i => tokens'[j] = tokens[j]
           /\ tokens'[i].text = x
<1>1. i \in 1..Len(tokens) /\ phase = "naming" BY InvFacts DEF AtToken, Inv, Typed
<1>2. Given' = Given /\ sql' = sql BY DEF Given, sql
<1>3. /\ tokens' \in Seq(Token) /\ Len(tokens') = Len(tokens)
      /\ \A j \in 1..Len(tokens) : SamePlace(tokens'[j], tokens[j])
      /\ \A j \in 1..Len(tokens) : j # i => tokens'[j] = tokens[j]
      /\ tokens'[i].text = x
  <2>1. tokens \in Seq(Token) BY DEF Inv, Typed
  <2> QED BY <1>1, <2>1, TextSet
<1>4. Len(Given) <= Len(tokens) /\ Len(Given) \in Nat /\ Len(tokens) \in Nat /\ i \in Nat
  BY InvFacts DEF Inv, Kept
<1>5. Placed'
  <2> SUFFICES ASSUME NEW j \in 1..Len(tokens') PROVE IsPlaced(tokens[j])' BY DEF Placed
  <2>1. j \in 1..Len(tokens) /\ IsPlaced(tokens[j]) BY <1>3 DEF Inv, Placed
  <2>2. SamePlace(tokens'[j], tokens[j]) BY <1>3, <2>1
  <2>3. tokens'[j].type \in Rewritten => Len(tokens'[j].text) = Len(tokens[j].text)
    <3>1. CASE j = i BY <3>1, <1>3, <2>2 DEF SamePlace
    <3>2. CASE j # i BY <3>2, <1>3, <2>1
    <3> QED BY <3>1, <3>2
  <2> QED BY <1>2, <2>1, <2>2, <2>3 DEF IsPlaced, SamePlace, Width
<1>6. Kept'
  <2>1. \A j \in 1..Len(Given) : SamePlace(tokens'[j], Given[j])
    BY <1>3, <1>4 DEF Inv, Kept, SamePlace
  <2>2. ASSUME NEW j \in 1..Len(tokens), j > Len(Given)
        PROVE  tokens'[j].type = "unknown" /\ tokens'[j].start >= EndBefore(tokens', j)
    <3>1. tokens[j].type = "unknown" /\ tokens[j].start >= EndBefore(tokens, j)
      BY <2>2 DEF Inv, Kept
    <3>2. EndBefore(tokens', j) = EndBefore(tokens, j)
      BY <1>3, <1>4 DEF EndBefore, SamePlace
    <3> QED BY <3>1, <3>2, <1>3 DEF SamePlace
  <2> QED BY <1>2, <1>3, <1>4, <2>1, <2>2 DEF Kept
<1>7. NotReached'
  <2>1. \A j \in 1..Len(Given) : j >= i + 1 => tokens'[j] = Given[j]
    BY <1>1, <1>3, <1>4 DEF Inv, NotReached
  <2> QED BY <1>1, <1>2, <2>1 DEF NotReached
<1>8. Measured' BY <1>1 DEF Inv, Measured
<1> QED BY <1>2, <1>3, <1>4, <1>5, <1>6, <1>7, <1>8

\* The token the loop is at is the statement's, and as sensitive.
LEMMA AtGiven ==
    ASSUME Inv, AtToken("naming"), i <= Len(Given)
    PROVE  /\ i \in 1..Len(Given) /\ tokens[i] = Given[i] /\ Given[i] \in Token
           /\ Sensitive(tokens, i) <=> Sensitive(Given, i)
<1>1. i \in 1..Len(Given) BY InvFacts DEF Inv, Typed
<1>2. tokens[i] = Given[i] /\ Given[i] \in Token
  BY <1>1, InvFacts DEF Inv, NotReached, AtToken
<1>3. NamesFunction(tokens, i) <=> NamesFunction(Given, i)
  <2>1. CASE i < Len(Given)
    <3>1. i + 1 \in 1..Len(Given) BY <1>1, <2>1, InvFacts
    <3>2. SamePlace(tokens[i + 1], Given[i + 1]) /\ i < Len(tokens)
      BY <3>1, <2>1, InvFacts DEF Inv, Kept
    <3> QED BY <1>2, <2>1, <3>2 DEF NamesFunction, SamePlace
  <2>2. CASE i = Len(Given)
    <3>1. CASE i < Len(tokens)
      <4>1. i + 1 \in 1..Len(tokens) /\ i + 1 > Len(Given) BY <1>1, <2>2, <3>1, InvFacts
      <4>2. tokens[i + 1].type = "unknown" BY <4>1 DEF Inv, Kept
      <4> QED BY <2>2, <4>2 DEF NamesFunction
    <3>2. CASE ~(i < Len(tokens)) BY <2>2, <3>2 DEF NamesFunction
    <3> QED BY <3>1, <3>2
  <2> QED BY <1>1, <2>1, <2>2, InvFacts
<1> QED BY <1>1, <1>2, <1>3 DEF Sensitive

\* The token added for what could not be read is not sensitive.
LEMMA PastGiven ==
    ASSUME Inv, AtToken("naming"), i > Len(Given)
    PROVE  ~Sensitive(tokens, i) /\ tokens[i].type = "unknown"
<1>1. i \in 1..Len(tokens) BY InvFacts DEF AtToken, Inv, Typed
<1>2. tokens[i].type = "unknown" BY <1>1 DEF Inv, Kept
<1> QED BY <1>2 DEF Sensitive, Anonymized

-----------------------------------------------------------------------------
\* For a dialect nobody knows there are no tokens (anonymize.go:67-70).
LEMMA UnknownFacts ==
    ASSUME Inv, UnknownDialect
    PROVE  /\ Given = <<>> /\ Len(Given) = 0 /\ tokens = Given /\ i = 1
           /\ out' = sql /\ phase' = "done" /\ ~statement.known
           /\ UNCHANGED <<statement, tokens, seen, counter, i, prev>>
           /\ Given' = Given /\ sql' = sql
<1>1. Tokenized(statement) BY StatementsAssumption DEF Inv, Typed
<1>2. phase = "tokenized" /\ ~statement.known BY DEF UnknownDialect
<1>3. Given = <<>> BY <1>1, <1>2 DEF Tokenized, Given
<1>4. tokens = Given /\ i = 1 BY <1>2 DEF Inv, NotReached
<1>5. Len(Given) = 0 BY <1>3
<1>6. /\ out' = sql /\ phase' = "done"
      /\ UNCHANGED <<statement, tokens, seen, counter, i, prev>>
  BY DEF UnknownDialect
<1>7. Given' = Given /\ sql' = sql BY <1>6 DEF Given, sql
<1> QED BY <1>2, <1>3, <1>4, <1>5, <1>6, <1>7

LEMMA UnknownDialectInv == Inv /\ UnknownDialect => Inv'
<1> SUFFICES ASSUME Inv, UnknownDialect PROVE Inv' OBVIOUS
<1>1. /\ Given = <<>> /\ Len(Given) = 0 /\ tokens = Given /\ i = 1
      /\ out' = sql /\ phase' = "done"
      /\ UNCHANGED <<statement, tokens, seen, counter, i, prev>>
      /\ Given' = Given /\ sql' = sql
  BY UnknownFacts
<1>2. sql \in Seq(Source) /\ Source \subseteq Chars BY GivenFacts, CharFacts DEF Inv, Typed
<1>3. sql \in Seq(Chars) BY <1>2, SeqMonotonic
<1>4. Typed' BY <1>1, <1>3 DEF Inv, Typed
<1>5. Placed' BY <1>1 DEF Inv, Placed, IsPlaced, Width
<1>6. Kept' BY <1>1 DEF Inv, Kept, EndBefore
<1>7. NotReached' BY <1>1 DEF NotReached
<1>8. AliasesRecorded' BY <1>1 DEF AliasesRecorded
<1>9. Measured'
  <2>1. Shared(Given, 0) = {} BY DEF Shared
  <2>2. Excess(Given, Len(Given)) = 0 BY <1>1, <2>1, FS_EmptySet DEF Excess
  <2>3. Len(sql) \in Nat BY <1>2
  <2>4. Excess(Given, Len(Given))' = Excess(Given, Len(Given)) BY <1>1 DEF Excess, Shared, EndBefore
  <2>5. Len(out') = Len(sql) + Excess(Given, Len(Given)) BY <1>1, <2>2, <2>3
  <2> QED BY <1>1, <2>4, <2>5 DEF Measured
<1> QED BY <1>4, <1>5, <1>6, <1>7, <1>8, <1>9 DEF Inv

LEMMA AddTailInv == Inv /\ AddTail => Inv'
<1> SUFFICES ASSUME Inv, AddTail PROVE Inv' OBVIOUS
<1>1. phase = "tokenized" /\ phase' = "naming" /\ tokens = Given /\ i = 1 /\ i' = i
      /\ UNCHANGED <<statement, seen, counter, prev, out>>
  BY DEF AddTail, Inv, NotReached
<1>2. Given' = Given /\ sql' = sql BY <1>1 DEF Given, sql
<1>3. tokens \in Seq(Token) /\ Len(tokens) \in Nat BY InvFacts DEF Inv, Typed
<1>4. CASE tokens' = tokens
  <2>1. Typed' /\ Placed' BY <1>1, <1>2, <1>4 DEF Inv, Typed, Placed, IsPlaced, Width
  <2>2. Kept' BY <1>2, <1>4 DEF Inv, Kept, EndBefore
  <2> QED BY <1>1, <1>2, <1>4, <2>1, <2>2
          DEF Inv, NotReached, AliasesRecorded, Reached, Measured
<1>5. CASE Unread(statement) < Len(sql) /\ tokens' = Append(tokens, Leftover(statement))
  <2> DEFINE left == Leftover(statement)
             n == Len(tokens)
  <2>1. /\ left \in Token /\ left.type = "unknown" /\ IsPlaced(left)
        /\ left.start >= EndOf(Given)
    BY <1>5, LeftoverFacts DEF Inv
  <2> HIDE DEF left
  <2>2. /\ tokens' \in Seq(Token) /\ Len(tokens') = n + 1
        /\ tokens'[n + 1] = left /\ \A j \in 1..n : tokens'[j] = tokens[j]
    BY <1>3, <1>5, <2>1, AppendProperties DEF left
  <2>3. Typed' BY <1>1, <2>2 DEF Inv, Typed
  <2>4. Placed'
    <3> SUFFICES ASSUME NEW j \in 1..(n + 1) PROVE IsPlaced(tokens[j])' BY <2>2 DEF Placed
    <3>1. IsPlaced(tokens'[j])
      <4>1. CASE j = n + 1 BY <4>1, <2>1, <2>2
      <4>2. CASE j \in 1..n BY <4>2, <2>2 DEF Inv, Placed
      <4> QED BY <1>3, <4>1, <4>2
    <3> QED BY <3>1, <1>2 DEF IsPlaced, Width
  <2>5. Kept'
    <3>1. \A j \in 1..n : SamePlace(tokens'[j], Given[j]) BY <1>1, <2>2 DEF SamePlace
    <3>2. EndBefore(tokens', n + 1) = EndOf(Given)
      BY <1>1, <1>3, <2>2 DEF EndOf, EndBefore
    <3>3. \A j \in 1..(n + 1) : j > n =>
             tokens'[j].type = "unknown" /\ tokens'[j].start >= EndBefore(tokens', j)
      <4> SUFFICES ASSUME NEW j \in 1..(n + 1), j > n
                   PROVE  tokens'[j].type = "unknown" /\ tokens'[j].start >= EndBefore(tokens', j)
        OBVIOUS
      <4>1. j = n + 1 BY <1>3
      <4> QED BY <4>1, <2>1, <2>2, <3>2
    <3> QED BY <1>1, <1>2, <1>3, <2>2, <3>1, <3>3 DEF Kept
  <2>6. NotReached' BY <1>1, <1>2, <2>2 DEF NotReached
  <2>7. AliasesRecorded' BY <1>1, <1>2, InvFacts DEF AliasesRecorded, Reached
  <2>8. Measured' BY <1>1 DEF Inv, Measured
  <2> QED BY <2>3, <2>4, <2>5, <2>6, <2>7, <2>8 DEF Inv
<1> QED BY <1>4, <1>5, <1>1 DEF AddTail, Given

\* The text of a token that has no alias in the map may change.
LEMMA BlankHintInv == Inv /\ BlankHint => Inv'
<1> SUFFICES ASSUME Inv, BlankHint PROVE Inv' OBVIOUS
<1> DEFINE x == Blanked(tokens[i].text)
<1>1. /\ AtToken("naming") /\ tokens[i].type = "hint" /\ phase = "naming"
      /\ tokens' = [tokens EXCEPT ![i].text = x] /\ i' = i + 1
      /\ UNCHANGED <<statement, seen, counter, prev, out, phase>>
  BY DEF BlankHint, AtToken
<1>2. tokens[i].text \in Seq(Chars)
  <2>1. i \in 1..Len(tokens) BY <1>1, InvFacts DEF AtToken, Inv, Typed
  <2> QED BY <2>1, InvFacts DEF Token
<1>3. x \in Seq(Chars) /\ Len(x) = Len(tokens[i].text) BY <1>2, BlankedFacts
<1> HIDE DEF x
<1>4. /\ Given' = Given /\ tokens' \in Seq(Token)
      /\ Placed' /\ Kept' /\ NotReached' /\ Measured'
      /\ \A j \in 1..Len(Given) : j # i => tokens'[j] = tokens[j]
  BY <1>1, <1>3, NamingStep
<1>5. Typed' BY <1>1, <1>4 DEF Inv, Typed
<1>6. i <= Len(Given) => ~Sensitive(Given, i)
  BY <1>1, AtGiven DEF Sensitive, Anonymized
<1>7. AliasesRecorded'
  <2> SUFFICES ASSUME NEW j \in 1..Len(Given), j < i + 1, Sensitive(Given, j)
               PROVE  Key(Given[j]) \in DOMAIN seen /\ tokens'[j].text = seen[Key(Given[j])]
    BY <1>1, <1>4 DEF AliasesRecorded, Reached, Sensitive, NamesFunction
  <2>1. j # i BY <1>6
  <2>2. j < i BY <2>1, InvFacts
  <2> QED BY <1>1, <1>4, <2>1, <2>2 DEF Inv, AliasesRecorded, Reached
<1> QED BY <1>4, <1>5, <1>7 DEF Inv

LEMMA LeaveTokenInv == Inv /\ LeaveToken => Inv'
<1> SUFFICES ASSUME Inv, LeaveToken PROVE Inv' OBVIOUS
<1>1. /\ AtToken("naming") /\ ~Sensitive(tokens, i) /\ phase = "naming" /\ i' = i + 1
      /\ UNCHANGED <<statement, tokens, seen, counter, prev, out, phase>>
  BY DEF LeaveToken, AtToken
<1>2. Given' = Given /\ sql' = sql BY <1>1 DEF Given, sql
<1>3. Typed' BY <1>1, InvFacts DEF Inv, Typed
<1>4. Placed' BY <1>1, <1>2 DEF Inv, Placed, IsPlaced, Width
<1>5. Kept' BY <1>1, <1>2 DEF Inv, Kept, EndBefore
<1>6. NotReached' BY <1>1, <1>2, InvFacts DEF Inv, NotReached
<1>7. AliasesRecorded'
  <2> SUFFICES ASSUME NEW j \in 1..Len(Given), j < i + 1, Sensitive(Given, j)
               PROVE  Key(Given[j]) \in DOMAIN seen /\ tokens[j].text = seen[Key(Given[j])]
    BY <1>1, <1>2 DEF AliasesRecorded, Reached, Sensitive, NamesFunction
  <2>1. j # i BY <1>1, AtGiven, InvFacts
  <2>2. j < i BY <2>1, InvFacts
  <2> QED BY <1>1, <2>2 DEF Inv, AliasesRecorded, Reached
<1>8. Measured' BY <1>1 DEF Inv, Measured
<1> QED BY <1>3, <1>4, <1>5, <1>6, <1>7, <1>8 DEF Inv

LEMMA UseAliasInv == Inv /\ UseAlias => Inv'
<1> SUFFICES ASSUME Inv, UseAlias PROVE Inv' OBVIOUS
<1> DEFINE x == seen[Key(tokens[i])]
<1>1. /\ AtToken("naming") /\ Sensitive(tokens, i) /\ phase = "naming"
      /\ Key(tokens[i]) \in DOMAIN seen
      /\ tokens' = [tokens EXCEPT ![i].text = x] /\ i' = i + 1
      /\ UNCHANGED <<statement, seen, counter, prev, out, phase>>
  BY DEF UseAlias, AtToken
<1>2. /\ i \in 1..Len(Given) /\ tokens[i] = Given[i] /\ Given[i] \in Token
      /\ tokens[i].type \notin Rewritten
  <2>1. i <= Len(Given) BY <1>1, PastGiven, InvFacts
  <2>2. tokens[i].type \in Anonymized BY <1>1 DEF Sensitive
  <2> QED BY <1>1, <2>1, <2>2, AtGiven DEF Anonymized, Rewritten
<1>3. x \in Seq(Chars)
  <2>1. x \in Seq(AliasChars) BY <1>1 DEF Inv, Typed
  <2> QED BY <2>1, AlphabetFacts, SeqMonotonic
<1>4. x = seen[Key(Given[i])] /\ Key(Given[i]) \in DOMAIN seen BY <1>1, <1>2
<1> HIDE DEF x
<1>5. /\ Given' = Given /\ tokens' \in Seq(Token)
      /\ Placed' /\ Kept' /\ NotReached' /\ Measured'
      /\ \A j \in 1..Len(Given) : j # i => tokens'[j] = tokens[j]
      /\ tokens'[i].text = x
  BY <1>1, <1>2, <1>3, NamingStep
<1>6. Typed' BY <1>1, <1>5 DEF Inv, Typed
<1>7. AliasesRecorded'
  <2> SUFFICES ASSUME NEW j \in 1..Len(Given), j < i + 1, Sensitive(Given, j)
               PROVE  Key(Given[j]) \in DOMAIN seen /\ tokens'[j].text = seen[Key(Given[j])]
    BY <1>1, <1>5 DEF AliasesRecorded, Reached, Sensitive, NamesFunction
  <2>1. CASE j = i BY <2>1, <1>4, <1>5
  <2>2. CASE j # i
    <3>1. j < i BY <2>2, InvFacts
    <3> QED BY <1>1, <1>5, <2>2, <3>1 DEF Inv, AliasesRecorded, Reached
  <2> QED BY <2>1, <2>2
<1> QED BY <1>5, <1>6, <1>7 DEF Inv

LEMMA NewAliasInv == Inv /\ NewAlias => Inv'
<1> SUFFICES ASSUME Inv, NewAlias PROVE Inv' OBVIOUS
<1> DEFINE x == Alias(counter, tokens[i])
           key == Key(tokens[i])
<1>1. /\ AtToken("naming") /\ Sensitive(tokens, i) /\ phase = "naming"
      /\ key \notin DOMAIN seen /\ seen' = Remember(key, x)
      /\ tokens' = [tokens EXCEPT ![i].text = x] /\ i' = i + 1
      /\ counter' = counter + 1
      /\ UNCHANGED <<statement, prev, out, phase>>
  BY DEF NewAlias, AtToken
<1>2. /\ i \in 1..Len(Given) /\ tokens[i] = Given[i] /\ Given[i] \in Token
      /\ tokens[i].type \notin Rewritten
  <2>1. i <= Len(Given) BY <1>1, PastGiven, InvFacts
  <2>2. tokens[i].type \in Anonymized BY <1>1 DEF Sensitive
  <2> QED BY <1>1, <2>1, <2>2, AtGiven DEF Anonymized, Rewritten
<1>3. x \in Seq(AliasChars) /\ x \in Seq(Chars) /\ counter \in Nat
  <2>1. Readable(tokens[i]) /\ counter \in Nat BY <1>2, GivenFacts DEF Inv, Typed
  <2>2. x \in Seq(AliasChars) BY <2>1, AliasFacts
  <2> QED BY <2>1, <2>2, AlphabetFacts, SeqMonotonic
<1>4. key = Key(Given[i]) /\ key \in BOOLEAN \X Seq(Source)
  <2>1. Given[i].text \in Seq(Source) BY <1>2, GivenFacts DEF Inv, Typed
  <2> QED BY <1>2, <2>1 DEF Key
<1> HIDE DEF x, key
<1>5. /\ DOMAIN seen' = DOMAIN seen \cup {key} /\ seen'[key] = x
      /\ \A k \in DOMAIN seen : seen'[k] = seen[k]
  BY <1>1 DEF Remember
<1>6. /\ Given' = Given /\ tokens' \in Seq(Token)
      /\ Placed' /\ Kept' /\ NotReached' /\ Measured'
      /\ \A j \in 1..Len(Given) : j # i => tokens'[j] = tokens[j]
      /\ tokens'[i].text = x
  BY <1>1, <1>2, <1>3, NamingStep
<1>7. Typed'
  <2>1. \A k \in DOMAIN seen' : k \in BOOLEAN \X Seq(Source) /\ seen'[k] \in Seq(AliasChars)
    BY <1>3, <1>4, <1>5 DEF Inv, Typed
  <2> QED BY <1>1, <1>3, <1>6, <2>1 DEF Inv, Typed
<1>8. AliasesRecorded'
  <2> SUFFICES ASSUME NEW j \in 1..Len(Given), j < i + 1, Sensitive(Given, j)
               PROVE  Key(Given[j]) \in DOMAIN seen' /\ tokens'[j].text = seen'[Key(Given[j])]
    BY <1>1, <1>6 DEF AliasesRecorded, Reached, Sensitive, NamesFunction
  <2>1. CASE j = i BY <2>1, <1>4, <1>5, <1>6
  <2>2. CASE j # i
    <3>1. j < i BY <2>2, InvFacts
    <3>2. Key(Given[j]) \in DOMAIN seen /\ tokens[j].text = seen[Key(Given[j])]
      BY <1>1, <3>1 DEF Inv, AliasesRecorded, Reached
    <3> QED BY <1>5, <1>6, <2>2, <3>2
  <2> QED BY <2>1, <2>2
<1> QED BY <1>6, <1>7, <1>8 DEF Inv

LEMMA EndNamingInv == Inv /\ EndNaming => Inv'
<1> SUFFICES ASSUME Inv, EndNaming PROVE Inv' OBVIOUS
<1>1. /\ phase = "naming" /\ phase' = "rendering" /\ i > Len(tokens) /\ i' = 1
      /\ UNCHANGED <<statement, tokens, seen, counter, prev, out>>
  BY DEF EndNaming
<1>2. Given' = Given /\ sql' = sql BY <1>1 DEF Given, sql
<1>3. Typed' BY <1>1 DEF Inv, Typed
<1>4. Placed' BY <1>1, <1>2 DEF Inv, Placed, IsPlaced, Width
<1>5. Kept' BY <1>1, <1>2 DEF Inv, Kept, EndBefore
<1>6. NotReached' BY <1>1 DEF NotReached
<1>7. AliasesRecorded'
  <2> SUFFICES ASSUME NEW j \in 1..Len(Given), Sensitive(Given, j)
               PROVE  Key(Given[j]) \in DOMAIN seen /\ tokens[j].text = seen[Key(Given[j])]
    BY <1>1, <1>2 DEF AliasesRecorded, Reached, Sensitive, NamesFunction
  <2>1. j < i BY <1>1, InvFacts DEF Inv, Kept
  <2> QED BY <1>1, <2>1 DEF Inv, AliasesRecorded, Reached
<1>8. Measured'
  <2>1. out = <<>> /\ prev = 0 BY <1>1 DEF Inv, Measured
  <2>2. i' <= Len(tokens) + 1 BY <1>1, InvFacts
  <2>3. Excess(tokens, i - 1)' = 0
    <3>1. i' - 1 = 0 BY <1>1
    <3>2. Shared(tokens, i - 1)' = {} BY <3>1 DEF Shared
    <3> QED BY <3>2, FS_EmptySet DEF Excess
  <2>4. prev' = EndBefore(tokens', i') /\ Len(out') = 0 BY <1>1, <2>1 DEF EndBefore
  <2> QED BY <1>1, <2>1, <2>2, <2>3, <2>4 DEF Measured
<1> QED BY <1>3, <1>4, <1>5, <1>6, <1>7, <1>8 DEF Inv

\* Where the loop is, it is inside the statement.
LEMMA ReachedFacts ==
    ASSUME Inv, NEW j \in 1..(Len(tokens) + 1)
    PROVE  EndBefore(tokens, j) \in Nat /\ EndBefore(tokens, j) <= Len(sql)
<1>1. Len(sql) \in Nat BY GivenFacts DEF Inv, Typed
<1>2. CASE j = 1 BY <1>1, <1>2 DEF EndBefore
<1>3. CASE j # 1
  <2>1. j - 1 \in 1..Len(tokens) BY <1>3, InvFacts
  <2>2. tokens[j - 1] \in Token /\ IsPlaced(tokens[j - 1])
    BY <2>1, InvFacts DEF Inv, Placed
  <2>3. tokens[j - 1].end \in Nat /\ tokens[j - 1].end < Len(sql)
    BY <2>2 DEF Token, IsPlaced
  <2> QED BY <1>1, <1>3, <2>3 DEF EndBefore
<1> QED BY <1>2, <1>3

\* What a token adds to what is written twice: the characters that the token
\* before it was read from too.
LEMMA ExcessStep ==
    ASSUME Inv, NEW j \in 1..Len(tokens)
    PROVE  /\ Excess(tokens, j - 1) \in Nat /\ IsFiniteSet(Shared(tokens, j - 1))
           /\ Excess(tokens, j) = Excess(tokens, j - 1)
                 + IF tokens[j].start < EndBefore(tokens, j)
                   THEN EndBefore(tokens, j) - tokens[j].start ELSE 0
<1> DEFINE a == tokens[j].start
           b == EndBefore(tokens, j)
           n == Len(sql)
           S == Shared(tokens, j - 1)
           T == {j} \X (a..(b - 1))
<1>1. /\ Len(tokens) \in Nat /\ tokens[j] \in Token /\ n \in Nat
  BY InvFacts, GivenFacts DEF Inv, Typed
<1>2. a \in Nat BY <1>1 DEF Token
<1>3. b \in Nat /\ b <= n BY <1>1, ReachedFacts
<1>4. IsFiniteSet(S) /\ Cardinality(S) \in Nat
  <2>1. IsFiniteSet(1..(j - 1)) /\ IsFiniteSet(0..n) BY <1>1, FS_Interval
  <2>2. IsFiniteSet((1..(j - 1)) \X (0..n)) BY <2>1, FS_Product
  <2>3. S \subseteq (1..(j - 1)) \X (0..n) BY DEF Shared
  <2>4. IsFiniteSet(S) BY <2>2, <2>3, FS_Subset
  <2> QED BY <2>4, FS_CardinalityType
<1>5. IsFiniteSet(T) /\ Cardinality(T) = IF a < b THEN b - a ELSE 0
  <2>1. IsFiniteSet(a..(b - 1)) /\ Cardinality(a..(b - 1)) = IF a < b THEN b - a ELSE 0
    <3> DEFINE c == b - 1
    <3> HIDE DEF a, b
    <3>1. a \in Int /\ c \in Int /\ b \in Nat BY <1>2, <1>3
    <3> HIDE DEF c
    <3>2. IsFiniteSet(a..c) /\ Cardinality(a..c) = IF a > c THEN 0 ELSE (c - a) + 1
      BY <3>1, FS_Interval
    <3> QED BY <1>2, <3>1, <3>2 DEF c
  <2>2. IsFiniteSet({j}) /\ Cardinality({j}) = 1 BY FS_Singleton
  <2>3. IsFiniteSet(T) /\ Cardinality(T) = 1 * Cardinality(a..(b - 1)) BY <2>1, <2>2, FS_Product
  <2> QED BY <1>2, <1>3, <2>1, <2>3
<1>6. Shared(tokens, j) = S \cup T
  <2>1. ASSUME NEW p \in Shared(tokens, j) PROVE p \in S \cup T
    <3>1. /\ p \in (1..j) \X (0..n)
          /\ tokens[p[1]].start <= p[2] /\ p[2] < EndBefore(tokens, p[1])
      BY <2>1 DEF Shared
    <3>2. CASE p[1] = j BY <1>2, <1>3, <3>1, <3>2
    <3>3. CASE p[1] # j
      <4>1. p[1] \in 1..(j - 1) BY <3>1, <3>3
      <4> QED BY <3>1, <4>1 DEF Shared
    <3> QED BY <3>2, <3>3
  <2>2. ASSUME NEW p \in S PROVE p \in Shared(tokens, j)
    <3>1. /\ p \in (1..(j - 1)) \X (0..n)
          /\ tokens[p[1]].start <= p[2] /\ p[2] < EndBefore(tokens, p[1])
      BY <2>2 DEF Shared
    <3>2. p \in (1..j) \X (0..n) BY <3>1
    <3> QED BY <3>1, <3>2 DEF Shared
  <2>3. ASSUME NEW p \in T PROVE p \in Shared(tokens, j)
    <3>1. p[1] = j /\ p[2] \in a..(b - 1) /\ p = <<p[1], p[2]>> BY <2>3
    <3>2. p[2] \in 0..n /\ j \in 1..j BY <1>2, <1>3, <3>1
    <3>3. p \in (1..j) \X (0..n) BY <3>1, <3>2
    <3>4. tokens[p[1]].start <= p[2] /\ p[2] < EndBefore(tokens, p[1])
      BY <1>2, <1>3, <3>1
    <3> QED BY <3>3, <3>4 DEF Shared
  <2> QED BY <2>1, <2>2, <2>3
<1>7. S \cap T = {}
  <2>1. ASSUME NEW p \in S, p \in T PROVE FALSE
    <3>1. p[1] \in 1..(j - 1) BY <2>1 DEF Shared
    <3>2. p[1] = j BY <2>1
    <3> QED BY <3>1, <3>2
  <2> QED BY <2>1
<1> HIDE DEF S, T
<1>8. Cardinality(S \cup T) = Cardinality(S) + Cardinality(T)
  <2>1. Cardinality(S \cap T) = 0 BY <1>7, FS_EmptySet
  <2>2. Cardinality(T) \in Nat BY <1>5, FS_CardinalityType
  <2>3. Cardinality(S \cup T) = Cardinality(S) + Cardinality(T) - Cardinality(S \cap T)
    BY <1>4, <1>5, FS_Union
  <2> QED BY <1>4, <2>1, <2>2, <2>3
<1> QED BY <1>4, <1>5, <1>6, <1>8 DEF Excess, S

LEMMA RenderTokenInv == Inv /\ RenderToken => Inv'
<1> SUFFICES ASSUME Inv, RenderToken PROVE Inv' OBVIOUS
<1> DEFINE tok == tokens[i]
           gap == Gap(tok)
           text == Rendered(tok)
<1>1. /\ phase = "rendering" /\ i <= Len(tokens) /\ i' = i + 1
      /\ out' = out \o gap \o text /\ prev' = tok.end + 1
      /\ UNCHANGED <<statement, tokens, seen, counter, phase>>
  BY DEF RenderToken, AtToken
<1>2. Given' = Given /\ sql' = sql BY <1>1 DEF Given, sql
<1>3. /\ i \in 1..Len(tokens) /\ Len(tokens) \in Nat /\ i \in Nat /\ i' \in Nat \ {0}
      /\ tok \in Token /\ IsPlaced(tok)
  BY <1>1, InvFacts DEF Inv, Typed, Placed
<1>4. prev = EndBefore(tokens, i) /\ Len(out) = prev + Excess(tokens, i - 1)
  BY <1>1 DEF Inv, Measured
<1>5. prev \in Nat /\ prev <= Len(sql) BY <1>3, <1>4, ReachedFacts
<1>6. tok.start \in Nat /\ tok.end \in Nat /\ tok.start <= tok.end + 1
  BY <1>3 DEF Token, IsPlaced
<1>7. /\ gap \in Seq(Chars) /\ Len(gap) = IF prev < tok.start THEN tok.start - prev ELSE 0
      /\ text \in Seq(Chars) /\ Len(text) = (tok.end + 1) - tok.start
  BY <1>3, <1>5, RenderedFacts DEF Inv, Width
<1> HIDE DEF gap, text
<1>8. out' \in Seq(Chars) /\ Len(out') = Len(out) + Len(gap) + Len(text)
  <2>1. out \in Seq(Chars) BY DEF Inv, Typed
  <2>2. out \o gap \in Seq(Chars) /\ Len(out \o gap) = Len(out) + Len(gap)
    BY <2>1, <1>7, ConcatProperties
  <2> QED BY <1>1, <1>7, <2>2, ConcatProperties
<1>9. Typed' BY <1>1, <1>3, <1>6, <1>8 DEF Inv, Typed
<1>10. Placed' BY <1>1, <1>2 DEF Inv, Placed, IsPlaced, Width
<1>11. Kept' BY <1>1, <1>2 DEF Inv, Kept, EndBefore
<1>12. NotReached' BY <1>1 DEF NotReached
<1>13. AliasesRecorded'
  BY <1>1, <1>2 DEF Inv, AliasesRecorded, Reached, Sensitive, NamesFunction
<1>14. Measured'
  <2>1. i' <= Len(tokens) + 1 /\ prev' = EndBefore(tokens', i')
    BY <1>1, <1>3 DEF EndBefore
  <2>2. Len(out') = prev' + Excess(tokens, i)
    <3> DEFINE e == Excess(tokens, i - 1)
               s == tok.start
               t == tok.end
    <3>1. e \in Nat /\ Excess(tokens, i) = e + IF s < prev THEN prev - s ELSE 0
      BY <1>3, <1>4, ExcessStep
    <3>2. Len(out') = (prev + e) + (IF prev < s THEN s - prev ELSE 0) + ((t + 1) - s)
      BY <1>4, <1>7, <1>8
    <3>3. s \in Nat /\ t \in Nat /\ prev \in Nat BY <1>5, <1>6
    <3>4. prev' = t + 1 BY <1>1
    <3> HIDE DEF e, s, t
    <3> QED BY <3>1, <3>2, <3>3, <3>4
  <2>3. Excess(tokens, i - 1)' = Excess(tokens, i)
    <3>1. i' - 1 = i BY <1>1, <1>3
    <3> QED BY <1>1, <1>2, <3>1 DEF Excess, Shared, EndBefore
  <2>4. prev' + Excess(tokens, i - 1)' = Len(out') BY <2>2, <2>3
  <2> QED BY <1>1, <2>1, <2>4 DEF Measured
<1> QED BY <1>9, <1>10, <1>11, <1>12, <1>13, <1>14 DEF Inv

\* The token for what could not be read adds nothing to what is written twice,
\* and the others are in the places the statement gives them.
LEMMA SharedFacts ==
    ASSUME Inv
    PROVE  /\ \A j \in 1..Len(Given) :
                 /\ tokens[j].start = Given[j].start
                 /\ EndBefore(tokens, j) = EndBefore(Given, j)
                 /\ Shared(tokens, j) = Shared(Given, j)
           /\ \A j \in Nat : j >= Len(Given) /\ j <= Len(tokens) =>
                 Shared(tokens, j) = Shared(Given, Len(Given))
<1>1. Len(Given) <= Len(tokens) /\ Len(Given) \in Nat /\ Len(tokens) \in Nat
  BY InvFacts DEF Inv, Kept
<1>2. ASSUME NEW j \in 1..Len(Given)
      PROVE  tokens[j].start = Given[j].start /\ EndBefore(tokens, j) = EndBefore(Given, j)
  <2>1. SamePlace(tokens[j], Given[j]) /\ Given[j] \in Token BY InvFacts DEF Inv, Kept
  <2>2. CASE j = 1 BY <2>1, <2>2 DEF EndBefore, SamePlace, Token
  <2>3. CASE j # 1
    <3>1. j - 1 \in 1..Len(Given) BY <1>1, <2>3
    <3>2. SamePlace(tokens[j - 1], Given[j - 1]) /\ Given[j - 1] \in Token
      BY <3>1, InvFacts DEF Inv, Kept
    <3> QED BY <2>1, <2>3, <3>2 DEF EndBefore, SamePlace, Token
  <2> QED BY <2>2, <2>3
<1>3. ASSUME NEW j \in 1..Len(Given) PROVE Shared(tokens, j) = Shared(Given, j)
  <2>1. \A m \in 1..j : m \in 1..Len(Given) BY <1>1
  <2>2. \A p \in (1..j) \X (0..Len(sql)) :
           tokens[p[1]].start = Given[p[1]].start
           /\ EndBefore(tokens, p[1]) = EndBefore(Given, p[1])
    BY <1>2, <2>1
  <2> QED BY <2>2 DEF Shared
<1>4. ASSUME NEW j \in Nat, j >= Len(Given), j <= Len(tokens)
      PROVE  Shared(tokens, j) = Shared(Given, Len(Given))
  <2> DEFINE n == Len(Given)
  <2>1. ASSUME NEW p \in Shared(tokens, j) PROVE p \in Shared(Given, n)
    <3>1. /\ p \in (1..j) \X (0..Len(sql)) /\ p = <<p[1], p[2]>>
          /\ tokens[p[1]].start <= p[2] /\ p[2] < EndBefore(tokens, p[1])
      BY <2>1 DEF Shared
    <3>2. p[1] <= n
      <4> SUFFICES ASSUME p[1] > n PROVE FALSE BY <1>1, <3>1
      <4>1. p[1] \in 1..Len(tokens)
        <5>1. p[1] \in 1..j BY <3>1
        <5> QED BY <1>1, <1>4, <5>1
      <4>2. tokens[p[1]].start >= EndBefore(tokens, p[1]) BY <4>1 DEF Inv, Kept
      <4>3. EndBefore(tokens, p[1]) \in Nat BY <1>1, <4>1, ReachedFacts
      <4>4. tokens[p[1]].start \in Nat BY <4>1, InvFacts DEF Token
      <4> QED BY <3>1, <4>2, <4>3, <4>4
    <3>3. p[1] \in 1..n BY <1>1, <3>1, <3>2
    <3>4. p \in (1..n) \X (0..Len(sql)) BY <3>1, <3>3
    <3> QED BY <1>2, <3>1, <3>3, <3>4 DEF Shared
  <2>2. ASSUME NEW p \in Shared(Given, n) PROVE p \in Shared(tokens, j)
    <3>1. /\ p \in (1..n) \X (0..Len(sql)) /\ p = <<p[1], p[2]>>
          /\ Given[p[1]].start <= p[2] /\ p[2] < EndBefore(Given, p[1])
      BY <2>2 DEF Shared
    <3>2. p[1] \in 1..j BY <1>1, <1>4, <3>1
    <3>3. p \in (1..j) \X (0..Len(sql)) BY <3>1, <3>2
    <3> QED BY <1>2, <3>1, <3>3 DEF Shared
  <2> QED BY <2>1, <2>2
<1> QED BY <1>2, <1>3, <1>4

LEMMA RenderRestInv == Inv /\ RenderRest => Inv'
<1> SUFFICES ASSUME Inv, RenderRest PROVE Inv' OBVIOUS
<1> DEFINE rest == Blanked(Slice(sql, prev, Len(sql)))
<1>1. /\ phase = "rendering" /\ phase' = "done" /\ i > Len(tokens) /\ out' = out \o rest
      /\ UNCHANGED <<statement, tokens, seen, counter, i, prev>>
  BY DEF RenderRest
<1>2. Given' = Given /\ sql' = sql BY <1>1 DEF Given, sql
<1>3. i = Len(tokens) + 1 /\ Len(tokens) \in Nat BY <1>1, InvFacts DEF Inv, Measured
<1>4. prev = EndBefore(tokens, i) /\ Len(out) = prev + Excess(tokens, i - 1)
  BY <1>1 DEF Inv, Measured
<1>5. prev \in Nat /\ prev <= Len(sql) BY <1>3, <1>4, ReachedFacts
<1>6. sql \in Seq(Source) /\ Len(sql) \in Nat BY GivenFacts DEF Inv, Typed
<1>7. rest \in Seq(Chars) /\ Len(rest) = Len(sql) - prev
  <2> DEFINE to == Len(sql)
             left == Slice(sql, prev, to)
  <2>1. to \in Nat /\ prev <= to /\ to <= Len(sql) BY <1>5, <1>6
  <2> HIDE DEF to
  <2>2. left \in Seq(Chars) /\ Len(left) = to - prev BY <1>5, <1>6, <2>1, SliceFacts
  <2> HIDE DEF left
  <2>3. Blanked(left) \in Seq(Chars) /\ Len(Blanked(left)) = to - prev
    BY <2>2, BlankedFacts
  <2> QED BY <2>3 DEF left, to
<1> HIDE DEF rest
<1>8. out \in Seq(Chars) /\ Len(out) \in Nat BY DEF Inv, Typed
<1>9. out' \in Seq(Chars) /\ Len(out') = Len(out) + Len(rest)
  BY <1>1, <1>7, <1>8, ConcatProperties
<1>10. Typed' BY <1>1, <1>9 DEF Inv, Typed
<1>11. Placed' BY <1>1, <1>2 DEF Inv, Placed, IsPlaced, Width
<1>12. Kept' BY <1>1, <1>2 DEF Inv, Kept, EndBefore
<1>13. NotReached' BY <1>1 DEF NotReached
<1>14. AliasesRecorded'
  BY <1>1, <1>2 DEF Inv, AliasesRecorded, Reached, Sensitive, NamesFunction
<1>15. Measured'
  <2>1. Shared(tokens, i - 1) = Shared(Given, Len(Given))
    <3>1. i - 1 = Len(tokens) BY <1>3
    <3>2. Len(tokens) >= Len(Given) BY DEF Inv, Kept
    <3> QED BY <1>3, <3>1, <3>2, SharedFacts
  <2>2. Len(out) = prev + Excess(Given, Len(Given)) BY <1>4, <2>1 DEF Excess
  <2>3. Excess(Given, Len(Given)) \in Nat
    <3>1. IsFiniteSet(1..Len(Given)) /\ IsFiniteSet(0..Len(sql)) BY <1>6, InvFacts, FS_Interval
    <3>2. IsFiniteSet((1..Len(Given)) \X (0..Len(sql))) BY <3>1, FS_Product
    <3>3. Shared(Given, Len(Given)) \subseteq (1..Len(Given)) \X (0..Len(sql)) BY DEF Shared
    <3> QED BY <3>2, <3>3, FS_Subset, FS_CardinalityType DEF Excess
  <2>4. Len(out') = Len(sql) + Excess(Given, Len(Given))
    <3> DEFINE n == Len(sql)
               e == Excess(Given, Len(Given))
    <3>1. Len(out') = (prev + e) + (n - prev) BY <1>7, <1>9, <2>2
    <3>2. n \in Nat /\ e \in Nat /\ prev \in Nat BY <1>5, <1>6, <2>3
    <3> HIDE DEF n, e
    <3>3. Len(out') = n + e BY <3>1, <3>2
    <3> QED BY <3>3 DEF n, e
  <2>5. Excess(Given, Len(Given))' = Excess(Given, Len(Given))
    BY <1>2 DEF Excess, Shared, EndBefore
  <2> QED BY <1>1, <1>2, <2>4, <2>5 DEF Measured
<1> QED BY <1>10, <1>11, <1>12, <1>13, <1>14, <1>15 DEF Inv

LEMMA StepInv == Inv /\ [Next]_vars => Inv'
<1> SUFFICES ASSUME Inv, [Next]_vars PROVE Inv' OBVIOUS
<1>0. CASE UnknownDialect BY <1>0, UnknownDialectInv
<1>1. CASE AddTail BY <1>1, AddTailInv
<1>2. CASE BlankHint BY <1>2, BlankHintInv
<1>3. CASE LeaveToken BY <1>3, LeaveTokenInv
<1>4. CASE UseAlias BY <1>4, UseAliasInv
<1>5. CASE NewAlias BY <1>5, NewAliasInv
<1>6. CASE EndNaming BY <1>6, EndNamingInv
<1>7. CASE RenderToken BY <1>7, RenderTokenInv
<1>8. CASE RenderRest BY <1>8, RenderRestInv
<1>9. CASE UNCHANGED vars
  <2>1. Typed' BY <1>9 DEF vars, Inv, Typed
  <2>2. Placed' BY <1>9 DEF vars, Inv, Placed, IsPlaced, Width, sql
  <2>3. Kept' BY <1>9 DEF vars, Inv, Kept, Given, EndBefore
  <2>4. NotReached' BY <1>9 DEF vars, Inv, NotReached, Given
  <2>5. AliasesRecorded'
    BY <1>9 DEF vars, Inv, AliasesRecorded, Reached, Given, Sensitive, NamesFunction
  <2>6. Measured'
    BY <1>9 DEF vars, Inv, Measured, Excess, Shared, EndBefore, Given, sql
  <2> QED BY <2>1, <2>2, <2>3, <2>4, <2>5, <2>6 DEF Inv
<1> QED BY <1>0, <1>1, <1>2, <1>3, <1>4, <1>5, <1>6, <1>7, <1>8, <1>9 DEF Next

LEMMA Invariance == Spec => []Inv
<1> QED BY InitInv, StepInv, PTL DEF Spec

\* For every set of statements and any alphabet, what Anonymize returns is as
\* long as the statement where every token begins after the one before it ends
\* (anonymize.go:59-74, 426-518).
THEOREM LengthIsKept == Spec => []LengthKept
<1>1. Inv => LengthKept
  <2> SUFFICES ASSUME Inv, phase = "done", \A j \in 1..Len(Given) : ~Overlaps(Given, j)
               PROVE  Len(out) = Len(sql)
    BY DEF LengthKept
  <2>1. Shared(Given, Len(Given)) = {}
    <3> SUFFICES ASSUME NEW p \in Shared(Given, Len(Given)) PROVE FALSE OBVIOUS
    <3>1. /\ p[1] \in 1..Len(Given) /\ p[2] \in 0..Len(sql)
          /\ Given[p[1]].start <= p[2] /\ p[2] < EndBefore(Given, p[1])
      BY DEF Shared
    <3>2. ~(Given[p[1]].start < EndBefore(Given, p[1])) BY <3>1 DEF Overlaps
    <3>3. Given[p[1]].start \in Nat BY <3>1, InvFacts DEF Token
    <3>4. p[1] \in 1..(Len(tokens) + 1) BY <3>1, InvFacts DEF Inv, Kept
    <3>5. EndBefore(Given, p[1]) \in Nat BY <3>1, <3>4, ReachedFacts, SharedFacts
    <3> QED BY <3>1, <3>2, <3>3, <3>5
  <2>2. Excess(Given, Len(Given)) = 0 BY <2>1, FS_EmptySet DEF Excess
  <2>3. Len(sql) \in Nat BY GivenFacts DEF Inv, Typed
  <2> QED BY <2>2, <2>3 DEF Inv, Measured
<1> QED BY <1>1, Invariance, PTL

\* For every set of statements, each text has one alias from the naming loop
\* on, wherever it stands and whatever was met in between (anonymize.go:161-183).
THEOREM ConsistentAliases == Spec => []SameTextSameAlias
<1>1. Inv => SameTextSameAlias
  BY DEF Inv, AliasesRecorded, Reached, SameTextSameAlias
<1> QED BY <1>1, Invariance, PTL

-----------------------------------------------------------------------------
(* Types and bounds. *)

\* Where the loops are, and where the last token rendered ends.
Bounded == i <= Len(tokens) + 1 /\ prev <= Len(sql)

LEMMA BoundedInit == Init => Bounded
<1> SUFFICES ASSUME Init PROVE Bounded OBVIOUS
<1>1. Inv BY InitInv
<1>2. Len(tokens) \in Nat /\ Len(sql) \in Nat BY <1>1, InvFacts, GivenFacts DEF Inv, Typed
<1>3. i = 1 /\ prev = 0 BY DEF Init
<1> QED BY <1>2, <1>3 DEF Bounded

LEMMA BoundedStep == Inv /\ Inv' /\ Bounded /\ [Next]_vars => Bounded'
<1> SUFFICES ASSUME Inv, Inv', Bounded, [Next]_vars PROVE Bounded' OBVIOUS
<1>1. Len(tokens) \in Nat /\ i \in Nat /\ Len(sql) \in Nat BY InvFacts, GivenFacts DEF Inv, Typed
<1>2. Len(tokens') \in Nat
  <2>1. tokens' \in Seq(Token) BY DEF Inv, Typed
  <2> QED BY <2>1
<1>0. CASE UnknownDialect BY <1>0 DEF UnknownDialect, Bounded, sql
<1>3. CASE AddTail
  <2>1. i' = 1 /\ prev' = prev /\ statement' = statement BY <1>3 DEF AddTail, Inv, NotReached
  <2> QED BY <1>2, <2>1 DEF Bounded, sql
<1>4. ASSUME NEW x, AtToken("naming"), tokens' = [tokens EXCEPT ![i].text = x], i' = i + 1,
             prev' = prev, statement' = statement
      PROVE  Bounded'
  <2>1. DOMAIN tokens = 1..Len(tokens) /\ DOMAIN tokens' = 1..Len(tokens') BY DEF Inv, Typed
  <2>2. DOMAIN tokens' = DOMAIN tokens BY <1>4
  <2>3. i <= Len(tokens) /\ i \in DOMAIN tokens' BY <1>1, <1>4, <2>1, <2>2 DEF AtToken, Inv, Typed
  <2>4. i <= Len(tokens') BY <1>2, <2>1, <2>3
  <2> QED BY <1>1, <1>2, <1>4, <2>4 DEF Bounded, sql
<1>5. CASE BlankHint BY <1>4, <1>5 DEF BlankHint
<1>6. CASE LeaveToken BY <1>1, <1>6 DEF LeaveToken, AtToken, Bounded, sql
<1>7. CASE UseAlias BY <1>4, <1>7 DEF UseAlias
<1>8. CASE NewAlias BY <1>4, <1>8 DEF NewAlias
<1>9. CASE EndNaming BY <1>1, <1>9 DEF EndNaming, Bounded, sql
<1>10. CASE RenderToken
  <2>1. i \in 1..Len(tokens) BY <1>1, <1>10 DEF RenderToken, AtToken, Inv, Typed
  <2>2. tokens[i] \in Token /\ IsPlaced(tokens[i]) BY <2>1, InvFacts DEF Inv, Placed
  <2>3. tokens[i].end + 1 <= Len(sql) BY <1>1, <2>2 DEF IsPlaced, Token
  <2> QED BY <1>1, <1>10, <2>1, <2>3 DEF RenderToken, Bounded, sql
<1>11. CASE RenderRest BY <1>11 DEF RenderRest, Bounded, sql
<1>12. CASE UNCHANGED vars BY <1>12 DEF vars, Bounded, sql
<1> QED BY <1>0, <1>3, <1>5, <1>6, <1>7, <1>8, <1>9, <1>10, <1>11, <1>12 DEF Next

\* Every variable stays in its type, for every set of statements and any
\* alphabet: the token made for what could not be read is one of the statement,
\* and the places of the tokens never lead out of it (anonymize.go:66-186, 426-464).
THEOREM TypeCorrect == Spec => []TypeOK
<1>1. Inv /\ Bounded => TypeOK
  <2> SUFFICES ASSUME Inv, Bounded PROVE TypeOK OBVIOUS
  <2>1. Tokenized(statement) BY StatementsAssumption DEF Inv, Typed
  <2>2. \A k \in DOMAIN seen : k \in BOOLEAN \X Seq(Source) /\ seen[k] \in Seq(Chars)
    <3> TAKE k \in DOMAIN seen
    <3>1. k \in BOOLEAN \X Seq(Source) /\ seen[k] \in Seq(AliasChars) BY DEF Inv, Typed
    <3> QED BY <3>1, AlphabetFacts, SeqMonotonic
  <2>3. i \in 1..(Len(tokens) + 1) /\ prev \in 0..Len(sql)
    BY InvFacts, GivenFacts DEF Inv, Typed, Bounded
  <2>4. /\ tokens \in Seq(Token) /\ counter \in Nat /\ out \in Seq(Chars)
        /\ phase \in {"tokenized", "naming", "rendering", "done"}
    BY DEF Inv, Typed
  <2> QED BY <2>1, <2>2, <2>3, <2>4 DEF TypeOK
<1>2. Spec => []Bounded
  <2>1. Init => Bounded BY BoundedInit
  <2>2. Inv /\ Inv' /\ Bounded /\ [Next]_vars => Bounded' BY BoundedStep
  <2> QED BY <2>1, <2>2, Invariance, PTL DEF Spec
<1> QED BY <1>1, <1>2, Invariance, PTL

-----------------------------------------------------------------------------
(* What is hidden. *)

NoSecret(text) == \A k \in 1..Len(text) : text[k] \notin Secret

\* The naming loop leaves no secret in a token it has passed; the one token it
\* may not have been given is what could not be read.
Hidden ==
    /\ \A j \in 1..Len(tokens) : j > Len(Given) =>
          statement.failed /\ tokens[j] = Leftover(statement)
    /\ \A j \in 1..Len(Given) :
          Reached(j) /\ Given[j].type \in Anonymized \cup {"hint"} => NoSecret(tokens[j].text)

\* Where the statement may be seen.
Allowed(k) == ~statement.known \/ ShowsUnread(k) \/ ReadTwice(k)

\* The rendering loop has written no secret elsewhere.
Clean ==
    /\ phase = "rendering" => \A k \in 1..Len(out) : out[k] \in Secret => Allowed(k)
    /\ NothingSpilled

\* What blanking and fitting write themselves is not hidden.
LEMMA SecretFacts ==
  " " \notin Secret /\ "open" \notin Secret /\ "close" \notin Secret /\ "." \notin Secret /\ "'" \notin Secret
  /\ "f" \notin Secret
BY DEF Secret

LEMMA AliasHides == ASSUME NEW x \in Seq(AliasChars) PROVE NoSecret(x)
<1>1. AliasChars \cap Secret = {} BY AlphabetFacts
<1>2. \A k \in 1..Len(x) : x[k] \in AliasChars OBVIOUS
<1> QED BY <1>1, <1>2 DEF NoSecret

LEMMA BlankedHides == ASSUME NEW text \in Seq(Chars) PROVE NoSecret(Blanked(text))
<1>1. Len(Blanked(text)) = Len(text) BY BlankedFacts
<1>2. ASSUME NEW k \in 1..Len(text) PROVE Blanked(text)[k] \notin Secret
  BY SecretFacts DEF Blanked, MarkStays
<1> QED BY <1>1, <1>2 DEF NoSecret

\* Fitting an alias keeps what it hides hidden (anonymize.go:473-518).
LEMMA FittedHides ==
  ASSUME NEW span \in Seq(Chars), NEW tok \in Token, NoSecret(tok.text)
  PROVE  NoSecret(Fitted(span, tok))
<1> DEFINE n == Len(span)
           q == IF tok.type = "string" /\ n > 1 /\ span[1] = "'" /\ span[n] = "'" THEN 1 ELSE 0
           w == Len(tok.text)
           fill == Larger((n - (2 * q)) - w, 0)
           zero == IF tok.type = "number" THEN Digits[1] ELSE Alphabet[1]
           e(k) == IF k <= q \/ k > n - q THEN span[k]
                   ELSE IF k - q <= fill THEN zero ELSE tok.text[k - q - fill]
<1>1. n \in Nat /\ w \in Nat /\ tok.text \in Seq(Chars) BY DEF Token
<1>2. zero \notin Secret
  <2>1. 1 \in DOMAIN Digits /\ 1 \in DOMAIN Alphabet BY AlphabetFacts
  <2>2. Digits[1] \notin Secret /\ Alphabet[1] \notin Secret
    BY <2>1, LettersAssumption DEF Separate
  <2> QED BY <2>2
<1>3. q \in {0, 1} /\ (q = 1 => span[1] = "'" /\ span[n] = "'") OBVIOUS
<1> HIDE DEF q
<1> HIDE DEF w
<1>4. fill \in Nat /\ fill >= (n - (2 * q)) - w
  <2> DEFINE d == (n - (2 * q)) - w
  <2>1. d \in Int BY <1>1, <1>3
  <2>2. fill = IF d < 0 THEN 0 ELSE d BY DEF Larger
  <2> HIDE DEF d, fill
  <2>3. fill \in Nat /\ fill >= d BY <2>1, <2>2
  <2> QED BY <2>3 DEF d
<1> HIDE DEF fill, zero
<1>5. ASSUME NEW k \in 1..n PROVE e(k) \notin Secret
  <2>1. CASE k <= q \/ k > n - q
    <3>1. q = 1 /\ (k = 1 \/ k = n) BY <1>1, <1>3, <2>1
    <3> QED BY <1>3, <2>1, <3>1, SecretFacts
  <2>2. CASE ~(k <= q \/ k > n - q) /\ k - q <= fill BY <2>2, <1>2
  <2>3. CASE ~(k <= q \/ k > n - q) /\ ~(k - q <= fill)
    <3>1. k - q - fill \in 1..w BY <2>3, <1>1, <1>3, <1>4
    <3> QED BY <2>3, <3>1 DEF w, NoSecret
  <2> QED BY <2>1, <2>2, <2>3
<1>6. Fitted(span, tok) = [k \in 1..n |-> e(k)] BY DEF Fitted, q, fill, zero, w
<1>7. Len(Fitted(span, tok)) = n BY FittedFacts
<1> HIDE DEF e, n
<1> QED BY <1>5, <1>6, <1>7 DEF NoSecret

-----------------------------------------------------------------------------
LEMMA HiddenInit == Init => Hidden
<1> SUFFICES ASSUME Init PROVE Hidden OBVIOUS
<1>1. tokens = Given /\ phase = "tokenized" BY DEF Init, Given
<1>2. Inv BY InitInv
<1> QED BY <1>1, <1>2, InvFacts DEF Hidden, Reached

\* The statement is the same all along.
LEMMA LeftoverStays ==
  ASSUME statement' = statement
  PROVE  /\ Leftover(statement)' = Leftover(statement) /\ Unread(statement)' = Unread(statement)
         /\ statement.failed' = statement.failed /\ Given' = Given /\ sql' = sql
BY DEF Given, sql

\* A step of the naming loop that gives its token a text that hides.
LEMMA HiddenText ==
  ASSUME Inv, Inv', Hidden, AtToken("naming"), NEW x,
         tokens' = [tokens EXCEPT ![i].text = x], i' = i + 1,
         UNCHANGED <<statement, prev, out, phase>>, NoSecret(x), tokens[i].type # "unknown"
  PROVE  Hidden'
<1>1. /\ Len(tokens) \in Nat /\ Len(Given) \in Nat /\ i \in 1..Len(tokens) /\ phase = "naming"
      /\ Len(Given) <= Len(tokens)
  BY InvFacts DEF AtToken, Inv, Typed, Kept
<1>2. /\ Given' = Given /\ Leftover(statement)' = Leftover(statement)
      /\ statement.failed' = statement.failed
  BY LeftoverStays
<1>3. /\ Len(tokens') = Len(tokens)
      /\ \A j \in 1..Len(tokens) : j # i => tokens'[j] = tokens[j]
      /\ tokens'[i].text = x
  <2>1. tokens \in Seq(Token) /\ tokens' \in Seq(Token) BY DEF Inv, Typed
  <2>2. tokens[i] \in Token BY <1>1, InvFacts
  <2>3. DOMAIN tokens' = DOMAIN tokens OBVIOUS
  <2>4. Len(tokens') = Len(tokens) BY <2>1, <2>3
  <2>5. i \in DOMAIN tokens BY <1>1, <2>1
  <2>6. tokens'[i] = [tokens[i] EXCEPT !.text = x] BY <2>5
  <2>7. tokens'[i].text = x BY <2>2, <2>6 DEF Token
  <2> QED BY <1>1, <2>1, <2>4, <2>7
<1>4. i <= Len(Given) BY <1>1, PastGiven
<1>5. ASSUME NEW j \in 1..Len(tokens'), j > Len(Given)
      PROVE  statement.failed /\ tokens'[j] = Leftover(statement)
  BY <1>1, <1>3, <1>4, <1>5 DEF Hidden
<1>6. ASSUME NEW j \in 1..Len(Given), j < i + 1, Given[j].type \in Anonymized \cup {"hint"}
      PROVE  NoSecret(tokens'[j].text)
  <2>1. CASE j = i BY <1>3, <2>1
  <2>2. CASE j # i
    <3>1. j < i /\ tokens'[j] = tokens[j] BY <1>1, <1>3, <1>6, <2>2
    <3> QED BY <1>1, <1>6, <3>1 DEF Hidden, Reached
  <2> QED BY <2>1, <2>2
<1> QED BY <1>1, <1>2, <1>5, <1>6 DEF Hidden, Reached

LEMMA HiddenStep == Inv /\ Inv' /\ Hidden /\ [Next]_vars => Hidden'
<1> SUFFICES ASSUME Inv, Inv', Hidden, [Next]_vars PROVE Hidden' OBVIOUS
<1>0. CASE UnknownDialect
  <2>1. Len(Given) = 0 /\ tokens = Given /\ tokens' = tokens /\ Given' = Given
    BY <1>0, UnknownFacts
  <2> QED BY <2>1 DEF Hidden
<1>1. CASE AddTail
  <2>1. /\ phase' = "naming" /\ tokens = Given /\ i' = 1 /\ statement' = statement
        /\ \/ tokens' = tokens
           \/ statement.failed /\ tokens' = Append(tokens, Leftover(statement))
    BY <1>1 DEF AddTail, Inv, NotReached
  <2>2. /\ Given' = Given /\ Leftover(statement)' = Leftover(statement)
        /\ statement.failed' = statement.failed
    BY <2>1, LeftoverStays
  <2>3. tokens \in Seq(Token) /\ Len(tokens) \in Nat BY InvFacts DEF Inv, Typed
  <2>4. ASSUME NEW j \in 1..Len(tokens'), j > Len(Given)
        PROVE  statement.failed /\ tokens'[j] = Leftover(statement)
    <3>1. tokens' = Append(tokens, Leftover(statement)) /\ statement.failed
      BY <2>1, <2>3, <2>4
    <3> DEFINE left == Leftover(statement)
    <3> HIDE DEF left
    <3>2. Len(Append(tokens, left)) = Len(tokens) + 1
          /\ Append(tokens, left)[Len(tokens) + 1] = left
      BY <2>3
    <3>3. j = Len(tokens) + 1 BY <2>1, <2>3, <2>4, <3>1, <3>2 DEF left
    <3> QED BY <3>1, <3>2, <3>3 DEF left
  <2>5. \A j \in 1..Len(Given) : ~(j < i') BY <2>1
  <2> QED BY <2>1, <2>2, <2>4, <2>5 DEF Hidden, Reached
<1>2. CASE BlankHint
  <2> DEFINE x == Blanked(tokens[i].text)
  <2>1. i \in 1..Len(tokens) BY <1>2, InvFacts DEF BlankHint, AtToken, Inv, Typed
  <2>2. tokens[i].text \in Seq(Chars) BY <2>1, InvFacts DEF Token
  <2>3. NoSecret(x) BY <2>2, BlankedHides
  <2> QED BY <1>2, <2>3, HiddenText DEF BlankHint
<1>3. CASE LeaveToken
  <2>1. /\ AtToken("naming") /\ phase = "naming" /\ phase' = phase /\ i' = i + 1
        /\ tokens' = tokens /\ statement' = statement
        /\ tokens[i].type # "hint" /\ ~Sensitive(tokens, i)
    BY <1>3 DEF LeaveToken, AtToken
  <2>2. /\ Given' = Given /\ Leftover(statement)' = Leftover(statement)
        /\ statement.failed' = statement.failed
    BY <2>1, LeftoverStays
  <2>3. Len(Given) \in Nat /\ i \in Nat BY InvFacts
  <2>4. ASSUME NEW j \in 1..Len(Given), j < i + 1, Given[j].type \in Anonymized \cup {"hint"}
        PROVE  NoSecret(tokens[j].text)
    <3>1. CASE j = i
      <4>1. tokens[i] = Given[i] BY <2>1, <2>3, <3>1, AtGiven
      <4>2. Given[i].type \in Anonymized BY <2>1, <2>4, <3>1, <4>1
      <4>3. tokens[i].text = <<>> \/ tokens[i].text = <<"f">>
        BY <2>1, <4>1, <4>2 DEF Sensitive, NamesFunction, Named
      <4>4. NoSecret(<<>>) BY DEF NoSecret
      <4>5. NoSecret(<<"f">>)
        <5>1. \A k \in 1..Len(<<"f">>) : <<"f">>[k] = "f" OBVIOUS
        <5> QED BY <5>1, SecretFacts DEF NoSecret
      <4> QED BY <3>1, <4>3, <4>4, <4>5
    <3>2. CASE j # i
      <4>1. j < i BY <2>3, <2>4, <3>2
      <4> QED BY <2>1, <2>4, <4>1 DEF Hidden, Reached
    <3> QED BY <3>1, <3>2
  <2> QED BY <2>1, <2>2, <2>4 DEF Hidden, Reached
<1>4. CASE UseAlias
  <2> DEFINE x == seen[Key(tokens[i])]
  <2>1. Key(tokens[i]) \in DOMAIN seen /\ AtToken("naming") /\ Sensitive(tokens, i)
    BY <1>4 DEF UseAlias
  <2>2. x \in Seq(AliasChars) BY <2>1 DEF Inv, Typed
  <2>3. NoSecret(x) BY <2>2, AliasHides
  <2>4. tokens[i].type # "unknown" BY <2>1 DEF Sensitive, Anonymized
  <2> QED BY <1>4, <2>3, <2>4, HiddenText DEF UseAlias
<1>5. CASE NewAlias
  <2> DEFINE x == Alias(counter, tokens[i])
  <2>1. AtToken("naming") /\ Sensitive(tokens, i) BY <1>5 DEF NewAlias
  <2>2. tokens[i].type # "unknown" BY <2>1 DEF Sensitive, Anonymized
  <2>3. i <= Len(Given) BY <2>1, PastGiven, InvFacts
  <2>4. i \in 1..Len(Given) /\ tokens[i] = Given[i] BY <2>1, <2>3, AtGiven
  <2>5. Readable(tokens[i]) /\ counter \in Nat BY <2>4, GivenFacts DEF Inv, Typed
  <2>6. x \in Seq(AliasChars) BY <2>5, AliasFacts
  <2>7. NoSecret(x) BY <2>6, AliasHides
  <2> QED BY <1>5, <2>2, <2>7, HiddenText DEF NewAlias
<1>6. CASE EndNaming
  <2>1. /\ phase = "naming" /\ i > Len(tokens) /\ tokens' = tokens /\ statement' = statement
    BY <1>6 DEF EndNaming
  <2>2. /\ Given' = Given /\ Leftover(statement)' = Leftover(statement)
        /\ statement.failed' = statement.failed
    BY <2>1, LeftoverStays
  <2>3. ASSUME NEW j \in 1..Len(Given) PROVE Reached(j)
    <3>1. j < i BY <2>1, InvFacts DEF Inv, Kept
    <3> QED BY <2>1, <3>1 DEF Reached
  <2> QED BY <2>1, <2>2, <2>3 DEF Hidden
<1>7. ASSUME UNCHANGED <<tokens, statement>>, phase \in {"rendering", "done"} PROVE Hidden'
  <2>1. /\ Given' = Given /\ Leftover(statement)' = Leftover(statement)
        /\ statement.failed' = statement.failed
    BY <1>7, LeftoverStays
  <2>2. \A j \in 1..Len(Given) : Reached(j) BY <1>7 DEF Reached
  <2> QED BY <1>7, <2>1, <2>2 DEF Hidden
<1>8. CASE RenderToken BY <1>7, <1>8 DEF RenderToken, AtToken
<1>9. CASE RenderRest BY <1>7, <1>9 DEF RenderRest
<1>10. CASE UNCHANGED vars
  <2>1. /\ Given' = Given /\ Leftover(statement)' = Leftover(statement)
        /\ statement.failed' = statement.failed
    BY <1>10, LeftoverStays DEF vars
  <2> QED BY <1>10, <2>1 DEF vars, Hidden, Reached
<1> QED BY <1>0, <1>1, <1>2, <1>3, <1>4, <1>5, <1>6, <1>8, <1>9, <1>10 DEF Next

\* The gap before a token hides (anonymize.go:433-439).
LEMMA GapHides ==
  ASSUME Inv, NEW tok \in Token, IsPlaced(tok), prev <= Len(sql)
  PROVE  NoSecret(Gap(tok))
<1>1. sql \in Seq(Source) /\ Len(sql) \in Nat /\ prev \in Nat BY GivenFacts DEF Inv, Typed
<1>2. tok.start \in Nat /\ tok.start <= Len(sql) BY <1>1 DEF Token, IsPlaced
<1> DEFINE from == Smaller(prev, tok.start)
           left == Slice(sql, from, tok.start)
<1>3. from \in Nat /\ from <= tok.start BY <1>1, <1>2 DEF Smaller
<1> HIDE DEF from
<1>4. left \in Seq(Chars) BY <1>1, <1>2, <1>3, SliceFacts
<1> HIDE DEF left
<1>5. NoSecret(Blanked(left)) BY <1>4, BlankedHides
<1> QED BY <1>5 DEF Gap, left, from

\* A token rendered shows the two characters, or was read from characters the
\* token before it was read from.
LEMMA RenderedHides ==
  ASSUME Inv, Hidden, phase = "rendering", NEW j \in 1..Len(tokens),
         NEW m \in 1..Len(Rendered(tokens[j])), Rendered(tokens[j])[m] \in Secret
  PROVE  Allowed(tokens[j].start + Excess(tokens, j) + m)
<1> DEFINE tok == tokens[j]
           span == Slice(sql, tok.start, tok.end + 1)
<1>1. tok \in Token /\ IsPlaced(tok) /\ Len(Given) \in Nat BY InvFacts DEF Inv, Placed
<1>2. sql \in Seq(Source) /\ Len(sql) \in Nat BY GivenFacts DEF Inv, Typed
<1>3. tok.start \in Nat /\ tok.end \in Nat /\ tok.start <= tok.end + 1 /\ tok.end + 1 <= Len(sql)
  BY <1>1, <1>2 DEF Token, IsPlaced
<1>4. span \in Seq(Chars) /\ Len(span) = (tok.end + 1) - tok.start
      /\ \A k \in 1..Len(span) : span[k] = sql[tok.start + k]
  <2> DEFINE to == tok.end + 1
             from == tok.start
             s == Slice(sql, from, to)
  <2>1. from \in Nat /\ to \in Nat /\ from <= to /\ to <= Len(sql) BY <1>3
  <2> HIDE DEF to, from
  <2>2. s \in Seq(Chars) /\ Len(s) = to - from BY <1>2, <2>1, SliceFacts
  <2>3. \A k \in 1..(to - from) : s[k] = sql[from + k] BY DEF Slice
  <2> QED BY <2>2, <2>3 DEF to, from
<1> HIDE DEF span
<1> DEFINE e == Excess(tokens, j)
<1>7. e \in Nat
  <2>1. /\ Excess(tokens, j - 1) \in Nat
        /\ e = Excess(tokens, j - 1) + IF tok.start < EndBefore(tokens, j)
                                        THEN EndBefore(tokens, j) - tok.start ELSE 0
    BY ExcessStep
  <2>2. EndBefore(tokens, j) \in Nat BY InvFacts, ReachedFacts
  <2> HIDE DEF e
  <2> QED BY <1>3, <2>1, <2>2
<1> HIDE DEF e
<1>5. CASE j > Len(Given)
  <2>1. statement.failed /\ tok = Leftover(statement) BY <1>5 DEF Hidden
  <2>2. Rendered(tok) = tok.text BY <2>1 DEF Rendered, Leftover, Rewritten
  <2> DEFINE u == Unread(statement)
             n == Len(statement.sql) - u
             text == [k \in 1..n |-> IF k <= 2 THEN statement.sql[u + k] ELSE "."]
  <2>3. tok.text = text /\ tok.start = u BY <2>1 DEF Leftover
  <2>4. tok.text \in Seq(Chars) BY <1>1 DEF Token
  <2>5. m \in DOMAIN tok.text BY <2>2, <2>4
  <2>6. m \in 1..n BY <2>3, <2>5
  <2>7. text[m] \in Secret BY <2>2, <2>3
  <2> HIDE DEF u, n
  <2>8. m <= 2 BY <2>6, <2>7, SecretFacts
  <2>9. u \in Nat BY <1>3, <2>3
  <2>10. e = Cardinality(Shared(Given, Len(Given)))
    <3>1. j \in Nat /\ j <= Len(tokens) BY InvFacts
    <3>2. Shared(tokens, j) = Shared(Given, Len(Given)) BY <1>1, <1>5, <3>1, SharedFacts
    <3> QED BY <3>2 DEF e, Excess
  <2>11. u + e + m \in (u + e + 1)..(u + e + 2) BY <1>7, <2>6, <2>8, <2>9
  <2>12. ShowsUnread(u + e + m) BY <2>1, <2>10, <2>11 DEF ShowsUnread, u
  <2> QED BY <2>3, <2>12 DEF Allowed, e
<1>6. CASE j <= Len(Given)
  <2>1. j \in 1..Len(Given) BY <1>1, <1>6
  <2>2. SamePlace(tok, Given[j]) /\ Given[j].type # "unknown" /\ Reached(j)
    BY <2>1, InvFacts DEF Inv, Kept, Reached
  <2>3. Given[j].type \in Anonymized \cup {"hint"} => NoSecret(tok.text)
    BY <2>1, <2>2 DEF Hidden
  <2>4. CASE tok.type \in Rewritten
    <3>1. Rendered(tok) = tok.text BY <2>4 DEF Rendered
    <3>2. tok.type = "hint" BY <2>2, <2>4 DEF Rewritten, SamePlace
    <3> QED BY <2>2, <2>3, <3>1, <3>2 DEF NoSecret, SamePlace
  <2>5. CASE tok.type \notin Rewritten /\ tok.type \in Anonymized
    <3>1. Rendered(tok) = Fitted(span, tok) BY <2>5 DEF Rendered, span
    <3>2. NoSecret(tok.text) BY <2>2, <2>3, <2>5 DEF SamePlace
    <3>3. NoSecret(Fitted(span, tok)) BY <1>1, <1>4, <3>2, FittedHides
    <3> QED BY <3>1, <3>3 DEF NoSecret
  <2>6. CASE tok.type \notin Rewritten /\ tok.type \notin Anonymized
    <3>1. Rendered(tok) = span BY <2>6 DEF Rendered, span
    <3>2. sql[tok.start + m] \in Secret BY <1>4, <3>1
    <3>3. m \in 1..((tok.end + 1) - tok.start)
      <4>1. m \in 1..Len(span) BY <3>1
      <4> QED BY <1>4, <4>1
    <3>4. /\ Given[j].start = tok.start /\ Given[j].end = tok.end /\ Verbatim(Given[j])
      BY <2>2, <2>6 DEF SamePlace, Verbatim
    <3>5. CASE ~Overlaps(Given, j)
      <4>1. statement \in Statements BY DEF Inv, Typed
      <4>2. \A k \in (Given[j].start + 1)..(Given[j].end + 1) : sql[k] \notin Secret
        BY <2>1, <3>4, <3>5, <4>1, SecretAssumption DEF Given, sql
      <4> DEFINE a == tok.start
                 b == tok.end
      <4>3. m \in 1..((b + 1) - a) /\ a \in Nat /\ b \in Nat BY <1>3, <3>3
      <4> HIDE DEF a, b
      <4>4. a + m \in (a + 1)..(b + 1) BY <4>3
      <4> QED BY <3>2, <3>4, <4>2, <4>4 DEF a, b
    <3>6. CASE Overlaps(Given, j)
      <4> DEFINE at == Given[j].start + Cardinality(Shared(Given, j))
                 w == Width(Given[j])
      <4>1. Shared(tokens, j) = Shared(Given, j) BY <2>1, SharedFacts
      <4>2. at = tok.start + e BY <3>4, <4>1 DEF e, Excess
      <4>3. w = (tok.end + 1) - tok.start BY <3>4 DEF Width
      <4>4. ReadTwice(tok.start + e + m)
        <5> DEFINE a == tok.start
                   b == tok.end
        <5>1. a \in Nat /\ b \in Nat /\ m \in 1..((b + 1) - a) BY <1>3, <3>3
        <5>2. at = a + e /\ w = (b + 1) - a BY <4>2, <4>3
        <5> HIDE DEF a, b, at, w
        <5>3. a + e + m \in (at + 1)..(at + w) BY <1>7, <5>1, <5>2
        <5> QED BY <2>1, <3>4, <3>6, <5>3 DEF ReadTwice, a, at, w
      <4> QED BY <4>4 DEF Allowed, e
    <3> QED BY <3>5, <3>6
  <2> QED BY <2>4, <2>5, <2>6
<1> QED BY <1>1, <1>5, <1>6

LEMMA AllowedStays == ASSUME statement' = statement, NEW k PROVE Allowed(k)' <=> Allowed(k)
BY DEF Allowed, ShowsUnread, ReadTwice, Shared, Overlaps, EndBefore, Given, sql

LEMMA CleanInit == Init => Clean
BY DEF Init, Clean, NothingSpilled

\* What is appended to a text that is as long as the place reached.
LEMMA CleanAppended ==
  ASSUME NEW a \in Seq(Chars), NEW b \in Seq(Chars),
         \A k \in 1..Len(a) : a[k] \in Secret => Allowed(k),
         \A k \in 1..Len(b) : b[k] \in Secret => Allowed(Len(a) + k)
  PROVE  \A k \in 1..Len(a \o b) : (a \o b)[k] \in Secret => Allowed(k)
<1> DEFINE m == Len(a)
           n == Len(b)
           c == a \o b
<1>1. /\ m \in Nat /\ n \in Nat /\ Len(c) = m + n
      /\ \A k \in 1..(m + n) : c[k] = IF k <= m THEN a[k] ELSE b[k - m]
  BY ConcatProperties
<1> HIDE DEF m, n, c
<1>2. ASSUME NEW k \in 1..(m + n), c[k] \in Secret PROVE Allowed(k)
  <2>1. CASE k <= m BY <1>1, <1>2, <2>1 DEF m
  <2>2. CASE ~(k <= m)
    <3>1. k - m \in 1..n /\ m + (k - m) = k BY <1>1, <2>2
    <3>2. b[k - m] \in Secret BY <1>1, <1>2, <2>2
    <3>3. Allowed(m + (k - m)) BY <3>1, <3>2 DEF m, n
    <3> QED BY <3>1, <3>3
  <2> QED BY <2>1, <2>2
<1> QED BY <1>1, <1>2 DEF c

LEMMA CleanStep == Inv /\ Inv' /\ Bounded /\ Hidden /\ Clean /\ [Next]_vars => Clean'
<1> SUFFICES ASSUME Inv, Inv', Bounded, Hidden, Clean, [Next]_vars PROVE Clean' OBVIOUS
<1>0. CASE UnknownDialect
  <2>1. phase' = "done" /\ statement' = statement /\ ~statement.known BY <1>0, UnknownFacts
  <2> QED BY <2>1 DEF Clean, NothingSpilled
<1>1. CASE AddTail \/ BlankHint \/ LeaveToken \/ UseAlias \/ NewAlias
  <2>1. phase' = "naming"
    BY <1>1 DEF AddTail, BlankHint, LeaveToken, UseAlias, NewAlias, AtToken
  <2> QED BY <2>1 DEF Clean, NothingSpilled
<1>2. CASE EndNaming
  <2>1. phase' = "rendering" /\ out' = out /\ out = <<>>
    BY <1>2 DEF EndNaming, Inv, Measured
  <2> QED BY <2>1 DEF Clean, NothingSpilled
<1>3. CASE RenderToken
  <2> DEFINE tok == tokens[i]
             gap == Gap(tok)
             text == Rendered(tok)
  <2>1. /\ phase = "rendering" /\ phase' = "rendering" /\ out' = out \o gap \o text
        /\ statement' = statement
    BY <1>3 DEF RenderToken, AtToken
  <2> SUFFICES \A k \in 1..Len(out') : out'[k] \in Secret => Allowed(k)
    BY <2>1, AllowedStays DEF Clean, NothingSpilled
  <2>2. /\ i \in 1..Len(tokens) /\ tok \in Token /\ IsPlaced(tok) /\ prev <= Len(sql)
        /\ Len(tokens) \in Nat
    BY <1>3, InvFacts DEF RenderToken, AtToken, Inv, Typed, Placed, Bounded
  <2>3. prev = EndBefore(tokens, i) /\ Len(out) = prev + Excess(tokens, i - 1)
    BY <2>1 DEF Inv, Measured
  <2>4. /\ Excess(tokens, i - 1) \in Nat
        /\ Excess(tokens, i) = Excess(tokens, i - 1)
              + IF tok.start < prev THEN prev - tok.start ELSE 0
    BY <2>2, <2>3, ExcessStep
  <2>5. /\ gap \in Seq(Chars) /\ Len(gap) = IF prev < tok.start THEN tok.start - prev ELSE 0
        /\ text \in Seq(Chars)
    BY <2>2, RenderedFacts DEF Inv
  <2>6. NoSecret(gap) BY <2>2, GapHides
  <2>7. \A k \in 1..Len(text) : text[k] \in Secret => Allowed(tok.start + Excess(tokens, i) + k)
    BY <2>1, <2>2, RenderedHides
  <2>8. out \in Seq(Chars) /\ \A k \in 1..Len(out) : out[k] \in Secret => Allowed(k)
    BY <2>1 DEF Inv, Typed, Clean
  <2>9. tok.start \in Nat /\ prev \in Nat BY <2>2 DEF Token, Inv, Typed
  <2> HIDE DEF gap, text
  <2> DEFINE start == out \o gap
  <2>10. start \in Seq(Chars) /\ Len(start) = tok.start + Excess(tokens, i)
    <3>1. start \in Seq(Chars) /\ Len(start) = Len(out) + Len(gap)
      BY <2>5, <2>8, ConcatProperties
    <3>2. Len(out) + Len(gap) = tok.start + Excess(tokens, i)
      <4> DEFINE e == Excess(tokens, i - 1)
                 f == Excess(tokens, i)
                 a == tok.start
                 g == Len(gap)
                 o == Len(out)
      <4>1. /\ e \in Nat /\ f = e + IF a < prev THEN prev - a ELSE 0
            /\ o = prev + e /\ g = IF prev < a THEN a - prev ELSE 0
        BY <2>3, <2>4, <2>5
      <4>2. a \in Nat /\ prev \in Nat BY <2>9
      <4> HIDE DEF e, f, a, g, o
      <4>3. o + g = a + f BY <4>1, <4>2
      <4> QED BY <4>3 DEF f, a, g, o
    <3> QED BY <3>1, <3>2
  <2>11. \A k \in 1..Len(start) : start[k] \in Secret => Allowed(k)
    <3>1. \A k \in 1..Len(gap) : gap[k] \in Secret => Allowed(Len(out) + k)
      BY <2>6 DEF NoSecret
    <3> QED BY <2>5, <2>8, <3>1, CleanAppended
  <2> HIDE DEF start
  <2>12. \A k \in 1..Len(text) : text[k] \in Secret => Allowed(Len(start) + k)
    BY <2>7, <2>10
  <2>13. \A k \in 1..Len(start \o text) : (start \o text)[k] \in Secret => Allowed(k)
    BY <2>5, <2>10, <2>11, <2>12, CleanAppended
  <2> QED BY <2>1, <2>13 DEF start
<1>4. CASE RenderRest
  <2> DEFINE left == Slice(sql, prev, Len(sql))
             rest == Blanked(left)
  <2>1. phase = "rendering" /\ phase' = "done" /\ out' = out \o rest /\ statement' = statement
    BY <1>4 DEF RenderRest
  <2> SUFFICES \A k \in 1..Len(out') : out'[k] \in Secret => Allowed(k)
    <3>1. NothingSpilled' <=> \A k \in 1..Len(out') : out'[k] \in Secret => Allowed(k)'
      BY <2>1 DEF NothingSpilled, Allowed
    <3> QED BY <2>1, <3>1, AllowedStays DEF Clean
  <2>2. sql \in Seq(Source) /\ Len(sql) \in Nat /\ prev \in Nat /\ prev <= Len(sql)
    BY GivenFacts DEF Inv, Typed, Bounded
  <2>3. left \in Seq(Chars)
    <3> DEFINE n == Len(sql)
    <3>1. n \in Nat /\ prev <= n /\ n <= Len(sql) BY <2>2
    <3> HIDE DEF n
    <3>2. Slice(sql, prev, n) \in Seq(Chars) BY <2>2, <3>1, SliceFacts
    <3> QED BY <3>2 DEF n
  <2> HIDE DEF left
  <2>4. rest \in Seq(Chars) /\ NoSecret(rest) BY <2>3, BlankedFacts, BlankedHides
  <2> HIDE DEF rest
  <2>5. out \in Seq(Chars) /\ \A k \in 1..Len(out) : out[k] \in Secret => Allowed(k)
    BY <2>1 DEF Inv, Typed, Clean
  <2>6. \A k \in 1..Len(rest) : rest[k] \in Secret => Allowed(Len(out) + k)
    BY <2>4 DEF NoSecret
  <2>7. \A k \in 1..Len(out \o rest) : (out \o rest)[k] \in Secret => Allowed(k)
    BY <2>4, <2>5, <2>6, CleanAppended
  <2> QED BY <2>1, <2>7
<1>5. CASE UNCHANGED vars
  <2>1. statement' = statement /\ out' = out /\ phase' = phase BY <1>5 DEF vars
  <2>2. NothingSpilled' <=> (phase = "done" =>
           \A k \in 1..Len(out) : out[k] \in Secret => Allowed(k)')
    BY <2>1 DEF NothingSpilled, Allowed
  <2>3. NothingSpilled <=> (phase = "done" =>
           \A k \in 1..Len(out) : out[k] \in Secret => Allowed(k))
    BY DEF NothingSpilled, Allowed
  <2> QED BY <2>1, <2>2, <2>3, AllowedStays DEF Clean
<1> QED BY <1>0, <1>1, <1>2, <1>3, <1>4, <1>5 DEF Next

\* For every set of statements and any alphabet, nothing that is to be hidden is
\* left in what Anonymize returns, whichever token, comment, hint or payload it
\* stood in, but in the places NothingSpilled names: all of a statement in a
\* dialect nobody knows, the two characters that show what could not be read,
\* and the type of a number, written with the number's characters
\* (anonymize.go:66-186, 426-518).
THEOREM NothingIsSpilled == Spec => []NothingSpilled
<1>1. Spec => []Hidden
  <2>1. Init => Hidden BY HiddenInit
  <2>2. Inv /\ Inv' /\ Hidden /\ [Next]_vars => Hidden' BY HiddenStep
  <2> QED BY <2>1, <2>2, Invariance, PTL DEF Spec
<1>2. Spec => []Bounded
  <2>1. Init => Bounded BY BoundedInit
  <2>2. Inv /\ Inv' /\ Bounded /\ [Next]_vars => Bounded' BY BoundedStep
  <2> QED BY <2>1, <2>2, Invariance, PTL DEF Spec
<1>3. Init => Clean BY CleanInit
<1>4. Inv /\ Inv' /\ Bounded /\ Hidden /\ Clean /\ [Next]_vars => Clean' BY CleanStep
<1>5. Clean => NothingSpilled BY DEF Clean
<1> QED BY <1>1, <1>2, <1>3, <1>4, <1>5, Invariance, PTL DEF Spec

-----------------------------------------------------------------------------
(* Which alias a text has. *)

\* The texts named before token n of a statement, where the text of a token was
\* first met, and how many were named before it.
Sensitives(ts, n) == {m \in 1..Len(ts) : m < n /\ Sensitive(ts, m)}
KeysBefore(ts, n) == {Key(ts[m]) : m \in Sensitives(ts, n)}
Meets(ts, k, j) ==
    /\ Sensitive(ts, k) /\ Key(ts[k]) = Key(ts[j])
    /\ \A m \in 1..(k - 1) : Sensitive(ts, m) => Key(ts[m]) # Key(ts[j])
FirstIn(ts, j) == CHOOSE k \in 1..j : Meets(ts, k, j)
RankIn(ts, j) == Cardinality(KeysBefore(ts, FirstIn(ts, j)))

\* There is one first occurrence.
LEMMA MeetsFacts ==
  ASSUME NEW ts, Len(ts) \in Nat, NEW j \in 1..Len(ts), Sensitive(ts, j)
  PROVE  /\ FirstIn(ts, j) \in 1..j /\ Meets(ts, FirstIn(ts, j), j)
         /\ \A k \in 1..j : Meets(ts, k, j) => k = FirstIn(ts, j)
<1> DEFINE S == {k \in 1..j : Sensitive(ts, k) /\ Key(ts[k]) = Key(ts[j])}
           f == FirstIn(ts, j)
<1>1. S \subseteq Nat /\ j \in S OBVIOUS
<1>2. PICK k \in S : \A l \in S : k <= l
  <2> HIDE DEF S
  <2> QED BY <1>1, LeastElement
<1>3. k \in 1..j /\ Meets(ts, k, j)
  <2>1. k \in 1..j /\ Sensitive(ts, k) /\ Key(ts[k]) = Key(ts[j]) BY <1>2
  <2>2. ASSUME NEW m \in 1..(k - 1), Sensitive(ts, m), Key(ts[m]) = Key(ts[j]) PROVE FALSE
    <3>1. m \in 1..j /\ ~(k <= m) BY <2>1
    <3>2. m \in S BY <2>2, <3>1
    <3> QED BY <1>2, <3>1, <3>2
  <2> QED BY <2>1, <2>2 DEF Meets
<1>4. f \in 1..j /\ Meets(ts, f, j) BY <1>3 DEF FirstIn
<1> HIDE DEF f
<1>5. ASSUME NEW l \in 1..j, Meets(ts, l, j) PROVE l = f
  <2>1. ~(l < f)
    <3> SUFFICES ASSUME l < f PROVE FALSE OBVIOUS
    <3>1. l \in 1..(f - 1) BY <1>4
    <3> QED BY <1>4, <1>5, <3>1 DEF Meets
  <2>2. ~(f < l)
    <3> SUFFICES ASSUME f < l PROVE FALSE OBVIOUS
    <3>1. f \in 1..(l - 1) BY <1>4
    <3> QED BY <1>4, <1>5, <3>1 DEF Meets
  <2> QED BY <1>4, <2>1, <2>2
<1> QED BY <1>4, <1>5 DEF f

\* Occurrences of one text have one first occurrence.
LEMMA FirstShared ==
  ASSUME NEW ts, Len(ts) \in Nat, NEW j \in 1..Len(ts), Sensitive(ts, j),
         NEW k \in 1..Len(ts), Sensitive(ts, k), Key(ts[j]) = Key(ts[k])
  PROVE  FirstIn(ts, j) = FirstIn(ts, k)
<1> DEFINE f == FirstIn(ts, j)
           g == FirstIn(ts, k)
<1>1. f \in 1..j /\ Meets(ts, f, j) /\ g \in 1..k /\ Meets(ts, g, k) BY MeetsFacts
<1> HIDE DEF f, g
<1>2. ~(f < g)
  <2> SUFFICES ASSUME f < g PROVE FALSE OBVIOUS
  <2>1. f \in 1..(g - 1) BY <1>1
  <2> QED BY <1>1, <2>1 DEF Meets
<1>3. ~(g < f)
  <2> SUFFICES ASSUME g < f PROVE FALSE OBVIOUS
  <2>1. g \in 1..(f - 1) BY <1>1
  <2> QED BY <1>1, <2>1 DEF Meets
<1>4. f = g BY <1>1, <1>2, <1>3
<1> QED BY <1>4 DEF f, g

LEMMA KeysFinite ==
  ASSUME NEW ts, Len(ts) \in Nat, NEW n
  PROVE  IsFiniteSet(KeysBefore(ts, n)) /\ Cardinality(KeysBefore(ts, n)) \in Nat
<1> DEFINE S == Sensitives(ts, n)
<1>1. IsFiniteSet(1..Len(ts)) BY FS_Interval
<1>2. S \subseteq 1..Len(ts) BY DEF Sensitives
<1>3. IsFiniteSet(S) BY <1>1, <1>2, FS_Subset
<1> HIDE DEF S
<1>4. IsFiniteSet({Key(ts[m]) : m \in S})
  <2> DEFINE T == {Key(ts[m]) : m \in S}
             g == [m \in S |-> Key(ts[m])]
  <2>1. g \in Surjection(S, T) BY DEF Surjection
  <2> HIDE DEF T, g
  <2>2. IsFiniteSet(T) BY <1>3, <2>1, FS_Surjection
  <2> QED BY <2>2 DEF T
<1>5. IsFiniteSet(KeysBefore(ts, n)) BY <1>4 DEF KeysBefore, S
<1> QED BY <1>5, FS_CardinalityType

\* Texts have ranks of their own.
LEMMA RankLess ==
  ASSUME NEW ts, Len(ts) \in Nat, NEW j \in 1..Len(ts), Sensitive(ts, j),
         NEW k \in 1..Len(ts), Sensitive(ts, k), FirstIn(ts, j) < FirstIn(ts, k)
  PROVE  RankIn(ts, j) < RankIn(ts, k)
<1> DEFINE f == FirstIn(ts, j)
           g == FirstIn(ts, k)
           S == KeysBefore(ts, f)
           T == KeysBefore(ts, g)
           key == Key(ts[j])
<1>1. f \in 1..j /\ Meets(ts, f, j) /\ g \in 1..k BY MeetsFacts
<1>2. f < g OBVIOUS
<1> HIDE DEF f, g
<1>3. S \subseteq T
  <2>1. Sensitives(ts, f) \subseteq Sensitives(ts, g) BY <1>1, <1>2 DEF Sensitives
  <2> QED BY <2>1 DEF KeysBefore
<1>4. key \in T
  <2>1. f \in Sensitives(ts, g) BY <1>1, <1>2 DEF Sensitives, Meets
  <2>2. Key(ts[f]) = key BY <1>1 DEF Meets
  <2> QED BY <2>1, <2>2 DEF KeysBefore
<1>5. key \notin S
  <2> SUFFICES ASSUME NEW m \in Sensitives(ts, f), Key(ts[m]) = key PROVE FALSE
    BY DEF KeysBefore
  <2>1. m \in 1..(f - 1) /\ Sensitive(ts, m) BY <1>1 DEF Sensitives
  <2> QED BY <1>1, <2>1 DEF Meets
<1>6. IsFiniteSet(T) /\ Cardinality(T) \in Nat /\ Cardinality(S) \in Nat BY KeysFinite
<1> HIDE DEF S, T, key
<1>7. S \subseteq T /\ S # T BY <1>3, <1>4, <1>5
<1>8. Cardinality(S) < Cardinality(T) BY <1>6, <1>7, FS_Subset
<1> QED BY <1>8 DEF RankIn, S, T, f, g

\* Two texts have two ranks.
LEMMA RanksDiffer ==
  ASSUME NEW ts, Len(ts) \in Nat, NEW j \in 1..Len(ts), Sensitive(ts, j),
         NEW k \in 1..Len(ts), Sensitive(ts, k), Key(ts[j]) # Key(ts[k])
  PROVE  RankIn(ts, j) # RankIn(ts, k) /\ RankIn(ts, j) \in Nat
<1> DEFINE f == FirstIn(ts, j)
           g == FirstIn(ts, k)
           p == RankIn(ts, j)
           q == RankIn(ts, k)
<1>1. f \in 1..j /\ Meets(ts, f, j) /\ g \in 1..k /\ Meets(ts, g, k) BY MeetsFacts
<1>2. f # g
  <2>1. Key(ts[f]) = Key(ts[j]) /\ Key(ts[g]) = Key(ts[k]) BY <1>1 DEF Meets
  <2> QED BY <2>1
<1>3. p \in Nat /\ q \in Nat BY KeysFinite DEF RankIn
<1>4. f < g => p < q BY RankLess
<1>5. g < f => q < p BY RankLess
<1>6. f < g \/ g < f BY <1>1, <1>2
<1> HIDE DEF f, g, p, q
<1>7. p # q BY <1>3, <1>4, <1>5, <1>6
<1> QED BY <1>3, <1>7 DEF p, q

\* What the statement calls the rank of a token.
LEMMA RankIs ==
  ASSUME Inv, NEW j \in 1..Len(Given), Sensitive(Given, j)
  PROVE  Rank(j) = RankIn(Given, j)
<1> DEFINE f == FirstIn(Given, j)
<1>1. First(j) = f BY DEF First, FirstIn, Meets
<1>2. Len(Given) \in Nat BY InvFacts
<1>3. f \in 1..j BY <1>2, MeetsFacts
<1> HIDE DEF f
<1>4. {m \in 1..(f - 1) : Sensitive(Given, m)} = Sensitives(Given, f)
  BY <1>2, <1>3 DEF Sensitives
<1>5. Rank(j) = Cardinality({Key(Given[m]) : m \in Sensitives(Given, f)})
  BY <1>1, <1>4 DEF Rank
<1> QED BY <1>5 DEF RankIn, KeysBefore, f

\* The map has the texts met, and each has the alias of its rank.
Ranked ==
    /\ phase \in {"tokenized", "naming"} =>
         DOMAIN seen = KeysBefore(Given, i) /\ counter = Cardinality(DOMAIN seen)
    /\ \A j \in 1..Len(Given) : Reached(j) /\ Sensitive(Given, j) =>
          tokens[j].text = Alias(RankIn(Given, j), Given[j])

\* An alias is that of a key.
LEMMA AliasByKey ==
  ASSUME NEW t, NEW u, Key(t) = Key(u), NEW c PROVE Alias(c, t) = Alias(c, u)
<1>1. t.text = u.text /\ (t.type = "number") = (u.type = "number") BY DEF Key
<1>2. CASE t.type = "number" BY <1>1, <1>2 DEF Alias
<1>3. CASE t.type # "number" BY <1>1, <1>3 DEF Alias
<1> QED BY <1>2, <1>3

\* What a step of the naming loop adds to the texts met.
LEMMA KeysStep ==
  ASSUME NEW ts, Len(ts) \in Nat, NEW n \in Nat, n > 0
  PROVE  KeysBefore(ts, n + 1)
           = IF n <= Len(ts) /\ Sensitive(ts, n) THEN KeysBefore(ts, n) \cup {Key(ts[n])}
             ELSE KeysBefore(ts, n)
<1>1. CASE n <= Len(ts) /\ Sensitive(ts, n)
  <2>1. Sensitives(ts, n + 1) = Sensitives(ts, n) \cup {n} BY <1>1 DEF Sensitives
  <2> QED BY <1>1, <2>1 DEF KeysBefore
<1>2. CASE ~(n <= Len(ts) /\ Sensitive(ts, n))
  <2>1. Sensitives(ts, n + 1) = Sensitives(ts, n) BY <1>2 DEF Sensitives
  <2> QED BY <1>2, <2>1 DEF KeysBefore
<1> QED BY <1>1, <1>2

LEMMA RankedInit == Init => Ranked
<1> SUFFICES ASSUME Init PROVE Ranked OBVIOUS
<1>1. /\ phase = "tokenized" /\ i = 1 /\ counter = 0 /\ seen = <<>> BY DEF Init
<1>2. DOMAIN seen = {} BY <1>1
<1>3. Sensitives(Given, i) = {} BY <1>1 DEF Sensitives
<1>4. KeysBefore(Given, i) = {} BY <1>3 DEF KeysBefore
<1> QED BY <1>1, <1>2, <1>4, FS_EmptySet DEF Ranked, Reached

\* A step of the naming loop over a token that is not sensitive.
LEMMA RankedPast ==
  ASSUME Inv, Ranked, AtToken("naming"), i' = i + 1, UNCHANGED <<statement, seen, counter, phase>>,
         i <= Len(Given) => ~Sensitive(Given, i),
         \A j \in 1..Len(Given) : j # i => tokens'[j] = tokens[j]
  PROVE  Ranked'
<1>1. /\ Len(Given) \in Nat /\ i \in Nat /\ i > 0 /\ phase = "naming"
  BY InvFacts DEF Inv, Typed, AtToken
<1>2. Given' = Given BY LeftoverStays
<1>3. KeysBefore(Given, i + 1) = KeysBefore(Given, i) BY <1>1, KeysStep
<1>4. ASSUME NEW j \in 1..Len(Given), j < i + 1, Sensitive(Given, j)
      PROVE  tokens'[j].text = Alias(RankIn(Given, j), Given[j])
  <2>1. j # i BY <1>4
  <2>2. j < i /\ tokens'[j] = tokens[j] BY <1>1, <1>4, <2>1
  <2> QED BY <1>1, <1>4, <2>2 DEF Ranked, Reached
<1>5. DOMAIN seen = KeysBefore(Given, i) /\ counter = Cardinality(DOMAIN seen)
  BY <1>1 DEF Ranked
<1> QED BY <1>1, <1>2, <1>3, <1>4, <1>5 DEF Ranked, Reached

\* A step of the naming loop over a token that is.
LEMMA RankedAt ==
  ASSUME Inv, Ranked, AtToken("naming"), i' = i + 1, UNCHANGED <<statement, phase>>,
         i <= Len(Given), Sensitive(Given, i),
         \A j \in 1..Len(Given) : j # i => tokens'[j] = tokens[j],
         tokens'[i].text = Alias(RankIn(Given, i), Given[i]),
         DOMAIN seen' = DOMAIN seen \cup {Key(Given[i])},
         counter' = Cardinality(DOMAIN seen')
  PROVE  Ranked'
<1>1. /\ Len(Given) \in Nat /\ i \in Nat /\ i > 0 /\ phase = "naming"
  BY InvFacts DEF Inv, Typed, AtToken
<1>2. Given' = Given BY LeftoverStays
<1>3. KeysBefore(Given, i + 1) = KeysBefore(Given, i) \cup {Key(Given[i])} BY <1>1, KeysStep
<1>4. ASSUME NEW j \in 1..Len(Given), j < i + 1, Sensitive(Given, j)
      PROVE  tokens'[j].text = Alias(RankIn(Given, j), Given[j])
  <2>1. CASE j = i BY <2>1
  <2>2. CASE j # i
    <3>1. j < i /\ tokens'[j] = tokens[j] BY <1>1, <1>4, <2>2
    <3> QED BY <1>1, <1>4, <3>1 DEF Ranked, Reached
  <2> QED BY <2>1, <2>2
<1>5. DOMAIN seen = KeysBefore(Given, i) BY <1>1 DEF Ranked
<1> QED BY <1>1, <1>2, <1>3, <1>4, <1>5 DEF Ranked, Reached

LEMMA RankedStep == Inv /\ Inv' /\ Ranked /\ [Next]_vars => Ranked'
<1> SUFFICES ASSUME Inv, Inv', Ranked, [Next]_vars PROVE Ranked' OBVIOUS
<1>0. Len(Given) \in Nat /\ i \in Nat BY InvFacts
<1>12. CASE UnknownDialect
  <2>1. Len(Given) = 0 /\ phase' = "done" /\ Given' = Given BY <1>12, UnknownFacts
  <2> QED BY <2>1 DEF Ranked
<1>1. CASE AddTail
  <2>1. /\ phase = "tokenized" /\ phase' = "naming" /\ i = 1 /\ i' = i
        /\ seen' = seen /\ counter' = counter /\ statement' = statement
    BY <1>1 DEF AddTail, Inv, NotReached
  <2>2. Given' = Given BY <2>1, LeftoverStays
  <2>3. \A j \in 1..Len(Given) : ~(j < i') BY <2>1
  <2> QED BY <2>1, <2>2, <2>3 DEF Ranked, Reached
<1>2. ASSUME NEW x \in Seq(Chars), AtToken("naming"), tokens' = [tokens EXCEPT ![i].text = x]
      PROVE  /\ \A j \in 1..Len(Given) : j # i => tokens'[j] = tokens[j]
             /\ i <= Len(Given) => tokens'[i].text = x
  <2>1. i \in 1..Len(tokens) /\ Len(Given) <= Len(tokens) /\ Len(tokens) \in Nat
    BY <1>2, InvFacts DEF AtToken, Inv, Typed, Kept
  <2>2. tokens \in Seq(Token) BY DEF Inv, Typed
  <2>3. /\ \A j \in 1..Len(tokens) : j # i => tokens'[j] = tokens[j]
        /\ tokens'[i].text = x
    BY <1>2, <2>1, <2>2, TextSet
  <2>4. \A j \in 1..Len(Given) : j \in 1..Len(tokens) BY <1>0, <2>1
  <2> QED BY <2>3, <2>4
<1>3. CASE BlankHint
  <2> DEFINE x == Blanked(tokens[i].text)
  <2>1. /\ AtToken("naming") /\ tokens[i].type = "hint"
        /\ tokens' = [tokens EXCEPT ![i].text = x] /\ i' = i + 1
        /\ UNCHANGED <<statement, seen, counter, phase>>
    BY <1>3 DEF BlankHint
  <2>2. i \in 1..Len(tokens) BY <2>1, InvFacts DEF AtToken, Inv, Typed
  <2>3. tokens[i].text \in Seq(Chars) BY <2>2, InvFacts DEF Token
  <2>4. x \in Seq(Chars) BY <2>3, BlankedFacts
  <2> HIDE DEF x
  <2>5. \A j \in 1..Len(Given) : j # i => tokens'[j] = tokens[j] BY <1>2, <2>1, <2>4
  <2>6. i <= Len(Given) => ~Sensitive(Given, i) BY <2>1, AtGiven DEF Sensitive, Anonymized
  <2> QED BY <2>1, <2>5, <2>6, RankedPast
<1>4. CASE LeaveToken
  <2>1. /\ AtToken("naming") /\ ~Sensitive(tokens, i) /\ tokens' = tokens /\ i' = i + 1
        /\ UNCHANGED <<statement, seen, counter, phase>>
    BY <1>4 DEF LeaveToken
  <2>2. i <= Len(Given) => ~Sensitive(Given, i) BY <2>1, AtGiven
  <2> QED BY <2>1, <2>2, RankedPast
<1>5. CASE UseAlias
  <2> DEFINE key == Key(Given[i])
             x == seen[key]
  <2>1. /\ AtToken("naming") /\ Sensitive(tokens, i) /\ phase = "naming"
        /\ Key(tokens[i]) \in DOMAIN seen
        /\ tokens' = [tokens EXCEPT ![i].text = seen[Key(tokens[i])]] /\ i' = i + 1
        /\ UNCHANGED <<statement, seen, counter, phase>>
    BY <1>5 DEF UseAlias, AtToken
  <2>2. i <= Len(Given) BY <1>0, <2>1, PastGiven
  <2>3. i \in 1..Len(Given) /\ tokens[i] = Given[i] /\ Sensitive(Given, i)
    BY <2>1, <2>2, AtGiven
  <2>4. key \in DOMAIN seen /\ tokens' = [tokens EXCEPT ![i].text = x] BY <2>1, <2>3
  <2>5. x \in Seq(Chars)
    <3>1. x \in Seq(AliasChars) BY <2>4 DEF Inv, Typed
    <3> QED BY <3>1, AlphabetFacts, SeqMonotonic
  <2>6. DOMAIN seen = KeysBefore(Given, i) /\ counter = Cardinality(DOMAIN seen)
    BY <2>1 DEF Ranked
  <2>7. PICK m \in Sensitives(Given, i) : Key(Given[m]) = key BY <2>4, <2>6 DEF KeysBefore
  <2>8. m \in 1..Len(Given) /\ m < i /\ Sensitive(Given, m) BY <2>7 DEF Sensitives
  <2>9. x = tokens[m].text /\ tokens[m].text = Alias(RankIn(Given, m), Given[m])
    BY <2>1, <2>7, <2>8 DEF Inv, AliasesRecorded, Ranked, Reached
  <2>10. RankIn(Given, m) = RankIn(Given, i)
    BY <1>0, <2>3, <2>7, <2>8, FirstShared DEF RankIn
  <2>11. x = Alias(RankIn(Given, i), Given[i]) BY <2>7, <2>9, <2>10, AliasByKey
  <2>12. DOMAIN seen' = DOMAIN seen \cup {key} /\ counter' = Cardinality(DOMAIN seen')
    BY <2>1, <2>4, <2>6
  <2> HIDE DEF x
  <2>13. /\ \A j \in 1..Len(Given) : j # i => tokens'[j] = tokens[j]
         /\ tokens'[i].text = x
    BY <1>2, <2>1, <2>2, <2>4, <2>5
  <2>14. tokens'[i].text = Alias(RankIn(Given, i), Given[i]) BY <2>11, <2>13
  <2> QED BY <2>1, <2>2, <2>3, <2>12, <2>13, <2>14, RankedAt
<1>6. CASE NewAlias
  <2> DEFINE key == Key(Given[i])
             x == Alias(counter, Given[i])
  <2>1. /\ AtToken("naming") /\ Sensitive(tokens, i) /\ phase = "naming"
        /\ Key(tokens[i]) \notin DOMAIN seen
        /\ seen' = Remember(Key(tokens[i]), Alias(counter, tokens[i]))
        /\ tokens' = [tokens EXCEPT ![i].text = Alias(counter, tokens[i])]
        /\ counter' = counter + 1 /\ i' = i + 1
        /\ UNCHANGED <<statement, phase>>
    BY <1>6 DEF NewAlias, AtToken
  <2>2. i <= Len(Given) BY <1>0, <2>1, PastGiven
  <2>3. i \in 1..Len(Given) /\ tokens[i] = Given[i] /\ Sensitive(Given, i)
    BY <2>1, <2>2, AtGiven
  <2>4. key \notin DOMAIN seen /\ tokens' = [tokens EXCEPT ![i].text = x]
    BY <2>1, <2>3
  <2>5. x \in Seq(Chars)
    <3>1. Readable(Given[i]) /\ counter \in Nat BY <2>3, GivenFacts DEF Inv, Typed
    <3>2. x \in Seq(AliasChars) BY <3>1, AliasFacts
    <3> QED BY <3>2, AlphabetFacts, SeqMonotonic
  <2>6. DOMAIN seen = KeysBefore(Given, i) /\ counter = Cardinality(DOMAIN seen)
    BY <2>1 DEF Ranked
  <2>7. Meets(Given, i, i)
    <3> SUFFICES ASSUME NEW m \in 1..(i - 1), Sensitive(Given, m), Key(Given[m]) = key
                 PROVE  FALSE
      BY <2>3 DEF Meets
    <3>1. m \in Sensitives(Given, i) BY <1>0, <2>3 DEF Sensitives
    <3>2. key \in KeysBefore(Given, i) BY <3>1 DEF KeysBefore
    <3> QED BY <2>4, <2>6, <3>2
  <2>8. FirstIn(Given, i) = i
    <3>1. i \in 1..i BY <2>3
    <3> QED BY <1>0, <2>3, <2>7, <3>1, MeetsFacts
  <2>9. RankIn(Given, i) = counter BY <2>6, <2>8 DEF RankIn
  <2>10. DOMAIN seen' = DOMAIN seen \cup {key} BY <2>1, <2>3 DEF Remember
  <2>11. counter' = Cardinality(DOMAIN seen')
    <3>1. IsFiniteSet(DOMAIN seen) BY <1>0, <2>6, KeysFinite
    <3>2. Cardinality(DOMAIN seen \cup {key}) = Cardinality(DOMAIN seen) + 1
      BY <2>4, <3>1, FS_AddElement
    <3> QED BY <2>1, <2>6, <2>10, <3>2
  <2>12. x = Alias(RankIn(Given, i), Given[i]) BY <2>9
  <2> HIDE DEF x
  <2>13. /\ \A j \in 1..Len(Given) : j # i => tokens'[j] = tokens[j]
         /\ tokens'[i].text = x
    BY <1>2, <2>1, <2>2, <2>4, <2>5
  <2>14. tokens'[i].text = Alias(RankIn(Given, i), Given[i]) BY <2>12, <2>13
  <2> QED BY <2>1, <2>2, <2>3, <2>10, <2>11, <2>13, <2>14, RankedAt
<1>7. CASE EndNaming
  <2>1. /\ phase = "naming" /\ phase' = "rendering" /\ i > Len(tokens)
        /\ tokens' = tokens /\ statement' = statement
    BY <1>7 DEF EndNaming
  <2>2. Given' = Given BY <2>1, LeftoverStays
  <2>3. ASSUME NEW j \in 1..Len(Given) PROVE Reached(j)
    <3>1. j < i BY <2>1, InvFacts DEF Inv, Kept
    <3> QED BY <2>1, <3>1 DEF Reached
  <2> QED BY <2>1, <2>2, <2>3 DEF Ranked
<1>8. ASSUME UNCHANGED <<tokens, statement>>, phase = "rendering",
             phase' \in {"rendering", "done"}
      PROVE  Ranked'
  <2>1. Given' = Given BY <1>8, LeftoverStays
  <2>2. \A j \in 1..Len(Given) : Reached(j) BY <1>8 DEF Reached
  <2> QED BY <1>8, <2>1, <2>2 DEF Ranked
<1>9. CASE RenderToken BY <1>8, <1>9 DEF RenderToken, AtToken
<1>10. CASE RenderRest BY <1>8, <1>10 DEF RenderRest
<1>11. CASE UNCHANGED vars
  <2>1. Given' = Given BY <1>11, LeftoverStays DEF vars
  <2> QED BY <1>11, <2>1 DEF vars, Ranked, Reached
<1> QED BY <1>1, <1>3, <1>4, <1>5, <1>6, <1>7, <1>9, <1>10, <1>11, <1>12 DEF Next

\* Two tokens of the same kind with one alias have one rank, where there is room.
LEMMA AliasesTell ==
  ASSUME NEW t, Readable(t), NEW u, Readable(u), (t.type = "number") = (u.type = "number"),
         NEW c \in Nat, NEW d \in Nat, c < Room(t), d < Room(u), Alias(c, t) = Alias(d, u)
  PROVE  c = d
<1>1. t.text \in Seq(Chars) /\ u.text \in Seq(Chars) BY DEF Readable, Token
<1>2. CASE t.type # "number"
  <2>1. u.type # "number" BY <1>2
  <2>2. AliasFor(c, t.text) = AliasFor(d, u.text) BY <1>2, <2>1 DEF Alias
  <2>3. /\ c < Power(Len(Alphabet), Letters(t.text, Len(t.text)))
        /\ d < Power(Len(Alphabet), Letters(u.text, Len(u.text)))
    BY <1>2, <2>1 DEF Room
  <2> QED BY <1>1, <2>2, <2>3, WordsTell
<1>3. CASE t.type = "number"
  <2>1. u.type = "number" BY <1>3
  <2>2. IsNumber(t.text) /\ IsNumber(u.text) BY <1>3, <2>1 DEF Readable
  <2>3. ~(Len(t.text) > MaxWidth) /\ c < NumberRoom(t.text)
    <3>1. Room(t) = IF Len(t.text) > MaxWidth THEN 0 ELSE NumberRoom(t.text)
      BY <1>3, Zenon DEF Room, NumberRoom, DigitCount
    <3>2. ~(c < 0) OBVIOUS
    <3> QED BY <3>1, <3>2
  <2>4. ~(Len(u.text) > MaxWidth) /\ d < NumberRoom(u.text)
    <3>1. Room(u) = IF Len(u.text) > MaxWidth THEN 0 ELSE NumberRoom(u.text)
      BY <2>1, Zenon DEF Room, NumberRoom, DigitCount
    <3>2. ~(d < 0) OBVIOUS
    <3> QED BY <3>1, <3>2
  <2>5. NumberAlias(c, t.text) = NumberAlias(d, u.text) BY <1>3, <2>1, <2>3, <2>4 DEF Alias
  <2> QED BY <2>2, <2>3, <2>4, <2>5, NumbersTell
<1> QED BY <1>2, <1>3

\* For every set of statements and any alphabet, the n-th text of a statement is
\* told from every other while n is one of the aliases of its width, whatever
\* texts of other widths came between (anonymize.go:161-300).
THEOREM DistinctAliases == Spec => []DistinctWhileRoom
<1>1. Spec => []Ranked
  <2>1. Init => Ranked BY RankedInit
  <2>2. Inv /\ Inv' /\ Ranked /\ [Next]_vars => Ranked' BY RankedStep
  <2> QED BY <2>1, <2>2, Invariance, PTL DEF Spec
<1>2. Inv /\ Ranked => DistinctWhileRoom
  <2> SUFFICES ASSUME Inv, Ranked, phase \in {"rendering", "done"},
                      NEW j \in 1..Len(Given), NEW k \in 1..Len(Given),
                      Sensitive(Given, j), Sensitive(Given, k), Key(Given[j]) # Key(Given[k]),
                      (Given[j].type = "number") = (Given[k].type = "number"),
                      Rank(j) < Room(Given[j]), Rank(k) < Room(Given[k]),
                      tokens[j].text = tokens[k].text
               PROVE  FALSE
    BY DEF DistinctWhileRoom
  <2>1. Len(Given) \in Nat /\ Readable(Given[j]) /\ Readable(Given[k])
    BY InvFacts, GivenFacts DEF Inv, Typed
  <2> DEFINE c == RankIn(Given, j)
             d == RankIn(Given, k)
  <2>2. c # d /\ c \in Nat /\ d \in Nat BY <2>1, RanksDiffer
  <2>3. c < Room(Given[j]) /\ d < Room(Given[k]) BY RankIs
  <2>4. Alias(c, Given[j]) = Alias(d, Given[k]) BY DEF Ranked, Reached
  <2> HIDE DEF c, d
  <2>5. c = d BY <2>1, <2>2, <2>3, <2>4, AliasesTell
  <2> QED BY <2>2, <2>5
<1> QED BY <1>1, <1>2, Invariance, PTL
=============================================================================
