---------------------- MODULE ExprTreeSimplify_proofs ----------------------
(***************************************************************************)
(* Simplify is exact, for every tree a parser may have built and any       *)
(* number of calls before it ("hive" \notin Ops): what it returns means    *)
(* what it was given, nothing is left to simplify in it, and the loop      *)
(* ended because of that and not at its bound (SimplifyIsExact).           *)
(*                                                                         *)
(* A rule never changes what a node means, and what it makes of a node     *)
(* over simple ones is a simple one: it makes nothing, the node, or one    *)
(* further down that was simple where it stood and is simple here          *)
(* (SimplifiedPlain).  So the first pass leaves nothing to do.  The second *)
(* copies what the first returned, each copy is like its original and as   *)
(* simple, so no rule applies, the terms agree and the loop ends.          *)
(***************************************************************************)
EXTENDS ExprTree_proofs

-----------------------------------------------------------------------------
(* Each node of a heap without a cycle has a meaning, given by those of    *)
(* the nodes it holds: the proofs go as those about Term.                  *)

\* What Meaning computes, for some of the nodes.
Meanings(f, h, S) ==
  f = [n \in S |->
         IF n = Nil THEN <<>>
         ELSE Sense(h[n].class, h[n].name, [i \in DOMAIN h[n].kids |-> f[h[n].kids[i]]])]

\* Two tables of meanings agree where the heaps they are about do.
LEMMA MeaningsAgree ==
  ASSUME NEW h, IsHeap(h), Acyclic(h), NEW g, NEW S, Closed(h, S), Agree(h, g, S),
         NEW T, S \subseteq T, NEW R, S \subseteq R,
         NEW f, Meanings(f, h, T), NEW e, Meanings(e, g, R)
  PROVE  \A n \in S : f[n] = e[n]
<1> DEFINE bad == {n \in S : f[n] # e[n]}
<1> SUFFICES ASSUME bad # {} PROVE FALSE OBVIOUS
<1>1. f[Nil] = <<>> /\ e[Nil] = <<>>
  <2>1. Nil \in T /\ Nil \in R BY DEF Closed
  <2> QED BY <2>1 DEF Meanings
<1>2. bad \subseteq DOMAIN h BY <1>1, ClosedNode
<1>3. PICK n \in bad : \A i \in DOMAIN h[n].kids : h[n].kids[i] \notin bad
  <2> HIDE DEF bad
  <2> QED BY <1>2 DEF Acyclic
<1>4. n \in S /\ n # Nil /\ n \in T /\ n \in R /\ f[n] # e[n] BY <1>1, <1>3
<1>5. \A i \in DOMAIN h[n].kids : f[h[n].kids[i]] = e[h[n].kids[i]] BY <1>3, <1>4, ClosedNode
<1>6. g[n].class = h[n].class /\ g[n].name = h[n].name /\ g[n].kids = h[n].kids BY <1>4 DEF Agree
<1>7. f[n] = Sense(h[n].class, h[n].name, [i \in DOMAIN h[n].kids |-> f[h[n].kids[i]]])
  BY <1>4 DEF Meanings
<1>8. e[n] = Sense(g[n].class, g[n].name, [i \in DOMAIN g[n].kids |-> e[g[n].kids[i]]])
  BY <1>4 DEF Meanings
<1>9. [i \in DOMAIN h[n].kids |-> f[h[n].kids[i]]] = [i \in DOMAIN h[n].kids |-> e[h[n].kids[i]]]
  BY <1>5
<1> QED BY <1>4, <1>6, <1>7, <1>8, <1>9

\* Any heap without a cycle has a table of all its meanings: the greatest set of
\* nodes that has one is all of them.
LEMMA MeaningsExist ==
  ASSUME NEW h, IsHeap(h), Acyclic(h)
  PROVE  \E f : Meanings(f, h, 0..Len(h))
<1> DEFINE P == {S \in SUBSET (0..Len(h)) : Closed(h, S) /\ \E f : Meanings(f, h, S)}
           U == UNION P
           tab(n) == CHOOSE v : \E S \in P : \E f : n \in S /\ Meanings(f, h, S) /\ v = f[n]
           e == [n \in U |-> tab(n)]
<1>1. Len(h) \in Nat /\ DOMAIN h = 1..Len(h) /\ Nil \in 0..Len(h) BY DEF IsHeap, Nil
<1>2. {Nil} \in P
  <2>1. Closed(h, {Nil}) BY <1>1 DEF Closed
  <2>2. Meanings([n \in {Nil} |-> <<>>], h, {Nil})
    <3> DEFINE f == [n \in {Nil} |-> <<>>]
    <3>1. f = [n \in {Nil} |->
                 IF n = Nil THEN <<>>
                 ELSE Sense(h[n].class, h[n].name, [i \in DOMAIN h[n].kids |-> f[h[n].kids[i]]])]
      OBVIOUS
    <3> QED BY <3>1 DEF Meanings
  <2> QED BY <2>1, <2>2, <1>1
<1>3. Closed(h, U)
  <2>1. U \subseteq 0..Len(h) /\ Nil \in U BY <1>2
  <2>2. ASSUME NEW n \in U \ {Nil}, NEW i \in DOMAIN h[n].kids PROVE h[n].kids[i] \in U
    <3>1. PICK S \in P : n \in S BY <2>2
    <3>2. h[n].kids[i] \in S BY <2>2, <3>1 DEF Closed
    <3> QED BY <3>2
  <2> HIDE DEF U
  <2> QED BY <2>1, <2>2 DEF Closed
<1>4. ASSUME NEW S \in P, NEW f, Meanings(f, h, S), NEW n \in S PROVE e[n] = f[n]
  <2>1. \E v : \E Q \in P : \E q : n \in Q /\ Meanings(q, h, Q) /\ v = q[n] BY <1>4
  <2>2. PICK Q \in P : \E q : n \in Q /\ Meanings(q, h, Q) /\ tab(n) = q[n] BY <2>1
  <2>3. PICK q : n \in Q /\ Meanings(q, h, Q) /\ tab(n) = q[n] BY <2>2
  <2>4. Closed(h, S \cap Q) BY DEF Closed
  <2>5. Agree(h, h, S \cap Q)
    <3> HIDE DEF P
    <3> QED BY <2>4, <1>1 DEF Agree, Closed, Nil
  <2>6. S \cap Q \subseteq S /\ S \cap Q \subseteq Q /\ n \in S \cap Q BY <2>3
  <2>7. f[n] = q[n]
    <3> HIDE DEF P
    <3> QED BY <2>3, <2>4, <2>5, <2>6, <1>4, MeaningsAgree
  <2>8. n \in U BY <1>4
  <2> HIDE DEF P, U, tab
  <2> QED BY <2>3, <2>7, <2>8
<1>5. Meanings(e, h, U)
  <2> DEFINE w(n, f) == IF n = Nil THEN <<>>
                        ELSE Sense(h[n].class, h[n].name,
                                   [i \in DOMAIN h[n].kids |-> f[h[n].kids[i]]])
  <2>1. ASSUME NEW n \in U PROVE e[n] = w(n, e)
    <3>1. PICK S \in P : n \in S OBVIOUS
    <3>2. PICK f : Meanings(f, h, S) BY <3>1
    <3>3. e[n] = f[n]
      <4> HIDE DEF P, U, e
      <4> QED BY <3>1, <3>2, <1>4
    <3>4. f[n] = w(n, f)
      <4> HIDE DEF P, U, e
      <4> QED BY <3>1, <3>2 DEF Meanings
    <3>5. ASSUME n # Nil PROVE \A i \in DOMAIN h[n].kids : f[h[n].kids[i]] = e[h[n].kids[i]]
      <4>1. \A i \in DOMAIN h[n].kids : h[n].kids[i] \in S BY <3>1, <3>5 DEF Closed
      <4> HIDE DEF P, U, e
      <4> QED BY <4>1, <3>1, <3>2, <1>4
    <3> HIDE DEF P, U, e
    <3>6. w(n, f) = w(n, e)
      <4>1. CASE n = Nil BY <4>1
      <4>2. CASE n # Nil
        <5>1. [i \in DOMAIN h[n].kids |-> f[h[n].kids[i]]]
                = [i \in DOMAIN h[n].kids |-> e[h[n].kids[i]]]
          BY <4>2, <3>5
        <5> QED BY <5>1
      <4> QED BY <4>1, <4>2
    <3> QED BY <3>3, <3>4, <3>6
  <2>2. e = [n \in U |-> e[n]] OBVIOUS
  <2> HIDE DEF U, e
  <2>3. e = [n \in U |-> w(n, e)] BY <2>1, <2>2
  <2> QED BY <2>3 DEF Meanings
<1>6. U = 0..Len(h)
  <2> DEFINE D == (0..Len(h)) \ U
  <2> SUFFICES ASSUME D # {} PROVE FALSE
    <3>1. U \subseteq 0..Len(h) OBVIOUS
    <3> HIDE DEF U
    <3> QED BY <3>1
  <2>1. Nil \in U BY <1>2
  <2>2. D \subseteq DOMAIN h
    <3> HIDE DEF U
    <3> QED BY <2>1, <1>1 DEF Nil
  <2>3. PICK n \in D : \A i \in DOMAIN h[n].kids : h[n].kids[i] \notin D
    <3> HIDE DEF D
    <3> QED BY <2>2 DEF Acyclic
  <2>4. \A i \in DOMAIN h[n].kids : h[n].kids[i] \in U
    <3> HIDE DEF U
    <3>1. n \in DOMAIN h BY <2>2
    <3>2. \A i \in DOMAIN h[n].kids : h[n].kids[i] \in 0..Len(h) BY <3>1, HeapFacts
    <3> QED BY <2>3, <3>2
  <2> DEFINE V == U \cup {n}
             f == [m \in V |->
                     IF m = Nil THEN <<>>
                     ELSE Sense(h[m].class, h[m].name,
                                [i \in DOMAIN h[m].kids |-> e[h[m].kids[i]]])]
  <2>5. n \in 0..Len(h) /\ n \notin U /\ n # Nil BY <2>1
  <2>6. Closed(h, V)
    <3> HIDE DEF U
    <3> QED BY <1>3, <2>4, <2>5 DEF Closed
  <2> HIDE DEF P, U, e, tab
  <2>7. ASSUME NEW m \in U PROVE f[m] = e[m]
    BY <1>5 DEF Meanings
  <2>8. ASSUME NEW m \in V, m # Nil
        PROVE  [i \in DOMAIN h[m].kids |-> e[h[m].kids[i]]]
                 = [i \in DOMAIN h[m].kids |-> f[h[m].kids[i]]]
    <3>1. \A i \in DOMAIN h[m].kids : h[m].kids[i] \in U BY <2>8, <2>4, <1>3 DEF Closed
    <3> HIDE DEF f
    <3> QED BY <3>1, <2>7
  <2>9. Meanings(f, h, V)
    <3> DEFINE a(m) == IF m = Nil THEN <<>>
                       ELSE Sense(h[m].class, h[m].name,
                                  [i \in DOMAIN h[m].kids |-> e[h[m].kids[i]]])
               b(m) == IF m = Nil THEN <<>>
                       ELSE Sense(h[m].class, h[m].name,
                                  [i \in DOMAIN h[m].kids |-> f[h[m].kids[i]]])
    <3>1. \A m \in V : a(m) = b(m)
      <4> HIDE DEF f, V
      <4> QED BY <2>8
    <3>2. f = [m \in V |-> a(m)] OBVIOUS
    <3> HIDE DEF f, V
    <3>3. f = [m \in V |-> b(m)]
      <4> HIDE DEF a, b
      <4> QED BY <3>1, <3>2
    <3> QED BY <3>3 DEF Meanings
  <2>10. V \subseteq 0..Len(h) /\ n \in V BY <2>6 DEF Closed
  <2> HIDE DEF f, V
  <2>11. V \in P BY <2>6, <2>9, <2>10 DEF P
  <2> QED BY <2>5, <2>10, <2>11 DEF U
<1> HIDE DEF e, U, P, tab
<1> QED BY <1>5, <1>6

\* Meaning is the one for the root.
LEMMA MeaningIs ==
  ASSUME NEW h, IsHeap(h), Acyclic(h)
  PROVE  \E f : Meanings(f, h, 0..Len(h)) /\ \A n : Meaning(h, n) = f[n]
<1> DEFINE f == CHOOSE f : Meanings(f, h, 0..Len(h))
<1>1. Meanings(f, h, 0..Len(h)) BY MeaningsExist
<1>2. ASSUME NEW n PROVE Meaning(h, n) = f[n] BY DEF Meaning, Meanings
<1> QED BY <1>1, <1>2

\* What the definition of a meaning says.
LEMMA MeaningStep ==
  ASSUME NEW h, IsHeap(h), Acyclic(h)
  PROVE  /\ Meaning(h, Nil) = <<>>
         /\ \A n \in DOMAIN h :
              Meaning(h, n) = Sense(h[n].class, h[n].name,
                                 [i \in DOMAIN h[n].kids |-> Meaning(h, h[n].kids[i])])
<1>1. Len(h) \in Nat /\ DOMAIN h = 1..Len(h) /\ Nil \in 0..Len(h) /\ Nil = 0 BY DEF IsHeap, Nil
<1>2. PICK f : Meanings(f, h, 0..Len(h)) /\ \A n : Meaning(h, n) = f[n] BY MeaningIs
<1>3. f[Nil] = <<>> BY <1>1, <1>2 DEF Meanings
<1>4. ASSUME NEW n \in DOMAIN h
      PROVE  f[n] = Sense(h[n].class, h[n].name, [i \in DOMAIN h[n].kids |-> f[h[n].kids[i]]])
  <2>1. n \in 0..Len(h) /\ n # Nil BY <1>1
  <2> QED BY <1>2, <2>1 DEF Meanings
<1>5. ASSUME NEW n \in DOMAIN h
      PROVE  [i \in DOMAIN h[n].kids |-> f[h[n].kids[i]]]
               = [i \in DOMAIN h[n].kids |-> Meaning(h, h[n].kids[i])]
  BY <1>2
<1> QED BY <1>2, <1>3, <1>4, <1>5

\* Meanings stay what they are where a heap does.
LEMMA MeaningKept ==
  ASSUME NEW h, IsHeap(h), Acyclic(h), NEW g, IsHeap(g), Acyclic(g), Len(h) <= Len(g),
         NEW S, Closed(h, S), Agree(h, g, S)
  PROVE  \A n \in S : Meaning(g, n) = Meaning(h, n)
<1>1. Len(h) \in Nat /\ Len(g) \in Nat BY DEF IsHeap
<1>2. S \subseteq 0..Len(h) /\ S \subseteq 0..Len(g) BY <1>1 DEF Closed
<1>3. PICK f : Meanings(f, h, 0..Len(h)) /\ \A n : Meaning(h, n) = f[n] BY MeaningIs
<1>4. PICK e : Meanings(e, g, 0..Len(g)) /\ \A n : Meaning(g, n) = e[n] BY MeaningIs
<1> DEFINE T == 0..Len(h)
           R == 0..Len(g)
<1>5. S \subseteq T /\ S \subseteq R /\ Meanings(f, h, T) /\ Meanings(e, g, R) BY <1>2, <1>3, <1>4
<1> HIDE DEF T, R
<1>6. \A n \in S : f[n] = e[n] BY <1>5, MeaningsAgree
<1> QED BY <1>3, <1>4, <1>6

-----------------------------------------------------------------------------
(* A rule never changes what a node means.                                 *)

\* A negation is of one that is none itself.
Shaped(meaning) ==
  Headed(meaning, "Neg") =>
    meaning = <<"Neg", NoName, <<meaning[3][1]>>>> /\ ~ Headed(meaning[3][1], "Neg")

LEMMA TwiceNegated ==
  ASSUME NEW meaning, Shaped(meaning)
  PROVE  Shaped(Negation(meaning)) /\ Negation(Negation(meaning)) = meaning
<1>1. CASE Headed(meaning, "Neg")
  <2>1. PICK y : y = meaning[3][1] OBVIOUS
  <2>2. Negation(meaning) = y /\ ~ Headed(y, "Neg") /\ meaning = <<"Neg", NoName, <<y>>>>
    BY <1>1, <2>1 DEF Negation, Shaped
  <2>3. Negation(y) = <<"Neg", NoName, <<y>>>> BY <2>2 DEF Negation
  <2> QED BY <2>2, <2>3 DEF Shaped
<1>2. CASE ~ Headed(meaning, "Neg")
  <2>1. PICK z : z = <<"Neg", NoName, <<meaning>>>> OBVIOUS
  <2>2. Negation(meaning) = z BY <1>2, <2>1 DEF Negation
  <2>3. z[3][1] = meaning /\ z # <<>> /\ z[1] = "Neg" BY <2>1
  <2>4. Headed(z, "Neg") BY <2>3 DEF Headed
  <2>5. Negation(z) = meaning BY <2>3, <2>4 DEF Negation
  <2>6. Shaped(z) BY <1>2, <2>1, <2>3 DEF Shaped
  <2> QED BY <2>2, <2>5, <2>6
<1> QED BY <1>1, <1>2

LEMMA SenseShaped ==
  ASSUME NEW class \in Classes, NEW name, NEW below,
         class \in Unary => Shaped(below[1])
  PROVE  Shaped(Sense(class, name, below))
<1>1. CASE class \in {"Paren", "Neg"}
  <2>1. Shaped(below[1]) BY <1>1 DEF Unary
  <2>2. Sense(class, name, below) \in {below[1], Negation(below[1])} BY <1>1 DEF Sense
  <2> QED BY <2>1, <2>2, TwiceNegated
<1>2. CASE class \notin {"Paren", "Neg"}
  <2>1. Sense(class, name, below) \in {<<>>, <<class, name, below>>} BY <1>2 DEF Sense
  <2>2. ~ Headed(<<>>, "Neg") BY DEF Headed
  <2>3. ~ Headed(<<class, name, below>>, "Neg") BY <1>2 DEF Headed
  <2> QED BY <2>1, <2>2, <2>3 DEF Shaped
<1> QED BY <1>1, <1>2

LEMMA MeaningShaped ==
  ASSUME NEW h, IsHeap(h), Acyclic(h)
  PROVE  \A n \in 0..Len(h) : Shaped(Meaning(h, n))
<1> DEFINE bad == {n \in DOMAIN h : ~ Shaped(Meaning(h, n))}
<1>1. Len(h) \in Nat /\ DOMAIN h = 1..Len(h) BY DEF IsHeap
<1>2. Shaped(Meaning(h, Nil))
  <2>1. Meaning(h, Nil) = <<>> BY MeaningStep
  <2> QED BY <2>1 DEF Shaped, Headed
<1>3. ASSUME bad # {} PROVE FALSE
  <2>1. PICK n \in bad : \A i \in DOMAIN h[n].kids : h[n].kids[i] \notin bad
    <3>1. bad \in SUBSET DOMAIN h OBVIOUS
    <3> HIDE DEF bad
    <3> QED BY <1>3, <3>1 DEF Acyclic
  <2>2. n \in DOMAIN h /\ ~ Shaped(Meaning(h, n)) OBVIOUS
  <2>3. PICK below : below = [i \in DOMAIN h[n].kids |-> Meaning(h, h[n].kids[i])] OBVIOUS
  <2>4. Meaning(h, n) = Sense(h[n].class, h[n].name, below) BY <2>2, <2>3, MeaningStep
  <2>5. h[n].class \in Classes BY <2>2, HeapFacts DEF Nodes
  <2>6. ASSUME h[n].class \in Unary PROVE Shaped(below[1])
    <3>1. 1 \in DOMAIN h[n].kids /\ h[n].kids[1] \in 0..Len(h) BY <2>2, <2>6, HeapFacts DEF This
    <3>2. below[1] = Meaning(h, h[n].kids[1]) BY <2>3, <3>1
    <3>3. h[n].kids[1] \notin bad BY <2>1, <3>1
    <3>4. h[n].kids[1] = Nil \/ h[n].kids[1] \in DOMAIN h BY <1>1, <3>1 DEF Nil
    <3> QED BY <1>2, <3>2, <3>3, <3>4
  <2> HIDE DEF bad
  <2> QED BY <2>2, <2>4, <2>5, <2>6, SenseShaped
<1>4. \A n \in DOMAIN h : Shaped(Meaning(h, n)) BY <1>3
<1>5. \A n \in 0..Len(h) : n = Nil \/ n \in DOMAIN h BY <1>1 DEF Nil
<1> QED BY <1>2, <1>4, <1>5

\* What the rules are about, node by node.
LEMMA MeaningOf ==
  ASSUME NEW h, IsHeap(h), Acyclic(h), NEW n \in DOMAIN h
  PROVE  /\ h[n].class = "Paren" => Meaning(h, n) = Meaning(h, This(h, n))
         /\ h[n].class = "Neg" => Meaning(h, n) = Negation(Meaning(h, This(h, n)))
         /\ h[n].class = "Where" /\ ClassOf(h, This(h, n)) = "True" => Meaning(h, n) = <<>>
<1>1. PICK below : below = [i \in DOMAIN h[n].kids |-> Meaning(h, h[n].kids[i])] OBVIOUS
<1>2. Meaning(h, n) = Sense(h[n].class, h[n].name, below) BY <1>1, MeaningStep
<1>3. ASSUME h[n].class \in {"Paren", "Neg", "Where"}
      PROVE  below[1] = Meaning(h, This(h, n))
  <2>1. 1 \in DOMAIN h[n].kids BY <1>3, HeapFacts DEF Unary
  <2> QED BY <1>1, <2>1 DEF This
<1>4. ASSUME NEW m \in DOMAIN h, h[m].class = "True" PROVE Headed(Meaning(h, m), "True")
  <2>1. PICK under : under = [i \in DOMAIN h[m].kids |-> Meaning(h, h[m].kids[i])] OBVIOUS
  <2>2. Meaning(h, m) = Sense("True", h[m].name, under) BY <1>4, <2>1, MeaningStep
  <2>3. Meaning(h, m) = <<"True", h[m].name, under>> BY <2>2 DEF Sense
  <2> QED BY <2>3 DEF Headed
<1>5. ASSUME h[n].class = "Where", ClassOf(h, This(h, n)) = "True" PROVE Meaning(h, n) = <<>>
  <2>1. This(h, n) \in DOMAIN h /\ h[This(h, n)].class = "True" BY <1>5 DEF ClassOf
  <2>2. Headed(below[1], "True") BY <1>3, <1>4, <1>5, <2>1
  <2> QED BY <1>2, <1>5, <2>2 DEF Sense
<1> QED BY <1>2, <1>3, <1>5 DEF Sense

\* Whatever a rule makes of a node means what the node does.
LEMMA SimplifiedMeans ==
  ASSUME NEW h, IsHeap(h), Acyclic(h), NEW n \in DOMAIN h, NEW holder
  PROVE  Meaning(h, Simplified(h, n, holder)) = Meaning(h, n)
<1>1. ASSUME NEW m PROVE Meaning(h, Unparenthesised(h, m, holder)) = Meaning(h, m)
  <2>1. CASE ClassOf(h, m) = "Paren"
    <3>1. m \in DOMAIN h /\ h[m].class = "Paren" BY <2>1 DEF ClassOf
    <3> QED BY <3>1, MeaningOf DEF Unparenthesised
  <2>2. CASE ClassOf(h, m) # "Paren" BY <2>2 DEF Unparenthesised
  <2> QED BY <2>1, <2>2
<1>2. Meaning(h, Unnegated(h, n)) = Meaning(h, n)
  <2> DEFINE this == This(h, n)
             inner == IF ClassOf(h, this) = "Paren" THEN This(h, this) ELSE this
  <2>1. CASE h[n].class = "Neg" /\ ClassOf(h, inner) = "Neg"
    <3>1. PICK m, x : m = inner /\ x = This(h, inner) OBVIOUS
    <3>2. Unnegated(h, n) = x BY <2>1, <3>1 DEF Unnegated
    <3>3. m \in DOMAIN h /\ h[m].class = "Neg" /\ x = This(h, m)
      BY <2>1, <3>1 DEF ClassOf
    <3>4. Meaning(h, this) = Meaning(h, m)
      <4>1. CASE ClassOf(h, this) = "Paren"
        <5>1. this \in DOMAIN h /\ h[this].class = "Paren" BY <4>1 DEF ClassOf
        <5> QED BY <3>1, <4>1, <5>1, MeaningOf
      <4>2. CASE ClassOf(h, this) # "Paren" BY <3>1, <4>2
      <4> QED BY <4>1, <4>2
    <3>5. Meaning(h, m) = Negation(Meaning(h, x)) BY <3>3, MeaningOf
    <3>6. Meaning(h, n) = Negation(Meaning(h, this)) BY <2>1, MeaningOf
    <3>7. Shaped(Meaning(h, x))
      <4>1. x \in 0..Len(h) BY <3>3, HeapFacts DEF Unary
      <4> QED BY <4>1, MeaningShaped
    <3> HIDE DEF this, inner
    <3> QED BY <3>2, <3>4, <3>5, <3>6, <3>7, TwiceNegated
  <2>2. CASE ~ (h[n].class = "Neg" /\ ClassOf(h, inner) = "Neg")
    <3>1. Unnegated(h, n) = n BY <2>2 DEF Unnegated
    <3> QED BY <3>1
  <2> QED BY <2>1, <2>2
<1>3. CASE h[n].class = "Where" /\ holder # "Filter" /\ ClassOf(h, This(h, n)) = "True"
  <2>1. Simplified(h, n, holder) = Nil BY <1>3 DEF Simplified
  <2>2. Meaning(h, Nil) = <<>> BY MeaningStep
  <2> QED BY <1>3, <2>1, <2>2, MeaningOf
<1>4. CASE ~ (h[n].class = "Where" /\ holder # "Filter" /\ ClassOf(h, This(h, n)) = "True")
  <2>1. Simplified(h, n, holder) = Unparenthesised(h, Unnegated(h, n), holder)
    BY <1>4 DEF Simplified
  <2> QED BY <1>1, <1>2, <2>1
<1> QED BY <1>3, <1>4

-----------------------------------------------------------------------------
(* What a pass leaves nothing to do at.                                    *)

Negated(h, n) ==
  IF ClassOf(h, This(h, n)) = "Paren" THEN This(h, This(h, n)) ELSE This(h, n)

\* What the three rules look for.
FiltersNothing(h, n) == h[n].class = "Where" /\ ClassOf(h, This(h, n)) = "True"
NegatesTwice(h, n) == h[n].class = "Neg" /\ ClassOf(h, Negated(h, n)) = "Neg"
GroupsNothing(h, n, holder) ==
  h[n].class = "Paren" /\ ~ Groups(ClassOf(h, This(h, n)), holder)

Plain(h, n, holder) ==
  ~ FiltersNothing(h, n) /\ ~ NegatesTwice(h, n) /\ ~ GroupsNothing(h, n, holder)

LEMMA PlainStays ==
  ASSUME NEW h, NEW n \in DOMAIN h, NEW holder, Plain(h, n, holder)
  PROVE  Simplified(h, n, holder) = n
<1>1. Unnegated(h, n) = n BY DEF Plain, NegatesTwice, Negated, Unnegated
<1>2. ClassOf(h, n) = h[n].class BY DEF ClassOf
<1>3. Unparenthesised(h, n, holder) = n BY <1>2 DEF Plain, GroupsNothing, Unparenthesised
<1> QED BY <1>1, <1>3 DEF Simplified, Plain, FiltersNothing

\* A slot that is done, where o nodes are old and G are finished: nothing, or a
\* finished node that is simple there; the amount of an INTERVAL is old.
SlotDone(h, o, G, n, i) ==
  LET kid == h[n].kids[i] IN
  IF h[n].class = "Interval" /\ i = 1 THEN kid \in 0..o
  ELSE kid = Nil \/ (kid \in G /\ Plain(h, kid, h[n].class))

\* The nodes that were there hold each other, and what is finished is simple.
Done(h, o, G) ==
  /\ o \in 0..Len(h) /\ \A n \in G : n \in DOMAIN h /\ n > o
  /\ \A n \in 1..o : \A i \in DOMAIN h[n].kids : h[n].kids[i] \in 0..o
  /\ \A n \in G : \A i \in DOMAIN h[n].kids : SlotDone(h, o, G, n, i)

LEMMA ThisDone ==
  ASSUME NEW h, IsHeap(h), NEW o, NEW G, NEW n \in DOMAIN h, h[n].class \in {"Paren", "Neg"},
         \A i \in DOMAIN h[n].kids : SlotDone(h, o, G, n, i)
  PROVE  This(h, n) = Nil \/ (This(h, n) \in G /\ Plain(h, This(h, n), h[n].class))
<1>1. 1 \in DOMAIN h[n].kids BY HeapFacts DEF Unary
<1>2. SlotDone(h, o, G, n, 1) BY <1>1
<1> QED BY <1>2 DEF SlotDone, This

\* Without its parentheses a simple node is simple, wherever they stood.
LEMMA UnparenthesisedPlain ==
  ASSUME NEW h, IsHeap(h), NEW o, NEW G, NEW n \in DOMAIN h,
         \A i \in DOMAIN h[n].kids : SlotDone(h, o, G, n, i), NEW holder,
         ~ FiltersNothing(h, n), ~ NegatesTwice(h, n)
  PROVE  LET s == Unparenthesised(h, n, holder) IN
           s = Nil \/ ((s \in G \/ s = n) /\ Plain(h, s, holder))
<1>1. PICK s : s = Unparenthesised(h, n, holder) OBVIOUS
<1>2. ClassOf(h, n) = h[n].class BY DEF ClassOf
<1>3. CASE GroupsNothing(h, n, holder)
  <2>1. s = This(h, n) /\ h[n].class = "Paren"
    BY <1>1, <1>2, <1>3 DEF GroupsNothing, Unparenthesised
  <2>2. s = Nil \/ (s \in G /\ Plain(h, s, "Paren")) BY <2>1, ThisDone
  <2>3. ASSUME Plain(h, s, "Paren") PROVE Plain(h, s, holder)
    <3>1. ASSUME GroupsNothing(h, s, holder) PROVE FALSE
      <4>1. PICK c : c = ClassOf(h, This(h, s)) OBVIOUS
      <4>2. ~ Groups(c, holder) /\ Groups(c, "Paren")
        BY <2>3, <3>1, <4>1 DEF Plain, GroupsNothing
      <4>3. c \in {"none", "Select"} BY <4>2 DEF Groups, Conditions
      <4> QED BY <4>2, <4>3 DEF Groups
    <3> QED BY <2>3, <3>1 DEF Plain
  <2> QED BY <1>1, <2>2, <2>3
<1>4. CASE ~ GroupsNothing(h, n, holder)
  <2>1. s = n BY <1>1, <1>2, <1>4 DEF GroupsNothing, Unparenthesised
  <2> QED BY <1>1, <1>4, <2>1 DEF Plain
<1> QED BY <1>3, <1>4

\* What a node over simple ones becomes is nothing, or simple.
LEMMA SimplifiedPlain ==
  ASSUME NEW h, IsHeap(h), NEW o, NEW G, Done(h, o, G), NEW n \in DOMAIN h,
         \A i \in DOMAIN h[n].kids : SlotDone(h, o, G, n, i), NEW holder, holder # "Filter"
  PROVE  LET s == Simplified(h, n, holder) IN
           s = Nil \/ ((s \in G \/ s = n) /\ Plain(h, s, holder))
<1>1. PICK s : s = Simplified(h, n, holder) OBVIOUS
<1>2. CASE FiltersNothing(h, n)
  <2>1. s = Nil BY <1>1, <1>2 DEF Simplified, FiltersNothing
  <2> QED BY <1>1, <2>1
<1>3. CASE ~ FiltersNothing(h, n) /\ NegatesTwice(h, n)
  <2>1. PICK y, x : y = This(h, n) /\ x = This(h, Negated(h, n)) OBVIOUS
  <2>2. Unnegated(h, n) = x BY <1>3, <2>1 DEF NegatesTwice, Negated, Unnegated
  <2>3. s = Unparenthesised(h, x, holder)
    BY <1>1, <1>3, <2>2 DEF Simplified, FiltersNothing
  <2>4. h[n].class = "Neg" /\ ClassOf(h, Negated(h, n)) = "Neg" BY <1>3 DEF NegatesTwice
  <2>5. y = Nil \/ (y \in G /\ Plain(h, y, "Neg")) BY <2>1, <2>4, ThisDone
  <2>6. Nil \notin DOMAIN h BY DEF IsHeap, Nil
  <2>7. ClassOf(h, y) # "Paren"
    <3>1. ASSUME ClassOf(h, y) = "Paren" PROVE FALSE
      <4>1. y \in DOMAIN h /\ h[y].class = "Paren" BY <3>1 DEF ClassOf
      <4>2. ClassOf(h, This(h, y)) = "Neg" BY <2>1, <2>4, <3>1 DEF Negated
      <4>3. ~ Groups("Neg", "Neg") BY DEF Groups
      <4>4. GroupsNothing(h, y, "Neg") BY <4>1, <4>2, <4>3 DEF GroupsNothing
      <4> QED BY <2>5, <2>6, <4>1, <4>4 DEF Plain
    <3> QED BY <3>1
  <2>8. Negated(h, n) = y BY <2>1, <2>7 DEF Negated
  <2>9. y \in DOMAIN h /\ h[y].class = "Neg" /\ x = This(h, y)
    BY <2>1, <2>4, <2>8 DEF ClassOf
  <2>10. y \in G BY <2>5, <2>6, <2>9
  <2>11. x = Nil \/ (x \in G /\ Plain(h, x, "Neg"))
    <3>1. \A i \in DOMAIN h[y].kids : SlotDone(h, o, G, y, i) BY <2>10 DEF Done
    <3> QED BY <2>9, <3>1, ThisDone
  <2>12. CASE x = Nil
    <3>1. ClassOf(h, x) # "Paren" BY <2>6, <2>12 DEF ClassOf
    <3> QED BY <1>1, <2>3, <2>12, <3>1 DEF Unparenthesised
  <2>13. CASE x # Nil
    <3>1. x \in G /\ ~ FiltersNothing(h, x) /\ ~ NegatesTwice(h, x)
      BY <2>11, <2>13 DEF Plain
    <3>2. x \in DOMAIN h /\ \A i \in DOMAIN h[x].kids : SlotDone(h, o, G, x, i)
      BY <3>1 DEF Done
    <3>3. LET u == Unparenthesised(h, x, holder) IN
          u = Nil \/ ((u \in G \/ u = x) /\ Plain(h, u, holder))
      BY <3>1, <3>2, UnparenthesisedPlain
    <3> QED BY <1>1, <2>3, <3>1, <3>3
  <2> QED BY <2>12, <2>13
<1>4. CASE ~ FiltersNothing(h, n) /\ ~ NegatesTwice(h, n)
  <2>1. Unnegated(h, n) = n BY <1>4 DEF NegatesTwice, Negated, Unnegated
  <2>2. s = Unparenthesised(h, n, holder) BY <1>1, <1>4, <2>1 DEF Simplified, FiltersNothing
  <2>3. LET u == Unparenthesised(h, n, holder) IN
        u = Nil \/ ((u \in G \/ u = n) /\ Plain(h, u, holder))
    BY <1>4, UnparenthesisedPlain
  <2> QED BY <1>1, <2>2, <2>3
<1> QED BY <1>2, <1>3, <1>4

\* A node is as simple in a heap that agrees on what is under it.
LEMMA PlainKept ==
  ASSUME NEW h, IsHeap(h), NEW g, IsHeap(g), NEW S, Closed(h, S), Agree(h, g, S),
         NEW n \in S, n # Nil, NEW holder, Plain(h, n, holder)
  PROVE  Plain(g, n, holder)
<1>1. Nil \notin DOMAIN h /\ Nil \notin DOMAIN g BY DEF IsHeap, Nil
<1>2. ASSUME NEW m \in S PROVE ClassOf(g, m) = ClassOf(h, m)
  <2>1. CASE m = Nil BY <1>1, <2>1 DEF ClassOf
  <2>2. CASE m # Nil
    <3>1. m \in DOMAIN h BY <2>2, ClosedNode
    <3>2. m \in DOMAIN g /\ g[m].class = h[m].class BY <2>2 DEF Agree
    <3> QED BY <3>1, <3>2 DEF ClassOf
  <2> QED BY <2>1, <2>2
<1>3. ASSUME NEW m \in S, ClassOf(h, m) \in Unary
      PROVE  This(g, m) = This(h, m) /\ This(h, m) \in S
  <2>1. m # Nil /\ m \in DOMAIN h /\ h[m].class \in Unary
    BY <1>1, <1>3 DEF ClassOf, Unary
  <2>2. 1 \in DOMAIN h[m].kids BY <2>1, HeapFacts
  <2>3. g[m].kids = h[m].kids BY <2>1 DEF Agree
  <2>4. h[m].kids[1] \in S BY <2>1, <2>2, ClosedNode
  <2> QED BY <2>3, <2>4 DEF This
<1>4. n \in DOMAIN h /\ n \in DOMAIN g /\ g[n].class = h[n].class
      /\ ClassOf(h, n) = h[n].class
  <2>1. n \in DOMAIN h BY ClosedNode
  <2> QED BY <2>1 DEF Agree, ClassOf
<1>5. ASSUME h[n].class \in Unary
      PROVE  /\ This(g, n) = This(h, n) /\ This(h, n) \in S
             /\ ClassOf(g, This(h, n)) = ClassOf(h, This(h, n))
  BY <1>2, <1>3, <1>4, <1>5
<1>6. ~ FiltersNothing(g, n)
  BY <1>4, <1>5 DEF Plain, FiltersNothing, Unary
<1>7. ~ GroupsNothing(g, n, holder)
  BY <1>4, <1>5 DEF Plain, GroupsNothing, Unary
<1>8. ~ NegatesTwice(g, n)
  <2>1. ASSUME h[n].class = "Neg" PROVE ClassOf(g, Negated(g, n)) = ClassOf(h, Negated(h, n))
    <3>1. PICK m : m = This(h, n) OBVIOUS
    <3>2. /\ This(g, n) = m /\ m \in S /\ ClassOf(g, m) = ClassOf(h, m)
      BY <1>5, <2>1, <3>1 DEF Unary
    <3>3. CASE ClassOf(h, m) = "Paren"
      <4>1. This(g, m) = This(h, m) /\ This(h, m) \in S BY <1>3, <3>2, <3>3 DEF Unary
      <4>2. Negated(g, n) = This(h, m) /\ Negated(h, n) = This(h, m)
        BY <3>1, <3>2, <3>3, <4>1 DEF Negated
      <4> QED BY <1>2, <4>1, <4>2
    <3>4. CASE ClassOf(h, m) # "Paren"
      <4>1. Negated(g, n) = m /\ Negated(h, n) = m BY <3>1, <3>2, <3>4 DEF Negated
      <4> QED BY <3>2, <4>1
    <3> QED BY <3>3, <3>4
  <2> QED BY <1>4, <2>1 DEF Plain, NegatesTwice
<1> QED BY <1>6, <1>7, <1>8 DEF Plain

\* Nodes of one term hold nodes of one term.
LEMMA TermsAlike ==
  ASSUME NEW h, IsHeap(h), Acyclic(h), NEW a \in 0..Len(h), NEW b \in 0..Len(h),
         Term(h, a) = Term(h, b)
  PROVE  /\ ClassOf(h, a) = ClassOf(h, b)
         /\ ClassOf(h, a) \in Unary =>
              /\ This(h, a) \in 0..Len(h) /\ This(h, b) \in 0..Len(h)
              /\ Term(h, This(h, a)) = Term(h, This(h, b))
<1>1. Len(h) \in Nat /\ DOMAIN h = 1..Len(h) /\ Nil = 0 BY DEF IsHeap, Nil
<1>2. ASSUME NEW n \in DOMAIN h
      PROVE  \E kids : /\ Term(h, n) = <<h[n].class, h[n].name, kids>>
                       /\ kids = [i \in DOMAIN h[n].kids |-> Term(h, h[n].kids[i])]
  BY TermStep
<1>3. Term(h, Nil) = <<>> BY TermStep
<1>4. CASE a = Nil
  <2>1. b = Nil
    <3>1. ASSUME b \in DOMAIN h PROVE FALSE
      <4>1. PICK kids : Term(h, b) = <<h[b].class, h[b].name, kids>> BY <1>2, <3>1
      <4> QED BY <1>3, <1>4, <4>1
    <3> QED BY <1>1, <3>1
  <2>2. ClassOf(h, a) = "none" BY <1>1, <1>4 DEF ClassOf
  <2> QED BY <1>4, <2>1, <2>2 DEF Unary
<1>5. CASE a # Nil
  <2>1. a \in DOMAIN h BY <1>1, <1>5
  <2>2. PICK ka : /\ Term(h, a) = <<h[a].class, h[a].name, ka>>
                  /\ ka = [i \in DOMAIN h[a].kids |-> Term(h, h[a].kids[i])]
    BY <1>2, <2>1
  <2>3. b \in DOMAIN h
    <3>1. PICK v, c, m : v = Term(h, a) /\ c = h[a].class /\ m = h[a].name OBVIOUS
    <3>2. v = <<c, m, ka>> BY <2>2, <3>1
    <3>3. v # <<>> BY <3>2
    <3>4. v = Term(h, b) BY <3>1
    <3> QED BY <1>1, <1>3, <3>3, <3>4
  <2>4. PICK kb : /\ Term(h, b) = <<h[b].class, h[b].name, kb>>
                  /\ kb = [i \in DOMAIN h[b].kids |-> Term(h, h[b].kids[i])]
    BY <1>2, <2>3
  <2>5. h[a].class = h[b].class /\ ka = kb
    <3>1. PICK v, c, m, d, q : /\ v = Term(h, a) /\ c = h[a].class /\ m = h[a].name
                              /\ d = h[b].class /\ q = h[b].name
      OBVIOUS
    <3>2. v = <<c, m, ka>> BY <2>2, <3>1
    <3>3. v = <<d, q, kb>> BY <2>4, <3>1
    <3>4. c = d /\ ka = kb BY <3>2, <3>3
    <3> QED BY <3>1, <3>4
  <2>6. ClassOf(h, a) = h[a].class /\ ClassOf(h, b) = h[b].class BY <2>1, <2>3 DEF ClassOf
  <2>7. ASSUME h[a].class \in Unary
        PROVE  /\ This(h, a) \in 0..Len(h) /\ This(h, b) \in 0..Len(h)
               /\ Term(h, This(h, a)) = Term(h, This(h, b))
    <3>1. 1 \in DOMAIN h[a].kids /\ 1 \in DOMAIN h[b].kids BY <2>1, <2>3, <2>5, <2>7, HeapFacts
    <3>2. ka[1] = Term(h, This(h, a)) BY <2>2, <3>1 DEF This
    <3>3. kb[1] = Term(h, This(h, b)) BY <2>4, <3>1 DEF This
    <3>4. This(h, a) \in 0..Len(h) /\ This(h, b) \in 0..Len(h)
      BY <2>1, <2>3, <2>5, <2>7, HeapFacts
    <3> QED BY <2>5, <3>2, <3>3, <3>4
  <2> QED BY <2>5, <2>6, <2>7
<1> QED BY <1>4, <1>5

\* A node like a simple one is simple.
LEMMA PlainAlike ==
  ASSUME NEW h, IsHeap(h), Acyclic(h), NEW a \in DOMAIN h, NEW b \in DOMAIN h,
         Term(h, a) = Term(h, b), NEW holder, Plain(h, a, holder)
  PROVE  Plain(h, b, holder)
<1>1. a \in 0..Len(h) /\ b \in 0..Len(h) /\ ClassOf(h, a) = h[a].class
      /\ ClassOf(h, b) = h[b].class
  BY DEF IsHeap, ClassOf
<1>2. h[a].class = h[b].class BY <1>1, TermsAlike
<1>3. ASSUME h[a].class \in {"Paren", "Where", "Neg"}
      PROVE  /\ This(h, a) \in 0..Len(h) /\ This(h, b) \in 0..Len(h)
             /\ Term(h, This(h, a)) = Term(h, This(h, b))
             /\ ClassOf(h, This(h, a)) = ClassOf(h, This(h, b))
  <2>1. ClassOf(h, a) \in Unary BY <1>1, <1>3 DEF Unary
  <2>2. /\ This(h, a) \in 0..Len(h) /\ This(h, b) \in 0..Len(h)
        /\ Term(h, This(h, a)) = Term(h, This(h, b))
    BY <1>1, <2>1, TermsAlike
  <2> QED BY <2>2, TermsAlike
<1>4. ~ FiltersNothing(h, b) /\ ~ GroupsNothing(h, b, holder)
  BY <1>2, <1>3 DEF Plain, FiltersNothing, GroupsNothing
<1>5. ~ NegatesTwice(h, b)
  <2>1. ASSUME h[a].class = "Neg" PROVE ClassOf(h, Negated(h, a)) = ClassOf(h, Negated(h, b))
    <3>1. PICK c, d : c = This(h, a) /\ d = This(h, b) OBVIOUS
    <3>2. /\ c \in 0..Len(h) /\ d \in 0..Len(h) /\ Term(h, c) = Term(h, d)
          /\ ClassOf(h, c) = ClassOf(h, d)
      BY <1>3, <2>1, <3>1
    <3>3. CASE ClassOf(h, c) = "Paren"
      <4>1. ClassOf(h, c) \in Unary BY <3>3 DEF Unary
      <4>2. /\ This(h, c) \in 0..Len(h) /\ This(h, d) \in 0..Len(h)
            /\ Term(h, This(h, c)) = Term(h, This(h, d))
        BY <3>2, <4>1, TermsAlike
      <4>3. ClassOf(h, This(h, c)) = ClassOf(h, This(h, d)) BY <4>2, TermsAlike
      <4> QED BY <3>1, <3>2, <3>3, <4>3 DEF Negated
    <3>4. CASE ClassOf(h, c) # "Paren"
      <4>1. Negated(h, a) = c /\ Negated(h, b) = d BY <3>1, <3>2, <3>4 DEF Negated
      <4> QED BY <3>2, <4>1
    <3> QED BY <3>3, <3>4
  <2> QED BY <1>2, <2>1 DEF Plain, NegatesTwice
<1> QED BY <1>4, <1>5 DEF Plain

-----------------------------------------------------------------------------
(* A pass of Simplify, the first or the one again, which copies what the   *)
(* first returned.                                                         *)

\* The nodes a frame reads: those that were there, and those that are finished.
Known(o, G) == (0..o) \cup G

\* A frame copies a node that is known into one that is not; the slots before the
\* next one are done, and the others as they were.
Working(h, o, G, again, f) ==
  /\ f.to \notin Known(o, G)
  /\ IF again THEN f.from \in G ELSE f.from \in 1..o
  /\ h[f.to].class = h[f.from].class /\ h[f.to].name = h[f.from].name
  /\ DOMAIN h[f.to].kids = DOMAIN h[f.from].kids
  /\ \A j \in DOMAIN h[f.from].kids :
       /\ Meaning(h, h[f.to].kids[j]) = Meaning(h, h[f.from].kids[j])
       /\ again => Term(h, h[f.to].kids[j]) = Term(h, h[f.from].kids[j])
       /\ IF j < f.next THEN SlotDone(h, o, G, f.to, j)
          ELSE h[f.to].kids[j] = h[f.from].kids[j]

\* The frame above copies the child this one is at.
Descends(h, low, high) ==
  /\ low.next \in DOMAIN h[low.from].kids /\ high.from = h[low.from].kids[low.next]
  /\ high.from # Nil /\ ~ (h[low.from].class = "Interval" /\ low.next = 1)

HolderAt(h, s, i) == IF i = 1 THEN "none" ELSE h[s[i - 1].to].class

Passing(h, s, l, o, G, again, r) ==
  /\ Done(h, o, G)
  /\ s[1].from = r
  /\ \A i \in 1..l : Working(h, o, G, again, s[i])
  /\ \A i \in 1..(l - 1) : Descends(h, s[i], s[i + 1])
  /\ again => \A i \in 1..l : Plain(h, s[i].from, HolderAt(h, s, i))

SimpleIf(again, h, n, holder) == again => Plain(h, n, holder)

LEMMA DoneClosed ==
  ASSUME NEW h, IsHeap(h), NEW o, NEW G, Done(h, o, G)
  PROVE  /\ Closed(h, Known(o, G)) /\ o \in Nat /\ Nil \in 0..o
         /\ 0..o \subseteq 0..Len(h) /\ 1..o \subseteq DOMAIN h /\ G \subseteq DOMAIN h
         /\ Nil \notin G /\ Nil \notin 1..o /\ 1..o \subseteq 0..o
<1>1. /\ Len(h) \in Nat /\ DOMAIN h = 1..Len(h) /\ Nil = 0
      /\ o \in Nat /\ o <= Len(h)
  BY DEF IsHeap, Nil, Done
<1>2. G \subseteq DOMAIN h BY DEF Done
<1>3. ASSUME NEW n \in Known(o, G) \ {Nil}, NEW i \in DOMAIN h[n].kids
      PROVE  h[n].kids[i] \in Known(o, G)
  <2>1. CASE n \in G
    <3>1. SlotDone(h, o, G, n, i) BY <2>1 DEF Done
    <3>2. Nil \in 0..o BY <1>1
    <3> QED BY <3>1, <3>2 DEF SlotDone, Known
  <2>2. CASE n \notin G
    <3>1. n \in 1..o BY <1>1, <1>3, <2>2 DEF Known
    <3>2. h[n].kids[i] \in 0..o BY <3>1 DEF Done
    <3> QED BY <3>2 DEF Known
  <2> QED BY <2>1, <2>2
<1>4. Nil \in 0..o /\ 0..o \subseteq 0..Len(h) /\ 1..o \subseteq DOMAIN h BY <1>1
<1>5. Known(o, G) \subseteq 0..Len(h) BY <1>1, <1>2, <1>4 DEF Known
<1>6. Nil \in Known(o, G) BY <1>4 DEF Known
<1>7. Nil \notin G /\ Nil \notin 1..o /\ 1..o \subseteq 0..o BY <1>1, <1>2
<1> QED BY <1>1, <1>2, <1>3, <1>4, <1>5, <1>6, <1>7 DEF Closed

\* What is done stays done where the known nodes do.
LEMMA SlotKept ==
  ASSUME NEW h, IsHeap(h), NEW g, IsHeap(g), NEW o, NEW G, Done(h, o, G),
         Agree(h, g, Known(o, G)), NEW S, G \subseteq S, NEW n, NEW i,
         g[n].class = h[n].class, g[n].kids[i] = h[n].kids[i], SlotDone(h, o, G, n, i)
  PROVE  SlotDone(g, o, S, n, i)
<1>1. PICK k, c : k = h[n].kids[i] /\ c = h[n].class OBVIOUS
<1>2. CASE c = "Interval" /\ i = 1 BY <1>1, <1>2 DEF SlotDone
<1>3. CASE ~ (c = "Interval" /\ i = 1)
  <2>1. k = Nil \/ (k \in G /\ Plain(h, k, c)) BY <1>1, <1>3 DEF SlotDone
  <2>2. ASSUME k \in G, Plain(h, k, c) PROVE Plain(g, k, c)
    <3>1. Closed(h, Known(o, G)) /\ k # Nil /\ k \in Known(o, G)
      BY <2>2, DoneClosed DEF Known
    <3> QED BY <2>2, <3>1, PlainKept
  <2>3. k = Nil \/ (k \in S /\ Plain(g, k, c)) BY <2>1, <2>2
  <2> QED BY <1>1, <1>3, <2>3 DEF SlotDone
<1> QED BY <1>2, <1>3

LEMMA DoneKept ==
  ASSUME NEW h, IsHeap(h), NEW g, IsHeap(g), Len(h) <= Len(g), NEW o, NEW G, Done(h, o, G),
         Agree(h, g, Known(o, G))
  PROVE  Done(g, o, G)
<1>1. /\ Nil \notin G /\ Nil \notin 1..o /\ 1..o \subseteq Known(o, G) /\ G \subseteq Known(o, G)
      /\ o \in Nat
  BY DoneClosed DEF Known
<1>2. Len(h) \in Nat /\ Len(g) \in Nat /\ o \in 0..Len(h) BY DEF IsHeap, Done
<1>3. o \in 0..Len(g) BY <1>2
<1>4. \A n \in G : n \in DOMAIN g /\ n > o BY <1>1 DEF Agree, Done
<1>5. \A n \in 1..o : \A i \in DOMAIN g[n].kids : g[n].kids[i] \in 0..o
  BY <1>1 DEF Agree, Done
<1>6. ASSUME NEW n \in G, NEW i \in DOMAIN g[n].kids PROVE SlotDone(g, o, G, n, i)
  <2>1. g[n].class = h[n].class /\ g[n].kids = h[n].kids BY <1>1 DEF Agree
  <2>2. SlotDone(h, o, G, n, i) BY <2>1 DEF Done
  <2> QED BY <2>1, <2>2, SlotKept
<1> QED BY <1>3, <1>4, <1>5, <1>6 DEF Done

\* A slot of a frame holds a known node.
LEMMA WorkingKnown ==
  ASSUME NEW h, IsHeap(h), NEW o, NEW G, Done(h, o, G), NEW again, NEW f,
         Working(h, o, G, again, f)
  PROVE  /\ f.from \in Known(o, G) /\ f.from # Nil /\ f.from \in DOMAIN h /\ f.from # f.to
         /\ \A j \in DOMAIN h[f.from].kids :
              h[f.from].kids[j] \in Known(o, G) /\ h[f.to].kids[j] \in Known(o, G)
<1>1. f.from \in Known(o, G) /\ f.from # Nil /\ f.from \in DOMAIN h /\ f.from # f.to
  <2>1. f.from \in G \/ f.from \in 1..o BY DEF Working
  <2>2. f.from \in Known(o, G) /\ f.from # Nil /\ f.from \in DOMAIN h
    BY <2>1, DoneClosed DEF Known
  <2> QED BY <2>2 DEF Working
<1>2. ASSUME NEW j \in DOMAIN h[f.from].kids PROVE h[f.from].kids[j] \in Known(o, G)
  BY <1>1, DoneClosed DEF Closed
<1>3. ASSUME NEW j \in DOMAIN h[f.from].kids PROVE h[f.to].kids[j] \in Known(o, G)
  <2>1. CASE j < f.next
    <3>1. SlotDone(h, o, G, f.to, j) BY <2>1 DEF Working
    <3> QED BY <3>1, DoneClosed DEF SlotDone, Known
  <2>2. CASE ~ (j < f.next)
    <3>1. h[f.to].kids[j] = h[f.from].kids[j] BY <2>2 DEF Working
    <3> QED BY <1>2, <3>1
  <2> QED BY <2>1, <2>2
<1> QED BY <1>1, <1>2, <1>3

\* A frame stays as it was where the node it copies into is not touched.
LEMMA WorkingKept ==
  ASSUME NEW h, IsHeap(h), Acyclic(h), NEW g, IsHeap(g), Acyclic(g), Len(h) <= Len(g),
         NEW o, NEW G, Done(h, o, G), Agree(h, g, Known(o, G)), NEW S, G \subseteq S,
         NEW again, NEW f, Working(h, o, G, again, f), f.to \notin S,
         g[f.to].class = h[f.to].class, g[f.to].name = h[f.to].name,
         g[f.to].kids = h[f.to].kids
  PROVE  Working(g, o, S, again, f)
<1>1. Closed(h, Known(o, G)) BY DoneClosed
<1>2. /\ f.from \in Known(o, G) \ {Nil}
      /\ \A j \in DOMAIN h[f.from].kids :
           h[f.from].kids[j] \in Known(o, G) /\ h[f.to].kids[j] \in Known(o, G)
  BY WorkingKnown
<1>3. /\ g[f.from].class = h[f.from].class /\ g[f.from].name = h[f.from].name
      /\ g[f.from].kids = h[f.from].kids
  BY <1>2 DEF Agree
<1>4. \A n \in Known(o, G) : Meaning(g, n) = Meaning(h, n) /\ Term(g, n) = Term(h, n)
  BY <1>1, MeaningKept, TermKept
<1>5. f.to \notin Known(o, S) BY DEF Working, Known
<1>6. IF again THEN f.from \in S ELSE f.from \in 1..o BY DEF Working
<1>7. ASSUME NEW j \in DOMAIN g[f.from].kids
      PROVE  /\ Meaning(g, g[f.to].kids[j]) = Meaning(g, g[f.from].kids[j])
             /\ again => Term(g, g[f.to].kids[j]) = Term(g, g[f.from].kids[j])
             /\ IF j < f.next THEN SlotDone(g, o, S, f.to, j)
                ELSE g[f.to].kids[j] = g[f.from].kids[j]
  <2>1. j \in DOMAIN h[f.from].kids BY <1>3
  <2>2. /\ Meaning(h, h[f.to].kids[j]) = Meaning(h, h[f.from].kids[j])
        /\ again => Term(h, h[f.to].kids[j]) = Term(h, h[f.from].kids[j])
        /\ IF j < f.next THEN SlotDone(h, o, G, f.to, j)
           ELSE h[f.to].kids[j] = h[f.from].kids[j]
    BY <2>1 DEF Working
  <2>3. h[f.from].kids[j] \in Known(o, G) /\ h[f.to].kids[j] \in Known(o, G) BY <1>2, <2>1
  <2>4. Meaning(g, g[f.to].kids[j]) = Meaning(g, g[f.from].kids[j])
    BY <1>3, <1>4, <2>2, <2>3
  <2>5. again => Term(g, g[f.to].kids[j]) = Term(g, g[f.from].kids[j])
    BY <1>3, <1>4, <2>2, <2>3
  <2>6. j < f.next => SlotDone(g, o, S, f.to, j) BY <2>2, SlotKept
  <2> QED BY <1>3, <2>2, <2>4, <2>5, <2>6
<1>8. /\ g[f.to].class = g[f.from].class /\ g[f.to].name = g[f.from].name
      /\ DOMAIN g[f.to].kids = DOMAIN g[f.from].kids
  BY <1>3 DEF Working
<1> QED BY <1>5, <1>6, <1>7, <1>8 DEF Working

\* A shallow copy of a known node, and the frame that starts to fill it.
LEMMA CopyBegun ==
  ASSUME NEW h, IsHeap(h), Acyclic(h), NEW o, NEW G, Done(h, o, G), NEW again,
         NEW n, IF again THEN n \in G ELSE n \in 1..o,
         NEW f, f = [from |-> n, to |-> Len(h) + 1, next |-> 1]
  PROVE  LET g == ShallowCopy(h, n) IN
           /\ IsHeap(g) /\ Acyclic(g) /\ Len(g) = Len(h) + 1 /\ Grown(h, g)
           /\ Agree(h, g, Known(o, G)) /\ Done(g, o, G)
           /\ Working(g, o, G, again, f)
<1>1. PICK g : g = ShallowCopy(h, n) OBVIOUS
<1>2. /\ Nil \notin G /\ Nil \notin 1..o /\ 1..o \subseteq DOMAIN h /\ G \subseteq DOMAIN h
      /\ Closed(h, Known(o, G))
  BY DoneClosed
<1>3. n \in DOMAIN h /\ n # Nil /\ n \in Known(o, G)
  <2>1. n \in G \/ n \in 1..o OBVIOUS
  <2> QED BY <1>2, <2>1, DoneClosed DEF Known
<1>4. IsHeap(g) /\ Len(g) = Len(h) + 1 /\ Grown(h, g) BY <1>1, <1>3, ShallowFacts
<1>5. Acyclic(g) BY <1>1, <1>3, ShallowAcyclic
<1>6. g[Len(h) + 1].class = h[n].class /\ g[Len(h) + 1].name = h[n].name
      /\ g[Len(h) + 1].kids = h[n].kids
  <2>1. /\ h[n].class \in Classes /\ h[n].name \in Names /\ h[n].kids \in Seq(0..Len(h))
        /\ h[n].class \in Unary => Len(h[n].kids) > 0
    BY <1>3, HeapFacts DEF Nodes
  <2>2. g = New(h, h[n].class, h[n].name, h[n].kids) BY <1>1 DEF ShallowCopy
  <2>3. g[Len(g)] = [class |-> h[n].class, name |-> h[n].name, kids |-> h[n].kids, parent |-> Nil]
    BY <2>1, <2>2, NewFacts
  <2> QED BY <1>4, <2>3
<1>7. /\ Len(h) \in Nat /\ Len(g) \in Nat /\ Len(h) <= Len(g) /\ DOMAIN h = 1..Len(h)
      /\ DOMAIN g = 1..Len(g)
  BY <1>4 DEF IsHeap
<1>8. Agree(h, g, Known(o, G))
  <2>1. \A m \in Known(o, G) \ {Nil} : m \in 1..Len(h) BY <1>2, <1>7, ClosedNode
  <2>2. \A m \in 1..Len(h) : m \in DOMAIN g BY <1>7
  <2> QED BY <1>4, <2>1, <2>2 DEF Agree, Grown
<1>9. Done(g, o, G) BY <1>4, <1>7, <1>8, DoneKept
<1>10. f.from = n /\ f.to = Len(h) + 1 /\ f.next = 1 OBVIOUS
<1>11. f.to \notin Known(o, G)
  <2>1. Known(o, G) \subseteq 0..Len(h) BY <1>2 DEF Closed
  <2> QED BY <1>7, <1>10, <2>1
<1>12. g[n].class = h[n].class /\ g[n].name = h[n].name /\ g[n].kids = h[n].kids
  BY <1>3, <1>8 DEF Agree
<1>13. \A j \in DOMAIN g[n].kids : ~ (j < 1)
  <2>1. n \in DOMAIN g BY <1>3, <1>7
  <2>2. g[n].kids \in Seq(0..Len(g)) BY <1>4, <2>1, HeapFacts
  <2> QED BY <2>2
<1>14. Working(g, o, G, again, f)
  BY <1>6, <1>10, <1>11, <1>12, <1>13 DEF Working
<1> QED BY <1>1, <1>4, <1>5, <1>8, <1>9, <1>14

LEMMA PassingStarts ==
  ASSUME NEW h, IsHeap(h), Acyclic(h), NEW o, NEW G, Done(h, o, G), NEW again,
         NEW n, IF again THEN n \in G /\ Plain(h, n, "none") ELSE n \in 1..o,
         NEW s, s[1] = [from |-> n, to |-> Len(h) + 1, next |-> 1]
  PROVE  Passing(ShallowCopy(h, n), s, 1, o, G, again, n)
<1>1. PICK g, f : g = ShallowCopy(h, n) /\ f = [from |-> n, to |-> Len(h) + 1, next |-> 1]
  OBVIOUS
<1>2. IF again THEN n \in G ELSE n \in 1..o OBVIOUS
<1>3. IsHeap(g) /\ Agree(h, g, Known(o, G)) /\ Done(g, o, G) /\ Working(g, o, G, again, f)
  BY <1>1, <1>2, CopyBegun
<1>4. s[1] = f /\ f.from = n BY <1>1
<1>5. ASSUME again PROVE Plain(g, n, "none")
  <2>1. n \in G /\ Plain(h, n, "none") BY <1>5
  <2>2. n \in Known(o, G) /\ n # Nil /\ Closed(h, Known(o, G)) BY <2>1, DoneClosed DEF Known
  <2> QED BY <1>3, <2>1, <2>2, PlainKept
<1>6. HolderAt(g, s, 1) = "none" BY DEF HolderAt
<1>7. \A i \in 1..1 : i = 1 OBVIOUS
<1>8. 1..(1 - 1) = {} OBVIOUS
<1>9. Passing(g, s, 1, o, G, again, n)
  BY <1>3, <1>4, <1>5, <1>6, <1>7, <1>8 DEF Passing
<1> QED BY <1>1, <1>9

\* A slot that is passed over is absent, or an amount.
Skipped(h, s, e, l) ==
  /\ \A i \in 1..l : s[i].next \in Nat
  /\ \A i \in 1..l : e[i] = IF i = l THEN [from |-> s[i].from, to |-> s[i].to,
                                            next |-> s[i].next + 1]
                             ELSE s[i]
  /\ s[l].next \in DOMAIN h[s[l].from].kids
  /\ \/ h[s[l].from].kids[s[l].next] = Nil
     \/ h[s[l].from].class = "Interval" /\ s[l].next = 1

LEMMA PassingSkips ==
  ASSUME NEW h, IsHeap(h), NEW l \in Nat, l > 0, NEW s, NEW e,
         Skipped(h, s, e, l), NEW o, NEW G, NEW again, NEW r, Passing(h, s, l, o, G, again, r)
  PROVE  Passing(h, e, l, o, G, again, r)
<1>1. /\ \A i \in 1..l : s[i].next \in Nat
      /\ \A i \in 1..l : e[i] = IF i = l THEN [from |-> s[i].from, to |-> s[i].to,
                                                next |-> s[i].next + 1]
                                 ELSE s[i]
      /\ s[l].next \in DOMAIN h[s[l].from].kids
      /\ \/ h[s[l].from].kids[s[l].next] = Nil
         \/ h[s[l].from].class = "Interval" /\ s[l].next = 1
  BY DEF Skipped
<1>2. l \in 1..l /\ 1 \in 1..l OBVIOUS
<1>3. Done(h, o, G) /\ s[1].from = r /\ \A i \in 1..l : Working(h, o, G, again, s[i])
  BY DEF Passing
<1>4. PICK f, d, at : f = s[l] /\ d = e[l] /\ at = s[l].next OBVIOUS
<1>5. d = [from |-> f.from, to |-> f.to, next |-> at + 1] BY <1>1, <1>2, <1>4
<1>6. \A i \in 1..l : i # l => e[i] = s[i] BY <1>1
<1>7. \A i \in 1..l : e[i].from = s[i].from /\ e[i].to = s[i].to
  <2>1. e[l].from = s[l].from /\ e[l].to = s[l].to BY <1>4, <1>5
  <2> QED BY <1>6, <2>1
<1>8. /\ d.from = f.from /\ d.to = f.to /\ d.next = at + 1 /\ f.next = at /\ at \in Nat
      /\ Working(h, o, G, again, f) /\ at \in DOMAIN h[f.from].kids
      /\ h[f.from].kids[at] = Nil \/ (h[f.from].class = "Interval" /\ at = 1)
  <2>1. d.from = f.from /\ d.to = f.to /\ d.next = at + 1 BY <1>5
  <2>2. f.next = at /\ at \in Nat BY <1>1, <1>2, <1>4
  <2>3. Working(h, o, G, again, f) BY <1>2, <1>3, <1>4
  <2>4. /\ at \in DOMAIN h[f.from].kids
        /\ h[f.from].kids[at] = Nil \/ (h[f.from].class = "Interval" /\ at = 1)
    BY <1>1, <1>4
  <2> QED BY <2>1, <2>2, <2>3, <2>4
<1>9. SlotDone(h, o, G, f.to, at)
  <2>1. h[f.to].kids[at] = h[f.from].kids[at] /\ h[f.to].class = h[f.from].class
    BY <1>8 DEF Working
  <2>2. CASE h[f.from].class = "Interval" /\ at = 1
    <3>1. h[f.from].kids[at] \in 0..o
      <4>1. CASE f.from \in 1..o BY <1>3, <1>8, <4>1 DEF Done
      <4>2. CASE f.from \in G
        <5>1. SlotDone(h, o, G, f.from, at) BY <1>3, <1>8, <4>2 DEF Done
        <5> QED BY <2>2, <5>1 DEF SlotDone
      <4> QED BY <1>8, <4>1, <4>2 DEF Working
    <3> QED BY <2>1, <2>2, <3>1 DEF SlotDone
  <2>3. CASE ~ (h[f.from].class = "Interval" /\ at = 1)
    <3>1. h[f.from].kids[at] = Nil BY <1>8, <2>3
    <3> QED BY <2>1, <2>3, <3>1 DEF SlotDone
  <2> QED BY <2>2, <2>3
<1>10. \A j \in DOMAIN h[f.from].kids : j \in Nat
  <2>1. f.from \in DOMAIN h BY <1>3, <1>8, WorkingKnown
  <2>2. h[f.from].kids \in Seq(0..Len(h)) BY <2>1, HeapFacts
  <2> QED BY <2>2
<1>11. Working(h, o, G, again, d)
  <2>1. ASSUME NEW j \in DOMAIN h[f.from].kids
        PROVE  IF j < d.next THEN SlotDone(h, o, G, d.to, j)
               ELSE h[d.to].kids[j] = h[d.from].kids[j]
    <3>1. j \in Nat BY <1>10
    <3>2. j < d.next => j < at \/ j = at BY <1>8, <3>1
    <3>3. ~ (j < d.next) => ~ (j < at) BY <1>8, <3>1
    <3>4. IF j < at THEN SlotDone(h, o, G, f.to, j)
          ELSE h[f.to].kids[j] = h[f.from].kids[j]
      BY <1>8 DEF Working
    <3> QED BY <1>8, <1>9, <3>2, <3>3, <3>4
  <2> QED BY <1>8, <2>1 DEF Working
<1>12. \A i \in 1..l : Working(h, o, G, again, e[i])
  <2>1. \A i \in 1..l : i = l \/ e[i] = s[i] BY <1>1
  <2> QED BY <1>3, <1>4, <1>11, <2>1
<1>13. ASSUME NEW i \in 1..(l - 1) PROVE Descends(h, e[i], e[i + 1])
  <2>1. i \in 1..l /\ i # l /\ i + 1 \in 1..l BY <1>13
  <2>2. e[i] = s[i] /\ e[i + 1].from = s[i + 1].from BY <1>6, <1>7, <2>1
  <2>3. Descends(h, s[i], s[i + 1]) BY <1>13 DEF Passing
  <2> QED BY <2>2, <2>3 DEF Descends
<1>14. ASSUME again, NEW i \in 1..l PROVE Plain(h, e[i].from, HolderAt(h, e, i))
  <2>1. Plain(h, s[i].from, HolderAt(h, s, i)) BY <1>14 DEF Passing
  <2>2. HolderAt(h, e, i) = HolderAt(h, s, i)
    <3>1. i # 1 => i - 1 \in 1..l BY <1>14
    <3> QED BY <1>7, <3>1 DEF HolderAt
  <2> QED BY <1>7, <2>1, <2>2
<1> QED BY <1>2, <1>3, <1>7, <1>12, <1>13, <1>14 DEF Passing

\* A child is entered: it is known, and in the pass again it is simple there.
Entered(h, s, e, l, c) ==
  /\ s[l].next \in DOMAIN h[s[l].from].kids /\ c = h[s[l].from].kids[s[l].next] /\ c # Nil
  /\ ~ (h[s[l].from].class = "Interval" /\ s[l].next = 1)
  /\ \A i \in 1..l : e[i] = s[i]
  /\ e[l + 1] = [from |-> c, to |-> Len(h) + 1, next |-> 1]

LEMMA PassingEnters ==
  ASSUME NEW h, IsHeap(h), Acyclic(h), NEW l \in Nat, l > 0, NEW s, NEW e,
         \A i \in 1..l : s[i].to \in DOMAIN h,
         NEW o, NEW G, NEW again, NEW r, Passing(h, s, l, o, G, again, r),
         NEW c, Entered(h, s, e, l, c)
  PROVE  /\ Passing(ShallowCopy(h, c), e, l + 1, o, G, again, r)
         /\ Agree(h, ShallowCopy(h, c), Known(o, G))
<1>1. /\ s[l].next \in DOMAIN h[s[l].from].kids /\ c = h[s[l].from].kids[s[l].next]
      /\ c # Nil /\ ~ (h[s[l].from].class = "Interval" /\ s[l].next = 1)
  BY DEF Entered
<1>2. /\ \A i \in 1..l : e[i] = s[i]
      /\ e[l + 1] = [from |-> c, to |-> Len(h) + 1, next |-> 1]
  BY DEF Entered
<1>3. l \in 1..l /\ 1 \in 1..l /\ \A i \in 1..(l + 1) : i = l + 1 \/ i \in 1..l OBVIOUS
<1>4. Done(h, o, G) /\ s[1].from = r /\ \A i \in 1..l : Working(h, o, G, again, s[i])
  BY DEF Passing
<1>5. PICK g, f, d, at : /\ g = ShallowCopy(h, c) /\ f = s[l] /\ d = e[l + 1]
                         /\ at = s[l].next
  OBVIOUS
<1>6. /\ Working(h, o, G, again, f) /\ at \in DOMAIN h[f.from].kids /\ c = h[f.from].kids[at]
      /\ ~ (h[f.from].class = "Interval" /\ at = 1)
  BY <1>1, <1>3, <1>4, <1>5
<1>7. again => c \in G /\ Plain(h, c, h[f.from].class)
  <2>1. ASSUME again PROVE c \in G /\ Plain(h, c, h[f.from].class)
    <3>1. f.from \in G BY <1>6, <2>1 DEF Working
    <3>2. SlotDone(h, o, G, f.from, at) BY <1>4, <1>6, <3>1 DEF Done
    <3> QED BY <1>1, <1>6, <3>2 DEF SlotDone
  <2> QED BY <2>1
<1>8. ~ again => c \in 1..o
  <2>1. ASSUME ~ again PROVE c \in 1..o
    <3>1. f.from \in 1..o BY <1>6, <2>1 DEF Working
    <3>2. c \in 0..o BY <1>4, <1>6, <3>1 DEF Done
    <3>3. o \in Nat BY <1>4, DoneClosed
    <3>4. c # 0 BY <1>1 DEF Nil
    <3> QED BY <3>2, <3>3, <3>4
  <2> QED BY <2>1
<1>9. IF again THEN c \in G ELSE c \in 1..o BY <1>7, <1>8
<1>10. d = [from |-> c, to |-> Len(h) + 1, next |-> 1] BY <1>2, <1>5
<1>11. /\ IsHeap(g) /\ Acyclic(g) /\ Len(g) = Len(h) + 1 /\ Grown(h, g)
      /\ Agree(h, g, Known(o, G)) /\ Done(g, o, G) /\ Working(g, o, G, again, d)
  BY <1>4, <1>5, <1>9, <1>10, CopyBegun
<1>12. Len(h) \in Nat /\ DOMAIN h = 1..Len(h) /\ Len(h) <= Len(g) BY <1>11 DEF IsHeap
<1>13. ASSUME NEW i \in 1..l
       PROVE  /\ g[s[i].to].class = h[s[i].to].class /\ g[s[i].to].name = h[s[i].to].name
              /\ g[s[i].to].kids = h[s[i].to].kids
  <2>1. s[i].to \in 1..Len(h) BY <1>12
  <2> QED BY <1>11, <2>1 DEF Grown
<1>14. ASSUME NEW i \in 1..l PROVE Working(g, o, G, again, e[i])
  <2>1. PICK b : b = s[i] OBVIOUS
  <2>2. Working(h, o, G, again, b) /\ e[i] = b BY <1>2, <1>4, <2>1
  <2>3. b.to \notin G BY <2>2 DEF Working, Known
  <2>4. /\ g[b.to].class = h[b.to].class /\ g[b.to].name = h[b.to].name
        /\ g[b.to].kids = h[b.to].kids
    BY <1>13, <2>1
  <2>5. Working(g, o, G, again, b) BY <1>4, <1>11, <1>12, <2>2, <2>3, <2>4, WorkingKept
  <2> QED BY <2>2, <2>5
<1>15. \A i \in 1..(l + 1) : Working(g, o, G, again, e[i])
  BY <1>3, <1>5, <1>11, <1>14
<1>16. ASSUME NEW n \in Known(o, G), n # Nil
       PROVE  /\ g[n].class = h[n].class /\ g[n].kids = h[n].kids
              /\ \A holder : Plain(h, n, holder) => Plain(g, n, holder)
  <2>1. g[n].class = h[n].class /\ g[n].kids = h[n].kids BY <1>11, <1>16 DEF Agree
  <2>2. Closed(h, Known(o, G)) BY <1>4, DoneClosed
  <2> QED BY <1>11, <1>16, <2>1, <2>2, PlainKept
<1>17. \A i \in 1..l : s[i].from \in Known(o, G) /\ s[i].from # Nil BY <1>4, WorkingKnown
<1>18. ASSUME NEW i \in 1..((l + 1) - 1) PROVE Descends(g, e[i], e[i + 1])
  <2>1. i \in 1..l BY <1>18
  <2>2. PICK b, t : b = s[i] /\ t = e[i + 1] OBVIOUS
  <2>3. g[b.from].class = h[b.from].class /\ g[b.from].kids = h[b.from].kids
    BY <1>16, <1>17, <2>1, <2>2
  <2>4. Descends(h, b, t)
    <3>1. CASE i = l
      <4>1. b = f /\ t = d BY <1>5, <2>2, <3>1
      <4>2. d.from = c BY <1>10
      <4>3. f.next = at BY <1>5
      <4> QED BY <1>1, <1>6, <4>1, <4>2, <4>3 DEF Descends
    <3>2. CASE i # l
      <4>1. i \in 1..(l - 1) /\ i + 1 \in 1..l BY <2>1, <3>2
      <4>2. t = s[i + 1] BY <1>2, <2>2, <4>1
      <4>3. Descends(h, s[i], s[i + 1]) BY <4>1 DEF Passing
      <4> QED BY <2>2, <4>2, <4>3
    <3> QED BY <3>1, <3>2
  <2>5. Descends(g, b, t) BY <2>3, <2>4 DEF Descends
  <2>6. e[i] = b BY <1>2, <2>1, <2>2
  <2> QED BY <2>2, <2>5, <2>6
<1>19. ASSUME again, NEW i \in 1..(l + 1) PROVE Plain(g, e[i].from, HolderAt(g, e, i))
  <2>1. CASE i = l + 1
    <3>1. HolderAt(g, e, i) = g[f.to].class
      <4>1. i # 1 /\ i - 1 = l BY <2>1
      <4>2. e[l] = f BY <1>2, <1>3, <1>5
      <4> QED BY <4>1, <4>2 DEF HolderAt
    <3>2. g[f.to].class = h[f.from].class
      <4>1. h[f.to].class = h[f.from].class BY <1>6 DEF Working
      <4> QED BY <1>3, <1>5, <1>13, <4>1
    <3>3. e[i].from = c
      <4>1. e[i] = d BY <1>5, <2>1
      <4>2. d.from = c BY <1>10
      <4> QED BY <4>1, <4>2
    <3>4. c \in Known(o, G) BY <1>7, <1>19 DEF Known
    <3>5. Plain(g, c, h[f.from].class)
      <4>1. c # Nil BY <1>1
      <4> QED BY <1>7, <1>16, <1>19, <3>4, <4>1
    <3> QED BY <3>1, <3>2, <3>3, <3>5
  <2>2. CASE i # l + 1
    <3>1. i \in 1..l BY <1>3, <2>2
    <3>2. Plain(h, s[i].from, HolderAt(h, s, i)) BY <1>19, <3>1 DEF Passing
    <3>3. HolderAt(g, e, i) = HolderAt(h, s, i)
      <4>1. CASE i = 1 BY <4>1 DEF HolderAt
      <4>2. CASE i # 1
        <5>1. i - 1 \in 1..l BY <3>1, <4>2
        <5>2. e[i - 1] = s[i - 1] /\ g[s[i - 1].to].class = h[s[i - 1].to].class
          BY <1>2, <1>13, <5>1
        <5> QED BY <4>2, <5>2 DEF HolderAt
      <4> QED BY <4>1, <4>2
    <3>4. e[i].from = s[i].from BY <1>2, <3>1
    <3> QED BY <1>16, <1>17, <3>1, <3>2, <3>3, <3>4
  <2> QED BY <2>1, <2>2
<1>20. e[1].from = r BY <1>2, <1>3, <1>4
<1>21. Passing(g, e, l + 1, o, G, again, r)
  BY <1>11, <1>15, <1>18, <1>19, <1>20 DEF Passing
<1> QED BY <1>5, <1>11, <1>21

\* What a frame made, once its last slot is done.
LEMMA FrameDone ==
  ASSUME NEW h, IsHeap(h), Acyclic(h), NEW o, NEW G, Done(h, o, G), NEW again,
         NEW f, f.to \in DOMAIN h, f.to > o, Working(h, o, G, again, f),
         \A j \in DOMAIN h[f.from].kids : j < f.next
  PROVE  /\ Done(h, o, G \cup {f.to})
         /\ \A j \in DOMAIN h[f.to].kids : SlotDone(h, o, G, f.to, j)
         /\ Meaning(h, f.to) = Meaning(h, f.from)
         /\ again => Term(h, f.to) = Term(h, f.from)
<1>1. \A j \in DOMAIN h[f.to].kids : SlotDone(h, o, G, f.to, j) BY DEF Working
<1>2. f.from \in DOMAIN h BY WorkingKnown
<1>3. /\ h[f.to].class = h[f.from].class /\ h[f.to].name = h[f.from].name
      /\ DOMAIN h[f.to].kids = DOMAIN h[f.from].kids
  BY DEF Working
<1>4. Meaning(h, f.to) = Meaning(h, f.from)
  <2>1. \A j \in DOMAIN h[f.from].kids :
          Meaning(h, h[f.to].kids[j]) = Meaning(h, h[f.from].kids[j])
    BY DEF Working
  <2>2. [j \in DOMAIN h[f.to].kids |-> Meaning(h, h[f.to].kids[j])]
          = [j \in DOMAIN h[f.from].kids |-> Meaning(h, h[f.from].kids[j])]
    BY <1>3, <2>1
  <2>3. Meaning(h, f.to) = Sense(h[f.to].class, h[f.to].name,
                                 [j \in DOMAIN h[f.to].kids |-> Meaning(h, h[f.to].kids[j])])
    BY MeaningStep
  <2>4. Meaning(h, f.from) =
          Sense(h[f.from].class, h[f.from].name,
                [j \in DOMAIN h[f.from].kids |-> Meaning(h, h[f.from].kids[j])])
    BY <1>2, MeaningStep
  <2> QED BY <1>3, <2>2, <2>3, <2>4
<1>5. ASSUME again PROVE Term(h, f.to) = Term(h, f.from)
  <2>1. \A j \in DOMAIN h[f.from].kids :
          Term(h, h[f.to].kids[j]) = Term(h, h[f.from].kids[j])
    BY <1>5 DEF Working
  <2>2. [j \in DOMAIN h[f.to].kids |-> Term(h, h[f.to].kids[j])]
          = [j \in DOMAIN h[f.from].kids |-> Term(h, h[f.from].kids[j])]
    BY <1>3, <2>1
  <2>3. Term(h, f.to) = <<h[f.to].class, h[f.to].name,
                          [j \in DOMAIN h[f.to].kids |-> Term(h, h[f.to].kids[j])]>>
    BY TermStep
  <2>4. Term(h, f.from) = <<h[f.from].class, h[f.from].name,
                            [j \in DOMAIN h[f.from].kids |-> Term(h, h[f.from].kids[j])]>>
    BY <1>2, TermStep
  <2> QED BY <1>3, <2>2, <2>3, <2>4
<1>6. Done(h, o, G \cup {f.to})
  <2>1. ASSUME NEW n, NEW i, SlotDone(h, o, G, n, i) PROVE SlotDone(h, o, G \cup {f.to}, n, i)
    BY <2>1 DEF SlotDone
  <2>2. \A n \in G \cup {f.to} : n \in DOMAIN h /\ n > o BY DEF Done
  <2>3. \A n \in G \cup {f.to} : \A i \in DOMAIN h[n].kids : SlotDone(h, o, G \cup {f.to}, n, i)
    BY <1>1, <2>1 DEF Done
  <2> QED BY <2>2, <2>3 DEF Done
<1> QED BY <1>1, <1>4, <1>5, <1>6

\* What it becomes: nothing or a simple node, of the meaning of what was copied; in
\* the pass again, the copy itself.
LEMMA FrameOutcome ==
  ASSUME NEW h, IsHeap(h), Acyclic(h), NEW o, NEW G, Done(h, o, G),
         NEW n \in DOMAIN h, \A j \in DOMAIN h[n].kids : SlotDone(h, o, G, n, j),
         NEW m \in DOMAIN h, Meaning(h, n) = Meaning(h, m), NEW holder, holder # "Filter"
  PROVE  LET q == Simplified(h, n, holder) IN
           /\ Meaning(h, q) = Meaning(h, m)
           /\ q = Nil \/ (q \in G \cup {n} /\ Plain(h, q, holder))
           /\ Term(h, n) = Term(h, m) /\ Plain(h, m, holder) => q = n
<1>1. PICK q : q = Simplified(h, n, holder) OBVIOUS
<1>2. Meaning(h, q) = Meaning(h, n) BY <1>1, SimplifiedMeans
<1>3. q = Nil \/ (q \in G \cup {n} /\ Plain(h, q, holder)) BY <1>1, SimplifiedPlain
<1>4. ASSUME Term(h, n) = Term(h, m), Plain(h, m, holder) PROVE q = n
  <2>1. Plain(h, n, holder) BY <1>4, PlainAlike
  <2> QED BY <1>1, <2>1, PlainStays
<1> QED BY <1>1, <1>2, <1>3, <1>4

\* A child that is left is finished, and set in the copy of its parent.
LEMMA FrameReturns ==
  ASSUME NEW h, IsHeap(h), Acyclic(h), NEW o, NEW G, Done(h, o, G), NEW again,
         NEW f, Working(h, o, G, again, f), f.to \in DOMAIN h, Unheld(h, f.to), f.next \in Nat,
         NEW t, Working(h, o, G, again, t), t.to \in DOMAIN h, t.to > o, t.to # f.to,
         Descends(h, f, t), \A j \in DOMAIN h[t.from].kids : j < t.next,
         SimpleIf(again, h, t.from, h[f.to].class),
         NEW q, q = Simplified(h, t.to, h[f.to].class)
  PROVE  LET S == G \cup {t.to}
             g == Set(h, f.to, f.next, q)
             d == [from |-> f.from, to |-> f.to, next |-> f.next + 1]
         IN /\ IsHeap(g) /\ Acyclic(g) /\ Len(g) = Len(h)
            /\ \A m \in 1..Len(h) : g[m].class = h[m].class /\ g[m].name = h[m].name
            /\ \A m \in 1..Len(h) : m # f.to => g[m].kids = h[m].kids
            /\ Agree(h, g, Known(o, S)) /\ Done(g, o, S) /\ Working(g, o, S, again, d)
<1>1. PICK at, holder : at = f.next /\ holder = h[f.to].class OBVIOUS
<1>2. at \in DOMAIN h[f.from].kids /\ t.from = h[f.from].kids[at]
      /\ ~ (h[f.from].class = "Interval" /\ at = 1)
  BY <1>1 DEF Descends
<1>3. holder # "Filter"
  <2>1. holder \in Classes BY <1>1, HeapFacts DEF Nodes
  <2> QED BY <2>1 DEF Classes, Unary
<1>4. PICK S : S = G \cup {t.to} OBVIOUS
<1>5. /\ Done(h, o, S) /\ Meaning(h, q) = Meaning(h, t.from)
      /\ q = Nil \/ (q \in S /\ Plain(h, q, holder))
      /\ again => Term(h, q) = Term(h, t.from)
  <2>1. /\ Done(h, o, G \cup {t.to})
        /\ \A j \in DOMAIN h[t.to].kids : SlotDone(h, o, G, t.to, j)
        /\ Meaning(h, t.to) = Meaning(h, t.from)
        /\ again => Term(h, t.to) = Term(h, t.from)
    BY FrameDone
  <2>2. PICK n, m : n = t.to /\ m = t.from OBVIOUS
  <2>3. m \in DOMAIN h BY <2>2, WorkingKnown
  <2>4. /\ n \in DOMAIN h /\ \A j \in DOMAIN h[n].kids : SlotDone(h, o, G, n, j)
        /\ Meaning(h, n) = Meaning(h, m) /\ (again => Term(h, n) = Term(h, m))
    BY <2>1, <2>2
  <2>5. q = Simplified(h, n, holder) /\ (again => Plain(h, m, holder))
    BY <1>1, <2>2 DEF SimpleIf
  <2>6. /\ Meaning(h, q) = Meaning(h, m)
        /\ q = Nil \/ (q \in G \cup {n} /\ Plain(h, q, holder))
        /\ Term(h, n) = Term(h, m) /\ Plain(h, m, holder) => q = n
    BY <1>3, <2>3, <2>4, <2>5, FrameOutcome
  <2> QED BY <1>4, <2>1, <2>2, <2>4, <2>5, <2>6
<1>6. /\ Closed(h, Known(o, S)) /\ Nil \in Known(o, S) /\ Known(o, S) \subseteq 0..Len(h)
      /\ S \subseteq Known(o, S) /\ G \subseteq S /\ Known(o, G) \subseteq Known(o, S)
  BY <1>4, <1>5, DoneClosed DEF Closed, Known
<1>7. f.to \notin Known(o, S) BY <1>4 DEF Working, Known
<1>8. q \in 0..Len(h) /\ q # f.to /\ q \in Known(o, S) /\ (q # Nil => q \in S)
  BY <1>5, <1>6, <1>7
<1>9. PICK g : g = Set(h, f.to, at, q) OBVIOUS
<1>10. /\ IsHeap(g) /\ Len(g) = Len(h)
       /\ \A m \in 1..Len(h) : g[m].class = h[m].class /\ g[m].name = h[m].name
       /\ \A m \in 1..Len(h) : m # f.to => g[m].kids = h[m].kids
       /\ DOMAIN g[f.to].kids = DOMAIN h[f.to].kids
       /\ \A j \in DOMAIN h[f.to].kids : g[f.to].kids[j] = IF j = at THEN q ELSE h[f.to].kids[j]
  <2>1. PICK n : n = f.to OBVIOUS
  <2>2. n \in DOMAIN h BY <2>1
  <2>3. /\ IsHeap(Set(h, n, at, q)) /\ Len(Set(h, n, at, q)) = Len(h)
        /\ \A m \in 1..Len(h) :
             /\ Set(h, n, at, q)[m].class = h[m].class
             /\ Set(h, n, at, q)[m].name = h[m].name
        /\ \A m \in 1..Len(h) : m # n => Set(h, n, at, q)[m].kids = h[m].kids
        /\ DOMAIN Set(h, n, at, q)[n].kids = DOMAIN h[n].kids
        /\ \A j \in DOMAIN h[n].kids :
             Set(h, n, at, q)[n].kids[j] = IF j = at THEN q ELSE h[n].kids[j]
    BY <1>8, <2>2, SetFacts
  <2>4. g = Set(h, n, at, q) BY <1>9, <2>1
  <2> QED BY <2>1, <2>3, <2>4
<1>11. Acyclic(g) BY <1>8, <1>9, SetAcyclic
<1>12. Len(h) \in Nat /\ DOMAIN h = 1..Len(h) /\ DOMAIN g = 1..Len(h) /\ Len(h) <= Len(g)
  BY <1>10 DEF IsHeap
<1>13. Agree(h, g, Known(o, S)) /\ Agree(h, g, Known(o, G))
  <2>1. \A m \in Known(o, S) \ {Nil} : m \in 1..Len(h) /\ m # f.to
    BY <1>6, <1>7, <1>12, ClosedNode
  <2> QED BY <1>6, <1>10, <1>12, <2>1 DEF Agree
<1>14. Done(g, o, S) BY <1>5, <1>10, <1>12, <1>13, DoneKept
<1>15. /\ f.from \in Known(o, S) \ {Nil} /\ f.from \in DOMAIN h
       /\ \A j \in DOMAIN h[f.from].kids :
            h[f.from].kids[j] \in Known(o, S) /\ h[f.to].kids[j] \in Known(o, S)
  BY <1>6, WorkingKnown
<1>16. /\ g[f.from].class = h[f.from].class /\ g[f.from].name = h[f.from].name
       /\ g[f.from].kids = h[f.from].kids
  BY <1>13, <1>15 DEF Agree
<1>17. \A n \in Known(o, S) : Meaning(g, n) = Meaning(h, n) /\ Term(g, n) = Term(h, n)
  BY <1>6, <1>10, <1>11, <1>12, <1>13, MeaningKept, TermKept
<1>18. /\ DOMAIN h[f.to].kids = DOMAIN h[f.from].kids /\ h[f.to].class = h[f.from].class
       /\ h[f.to].name = h[f.from].name
       /\ g[f.to].class = h[f.to].class /\ g[f.to].name = h[f.to].name
  BY <1>10, <1>12 DEF Working
<1>19. \A j \in DOMAIN h[f.from].kids : j \in Nat
  <2>1. h[f.from].kids \in Seq(0..Len(h)) BY <1>15, HeapFacts
  <2> QED BY <2>1
<1>20. ASSUME NEW j \in DOMAIN h[f.from].kids
       PROVE  /\ Meaning(g, g[f.to].kids[j]) = Meaning(g, h[f.from].kids[j])
              /\ again => Term(g, g[f.to].kids[j]) = Term(g, h[f.from].kids[j])
              /\ IF j < at + 1 THEN SlotDone(g, o, S, f.to, j)
                 ELSE g[f.to].kids[j] = h[f.from].kids[j]
  <2>1. j \in Nat /\ j \in DOMAIN h[f.to].kids BY <1>18, <1>19
  <2>2. h[f.from].kids[j] \in Known(o, S) /\ h[f.to].kids[j] \in Known(o, S) BY <1>15
  <2>3. CASE j = at
    <3>1. g[f.to].kids[j] = q BY <1>10, <2>1, <2>3
    <3>2. Meaning(g, q) = Meaning(g, h[f.from].kids[j])
      BY <1>2, <1>5, <1>8, <1>17, <2>2, <2>3
    <3>3. again => Term(g, q) = Term(g, h[f.from].kids[j])
      BY <1>2, <1>5, <1>8, <1>17, <2>2, <2>3
    <3>4. q # Nil => Plain(g, q, holder)
      BY <1>5, <1>6, <1>8, <1>10, <1>13, PlainKept
    <3>5. SlotDone(g, o, S, f.to, j)
      BY <1>1, <1>2, <1>8, <1>18, <2>3, <3>1, <3>4 DEF SlotDone
    <3>6. j < at + 1 BY <2>1, <2>3
    <3> QED BY <3>1, <3>2, <3>3, <3>5, <3>6
  <2>4. CASE j # at
    <3>1. g[f.to].kids[j] = h[f.to].kids[j] BY <1>10, <2>1, <2>4
    <3>2. /\ Meaning(h, h[f.to].kids[j]) = Meaning(h, h[f.from].kids[j])
          /\ again => Term(h, h[f.to].kids[j]) = Term(h, h[f.from].kids[j])
          /\ IF j < at THEN SlotDone(h, o, G, f.to, j)
             ELSE h[f.to].kids[j] = h[f.from].kids[j]
      BY <1>1 DEF Working
    <3>3. Meaning(g, g[f.to].kids[j]) = Meaning(g, h[f.from].kids[j])
      BY <1>17, <2>2, <3>1, <3>2
    <3>4. again => Term(g, g[f.to].kids[j]) = Term(g, h[f.from].kids[j])
      BY <1>17, <2>2, <3>1, <3>2
    <3>5. j < at => SlotDone(g, o, S, f.to, j)
      BY <1>6, <1>10, <1>13, <1>18, <3>1, <3>2, SlotKept
    <3>6. j < at + 1 <=> j < at BY <1>1, <2>1, <2>4
    <3> QED BY <3>1, <3>2, <3>3, <3>4, <3>5, <3>6
  <2> QED BY <2>3, <2>4
<1>21. IF again THEN f.from \in S ELSE f.from \in 1..o BY <1>6 DEF Working
<1>22. PICK d : d = [from |-> f.from, to |-> f.to, next |-> at + 1] OBVIOUS
<1>23. d.from = f.from /\ d.to = f.to /\ d.next = at + 1 BY <1>22
<1>24. Working(g, o, S, again, d)
  <2>1. /\ d.to \notin Known(o, S) /\ IF again THEN d.from \in S ELSE d.from \in 1..o
    BY <1>7, <1>21, <1>23
  <2>2. /\ g[d.to].class = g[d.from].class /\ g[d.to].name = g[d.from].name
        /\ DOMAIN g[d.to].kids = DOMAIN g[d.from].kids
    BY <1>10, <1>16, <1>18, <1>23
  <2>3. ASSUME NEW j \in DOMAIN g[d.from].kids
        PROVE  /\ Meaning(g, g[d.to].kids[j]) = Meaning(g, g[d.from].kids[j])
               /\ again => Term(g, g[d.to].kids[j]) = Term(g, g[d.from].kids[j])
               /\ IF j < d.next THEN SlotDone(g, o, S, d.to, j)
                  ELSE g[d.to].kids[j] = g[d.from].kids[j]
    BY <1>16, <1>20, <1>23
  <2> QED BY <2>1, <2>2, <2>3 DEF Working
<1> QED BY <1>1, <1>4, <1>9, <1>10, <1>11, <1>13, <1>14, <1>22, <1>24

\* So a pass goes on from a child that was left.
Left(h, s, e, l, o) ==
  /\ \A i \in 1..(l + 1) : s[i].to > o
  /\ \A j \in DOMAIN h[s[l + 1].from].kids : j < s[l + 1].next
  /\ \A i \in 1..l : e[i] = IF i = l THEN [from |-> s[i].from, to |-> s[i].to,
                                            next |-> s[i].next + 1]
                             ELSE s[i]

LEMMA PassingLeaves ==
  ASSUME NEW h, IsHeap(h), Acyclic(h), NEW l \in Nat, l > 0, NEW s, Frames(h, s, l + 1),
         NEW o, NEW G, NEW again, NEW r, Passing(h, s, l + 1, o, G, again, r),
         NEW e, Left(h, s, e, l, o),
         NEW q, q = Simplified(h, s[l + 1].to, h[s[l].to].class)
  PROVE  /\ \E S : Passing(Set(h, s[l].to, s[l].next, q), e, l, o, S, again, r)
         /\ Agree(h, Set(h, s[l].to, s[l].next, q), Known(o, G))
<1>1. /\ \A i \in 1..(l + 1) : s[i].to > o
      /\ \A j \in DOMAIN h[s[l + 1].from].kids : j < s[l + 1].next
      /\ \A i \in 1..l : e[i] = IF i = l THEN [from |-> s[i].from, to |-> s[i].to,
                                                next |-> s[i].next + 1]
                                 ELSE s[i]
  BY DEF Left
<1>2. /\ l \in 1..l /\ 1 \in 1..l /\ l \in 1..(l + 1) /\ l + 1 \in 1..(l + 1)
      /\ l # l + 1 /\ l \in 1..((l + 1) - 1) /\ \A i \in 1..l : i \in 1..(l + 1) /\ i # l + 1
  OBVIOUS
<1>3. /\ Done(h, o, G) /\ s[1].from = r
      /\ \A i \in 1..(l + 1) : Working(h, o, G, again, s[i])
  BY DEF Passing
<1>4. \A i \in 1..(l + 1) : s[i].to \in DOMAIN h /\ s[i].next \in Nat /\ Unheld(h, s[i].to)
  BY FrameFacts DEF Frames
<1>5. \A i, k \in 1..(l + 1) : s[i].to = s[k].to => i = k BY DEF Frames
<1>6. PICK f, t, d : f = s[l] /\ t = s[l + 1] /\ d = e[l] OBVIOUS
<1>7. /\ f.to \in DOMAIN h /\ t.to \in DOMAIN h /\ f.next \in Nat
      /\ Unheld(h, f.to) /\ t.to # f.to /\ t.to > o
      /\ Working(h, o, G, again, f) /\ Working(h, o, G, again, t)
  BY <1>1, <1>2, <1>3, <1>4, <1>5, <1>6
<1>8. Descends(h, f, t) BY <1>2, <1>6 DEF Passing
<1>9. SimpleIf(again, h, t.from, h[f.to].class)
  <2>1. SimpleIf(again, h, t.from, HolderAt(h, s, l + 1)) BY <1>2, <1>6 DEF Passing, SimpleIf
  <2>2. HolderAt(h, s, l + 1) = h[f.to].class
    <3>1. l + 1 # 1 /\ (l + 1) - 1 = l OBVIOUS
    <3> QED BY <1>6, <3>1 DEF HolderAt
  <2> QED BY <2>1, <2>2
<1>10. /\ q = Simplified(h, t.to, h[f.to].class)
      /\ \A j \in DOMAIN h[t.from].kids : j < t.next
  BY <1>1, <1>6
<1>11. /\ d = [from |-> f.from, to |-> f.to, next |-> f.next + 1]
       /\ \A i \in 1..l : i # l => e[i] = s[i]
  BY <1>1, <1>2, <1>6
<1>12. PICK g, S : g = Set(h, f.to, f.next, q) /\ S = G \cup {t.to} OBVIOUS
<1>13. /\ IsHeap(g) /\ Acyclic(g) /\ Len(g) = Len(h)
       /\ \A m \in 1..Len(h) : g[m].class = h[m].class /\ g[m].name = h[m].name
       /\ \A m \in 1..Len(h) : m # f.to => g[m].kids = h[m].kids
       /\ Agree(h, g, Known(o, S)) /\ Done(g, o, S) /\ Working(g, o, S, again, d)
  <2>1. Done(h, o, G) BY <1>3
  <2> DEFINE T == G \cup {t.to}
             k == Set(h, f.to, f.next, q)
             c == [from |-> f.from, to |-> f.to, next |-> f.next + 1]
  <2>2. /\ IsHeap(k) /\ Acyclic(k) /\ Len(k) = Len(h)
        /\ \A m \in 1..Len(h) : k[m].class = h[m].class /\ k[m].name = h[m].name
        /\ \A m \in 1..Len(h) : m # f.to => k[m].kids = h[m].kids
        /\ Agree(h, k, Known(o, T)) /\ Done(k, o, T) /\ Working(k, o, T, again, c)
    BY <1>7, <1>8, <1>9, <1>10, <2>1, FrameReturns
  <2>3. d = c /\ g = k /\ S = T BY <1>11, <1>12
  <2> HIDE DEF c, k, T
  <2> QED BY <2>2, <2>3
<1>14. G \subseteq S /\ Known(o, G) \subseteq Known(o, S) /\ Closed(h, Known(o, G))
  BY <1>3, <1>12, DoneClosed DEF Known
<1>15. Agree(h, g, Known(o, G)) BY <1>13, <1>14 DEF Agree
<1>16. Len(h) \in Nat /\ DOMAIN h = 1..Len(h) /\ Len(h) <= Len(g) BY <1>13 DEF IsHeap
<1>17. ASSUME NEW i \in 1..l PROVE Working(g, o, S, again, e[i])
  <2>1. CASE i = l BY <1>6, <1>13, <2>1
  <2>2. CASE i # l
    <3>1. PICK b : b = s[i] OBVIOUS
    <3>2. e[i] = b /\ Working(h, o, G, again, b) /\ b.to \in DOMAIN h /\ b.to # f.to
      BY <1>2, <1>3, <1>4, <1>5, <1>6, <1>11, <2>2, <3>1
    <3>3. b.to # t.to BY <1>2, <1>5, <1>6, <3>1
    <3>4. b.to \notin S BY <1>12, <3>2, <3>3 DEF Working, Known
    <3>5. /\ g[b.to].class = h[b.to].class /\ g[b.to].name = h[b.to].name
          /\ g[b.to].kids = h[b.to].kids
      BY <1>13, <1>16, <3>2
    <3>6. Working(g, o, S, again, b)
      BY <1>3, <1>13, <1>14, <1>15, <1>16, <3>2, <3>4, <3>5, WorkingKept
    <3> QED BY <3>2, <3>6
  <2> QED BY <2>1, <2>2
<1>18. \A i \in 1..l : e[i].from = s[i].from /\ e[i].to = s[i].to
  <2>1. e[l].from = s[l].from /\ e[l].to = s[l].to BY <1>6, <1>11
  <2> QED BY <1>11, <2>1
<1>19. \A i \in 1..l : s[i].from \in Known(o, G) /\ s[i].from # Nil
  BY <1>2, <1>3, WorkingKnown
<1>20. ASSUME NEW n \in Known(o, G), n # Nil
       PROVE  /\ g[n].class = h[n].class /\ g[n].kids = h[n].kids
              /\ \A k : Plain(h, n, k) => Plain(g, n, k)
  <2>1. g[n].class = h[n].class /\ g[n].kids = h[n].kids BY <1>15, <1>20 DEF Agree
  <2> QED BY <1>13, <1>14, <1>15, <1>20, <2>1, PlainKept
<1>21. ASSUME NEW i \in 1..(l - 1) PROVE Descends(g, e[i], e[i + 1])
  <2>1. i \in 1..l /\ i # l /\ i + 1 \in 1..l /\ i \in 1..((l + 1) - 1) BY <1>21
  <2>2. PICK b, u, w : b = s[i] /\ u = s[i + 1] /\ w = e[i + 1] OBVIOUS
  <2>3. e[i] = b /\ w.from = u.from BY <1>11, <1>18, <2>1, <2>2
  <2>4. Descends(h, b, u) BY <2>1, <2>2 DEF Passing
  <2>5. g[b.from].class = h[b.from].class /\ g[b.from].kids = h[b.from].kids
    BY <1>19, <1>20, <2>1, <2>2
  <2>6. Descends(g, b, w) BY <2>3, <2>4, <2>5 DEF Descends
  <2> QED BY <2>2, <2>3, <2>6
<1>22. ASSUME again, NEW i \in 1..l PROVE Plain(g, e[i].from, HolderAt(g, e, i))
  <2>1. Plain(h, s[i].from, HolderAt(h, s, i)) BY <1>2, <1>22 DEF Passing
  <2>2. HolderAt(g, e, i) = HolderAt(h, s, i)
    <3>1. CASE i = 1 BY <3>1 DEF HolderAt
    <3>2. CASE i # 1
      <4>1. i - 1 \in 1..l /\ i - 1 \in 1..(l + 1) BY <1>22, <3>2
      <4>2. e[i - 1].to = s[i - 1].to BY <1>18, <4>1
      <4>3. g[s[i - 1].to].class = h[s[i - 1].to].class BY <1>4, <1>13, <1>16, <4>1
      <4> QED BY <3>2, <4>2, <4>3 DEF HolderAt
    <3> QED BY <3>1, <3>2
  <2> QED BY <1>18, <1>19, <1>20, <1>22, <2>1, <2>2
<1>23. Passing(g, e, l, o, S, again, r)
  <2>1. e[1].from = r BY <1>2, <1>3, <1>18
  <2> QED BY <1>13, <1>17, <1>21, <1>22, <2>1 DEF Passing
<1> QED BY <1>6, <1>12, <1>15, <1>23

\* And what the last frame makes is what the pass returns.
LEMMA PassingReturns ==
  ASSUME NEW h, IsHeap(h), Acyclic(h), NEW s, s[1].to \in DOMAIN h,
         NEW o, NEW G, NEW again, NEW r, Passing(h, s, 1, o, G, again, r),
         s[1].to > o, \A j \in DOMAIN h[s[1].from].kids : j < s[1].next,
         NEW q, q = Simplified(h, s[1].to, "none")
  PROVE  /\ Meaning(h, q) = Meaning(h, r)
         /\ again => q # Nil /\ Term(h, q) = Term(h, r)
         /\ \E S : Done(h, o, S) /\ (q = Nil \/ (q \in S /\ Plain(h, q, "none")))
<1>1. 1 \in 1..1 OBVIOUS
<1>2. PICK f : f = s[1] OBVIOUS
<1>3. /\ Done(h, o, G) /\ f.from = r /\ Working(h, o, G, again, f)
      /\ f.to \in DOMAIN h /\ f.to > o /\ \A j \in DOMAIN h[f.from].kids : j < f.next
  BY <1>1, <1>2 DEF Passing
<1>4. again => Plain(h, r, "none")
  <2>1. HolderAt(h, s, 1) = "none" BY DEF HolderAt
  <2> QED BY <1>1, <1>2, <1>3, <2>1 DEF Passing
<1>5. /\ Done(h, o, G \cup {f.to})
      /\ \A j \in DOMAIN h[f.to].kids : SlotDone(h, o, G, f.to, j)
      /\ Meaning(h, f.to) = Meaning(h, f.from)
      /\ again => Term(h, f.to) = Term(h, f.from)
  BY <1>3, FrameDone
<1>6. PICK n, holder : n = f.to /\ holder = "none" OBVIOUS
<1>7. r \in DOMAIN h BY <1>3, WorkingKnown
<1>8. /\ n \in DOMAIN h /\ \A j \in DOMAIN h[n].kids : SlotDone(h, o, G, n, j)
      /\ Meaning(h, n) = Meaning(h, r) /\ (again => Term(h, n) = Term(h, r))
      /\ q = Simplified(h, n, holder) /\ holder # "Filter" /\ (again => Plain(h, r, holder))
      /\ n # Nil
  <2>1. Nil \notin DOMAIN h BY DEF IsHeap, Nil
  <2> QED BY <1>2, <1>3, <1>4, <1>5, <1>6, <2>1
<1>9. /\ Meaning(h, q) = Meaning(h, r)
      /\ q = Nil \/ (q \in G \cup {n} /\ Plain(h, q, holder))
      /\ Term(h, n) = Term(h, r) /\ Plain(h, r, holder) => q = n
  BY <1>3, <1>7, <1>8, FrameOutcome
<1>10. again => q # Nil /\ Term(h, q) = Term(h, r) BY <1>8, <1>9
<1>11. Done(h, o, G \cup {n}) BY <1>5, <1>6
<1> QED BY <1>6, <1>9, <1>10, <1>11

-----------------------------------------------------------------------------
(* The steps of Simplify.                                                  *)

\* Simplify makes one pass or two, over a tree that means what it was given.
Doing(G) ==
  /\ call.pass \in {1, 2} /\ call.root \in 1..call.owned
  /\ Meaning(heap, call.input) = Meaning(heap, call.root)
  /\ Passing(heap, stack, Len(stack), call.owned, G, call.pass = 2, call.input)

Simplifying == call.phase = "simplify" => \E G : Doing(G)

\* What is read in a pass means what it did.
LEMMA ReadKept ==
  ASSUME NEW h, IsHeap(h), Acyclic(h), NEW g, IsHeap(g), Acyclic(g), Len(h) <= Len(g),
         NEW o, NEW G, NEW l \in Nat, l > 0, NEW s, NEW again, NEW r,
         Passing(h, s, l, o, G, again, r), Agree(h, g, Known(o, G))
  PROVE  /\ Meaning(g, r) = Meaning(h, r)
         /\ \A n \in 1..o : Meaning(g, n) = Meaning(h, n)
<1>1. 1 \in 1..l OBVIOUS
<1>2. PICK f : f = s[1] OBVIOUS
<1>3. Done(h, o, G) /\ f.from = r /\ Working(h, o, G, again, f)
  BY <1>1, <1>2 DEF Passing
<1>4. r \in Known(o, G) BY <1>3, WorkingKnown
<1>5. Closed(h, Known(o, G)) /\ 1..o \subseteq Known(o, G) BY <1>3, DoneClosed DEF Known
<1>6. \A n \in Known(o, G) : Meaning(g, n) = Meaning(h, n) BY <1>5, MeaningKept
<1> QED BY <1>4, <1>5, <1>6

LEMMA SkipDoing ==
  ASSUME Inv, NoCycle, SkipChild, call.phase = "simplify", NEW G, Doing(G)
  PROVE  Doing(G)'
<1> DEFINE l == Len(stack)
<1>1. /\ heap' = heap /\ call' = call /\ PassedOver /\ Copying /\ AtChild
      /\ stack' = Advanced(stack)
  BY DEF SkipChild
<1>2. /\ DOMAIN stack' = 1..l /\ l \in Nat
      /\ \A i \in 1..l :
           stack'[i] = IF i = l
                       THEN [from |-> stack[i].from, to |-> stack[i].to,
                             next |-> stack[i].next + 1]
                       ELSE stack[i]
  BY FrameSkipped
<1>3. l > 0 /\ Frames(heap, stack, l) /\ IsHeap(heap)
  BY <1>1, TopFacts, FramesOfStack DEF Inv, HeapInv
<1>4. Top.next \in DOMAIN heap[Top.from].kids BY <1>1, TopSlots
<1>5. \/ heap[Top.from].kids[Top.next] = Nil
      \/ heap[Top.from].class = "Interval" /\ Top.next = 1
  BY <1>1 DEF PassedOver, Child
<1>6. Len(stack') = l
  <2>1. stack' \in Seq(FramesOver(heap))
    BY <1>1, TopFacts, AdvancedFacts DEF Inv, StackInv
  <2> QED BY <1>2, <2>1
<1>7. Top = stack[l] BY DEF Top
<1>8. \A i \in 1..l : stack[i].next \in Nat BY <1>3, FrameFacts DEF Frames
<1> HIDE DEF l
<1>9. PICK o, again, r : o = call.owned /\ again = (call.pass = 2) /\ r = call.input OBVIOUS
<1>10. Passing(heap, stack, l, o, G, again, r) BY <1>9 DEF l, Doing
<1>11. Passing(heap, stack', l, o, G, again, r)
  <2>1. Skipped(heap, stack, stack', l) BY <1>2, <1>4, <1>5, <1>7, <1>8 DEF Skipped
  <2> QED BY <1>2, <1>3, <1>10, <2>1, PassingSkips
<1> QED BY <1>1, <1>6, <1>9, <1>11 DEF Doing

LEMMA EnterDoing ==
  ASSUME Inv, Inv', NoCycle, NoCycle', EnterChild, call.phase = "simplify",
         NEW G, Doing(G)
  PROVE  Doing(G)'
<1> DEFINE l == Len(stack)
<1>1. /\ Copying /\ AtChild /\ ~ PassedOver /\ heap' = ShallowCopy(heap, Child)
      /\ stack' = Append(stack, Frame(Child, Len(heap) + 1)) /\ call' = call
  BY DEF EnterChild
<1>2. /\ DOMAIN stack' = 1..(l + 1) /\ l \in Nat
      /\ stack'[l + 1] = [from |-> Child, to |-> Len(heap) + 1, next |-> 1]
      /\ \A i \in 1..l : stack'[i] = stack[i]
  BY FrameEntered
<1>3. /\ l > 0 /\ Frames(heap, stack, l) /\ IsHeap(heap) /\ Acyclic(heap)
      /\ IsHeap(heap') /\ Acyclic(heap')
  BY <1>1, TopFacts, FramesOfStack DEF Inv, HeapInv, NoCycle
<1>4. Top.next \in DOMAIN heap[Top.from].kids /\ Child = heap[Top.from].kids[Top.next]
  BY <1>1, TopSlots DEF Child
<1>5. /\ Child # Nil
      /\ ~ (heap[Top.from].class = "Interval" /\ Top.next = 1)
  BY <1>1 DEF PassedOver
<1>6. Len(stack') = l + 1
  <2>1. Len(Append(stack, Frame(Child, Len(heap) + 1))) = Len(stack) + 1
    <3>1. stack \in Seq(FramesOver(heap)) BY DEF Inv, StackInv
    <3> QED BY <3>1
  <2> QED BY <1>1, <2>1
<1>7. Top = stack[l] BY DEF Top
<1>8. \A i \in 1..l : stack[i].to \in DOMAIN heap BY <1>3, FrameFacts DEF Frames
<1>9. Len(heap) <= Len(heap')
  <2>1. Child \in DOMAIN heap BY <1>1, ChildFacts
  <2>2. Len(heap') = Len(heap) + 1 /\ Len(heap) \in Nat
    BY <1>1, <1>3, <2>1, ShallowFacts DEF IsHeap
  <2> QED BY <2>2
<1> HIDE DEF l
<1>10. PICK c, e, o, again, r : /\ c = Child /\ e = stack' /\ o = call.owned
                                /\ again = (call.pass = 2) /\ r = call.input
  OBVIOUS
<1>11. Passing(heap, stack, l, o, G, again, r) BY <1>10 DEF l, Doing
<1>12. /\ stack[l].next \in DOMAIN heap[stack[l].from].kids
       /\ c = heap[stack[l].from].kids[stack[l].next] /\ c # Nil
       /\ ~ (heap[stack[l].from].class = "Interval" /\ stack[l].next = 1)
  BY <1>4, <1>5, <1>7, <1>10
<1>13. /\ \A i \in 1..l : e[i] = stack[i]
       /\ e[l + 1] = [from |-> c, to |-> Len(heap) + 1, next |-> 1]
  BY <1>2, <1>10
<1>14. /\ Passing(ShallowCopy(heap, c), e, l + 1, o, G, again, r)
       /\ Agree(heap, ShallowCopy(heap, c), Known(o, G))
  <2>1. IsHeap(heap) /\ Acyclic(heap) /\ l \in Nat /\ l > 0 BY <1>2, <1>3
  <2>2. Entered(heap, stack, e, l, c) BY <1>12, <1>13 DEF Entered
  <2> QED BY <1>8, <1>11, <2>1, <2>2, PassingEnters
<1>15. heap' = ShallowCopy(heap, c) BY <1>1, <1>10
<1>16. /\ Meaning(heap', r) = Meaning(heap, r)
       /\ \A n \in 1..o : Meaning(heap', n) = Meaning(heap, n)
  BY <1>2, <1>3, <1>9, <1>11, <1>14, <1>15, ReadKept
<1> QED BY <1>1, <1>6, <1>10, <1>14, <1>15, <1>16 DEF Doing

LEMMA LeaveDoing ==
  ASSUME Inv, Inv', NoCycle, NoCycle', LeaveChild, call.phase = "simplify",
         NEW G, Doing(G)
  PROVE  \E S : Doing(S)'
<1> DEFINE l == Len(stack) - 1
           holder == heap[stack[l].to].class
<1>1. /\ Copying /\ ~ AtChild /\ stack' = Advanced(Below) /\ Len(stack) > 1 /\ call' = call
  BY DEF LeaveChild
<1>2. /\ l \in Nat /\ l > 0 /\ l + 1 = Len(stack) /\ Top = stack[l + 1]
      /\ DOMAIN stack = 1..(l + 1) /\ DOMAIN stack' = 1..l
      /\ \A i \in 1..l :
           stack'[i] = IF i = l
                       THEN [from |-> stack[i].from, to |-> stack[i].to,
                             next |-> stack[i].next + 1]
                       ELSE stack[i]
      /\ heap' = Set(heap, stack[l].to, stack[l].next, Outcome)
  BY FrameLeft
<1>3. /\ Frames(heap, stack, l + 1) /\ IsHeap(heap) /\ Acyclic(heap)
      /\ IsHeap(heap') /\ Acyclic(heap')
  <2>1. Frames(heap, stack, Len(stack)) BY FramesOfStack
  <2> QED BY <1>2, <2>1 DEF Inv, HeapInv, NoCycle
<1>4. \A j \in DOMAIN heap[Top.from].kids : j < Top.next BY <1>1, TopSlots
<1>5. Outcome = Simplified(heap, Top.to, holder)
  <2>1. Len(stack) \in Nat BY <1>1, TopFacts
  <2>2. Len(stack) # 1
    <3>1. Len(stack) > 1 BY <1>1
    <3>2. \A n \in Nat : n > 1 => n # 1 OBVIOUS
    <3> QED BY <2>1, <3>1, <3>2
  <2>3. call.phase # "copy" OBVIOUS
  <2> QED BY <2>2, <2>3 DEF Outcome
<1>6. Len(stack') = l
  <2>1. Below \in Seq(FramesOver(heap)) /\ Len(Below) = l BY <1>1, BelowFacts
  <2>2. stack' \in Seq(FramesOver(heap)) BY <1>1, <1>2, <2>1, AdvancedFacts
  <2>3. Len(stack') \in Nat /\ DOMAIN stack' = 1..Len(stack') BY <2>2
  <2> HIDE DEF l
  <2> QED BY <1>2, <2>3
<1>7. \A i \in 1..(l + 1) : stack[i].to > call.owned BY <1>2 DEF Inv, StackInv
<1>8. Len(heap) <= Len(heap')
  <2>1. stack[l].to \in DOMAIN heap
    <3>1. l \in 1..(l + 1)
      <4>1. l \in Nat /\ l > 0 BY <1>2
      <4> HIDE DEF l
      <4> QED BY <4>1
    <3>2. stack[l] \in FramesOver(heap) BY <1>3, <3>1 DEF Frames
    <3> QED BY <1>3, <3>2, FrameFacts
  <2>2. Outcome \in 0..Len(heap) BY <1>1, OutcomeType
  <2>3. PICK n, q : n = stack[l].to /\ q = Outcome OBVIOUS
  <2>4. Len(Set(heap, n, stack[l].next, q)) = Len(heap) /\ Len(heap) \in Nat
    BY <1>3, <2>1, <2>2, <2>3, SetHeap DEF IsHeap
  <2>5. heap' = Set(heap, n, stack[l].next, q) BY <1>2, <2>3
  <2> HIDE DEF l
  <2> QED BY <2>4, <2>5
<1> HIDE DEF l, holder
<1>9. PICK q, e, o, again, r : /\ q = Outcome /\ e = stack' /\ o = call.owned
                               /\ again = (call.pass = 2) /\ r = call.input
  OBVIOUS
<1>10. Passing(heap, stack, l + 1, o, G, again, r) BY <1>2, <1>9 DEF Doing
<1>11. q = Simplified(heap, stack[l + 1].to, heap[stack[l].to].class)
  BY <1>2, <1>5, <1>9 DEF holder
<1>12. \A i \in 1..l : e[i] = IF i = l THEN [from |-> stack[i].from, to |-> stack[i].to,
                                             next |-> stack[i].next + 1]
                              ELSE stack[i]
  BY <1>2, <1>9
<1>13. /\ \A i \in 1..(l + 1) : stack[i].to > o
       /\ \A j \in DOMAIN heap[stack[l + 1].from].kids : j < stack[l + 1].next
  BY <1>2, <1>4, <1>7, <1>9
<1>14. /\ \E S : Passing(Set(heap, stack[l].to, stack[l].next, q), e, l, o, S, again, r)
       /\ Agree(heap, Set(heap, stack[l].to, stack[l].next, q), Known(o, G))
  <2>1. Left(heap, stack, e, l, o) BY <1>12, <1>13 DEF Left
  <2> QED BY <1>2, <1>3, <1>10, <1>11, <2>1, PassingLeaves
<1>15. heap' = Set(heap, stack[l].to, stack[l].next, q) BY <1>2, <1>9
<1>16. PICK S : Passing(heap', e, l, o, S, again, r) BY <1>14, <1>15
<1>17. /\ Meaning(heap', r) = Meaning(heap, r)
       /\ \A n \in 1..o : Meaning(heap', n) = Meaning(heap, n)
  <2>1. l + 1 \in Nat /\ l + 1 > 0 BY <1>2
  <2> QED BY <1>3, <1>8, <1>10, <1>14, <1>15, <2>1, ReadKept
<1>18. Doing(S)' BY <1>1, <1>6, <1>9, <1>16, <1>17 DEF Doing
<1> QED BY <1>18


LEMMA PassFinishes ==
  ASSUME Inv, NoCycle, Finished, call.phase = "simplify", NEW G, Doing(G)
  PROVE  /\ Meaning(heap, Outcome) = Meaning(heap, call.input)
         /\ call.pass = 2 => Outcome # Nil /\ Term(heap, Outcome) = Term(heap, call.input)
         /\ \E S : /\ Done(heap, call.owned, S)
                   /\ Outcome = Nil \/ (Outcome \in S /\ Plain(heap, Outcome, "none"))
<1>1. Copying /\ ~ AtChild /\ Len(stack) = 1 BY DEF Finished
<1>2. Frames(heap, stack, 1) BY <1>1, FramesOfStack
<1>3. IsHeap(heap) /\ Acyclic(heap) BY DEF Inv, HeapInv, NoCycle
<1>4. Top = stack[1] BY <1>1 DEF Top
<1>5. \A j \in DOMAIN heap[stack[1].from].kids : j < stack[1].next BY <1>1, <1>4, TopSlots
<1>6. stack[1].to \in DOMAIN heap
  <2>1. stack[1] \in FramesOver(heap) BY <1>2 DEF Frames
  <2> QED BY <1>3, <2>1, FrameFacts
<1>7. stack[1].to > call.owned
  <2>1. stack \in Seq(FramesOver(heap)) BY DEF Inv, StackInv
  <2>2. 1 \in DOMAIN stack BY <1>1, <2>1
  <2> QED BY <2>2 DEF Inv, StackInv
<1>8. Outcome = Simplified(heap, stack[1].to, "none") BY <1>1, <1>4 DEF Outcome
<1>9. PICK q, o, again, r : /\ q = Outcome /\ o = call.owned
                            /\ again = (call.pass = 2) /\ r = call.input
  OBVIOUS
<1>10. Passing(heap, stack, 1, o, G, again, r) BY <1>1, <1>9 DEF Doing
<1>11. q = Simplified(heap, stack[1].to, "none") /\ stack[1].to > o BY <1>7, <1>8, <1>9
<1>12. /\ Meaning(heap, q) = Meaning(heap, r)
       /\ again => q # Nil /\ Term(heap, q) = Term(heap, r)
       /\ \E S : Done(heap, o, S) /\ (q = Nil \/ (q \in S /\ Plain(heap, q, "none")))
  BY <1>3, <1>5, <1>6, <1>10, <1>11, PassingReturns
<1> QED BY <1>9, <1>12

LEMMA StartDoing ==
  ASSUME Inv, NoCycle, NEW r, CallSimplify(r)
  PROVE  \E G : Doing(G)'
<1>1. /\ r \in roots /\ heap' = ShallowCopy(heap, r)
      /\ stack' = <<[from |-> r, to |-> Len(heap) + 1, next |-> 1]>>
      /\ call' = [op |-> "simplify", phase |-> "simplify", root |-> r, owned |-> Len(heap),
                  input |-> r, pass |-> 1]
  BY DEF CallSimplify, Makes, Frame
<1>2. IsHeap(heap) /\ Acyclic(heap) /\ r \in 1..Len(heap)
  BY <1>1 DEF Inv, HeapInv, NoCycle
<1>3. Done(heap, Len(heap), {})
  <2>1. Len(heap) \in Nat /\ DOMAIN heap = 1..Len(heap) BY <1>2 DEF IsHeap
  <2>2. \A n \in 1..Len(heap) : \A i \in DOMAIN heap[n].kids : heap[n].kids[i] \in 0..Len(heap)
    BY <1>2, <2>1, HeapFacts
  <2> QED BY <2>1, <2>2 DEF Done
<1>4. PICK s, again, o : s = stack' /\ again = FALSE /\ o = Len(heap) OBVIOUS
<1>5. /\ s[1] = [from |-> r, to |-> Len(heap) + 1, next |-> 1] /\ Len(stack') = 1
  BY <1>1, <1>4
<1>6. IF again THEN r \in {} /\ Plain(heap, r, "none") ELSE r \in 1..o BY <1>2, <1>4
<1>7. Passing(ShallowCopy(heap, r), s, 1, o, {}, again, r)
  <2>1. Done(heap, o, {}) BY <1>3, <1>4
  <2> QED BY <1>2, <1>5, <1>6, <2>1, PassingStarts
<1>8. /\ call'.pass = 1 /\ call'.root = r /\ call'.owned = o /\ call'.input = r
      /\ (call'.pass = 2) = again
  <2>1. call'.pass = 1 /\ call'.root = r /\ call'.owned = Len(heap) /\ call'.input = r
    BY <1>1
  <2>2. (call'.pass = 2) = FALSE
    <3>1. call'.pass # 2 BY <2>1
    <3> QED BY <3>1, Zenon
  <2> QED BY <1>4, <2>1, <2>2
<1>9. Passing(heap', stack', Len(stack'), call'.owned, {}, call'.pass = 2, call'.input)
  BY <1>1, <1>4, <1>5, <1>7, <1>8
<1>10. Doing({})' BY <1>2, <1>4, <1>8, <1>9 DEF Doing
<1> QED BY <1>10

LEMMA NextDoing ==
  ASSUME Inv, Inv', NoCycle, NoCycle', NextPass, NEW G, Doing(G)
  PROVE  \E S : Doing(S)'
<1>1. call \in [op : Ops \cup {"none"}, phase : Phases, root : Nat,
                owned : 0..Len(heap), input : 0..Len(heap), pass : Nat]
  BY DEF Inv, CallInv
<1>2. /\ Finished /\ call.phase = "simplify" /\ Outcome # Nil
      /\ Term(heap, Outcome) # Term(heap, call.input)
      /\ heap' = ShallowCopy(heap, Outcome)
      /\ stack' = <<[from |-> Outcome, to |-> Len(heap) + 1, next |-> 1]>>
      /\ call' = [call EXCEPT !.input = Outcome, !.pass = @ + 1]
  BY DEF NextPass, Frame
<1>3. /\ Meaning(heap, Outcome) = Meaning(heap, call.input) /\ call.pass # 2
      /\ \E S : Done(heap, call.owned, S) /\ Outcome \in S /\ Plain(heap, Outcome, "none")
  BY <1>2, PassFinishes
<1>4. /\ call.pass = 1 /\ call.root \in 1..call.owned
      /\ Meaning(heap, call.input) = Meaning(heap, call.root)
  BY <1>3 DEF Doing
<1>5. /\ call'.pass = 2 /\ call'.root = call.root /\ call'.owned = call.owned
      /\ call'.input = Outcome
  BY <1>1, <1>2, <1>4
<1>6. IsHeap(heap) /\ Acyclic(heap) /\ IsHeap(heap') /\ Acyclic(heap')
  BY DEF Inv, HeapInv, NoCycle
<1>7. PICK S : Done(heap, call.owned, S) /\ Outcome \in S /\ Plain(heap, Outcome, "none")
  BY <1>3
<1>8. PICK q, s, o, again, f :
        /\ q = Outcome /\ s = stack' /\ o = call.owned /\ again = TRUE
        /\ f = [from |-> q, to |-> Len(heap) + 1, next |-> 1]
  OBVIOUS
<1>9. /\ s[1] = [from |-> q, to |-> Len(heap) + 1, next |-> 1] /\ Len(stack') = 1
  BY <1>2, <1>8
<1>10. /\ Done(heap, o, S) /\ q \in S /\ Plain(heap, q, "none")
       /\ IF again THEN q \in S /\ Plain(heap, q, "none") ELSE q \in 1..o
       /\ IF again THEN q \in S ELSE q \in 1..o
  BY <1>7, <1>8
<1>11. Passing(ShallowCopy(heap, q), s, 1, o, S, again, q)
  BY <1>6, <1>9, <1>10, PassingStarts
<1>12. heap' = ShallowCopy(heap, q) BY <1>2, <1>8
<1>13. Agree(heap, heap', Known(o, S)) /\ Len(heap') = Len(heap) + 1
  BY <1>6, <1>8, <1>10, <1>12, CopyBegun
<1>14. Meaning(heap', q) = Meaning(heap', call.root)
  <2>1. Closed(heap, Known(o, S)) BY <1>6, <1>10, DoneClosed
  <2>2. q \in Known(o, S) /\ call.root \in Known(o, S)
    BY <1>1, <1>4, <1>8, <1>10 DEF Known
  <2>3. Len(heap) <= Len(heap') BY <1>6, <1>13 DEF IsHeap
  <2>4. \A n \in Known(o, S) : Meaning(heap', n) = Meaning(heap, n)
    BY <1>6, <1>13, <2>1, <2>3, MeaningKept
  <2>5. Meaning(heap, q) = Meaning(heap, call.root) BY <1>3, <1>4, <1>8
  <2> QED BY <2>2, <2>4, <2>5
<1>15. Passing(heap', stack', Len(stack'), call'.owned, S, call'.pass = 2, call'.input)
  <2>1. (call'.pass = 2) = again /\ call'.owned = o /\ call'.input = q BY <1>5, <1>8
  <2> QED BY <1>8, <1>9, <1>11, <1>12, <2>1
<1>16. Doing(S)' BY <1>4, <1>5, <1>8, <1>14, <1>15 DEF Doing
<1> QED BY <1>16

LEMMA StepSimplifying ==
  ASSUME Inv, Inv', NoCycle, NoCycle', Simplifying, [Next]_vars, "hive" \notin Ops
  PROVE  Simplifying'
<1> SUFFICES ASSUME call'.phase = "simplify" PROVE \E G : Doing(G)' BY DEF Simplifying
<1>1. call \in [op : Ops \cup {"none"}, phase : Phases, root : Nat,
                owned : 0..Len(heap), input : 0..Len(heap), pass : Nat]
  BY DEF Inv, CallInv
<1>2. CASE UNCHANGED vars
  <2>1. heap' = heap /\ stack' = stack /\ call' = call BY <1>2 DEF vars
  <2>2. PICK G : Doing(G) BY <2>1 DEF Simplifying
  <2>3. Doing(G)' BY <2>1, <2>2 DEF Doing
  <2> QED BY <2>3
<1>3. CASE Calls
  <2>1. \/ \E r \in roots : CallSimplify(r)
        \/ \E r \in roots : CallCopy(r) \/ CallTSQL(r) \/ CallGenerate(r)
    BY <1>3 DEF Calls
  <2>2. ASSUME NEW r \in roots, CallCopy(r) \/ CallTSQL(r) \/ CallGenerate(r) PROVE FALSE
    BY <2>2 DEF CallCopy, CallTSQL, CallGenerate, Copies, Makes
  <2> QED BY <2>1, <2>2, StartDoing
<1>4. CASE Recursion
  <2>1. call' = call BY <1>4 DEF Recursion, SkipChild, EnterChild, LeaveChild
  <2>2. PICK G : Doing(G) BY <2>1 DEF Simplifying
  <2>3. CASE SkipChild BY <2>1, <2>2, <2>3, SkipDoing
  <2>4. CASE EnterChild BY <2>1, <2>2, <2>4, EnterDoing
  <2>5. CASE LeaveChild BY <2>1, <2>2, <2>5, LeaveDoing
  <2> QED BY <1>4, <2>3, <2>4, <2>5 DEF Recursion
<1>5. CASE Returns
  <2>1. CASE CopyReturns \/ SimplifyReturns BY <1>1, <2>1 DEF CopyReturns, SimplifyReturns
  <2>2. CASE NextPass
    <3>1. PICK G : Doing(G) BY <2>2 DEF Simplifying, NextPass
    <3> QED BY <2>2, <3>1, NextDoing
  <2> QED BY <1>5, <2>1, <2>2 DEF Returns
<1>6. CASE Writing
  <2>1. CASE PassAbsent \/ EnsureBools \/ WriteNode
    BY <2>1 DEF PassAbsent, EnsureBools, WriteNode
  <2>2. CASE CopyForTSQL \/ BoolsDone \/ GenerateReturns
    BY <1>1, <2>2 DEF CopyForTSQL, BoolsDone, GenerateReturns
  <2> QED BY <1>6, <2>1, <2>2 DEF Writing
<1>7. CASE Rewriting BY <1>7, NoneRewritten
<1> QED BY <1>2, <1>3, <1>4, <1>5, <1>6, <1>7 DEF Next

-----------------------------------------------------------------------------
(* What Simplify returns.                                                  *)

LEMMA ReturnsExact ==
  ASSUME Inv, NoCycle, Simplifying, SimplifyReturns
  PROVE  SimplifyIsExact'
<1>1. call \in [op : Ops \cup {"none"}, phase : Phases, root : Nat,
                owned : 0..Len(heap), input : 0..Len(heap), pass : Nat]
  BY DEF Inv, CallInv
<1>2. /\ Finished /\ call.phase = "simplify" /\ heap' = heap
      /\ call' = [call EXCEPT !.phase = "idle", !.input = Outcome]
  BY DEF SimplifyReturns
<1>3. PICK G : Doing(G) BY <1>2 DEF Simplifying
<1>4. /\ call.pass \in {1, 2} /\ call.root \in 1..call.owned
      /\ Meaning(heap, call.input) = Meaning(heap, call.root)
  BY <1>3 DEF Doing
<1>5. /\ call'.pass = call.pass /\ call'.root = call.root /\ call'.owned = call.owned
      /\ call'.input = Outcome
  BY <1>1, <1>2
<1>6. /\ Meaning(heap, Outcome) = Meaning(heap, call.input)
      /\ \E S : /\ Done(heap, call.owned, S)
                /\ Outcome = Nil \/ (Outcome \in S /\ Plain(heap, Outcome, "none"))
  BY <1>2, <1>3, PassFinishes
<1>7. PICK q, o : q = Outcome /\ o = call.owned OBVIOUS
<1>8. PICK S : Done(heap, o, S) /\ (q = Nil \/ (q \in S /\ Plain(heap, q, "none")))
  BY <1>6, <1>7
<1>9. IsHeap(heap) /\ Acyclic(heap) BY DEF Inv, HeapInv, NoCycle
<1>10. /\ Closed(heap, Known(o, S)) /\ o \in Nat /\ S \subseteq DOMAIN heap /\ Nil \in 0..o
       /\ \A n \in S : n \in DOMAIN heap /\ n > o /\ n # Nil
  <2>1. /\ Closed(heap, Known(o, S)) /\ o \in Nat /\ Nil \in 0..o
        /\ S \subseteq DOMAIN heap /\ Nil \notin S
    BY <1>8, <1>9, DoneClosed
  <2>2. \A n \in S : n \in DOMAIN heap /\ n > o BY <1>8 DEF Done
  <2> QED BY <2>1, <2>2
<1>11. call.pass < MaxPasses BY <1>4 DEF MaxPasses
<1>12. q # Nil => q > o /\ Simplified(heap, q, "none") = q
  <2>1. ASSUME q # Nil PROVE q \in DOMAIN heap /\ q > o /\ Simplified(heap, q, "none") = q
    <3>1. PICK holder : holder = "none" OBVIOUS
    <3>2. q \in DOMAIN heap /\ q > o /\ Plain(heap, q, holder) BY <1>8, <1>10, <2>1, <3>1
    <3>3. Simplified(heap, q, holder) = q BY <3>2, PlainStays
    <3> QED BY <3>1, <3>2, <3>3
  <2> QED BY <2>1
<1>13. ASSUME NEW n \in Under(heap, q), n > o, NEW i \in DOMAIN heap[n].kids
       PROVE  LET kid == heap[n].kids[i] IN
              IF heap[n].class = "Interval" /\ i = 1 THEN kid \in 0..o
              ELSE kid = Nil \/ (kid > o /\ Simplified(heap, kid, heap[n].class) = kid)
  <2>1. q \in Known(o, S) BY <1>8, <1>10 DEF Known
  <2>2. n \in Known(o, S) \ {Nil} BY <1>9, <1>10, <1>13, <2>1, UnderClosed
  <2>3. n \in S
    <3>1. \A m \in 0..o : ~ (m > o) BY <1>10
    <3> QED BY <1>13, <2>2, <3>1 DEF Known
  <2>4. SlotDone(heap, o, S, n, i) BY <1>8, <2>3 DEF Done
  <2>5. PICK kid, holder : kid = heap[n].kids[i] /\ holder = heap[n].class OBVIOUS
  <2>6. CASE holder = "Interval" /\ i = 1
    <3>1. kid \in 0..o BY <2>4, <2>5, <2>6 DEF SlotDone
    <3> QED BY <2>5, <2>6, <3>1
  <2>7. CASE ~ (holder = "Interval" /\ i = 1)
    <3>1. kid = Nil \/ (kid \in S /\ Plain(heap, kid, holder))
      BY <2>4, <2>5, <2>7 DEF SlotDone
    <3>2. kid = Nil \/ (kid > o /\ Simplified(heap, kid, holder) = kid)
      BY <1>10, <3>1, PlainStays
    <3> QED BY <2>5, <2>7, <3>2
  <2> QED BY <2>6, <2>7
<1>14. Meaning(heap, q) = Meaning(heap, call.root) BY <1>4, <1>6, <1>7
<1>15. /\ heap' = heap /\ call'.input = q /\ call'.owned = o /\ call'.root = call.root
       /\ call'.pass < MaxPasses
  BY <1>2, <1>5, <1>7, <1>11
<1>16. \A n \in Under(heap', q) :
         n > call'.owned => \A i \in DOMAIN heap'[n].kids : Settled(heap, n, i)'
  BY <1>7, <1>13, <1>15 DEF Settled
<1> QED BY <1>12, <1>14, <1>15, <1>16 DEF SimplifyIsExact

LEMMA StepExact ==
  ASSUME Inv, NoCycle, Simplifying, SimplifyIsExact, [Next]_vars, "hive" \notin Ops
  PROVE  SimplifyIsExact'
<1>1. call \in [op : Ops \cup {"none"}, phase : Phases, root : Nat,
                owned : 0..Len(heap), input : 0..Len(heap), pass : Nat]
  BY DEF Inv, CallInv
<1>2. CASE UNCHANGED vars
  <2>1. heap' = heap /\ call' = call BY <1>2 DEF vars
  <2> QED BY <2>1 DEF SimplifyIsExact, Settled, Returned
<1>3. CASE call'.phase # "idle" \/ call'.op # "simplify"
  BY <1>3 DEF SimplifyIsExact, Returned
<1>4. CASE CopyReturns
  <2>1. call'.op = "copy" BY <1>1, <1>4 DEF CopyReturns
  <2> QED BY <2>1 DEF SimplifyIsExact, Returned
<1>5. CASE SimplifyReturns BY <1>5, ReturnsExact
<1> QED BY <1>2, <1>3, <1>4, <1>5, StepReturns

\* Simplify gives back a tree that means what it was given, with no double
\* negation, no grouping that says nothing and no WHERE TRUE left in it, and that
\* holds no node of the caller's but the amounts of INTERVALs; it was never cut
\* short by the bound on its passes (simplify.go, Simplify and simplifyNode).
THEOREM SimplifyExact ==
  ASSUME "hive" \notin Ops
  PROVE  Spec => []SimplifyIsExact
<1>1. Init => Simplifying /\ SimplifyIsExact
  BY DEF Init, Idle, Simplifying, SimplifyIsExact, Returned
<1>2. Inv /\ [Next]_vars => Inv' BY StepInv
<1>3. Inv /\ NoCycle /\ [Next]_vars => NoCycle' BY StepNoCycle
<1>4. Inv /\ Inv' /\ NoCycle /\ NoCycle' /\ Simplifying /\ [Next]_vars => Simplifying'
  BY StepSimplifying
<1>5. Inv /\ NoCycle /\ Simplifying /\ SimplifyIsExact /\ [Next]_vars => SimplifyIsExact'
  BY StepExact
<1> QED BY <1>1, <1>2, <1>3, <1>4, <1>5, InitInv, InitNoCycle, PTL DEF Spec

=============================================================================
