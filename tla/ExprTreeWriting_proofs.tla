----------------------- MODULE ExprTreeWriting_proofs -----------------------
(***************************************************************************)
(* Writing is repeatable, for every tree a parser may have built and any   *)
(* number of calls (WritingRepeats), where what is called is Copy and      *)
(* Generate for T-SQL and for no dialect.  Where Simplify, or Generate for *)
(* another dialect, is called in between it is not: they adopt nodes of    *)
(* the caller's tree, and the writer may read what stands above.           *)
(*                                                                         *)
(* A Generate is looked at as a machine of its own, whose next step is     *)
(* decided by what it has at hand (Succ).  What it writes depends on the   *)
(* nodes it starts from and on what stands above them, and not on where    *)
(* its own new nodes come in the heap: two heaps that differ only in that  *)
(* are Alike, two Generates over such heaps are the Same at every step     *)
(* (RunsSame) and end with the same text (RunsEnd).  The invariant, Told,  *)
(* says that each text that was kept is what such a run wrote over nodes   *)
(* none of which has changed since, not even in its Parent, and that the   *)
(* Generate at hand is such a run so far.                                  *)
(***************************************************************************)
EXTENDS ExprTree_proofs

-----------------------------------------------------------------------------
(* Parents have no cycle either, so that what Ancestors computes exists.   *)

\* Every set of nodes has one whose Parent is not among them.
Rising(h) == \A S \in SUBSET DOMAIN h : S # {} => \E n \in S : h[n].parent \notin S

\* What Ancestors computes, for nodes whose Parents are among them.
Aboves(f, h, S) ==
  f = [n \in S |-> IF h[n].parent = Nil THEN <<>>
                   ELSE <<h[h[n].parent].class>> \o f[h[n].parent]]
Upward(h, S) == S \subseteq DOMAIN h /\ \A n \in S : h[n].parent # Nil => h[n].parent \in S

\* Numbered from the root down, the first of some nodes has no other above it.
LEMMA RootDownRising ==
  ASSUME NEW h, IsHeap(h), RootDown(h)
  PROVE  Rising(h)
<1>1. DOMAIN h = 1..Len(h) /\ Len(h) \in Nat BY DEF IsHeap
<1>2. ASSUME NEW S \in SUBSET DOMAIN h, S # {} PROVE \E n \in S : h[n].parent \notin S
  <2>1. S \subseteq Nat BY <1>1
  <2>2. PICK n \in S : \A m \in S : n <= m BY <1>2, <2>1, LeastNumber
  <2>3. h[n].parent < n /\ n \in Nat BY <2>1 DEF RootDown
  <2>4. h[n] \in Nodes BY DEF IsHeap
  <2>5. h[n].parent \in Nat BY <2>4 DEF Nodes
  <2>6. ~ (n <= h[n].parent) BY <2>3, <2>5
  <2> QED BY <2>2, <2>6
<1> QED BY <1>2 DEF Rising

LEMMA AbovesAgree ==
  ASSUME NEW h, Rising(h), NEW S, Upward(h, S),
         NEW T, S \subseteq T, NEW R, S \subseteq R,
         NEW f, Aboves(f, h, T), NEW e, Aboves(e, h, R)
  PROVE  \A n \in S : f[n] = e[n]
<1> DEFINE bad == {n \in S : f[n] # e[n]}
<1> SUFFICES ASSUME bad # {} PROVE FALSE OBVIOUS
<1>1. bad \subseteq DOMAIN h BY DEF Upward
<1>2. PICK n \in bad : h[n].parent \notin bad
  <2> HIDE DEF bad
  <2> QED BY <1>1 DEF Rising
<1>3. n \in S /\ n \in T /\ n \in R /\ f[n] # e[n] BY <1>2
<1>4. h[n].parent # Nil => f[h[n].parent] = e[h[n].parent] BY <1>2, <1>3 DEF Upward
<1>5. f[n] = IF h[n].parent = Nil THEN <<>> ELSE <<h[h[n].parent].class>> \o f[h[n].parent]
  BY <1>3 DEF Aboves
<1>6. e[n] = IF h[n].parent = Nil THEN <<>> ELSE <<h[h[n].parent].class>> \o e[h[n].parent]
  BY <1>3 DEF Aboves
<1> QED BY <1>3, <1>4, <1>5, <1>6

\* Where Parents have no cycle, there is a table of what is above every node.
LEMMA AbovesExist ==
  ASSUME NEW h, Rising(h), ParentsWithin(h), IsHeap(h)
  PROVE  \E f : Aboves(f, h, DOMAIN h)
<1> DEFINE P == {S \in SUBSET DOMAIN h : Upward(h, S) /\ \E f : Aboves(f, h, S)}
           U == UNION P
           tab(n) == CHOOSE v : \E S \in P : \E f : n \in S /\ Aboves(f, h, S) /\ v = f[n]
           e == [n \in U |-> tab(n)]
           w(n, f) == IF h[n].parent = Nil THEN <<>>
                      ELSE <<h[h[n].parent].class>> \o f[h[n].parent]
<1>1. Upward(h, U)
  <2>1. U \subseteq DOMAIN h OBVIOUS
  <2>2. ASSUME NEW n \in U, h[n].parent # Nil PROVE h[n].parent \in U
    <3>1. PICK S \in P : n \in S OBVIOUS
    <3>2. h[n].parent \in S BY <2>2, <3>1 DEF Upward
    <3> QED BY <3>2
  <2> HIDE DEF U
  <2> QED BY <2>1, <2>2 DEF Upward
<1>2. ASSUME NEW S \in P, NEW f, Aboves(f, h, S), NEW n \in S PROVE e[n] = f[n]
  <2>1. \E v : \E Q \in P : \E q : n \in Q /\ Aboves(q, h, Q) /\ v = q[n] BY <1>2
  <2>2. PICK Q \in P : \E q : n \in Q /\ Aboves(q, h, Q) /\ tab(n) = q[n] BY <2>1
  <2>3. PICK q : n \in Q /\ Aboves(q, h, Q) /\ tab(n) = q[n] BY <2>2
  <2>4. Upward(h, S \cap Q) BY DEF Upward
  <2>5. S \cap Q \subseteq S /\ S \cap Q \subseteq Q /\ n \in S \cap Q BY <2>3
  <2>6. f[n] = q[n]
    <3> HIDE DEF P
    <3> QED BY <2>3, <2>4, <2>5, <1>2, AbovesAgree
  <2>7. n \in U BY <1>2
  <2> HIDE DEF P, U, tab
  <2> QED BY <2>3, <2>6, <2>7
<1>3. Aboves(e, h, U)
  <2>1. ASSUME NEW n \in U PROVE e[n] = w(n, e)
    <3>1. PICK S \in P : n \in S OBVIOUS
    <3>2. PICK f : Aboves(f, h, S) BY <3>1
    <3>3. e[n] = f[n]
      <4> HIDE DEF P, U, e
      <4> QED BY <3>1, <3>2, <1>2
    <3>4. f[n] = w(n, f)
      <4> HIDE DEF P, U, e
      <4> QED BY <3>1, <3>2 DEF Aboves
    <3>5. ASSUME h[n].parent # Nil PROVE f[h[n].parent] = e[h[n].parent]
      <4>1. h[n].parent \in S BY <3>1, <3>5 DEF Upward
      <4> HIDE DEF P, U, e
      <4> QED BY <4>1, <3>1, <3>2, <1>2
    <3> HIDE DEF P, U, e
    <3> QED BY <3>3, <3>4, <3>5
  <2>2. e = [n \in U |-> e[n]] OBVIOUS
  <2> HIDE DEF U, e
  <2>3. e = [n \in U |-> w(n, e)]
    <3> HIDE DEF w
    <3> QED BY <2>1, <2>2
  <2> QED BY <2>3 DEF Aboves
<1>4. U = DOMAIN h
  <2> DEFINE D == DOMAIN h \ U
  <2> SUFFICES ASSUME D # {} PROVE FALSE
    <3>1. U \subseteq DOMAIN h OBVIOUS
    <3> HIDE DEF U
    <3> QED BY <3>1
  <2>1. PICK n \in D : h[n].parent \notin D
    <3>1. D \in SUBSET DOMAIN h OBVIOUS
    <3> HIDE DEF D
    <3> QED BY <3>1 DEF Rising
  <2>2. n \in DOMAIN h /\ n \notin U OBVIOUS
  <2>3. h[n].parent # Nil => h[n].parent \in U
    <3> HIDE DEF U
    <3> QED BY <2>1, <2>2 DEF ParentsWithin, IsHeap, Nil
  <2> DEFINE V == U \cup {n}
             f == [m \in V |-> w(m, e)]
  <2>4. Upward(h, V)
    <3> HIDE DEF U
    <3> QED BY <1>1, <2>2, <2>3 DEF Upward
  <2> HIDE DEF P, U, e, tab
  <2>5. ASSUME NEW m \in U PROVE f[m] = e[m]
    <3>1. e[m] = w(m, e) BY <1>3 DEF Aboves
    <3> HIDE DEF w
    <3> QED BY <3>1
  <2>6. ASSUME NEW m \in V PROVE w(m, e) = w(m, f)
    <3>1. h[m].parent # Nil => h[m].parent \in U BY <2>3, <1>1 DEF Upward
    <3> HIDE DEF f
    <3> QED BY <3>1, <2>5
  <2>7. f = [m \in V |-> w(m, f)]
    <3>1. f = [m \in V |-> w(m, e)] OBVIOUS
    <3> HIDE DEF f, w, V
    <3> QED BY <3>1, <2>6
  <2> HIDE DEF f
  <2>8. Aboves(f, h, V) BY <2>7 DEF Aboves
  <2>9. V \in P /\ n \in V BY <2>4, <2>8 DEF P, Upward
  <2> HIDE DEF V
  <2> QED BY <2>2, <2>9 DEF U
<1> HIDE DEF e, U, P, tab
<1> QED BY <1>3, <1>4

\* What the definition of Ancestors says.
LEMMA AncestorsStep ==
  ASSUME NEW h, IsHeap(h), ParentsWithin(h), Rising(h), NEW n \in DOMAIN h
  PROVE  Ancestors(h, n) = IF h[n].parent = Nil THEN <<>>
                           ELSE <<h[h[n].parent].class>> \o Ancestors(h, h[n].parent)
<1> DEFINE f == CHOOSE f : Aboves(f, h, DOMAIN h)
<1>1. Aboves(f, h, DOMAIN h) BY AbovesExist
<1>2. ASSUME NEW m PROVE Ancestors(h, m) = f[m] BY DEF Ancestors, Aboves
<1> HIDE DEF f
<1>3. f[n] = IF h[n].parent = Nil THEN <<>> ELSE <<h[h[n].parent].class>> \o f[h[n].parent]
  BY <1>1 DEF Aboves
<1> QED BY <1>2, <1>3

-----------------------------------------------------------------------------
\* The first l nodes of two heaps are the same ones, and d nodes come between
\* those and the others of the second.
At(l, d, n) == IF n <= l THEN n ELSE n + d
Ats(l, d, s) == [i \in DOMAIN s |-> At(l, d, s[i])]

\* g is h with d nodes more, which no other node knows of.
Alike(l, d, h, g) ==
  /\ l <= Len(h) /\ Len(g) = Len(h) + d
  /\ \A n \in DOMAIN h :
       /\ g[At(l, d, n)].class = h[n].class /\ g[At(l, d, n)].name = h[n].name
       /\ g[At(l, d, n)].kids = Ats(l, d, h[n].kids)
       /\ g[At(l, d, n)].parent = At(l, d, h[n].parent)

LEMMA AtFacts ==
  ASSUME NEW l \in Nat, NEW d \in Nat
  PROVE  /\ At(l, d, Nil) = Nil
         /\ \A n \in Nat : At(l, d, n) \in Nat /\ (At(l, d, n) = Nil <=> n = Nil)
         /\ \A n, m \in Nat : At(l, d, n) = At(l, d, m) <=> n = m
         /\ \A k \in Nat : l <= k =>
              /\ At(l, d, k + 1) = k + d + 1
              /\ \A n \in 0..k : At(l, d, n) \in 0..(k + d)
              /\ \A n \in 1..k : At(l, d, n) \in 1..(k + d)
  BY DEF At, Nil

LEMMA AtNode ==
  ASSUME NEW l \in Nat, NEW d \in Nat, NEW k \in Nat, l <= k, NEW n \in 1..k
  PROVE  At(l, d, n) \in 1..(k + d) /\ n \in Nat
  BY DEF At

\* Sequences are equal that are of one length and agree everywhere.
LEMMA SameSequence ==
  ASSUME NEW s \in Seq(Nat), NEW t \in Seq(Nat), Len(s) = Len(t),
         \A i \in 1..Len(s) : s[i] = t[i]
  PROVE  s = t
  OBVIOUS

LEMMA SameSlots ==
  ASSUME NEW s \in Seq(Nat), NEW t \in Seq(Nat), DOMAIN s = DOMAIN t,
         \A i \in DOMAIN s : s[i] = t[i]
  PROVE  s = t
<1>1. s = [i \in DOMAIN s |-> s[i]] /\ t = [i \in DOMAIN t |-> t[i]]
  <2>1. s \in [1..Len(s) -> Nat] /\ t \in [1..Len(t) -> Nat] OBVIOUS
  <2> QED BY <2>1
<1> QED BY <1>1

LEMMA SequenceOf ==
  ASSUME NEW n \in Nat, NEW f \in [1..n -> Nat]
  PROVE  f \in Seq(Nat) /\ Len(f) = n
  OBVIOUS

LEMMA Joined ==
  ASSUME NEW s \in Seq(Nat), NEW t \in Seq(Nat)
  PROVE  /\ Len(s) \in Nat /\ Len(t) \in Nat
         /\ s \o t \in Seq(Nat) /\ Len(s \o t) = Len(s) + Len(t)
         /\ \A i \in 1..(Len(s) + Len(t)) :
              (s \o t)[i] = IF i <= Len(s) THEN s[i] ELSE t[i - Len(s)]
  OBVIOUS

LEMMA AtsAt ==
  ASSUME NEW l \in Nat, NEW d \in Nat, NEW t \in Seq(Nat)
  PROVE  /\ Ats(l, d, t) \in Seq(Nat) /\ Len(Ats(l, d, t)) = Len(t)
         /\ \A i \in 1..Len(t) : Ats(l, d, t)[i] = At(l, d, t[i])
<1>1. Len(t) \in Nat /\ DOMAIN t = 1..Len(t) /\ \A i \in DOMAIN t : t[i] \in Nat OBVIOUS
<1> DEFINE b == Ats(l, d, t)
<1>2. b = [i \in 1..Len(t) |-> At(l, d, t[i])] BY <1>1 DEF Ats
<1>3. \A i \in 1..Len(t) : At(l, d, t[i]) \in Nat BY <1>1 DEF At
<1>4. b \in [1..Len(t) -> Nat] BY <1>2, <1>3
<1>5. \A i \in 1..Len(t) : b[i] = At(l, d, t[i]) BY <1>2
<1> HIDE DEF b
<1>6. b \in Seq(Nat) /\ Len(b) = Len(t) BY <1>1, <1>4, SequenceOf
<1> QED BY <1>5, <1>6 DEF b

LEMMA AtsFacts ==
  ASSUME NEW l \in Nat, NEW d \in Nat, NEW s \in Seq(Nat)
  PROVE  /\ Ats(l, d, s) \in Seq(Nat)
         /\ Len(Ats(l, d, s)) = Len(s) /\ DOMAIN Ats(l, d, s) = DOMAIN s
         /\ \A i \in DOMAIN s : Ats(l, d, s)[i] = At(l, d, s[i])
         /\ Ats(l, d, s) = <<>> <=> s = <<>>
         /\ s # <<>> => /\ Head(Ats(l, d, s)) = At(l, d, Head(s))
                        /\ Tail(Ats(l, d, s)) = Ats(l, d, Tail(s))
<1>1. /\ Len(s) \in Nat /\ DOMAIN s = 1..Len(s) /\ \A i \in DOMAIN s : s[i] \in Nat OBVIOUS
<1>2. \A n \in Nat : At(l, d, n) \in Nat BY AtFacts
<1>3. /\ DOMAIN Ats(l, d, s) = 1..Len(s) /\ \A i \in 1..Len(s) : Ats(l, d, s)[i] = At(l, d, s[i])
  BY <1>1 DEF Ats
<1>4. Ats(l, d, s) \in [1..Len(s) -> Nat]
  <2>1. \A i \in 1..Len(s) : At(l, d, s[i]) \in Nat BY <1>1, <1>2
  <2>2. Ats(l, d, s) = [i \in 1..Len(s) |-> At(l, d, s[i])] BY <1>1 DEF Ats
  <2> QED BY <2>1, <2>2
<1>5. Ats(l, d, s) \in Seq(Nat) /\ Len(Ats(l, d, s)) = Len(s) BY <1>1, <1>4
<1>6. Ats(l, d, s) = <<>> <=> s = <<>> BY <1>5
<1>7. ASSUME s # <<>>
      PROVE  /\ Head(Ats(l, d, s)) = At(l, d, Head(s))
             /\ Tail(Ats(l, d, s)) = Ats(l, d, Tail(s))
  <2>1. Head(s) = s[1] /\ 1 \in DOMAIN s BY <1>1, <1>7
  <2>2. Head(Ats(l, d, s)) = Ats(l, d, s)[1] BY <1>5, <1>6, <1>7
  <2>3. /\ Tail(s) \in Seq(Nat) /\ Len(Tail(s)) = Len(s) - 1
        /\ \A i \in 1..(Len(s) - 1) : Tail(s)[i] = s[i + 1]
    BY <1>7, <1>1
  <2> DEFINE a == Ats(l, d, s)
             t == Tail(s)
             b == Ats(l, d, t)
  <2>4. /\ Tail(a) \in Seq(Nat) /\ Len(Tail(a)) = Len(s) - 1
        /\ \A i \in 1..(Len(s) - 1) : Tail(a)[i] = a[i + 1]
    <3>1. a \in Seq(Nat) /\ a # <<>> /\ Len(a) = Len(s) BY <1>5, <1>6, <1>7
    <3> HIDE DEF a
    <3> QED BY <3>1, <1>1
  <2>5. \A i \in 1..(Len(s) - 1) : Tail(a)[i] = At(l, d, t[i])
    <3>1. \A i \in 1..(Len(s) - 1) : i + 1 \in 1..Len(s) BY <1>1
    <3>2. \A i \in 1..(Len(s) - 1) : a[i + 1] = At(l, d, s[i + 1]) BY <3>1, <1>3
    <3> HIDE DEF a, t
    <3> QED BY <3>2, <2>3, <2>4 DEF t
  <2>6. t \in Seq(Nat) /\ Len(t) = Len(s) - 1 /\ Len(t) \in Nat BY <2>3
  <2> HIDE DEF a, t
  <2>7. /\ b \in Seq(Nat) /\ Len(b) = Len(t)
        /\ \A i \in 1..Len(t) : b[i] = At(l, d, t[i])
    BY <2>6, AtsAt
  <2> HIDE DEF b
  <2>8. Tail(a) = b BY <2>4, <2>5, <2>6, <2>7, SameSequence
  <2> QED BY <2>1, <2>2, <1>1, <1>3, <2>8 DEF a, t, b
<1> QED BY <1>3, <1>1, <1>5, <1>6, <1>7

LEMMA AtsJoined ==
  ASSUME NEW l \in Nat, NEW d \in Nat, NEW s \in Seq(Nat), NEW t \in Seq(Nat)
  PROVE  Ats(l, d, s \o t) = Ats(l, d, s) \o Ats(l, d, t)
<1> DEFINE a == Ats(l, d, s)
           b == Ats(l, d, t)
           u == s \o t
           c == Ats(l, d, u)
<1>1. /\ Len(t) \in Nat /\ u \in Seq(Nat) /\ Len(u) = Len(s) + Len(t)
      /\ \A i \in 1..(Len(s) + Len(t)) : u[i] = IF i <= Len(s) THEN s[i] ELSE t[i - Len(s)]
  BY Joined
<1> HIDE DEF u
<1>2. /\ a \in Seq(Nat) /\ Len(a) = Len(s) /\ \A i \in 1..Len(s) : a[i] = At(l, d, s[i])
      /\ b \in Seq(Nat) /\ Len(b) = Len(t) /\ \A i \in 1..Len(t) : b[i] = At(l, d, t[i])
      /\ c \in Seq(Nat) /\ Len(c) = Len(u) /\ \A i \in 1..Len(u) : c[i] = At(l, d, u[i])
  BY <1>1, AtsAt
<1> HIDE DEF a, b, c
<1> DEFINE v == a \o b
<1>3. /\ v \in Seq(Nat) /\ Len(v) = Len(s) + Len(t)
      /\ \A i \in 1..(Len(s) + Len(t)) : v[i] = IF i <= Len(s) THEN a[i] ELSE b[i - Len(s)]
  <2>1. a \in Seq(Nat) /\ b \in Seq(Nat) BY <1>2
  <2>2. /\ v \in Seq(Nat) /\ Len(v) = Len(a) + Len(b)
        /\ \A i \in 1..(Len(a) + Len(b)) : v[i] = IF i <= Len(a) THEN a[i] ELSE b[i - Len(a)]
    BY <2>1, Joined
  <2>3. Len(a) = Len(s) /\ Len(b) = Len(t) BY <1>2
  <2> QED BY <2>2, <2>3
<1> HIDE DEF v
<1>4. ASSUME NEW i \in 1..Len(u) PROVE c[i] = v[i]
  <2>1. i \in Nat /\ i >= 1 /\ i <= Len(s) + Len(t) /\ Len(s) \in Nat BY <1>1
  <2>2. CASE i <= Len(s)
    <3>1. i \in 1..Len(s) /\ i \in 1..(Len(s) + Len(t)) BY <2>1, <2>2, <1>1
    <3>2. u[i] = s[i] /\ v[i] = a[i] /\ a[i] = At(l, d, s[i]) BY <3>1, <2>2, <1>1, <1>2, <1>3
    <3> QED BY <3>2, <1>2
  <2>3. CASE ~ (i <= Len(s))
    <3>1. i - Len(s) \in 1..Len(t) /\ i \in 1..(Len(s) + Len(t)) BY <2>1, <2>3, <1>1
    <3>2. /\ u[i] = t[i - Len(s)] /\ v[i] = b[i - Len(s)]
          /\ b[i - Len(s)] = At(l, d, t[i - Len(s)])
      BY <3>1, <2>3, <1>1, <1>2, <1>3
    <3> QED BY <3>2, <1>2
  <2> QED BY <2>2, <2>3
<1>5. c = v BY <1>1, <1>2, <1>3, <1>4, SameSequence
<1> QED BY <1>5 DEF a, b, c, u, v

LEMMA AlikeNode ==
  ASSUME NEW h, IsHeap(h), NEW g, IsHeap(g), NEW l \in Nat, NEW d \in Nat, Alike(l, d, h, g)
  PROVE  /\ Len(h) \in Nat /\ DOMAIN h = 1..Len(h) /\ DOMAIN g = 1..(Len(h) + d) /\ l <= Len(h)
         /\ Len(g) = Len(h) + d
         /\ \A n \in DOMAIN h :
              /\ At(l, d, n) \in DOMAIN g
              /\ h[n].kids \in Seq(Nat) /\ g[At(l, d, n)].kids \in Seq(Nat)
              /\ DOMAIN g[At(l, d, n)].kids = DOMAIN h[n].kids
              /\ Len(g[At(l, d, n)].kids) = Len(h[n].kids)
              /\ \A i \in DOMAIN h[n].kids : g[At(l, d, n)].kids[i] = At(l, d, h[n].kids[i])
         /\ \A n \in 0..Len(h) : ClassOf(g, At(l, d, n)) = ClassOf(h, n)
<1>1. /\ Len(h) \in Nat /\ DOMAIN h = 1..Len(h) /\ Len(g) = Len(h) + d /\ DOMAIN g = 1..Len(g)
      /\ l <= Len(h)
  BY DEF IsHeap, Alike
<1>2. ASSUME NEW n \in DOMAIN h
      PROVE  /\ At(l, d, n) \in DOMAIN g
             /\ h[n].kids \in Seq(Nat) /\ g[At(l, d, n)].kids \in Seq(Nat)
             /\ DOMAIN g[At(l, d, n)].kids = DOMAIN h[n].kids
             /\ Len(g[At(l, d, n)].kids) = Len(h[n].kids)
             /\ \A i \in DOMAIN h[n].kids : g[At(l, d, n)].kids[i] = At(l, d, h[n].kids[i])
  <2>1. At(l, d, n) \in DOMAIN g
    <3>1. n \in 1..Len(h) BY <1>1
    <3>2. At(l, d, n) \in 1..(Len(h) + d) BY <3>1, <1>1, AtNode
    <3> QED BY <3>2, <1>1
  <2>2. h[n] \in Nodes BY DEF IsHeap
  <2>3. h[n].kids \in Seq(Nat) BY <2>2 DEF Nodes
  <2>4. g[At(l, d, n)].kids = Ats(l, d, h[n].kids) BY DEF Alike
  <2> QED BY <2>1, <2>3, <2>4, AtsFacts
<1>3. ASSUME NEW n \in 0..Len(h) PROVE ClassOf(g, At(l, d, n)) = ClassOf(h, n)
  <2>1. CASE n = Nil
    <3>1. At(l, d, n) = 0 /\ 0 \notin DOMAIN g /\ 0 \notin DOMAIN h /\ n = 0
      BY <2>1, <1>1, AtFacts DEF Nil
    <3> QED BY <3>1 DEF ClassOf
  <2>2. CASE n # Nil
    <3>1. n \in DOMAIN h BY <2>2, <1>1 DEF Nil
    <3>2. At(l, d, n) \in DOMAIN g BY <1>2, <3>1
    <3>3. g[At(l, d, n)].class = h[n].class BY <3>1 DEF Alike
    <3> QED BY <3>1, <3>2, <3>3 DEF ClassOf
  <2> QED BY <2>1, <2>2
<1> QED BY <1>1, <1>2, <1>3

\* The same is above the nodes of heaps that are alike.
LEMMA AncestorsAlike ==
  ASSUME NEW h, IsHeap(h), ParentsWithin(h), Rising(h),
         NEW g, IsHeap(g), ParentsWithin(g), Rising(g),
         NEW l \in Nat, NEW d \in Nat, Alike(l, d, h, g)
  PROVE  \A n \in DOMAIN h : Ancestors(g, At(l, d, n)) = Ancestors(h, n)
<1> DEFINE bad == {n \in DOMAIN h : Ancestors(g, At(l, d, n)) # Ancestors(h, n)}
<1> SUFFICES ASSUME bad # {} PROVE FALSE OBVIOUS
<1>1. PICK n \in bad : h[n].parent \notin bad
  <2>1. bad \in SUBSET DOMAIN h OBVIOUS
  <2> HIDE DEF bad
  <2> QED BY <2>1 DEF Rising
<1> DEFINE p == h[n].parent
           m == At(l, d, n)
<1>2. n \in DOMAIN h /\ Ancestors(g, m) # Ancestors(h, n) BY <1>1
<1>3. p \in Nat /\ (p # Nil => p \in DOMAIN h)
  <2>1. DOMAIN h = 1..Len(h) /\ Len(h) \in Nat BY DEF IsHeap
  <2>2. p \in 0..Len(h) BY <1>2 DEF ParentsWithin
  <2> QED BY <2>1, <2>2 DEF Nil
<1>4. m \in DOMAIN g /\ g[m].parent = At(l, d, p) BY <1>2, AlikeNode DEF Alike
<1>5. At(l, d, p) = Nil <=> p = Nil
  <2> HIDE DEF p
  <2> QED BY <1>3, AtFacts
<1>6. p # Nil => Ancestors(g, At(l, d, p)) = Ancestors(h, p) BY <1>1, <1>3
<1>7. p # Nil => g[At(l, d, p)].class = h[p].class BY <1>3 DEF Alike
<1>8. Ancestors(h, n) = IF p = Nil THEN <<>> ELSE <<h[p].class>> \o Ancestors(h, p)
  BY <1>2, AncestorsStep
<1> HIDE DEF bad, p, m
<1>9. Ancestors(g, m) = IF g[m].parent = Nil THEN <<>>
                        ELSE <<g[g[m].parent].class>> \o Ancestors(g, g[m].parent)
  BY <1>4, AncestorsStep
<1> QED BY <1>2, <1>4, <1>5, <1>6, <1>7, <1>8, <1>9

-----------------------------------------------------------------------------
LEMMA AtsWithin ==
  ASSUME NEW l \in Nat, NEW d \in Nat, NEW k \in Nat, l <= k, NEW s \in Seq(0..k)
  PROVE  Ats(l, d, s) \in Seq(0..(k + d)) /\ Len(Ats(l, d, s)) = Len(s)
<1>1. Len(s) \in Nat /\ DOMAIN s = 1..Len(s) /\ \A i \in 1..Len(s) : s[i] \in 0..k OBVIOUS
<1>2. ASSUME NEW i \in 1..Len(s) PROVE At(l, d, s[i]) \in 0..(k + d)
  <2>1. s[i] \in 0..k BY <1>1
  <2> QED BY <2>1 DEF At
<1>3. Ats(l, d, s) = [i \in 1..Len(s) |-> At(l, d, s[i])] BY <1>1 DEF Ats
<1> DEFINE a == Ats(l, d, s)
<1>4. a \in [1..Len(s) -> 0..(k + d)] BY <1>2, <1>3
<1> HIDE DEF a
<1>5. a \in Seq(0..(k + d)) /\ Len(a) = Len(s) BY <1>1, <1>4
<1> QED BY <1>5 DEF a

\* Heaps stay alike when both get a node over the same children.
LEMMA NewAlike ==
  ASSUME NEW h, IsHeap(h), NEW g, IsHeap(g), NEW l \in Nat, NEW d \in Nat, Alike(l, d, h, g),
         NEW class \in Classes, NEW name \in Names,
         NEW kids \in Seq(0..Len(h)), class \in Unary => Len(kids) > 0
  PROVE  Alike(l, d, New(h, class, name, kids), New(g, class, name, Ats(l, d, kids)))
<1> DEFINE shifted == Ats(l, d, kids)
           a == New(h, class, name, kids)
           b == New(g, class, name, shifted)
<1>1. /\ Len(h) \in Nat /\ DOMAIN h = 1..Len(h) /\ DOMAIN g = 1..(Len(h) + d)
      /\ l <= Len(h) /\ Len(g) = Len(h) + d
      /\ \A n \in DOMAIN h : At(l, d, n) \in DOMAIN g
  BY AlikeNode
<1>2. shifted \in Seq(0..Len(g)) /\ Len(shifted) = Len(kids) BY <1>1, AtsWithin
<1>3. kids \in Seq(Nat)
  <2>1. 0..Len(h) \subseteq Nat BY <1>1
  <2> QED BY <2>1
<1>4. \A n \in Nat : At(l, d, n) \in Range(shifted) <=> n \in Range(kids)
  <2>1. /\ DOMAIN shifted = DOMAIN kids /\ \A i \in DOMAIN kids : shifted[i] = At(l, d, kids[i])
    BY <1>3, AtsFacts
  <2>2. \A i \in DOMAIN kids : kids[i] \in Nat BY <1>3
  <2>3. \A n, m \in Nat : At(l, d, n) = At(l, d, m) <=> n = m BY AtFacts
  <2> HIDE DEF shifted
  <2> QED BY <2>1, <2>2, <2>3 DEF Range
<1> HIDE DEF shifted
<1>5. /\ Len(a) = Len(h) + 1 /\ Grown(h, a) /\ IsHeap(a)
      /\ a[Len(a)] = [class |-> class, name |-> name, kids |-> kids, parent |-> Nil]
  BY NewFacts
<1>6. \A n \in DOMAIN h : a[n].parent = IF n \in Range(kids) THEN Len(h) + 1 ELSE h[n].parent
  BY NewParents
<1>7. /\ Len(b) = Len(g) + 1 /\ Grown(g, b)
      /\ b[Len(b)] = [class |-> class, name |-> name, kids |-> shifted, parent |-> Nil]
  BY <1>2, NewFacts
<1>8. \A n \in DOMAIN g : b[n].parent = IF n \in Range(shifted) THEN Len(g) + 1 ELSE g[n].parent
  BY <1>2, NewParents
<1> HIDE DEF a, b
<1>9. l <= Len(a) /\ Len(b) = Len(a) + d BY <1>1, <1>5, <1>7
<1>10. ASSUME NEW n \in DOMAIN a
       PROVE  /\ b[At(l, d, n)].class = a[n].class /\ b[At(l, d, n)].name = a[n].name
              /\ b[At(l, d, n)].kids = Ats(l, d, a[n].kids)
              /\ b[At(l, d, n)].parent = At(l, d, a[n].parent)
  <2>1. DOMAIN a = 1..Len(a) BY <1>5 DEF IsHeap
  <2>2. CASE n = Len(h) + 1
    <3>1. At(l, d, n) = Len(b) BY <2>2, <1>1, <1>7 DEF At
    <3>2. n = Len(a) BY <2>2, <1>5
    <3>3. At(l, d, Nil) = Nil BY AtFacts
    <3> QED BY <3>1, <3>2, <3>3, <1>5, <1>7 DEF shifted
  <2>3. CASE n # Len(h) + 1
    <3>1. n \in DOMAIN h BY <2>1, <2>3, <1>1, <1>5
    <3>2. At(l, d, n) \in DOMAIN g /\ At(l, d, n) \in 1..Len(g) /\ n \in 1..Len(h)
      BY <3>1, <1>1
    <3>3. /\ b[At(l, d, n)].class = g[At(l, d, n)].class
          /\ b[At(l, d, n)].name = g[At(l, d, n)].name
          /\ b[At(l, d, n)].kids = g[At(l, d, n)].kids
      BY <3>2, <1>7 DEF Grown
    <3>4. a[n].class = h[n].class /\ a[n].name = h[n].name /\ a[n].kids = h[n].kids
      BY <3>2, <1>5 DEF Grown
    <3>5. /\ g[At(l, d, n)].class = h[n].class /\ g[At(l, d, n)].name = h[n].name
          /\ g[At(l, d, n)].kids = Ats(l, d, h[n].kids)
          /\ g[At(l, d, n)].parent = At(l, d, h[n].parent)
      BY <3>1 DEF Alike
    <3>6. At(l, d, n) \in Range(shifted) <=> n \in Range(kids)
      <4>1. n \in Nat BY <3>2
      <4> QED BY <4>1, <1>4
    <3>7. At(l, d, Len(h) + 1) = Len(g) + 1 BY <1>1 DEF At
    <3>8. b[At(l, d, n)].parent = At(l, d, a[n].parent)
      BY <3>1, <3>2, <3>5, <3>6, <3>7, <1>6, <1>8
    <3> QED BY <3>3, <3>4, <3>5, <3>8
  <2> QED BY <2>2, <2>3
<1>11. Alike(l, d, a, b) BY <1>9, <1>10 DEF Alike
<1> QED BY <1>11 DEF a, b, shifted

\* Or the same argument assigned.
LEMMA SetAlike ==
  ASSUME NEW h, IsHeap(h), NEW g, IsHeap(g), NEW l \in Nat, NEW d \in Nat, Alike(l, d, h, g),
         NEW n \in DOMAIN h, NEW i, NEW k \in 0..Len(h)
  PROVE  Alike(l, d, Set(h, n, i, k), Set(g, At(l, d, n), i, At(l, d, k)))
<1> DEFINE q == At(l, d, n)
           c == At(l, d, k)
           a == Set(h, n, i, k)
           b == Set(g, q, i, c)
<1>1. /\ Len(h) \in Nat /\ DOMAIN h = 1..Len(h) /\ DOMAIN g = 1..(Len(h) + d)
      /\ l <= Len(h) /\ Len(g) = Len(h) + d
      /\ \A m \in DOMAIN h : At(l, d, m) \in DOMAIN g
  BY AlikeNode
<1>2. q \in DOMAIN g /\ c \in 0..Len(g)
  <2>1. c \in 0..(Len(h) + d) BY <1>1 DEF At
  <2> QED BY <2>1, <1>1
<1>3. \A m \in Nat : (At(l, d, m) = q <=> m = n) /\ (At(l, d, m) = c <=> m = k)
  <2>1. n \in Nat /\ k \in Nat BY <1>1
  <2>2. \A m, p \in Nat : At(l, d, m) = At(l, d, p) <=> m = p BY AtFacts
  <2> QED BY <2>1, <2>2
<1> HIDE DEF q, c
<1>4. /\ IsHeap(a) /\ Len(a) = Len(h)
      /\ \A m \in 1..Len(h) : a[m].class = h[m].class /\ a[m].name = h[m].name
      /\ \A m \in 1..Len(h) : m # n => a[m].kids = h[m].kids
      /\ DOMAIN a[n].kids = DOMAIN h[n].kids
      /\ \A j \in DOMAIN h[n].kids : a[n].kids[j] = IF j = i THEN k ELSE h[n].kids[j]
  BY SetFacts
<1>5. \A m \in DOMAIN h : a[m].parent = IF m = k THEN n ELSE h[m].parent
  BY SetParents
<1>6. /\ IsHeap(b) /\ Len(b) = Len(g)
      /\ \A m \in 1..Len(g) : b[m].class = g[m].class /\ b[m].name = g[m].name
      /\ \A m \in 1..Len(g) : m # q => b[m].kids = g[m].kids
      /\ DOMAIN b[q].kids = DOMAIN g[q].kids
      /\ \A j \in DOMAIN g[q].kids : b[q].kids[j] = IF j = i THEN c ELSE g[q].kids[j]
  BY <1>2, SetFacts
<1>7. \A m \in DOMAIN g : b[m].parent = IF m = c THEN q ELSE g[m].parent
  BY <1>2, SetParents
<1> HIDE DEF a, b
<1>8. b[q].kids = Ats(l, d, a[n].kids)
  <2>1. n \in DOMAIN a /\ q \in DOMAIN b BY <1>1, <1>2, <1>4, <1>6 DEF IsHeap
  <2>2. a[n] \in Nodes /\ b[q] \in Nodes BY <2>1, <1>4, <1>6 DEF IsHeap
  <2>3. a[n].kids \in Seq(Nat) /\ b[q].kids \in Seq(Nat) BY <2>2 DEF Nodes
  <2> DEFINE u == a[n].kids
             v == b[q].kids
             w == Ats(l, d, u)
  <2>4. /\ w \in Seq(Nat) /\ DOMAIN w = DOMAIN u
        /\ \A j \in DOMAIN u : w[j] = At(l, d, u[j])
    <3>1. u \in Seq(Nat) BY <2>3
    <3> HIDE DEF u
    <3> QED BY <3>1, AtsFacts
  <2>5. /\ DOMAIN g[At(l, d, n)].kids = DOMAIN h[n].kids
        /\ \A j \in DOMAIN h[n].kids : g[At(l, d, n)].kids[j] = At(l, d, h[n].kids[j])
    <3>1. n \in DOMAIN h OBVIOUS
    <3> QED BY <3>1, AlikeNode
  <2>6. /\ DOMAIN u = DOMAIN h[n].kids /\ DOMAIN v = DOMAIN h[n].kids
        /\ \A j \in DOMAIN h[n].kids : u[j] = IF j = i THEN k ELSE h[n].kids[j]
        /\ \A j \in DOMAIN h[n].kids : v[j] = IF j = i THEN c ELSE At(l, d, h[n].kids[j])
    BY <1>4, <1>6, <2>5 DEF q
  <2> HIDE DEF u, v, w
  <2>7. \A j \in DOMAIN v : v[j] = w[j]
    <3> SUFFICES ASSUME NEW j \in DOMAIN v PROVE v[j] = w[j] OBVIOUS
    <3>1. j \in DOMAIN h[n].kids /\ j \in DOMAIN u BY <2>6
    <3>2. w[j] = At(l, d, u[j]) BY <3>1, <2>4
    <3> QED BY <3>1, <3>2, <2>6 DEF c
  <2>8. v \in Seq(Nat) /\ DOMAIN v = DOMAIN w BY <2>3, <2>4, <2>6 DEF v
  <2>9. v = w BY <2>4, <2>7, <2>8, SameSlots
  <2> QED BY <2>9 DEF u, v, w
<1>9. ASSUME NEW m \in DOMAIN a
      PROVE  /\ b[At(l, d, m)].class = a[m].class /\ b[At(l, d, m)].name = a[m].name
             /\ b[At(l, d, m)].kids = Ats(l, d, a[m].kids)
             /\ b[At(l, d, m)].parent = At(l, d, a[m].parent)
  <2>1. m \in DOMAIN h /\ m \in 1..Len(h) /\ m \in Nat BY <1>1, <1>4 DEF IsHeap
  <2>2. At(l, d, m) \in DOMAIN g /\ At(l, d, m) \in 1..Len(g) BY <2>1, <1>1
  <2>3. /\ g[At(l, d, m)].class = h[m].class /\ g[At(l, d, m)].name = h[m].name
        /\ g[At(l, d, m)].kids = Ats(l, d, h[m].kids)
        /\ g[At(l, d, m)].parent = At(l, d, h[m].parent)
    BY <2>1 DEF Alike
  <2>4. (At(l, d, m) = q <=> m = n) /\ (At(l, d, m) = c <=> m = k) BY <2>1, <1>3
  <2>5. b[At(l, d, m)].kids = Ats(l, d, a[m].kids) BY <2>1, <2>2, <2>3, <2>4, <1>4, <1>6, <1>8
  <2>6. b[At(l, d, m)].parent = At(l, d, a[m].parent)
    BY <2>1, <2>2, <2>3, <2>4, <1>5, <1>7 DEF q
  <2> QED BY <2>1, <2>2, <2>3, <2>5, <2>6, <1>4, <1>6
<1>10. Alike(l, d, a, b) BY <1>1, <1>4, <1>6, <1>9 DEF Alike
<1> QED BY <1>10 DEF a, b, q, c

LEMMA BlankAlike ==
  ASSUME NEW h, IsHeap(h), NEW g, IsHeap(g), NEW l \in Nat, NEW d \in Nat, Alike(l, d, h, g),
         NEW n \in DOMAIN h
  PROVE  Alike(l, d, Blank(h, n), Blank(g, At(l, d, n)))
<1> DEFINE q == At(l, d, n)
           kids == [i \in DOMAIN h[n].kids |-> Nil]
<1>1. h[n] \in Nodes /\ h[n].kids \in Seq(0..Len(h)) /\ Len(h) \in Nat BY HeapFacts DEF IsHeap
<1>2. DOMAIN h[n].kids = 1..Len(h[n].kids) /\ Len(h[n].kids) \in Nat BY <1>1
<1>3. kids \in Seq(0..Len(h)) /\ Len(kids) = Len(h[n].kids) BY <1>1, <1>2 DEF Nil
<1>4. h[n].class \in Classes /\ h[n].name \in Names /\ (h[n].class \in Unary => Len(kids) > 0)
  BY <1>1, <1>3 DEF Nodes
<1>5. /\ g[q].class = h[n].class /\ g[q].name = h[n].name
      /\ DOMAIN g[q].kids = DOMAIN h[n].kids
  <2>1. n \in DOMAIN h OBVIOUS
  <2>2. DOMAIN g[q].kids = DOMAIN h[n].kids BY <2>1, AlikeNode
  <2> QED BY <2>2 DEF Alike
<1>6. Ats(l, d, kids) = [i \in DOMAIN g[q].kids |-> Nil]
  <2>1. At(l, d, Nil) = Nil BY AtFacts
  <2>2. Ats(l, d, kids) = [i \in DOMAIN h[n].kids |-> Nil] BY <2>1 DEF Ats
  <2> QED BY <2>2, <1>5
<1>7. Blank(h, n) = New(h, h[n].class, h[n].name, kids) BY DEF Blank
<1>8. Blank(g, q) = New(g, h[n].class, h[n].name, Ats(l, d, kids))
  BY <1>5, <1>6 DEF Blank
<1> HIDE DEF kids, q
<1>9. Alike(l, d, New(h, h[n].class, h[n].name, kids),
                  New(g, h[n].class, h[n].name, Ats(l, d, kids)))
  BY <1>3, <1>4, NewAlike
<1> QED BY <1>7, <1>8, <1>9 DEF q

LEMMA ShallowAlike ==
  ASSUME NEW h, IsHeap(h), NEW g, IsHeap(g), NEW l \in Nat, NEW d \in Nat, Alike(l, d, h, g),
         NEW n \in DOMAIN h
  PROVE  Alike(l, d, ShallowCopy(h, n), ShallowCopy(g, At(l, d, n)))
<1>1. h[n] \in Nodes /\ h[n].kids \in Seq(0..Len(h)) BY HeapFacts
<1>2. h[n].class \in Classes /\ h[n].name \in Names /\ (h[n].class \in Unary => Len(h[n].kids) > 0)
  BY <1>1 DEF Nodes
<1>3. /\ g[At(l, d, n)].class = h[n].class /\ g[At(l, d, n)].name = h[n].name
      /\ g[At(l, d, n)].kids = Ats(l, d, h[n].kids)
  BY DEF Alike
<1>4. Alike(l, d, New(h, h[n].class, h[n].name, h[n].kids),
                  New(g, h[n].class, h[n].name, Ats(l, d, h[n].kids)))
  BY <1>1, <1>2, NewAlike
<1> QED BY <1>3, <1>4 DEF ShallowCopy

\* The heaps a comparison with zero is made of.
LEMMA ComparedHeaps ==
  ASSUME NEW h, IsHeap(h), NEW n \in DOMAIN h, NEW i, IsBare(h, n, i)
  PROVE  LET kid == h[n].kids[i]
             zero == New(h, "Literal", <<"0", 0>>, <<>>)
             neq == New(zero, "NEQ", NoName, <<kid, Len(h) + 1>>)
         IN /\ i \in DOMAIN h[n].kids /\ kid \in DOMAIN h /\ h[kid].class \in {"Column", "Literal"}
            /\ h[n].class \in {"Where", "And"}
            /\ IsHeap(zero) /\ Len(zero) = Len(h) + 1
            /\ <<kid, Len(h) + 1>> \in Seq(0..Len(zero))
            /\ IsHeap(neq) /\ Len(neq) = Len(h) + 2
            /\ n \in DOMAIN neq /\ Len(neq) \in 0..Len(neq)
            /\ Compared(h, n, i) = Set(neq, n, i, Len(h) + 2)
<1> DEFINE kid == h[n].kids[i]
           none == <<>>
           zero == New(h, "Literal", <<"0", 0>>, none)
           kids == <<kid, Len(h) + 1>>
           neq == New(zero, "NEQ", NoName, kids)
<1>1. Len(h) \in Nat /\ DOMAIN h = 1..Len(h) BY DEF IsHeap
<1>2. i \in DOMAIN h[n].kids /\ ClassOf(h, kid) \in {"Column", "Literal"} /\ i \in ConditionsOf(h, n)
  BY DEF IsBare
<1>3. kid \in DOMAIN h /\ h[kid].class \in {"Column", "Literal"} BY <1>2 DEF ClassOf
<1>4. h[n].class \in {"Where", "And"} BY <1>2 DEF ConditionsOf
<1>5. Compared(h, n, i) = LET z == New(h, "Literal", <<"0", 0>>, <<>>)
                              q == New(z, "NEQ", NoName, <<h[n].kids[i], Len(z)>>)
                          IN Set(q, n, i, Len(q))
  BY DEF Compared
<1>6. IsHeap(zero) /\ Len(zero) = Len(h) + 1
  <2>1. <<"0", 0>> \in Names /\ "Literal" \in Classes /\ "Literal" \notin Unary BY MadeUp
  <2>2. none \in Seq(0..Len(h)) OBVIOUS
  <2> HIDE DEF none
  <2> QED BY <2>1, <2>2, NewFacts
<1>7. kids \in Seq(0..Len(zero))
  <2>1. kid \in 0..Len(zero) /\ Len(h) + 1 \in 0..Len(zero) BY <1>1, <1>3, <1>6
  <2> HIDE DEF kid, zero
  <2> QED BY <2>1
<1>8. IsHeap(neq) /\ Len(neq) = Len(h) + 2
  <2>1. NoName \in Names /\ "NEQ" \in Classes /\ "NEQ" \notin Unary BY MadeUp
  <2> HIDE DEF kids, zero
  <2>2. IsHeap(neq) /\ Len(neq) = Len(zero) + 1 BY <2>1, <1>6, <1>7, NewFacts
  <2> QED BY <2>2, <1>6, <1>1
<1>9. Compared(h, n, i) = Set(neq, n, i, Len(h) + 2)
  <2>1. Compared(h, n, i) = Set(New(zero, "NEQ", NoName, <<kid, Len(zero)>>), n, i,
                                Len(New(zero, "NEQ", NoName, <<kid, Len(zero)>>)))
    BY <1>5
  <2> HIDE DEF zero, neq
  <2>2. New(zero, "NEQ", NoName, <<kid, Len(zero)>>) = neq BY <1>6 DEF neq
  <2> QED BY <2>1, <2>2, <1>8
<1> HIDE DEF neq, zero
<1>10. n \in DOMAIN neq /\ Len(neq) \in 0..Len(neq) BY <1>1, <1>8 DEF IsHeap
<1> QED BY <1>2, <1>3, <1>4, <1>6, <1>7, <1>8, <1>9, <1>10 DEF neq, zero

LEMMA ComparedHeap ==
  ASSUME NEW h, IsHeap(h), NEW n \in DOMAIN h, NEW i
  PROVE  IsHeap(Compared(h, n, i)) /\ Len(h) <= Len(Compared(h, n, i)) /\ n \in DOMAIN Compared(h, n, i)
<1>1. Len(h) \in Nat /\ DOMAIN h = 1..Len(h) BY DEF IsHeap
<1>2. 0 \in 0..Len(h) /\ n > 0 /\ Apart(h, 0) BY <1>1 DEF Apart
<1>3. IsHeap(Compared(h, n, i)) /\ Len(Compared(h, n, i)) >= Len(h) BY <1>2, ComparedFacts
<1>4. Len(Compared(h, n, i)) \in Nat /\ DOMAIN Compared(h, n, i) = 1..Len(Compared(h, n, i))
  BY <1>3 DEF IsHeap
<1> QED BY <1>1, <1>3, <1>4

LEMMA ComparedAlike ==
  ASSUME NEW h, IsHeap(h), NEW g, IsHeap(g), NEW l \in Nat, NEW d \in Nat, Alike(l, d, h, g),
         NEW n \in DOMAIN h, NEW i
  PROVE  Alike(l, d, Compared(h, n, i), Compared(g, At(l, d, n), i))
<1> DEFINE q == At(l, d, n)
<1>1. /\ Len(h) \in Nat /\ DOMAIN h = 1..Len(h) /\ l <= Len(h) /\ Len(g) = Len(h) + d
      /\ q \in DOMAIN g /\ DOMAIN g[q].kids = DOMAIN h[n].kids
      /\ \A j \in DOMAIN h[n].kids : g[q].kids[j] = At(l, d, h[n].kids[j])
      /\ \A k \in 0..Len(h) : ClassOf(g, At(l, d, k)) = ClassOf(h, k)
  <2>1. n \in DOMAIN h OBVIOUS
  <2> QED BY <2>1, AlikeNode
<1>2. g[q].class = h[n].class BY DEF Alike
<1> HIDE DEF q
<1>3. IsBare(g, q, i) <=> IsBare(h, n, i)
  <2>1. ConditionsOf(g, q) = ConditionsOf(h, n) BY <1>2 DEF ConditionsOf
  <2>2. i \in DOMAIN h[n].kids => h[n].kids[i] \in 0..Len(h) BY HeapFacts
  <2>3. i \in DOMAIN h[n].kids => ClassOf(g, g[q].kids[i]) = ClassOf(h, h[n].kids[i])
    BY <2>2, <1>1
  <2> QED BY <2>1, <2>3, <1>1 DEF IsBare
<1>4. CASE ~ IsBare(h, n, i)
  <2>1. Compared(h, n, i) = h /\ Compared(g, q, i) = g BY <1>3, <1>4 DEF Compared
  <2> QED BY <2>1 DEF q
<1>5. CASE IsBare(h, n, i)
  <2> DEFINE kid == h[n].kids[i]
             none == <<>>
             zero == New(h, "Literal", <<"0", 0>>, none)
             pair == <<kid, Len(h) + 1>>
             neq == New(zero, "NEQ", NoName, pair)
             kid2 == g[q].kids[i]
             zero2 == New(g, "Literal", <<"0", 0>>, none)
             pair2 == <<kid2, Len(g) + 1>>
             neq2 == New(zero2, "NEQ", NoName, pair2)
  <2>1. /\ i \in DOMAIN h[n].kids /\ kid \in DOMAIN h
        /\ IsHeap(zero) /\ Len(zero) = Len(h) + 1 /\ pair \in Seq(0..Len(zero))
        /\ IsHeap(neq) /\ Len(neq) = Len(h) + 2 /\ n \in DOMAIN neq
        /\ Compared(h, n, i) = Set(neq, n, i, Len(h) + 2)
    BY <1>5, ComparedHeaps
  <2>2. /\ IsHeap(zero2) /\ Len(zero2) = Len(g) + 1 /\ IsHeap(neq2)
        /\ Compared(g, q, i) = Set(neq2, q, i, Len(g) + 2)
    <3>1. IsBare(g, q, i) /\ q \in DOMAIN g BY <1>1, <1>3, <1>5
    <3> QED BY <3>1, ComparedHeaps
  <2>3. Alike(l, d, zero, zero2)
    <3>1. <<"0", 0>> \in Names /\ "Literal" \in Classes /\ "Literal" \notin Unary BY MadeUp
    <3>2. none \in Seq(0..Len(h)) OBVIOUS
    <3>3. Ats(l, d, none) = none BY DEF Ats
    <3> HIDE DEF none
    <3>4. Alike(l, d, New(h, "Literal", <<"0", 0>>, none),
                      New(g, "Literal", <<"0", 0>>, Ats(l, d, none)))
      BY <3>1, <3>2, NewAlike
    <3> QED BY <3>3, <3>4
  <2>4. Ats(l, d, pair) = pair2
    <3>1. kid2 = At(l, d, kid) BY <1>1, <2>1
    <3>2. At(l, d, Len(h) + 1) = Len(g) + 1 BY <1>1 DEF At
    <3> HIDE DEF kid, kid2
    <3> QED BY <3>1, <3>2 DEF Ats
  <2> HIDE DEF zero, zero2, pair, pair2
  <2>5. Alike(l, d, neq, neq2)
    <3>1. NoName \in Names /\ "NEQ" \in Classes /\ "NEQ" \notin Unary BY MadeUp
    <3>2. Alike(l, d, New(zero, "NEQ", NoName, pair),
                      New(zero2, "NEQ", NoName, Ats(l, d, pair)))
      BY <3>1, <2>1, <2>2, <2>3, NewAlike
    <3> QED BY <2>4, <3>2
  <2> HIDE DEF neq, neq2
  <2>6. Len(h) + 2 \in 0..Len(neq) /\ At(l, d, Len(h) + 2) = Len(g) + 2
    BY <1>1, <2>1 DEF At
  <2>7. Alike(l, d, Set(neq, n, i, Len(h) + 2), Set(neq2, q, i, Len(g) + 2))
    <3>1. Alike(l, d, Set(neq, n, i, Len(h) + 2),
                      Set(neq2, At(l, d, n), i, At(l, d, Len(h) + 2)))
      BY <2>1, <2>2, <2>5, <2>6, SetAlike
    <3> QED BY <3>1, <2>6 DEF q
  <2> QED BY <2>1, <2>2, <2>7 DEF q
<1> QED BY <1>4, <1>5

-----------------------------------------------------------------------------
\* The node about to be written, made ready for the two dialects: Prepared and
\* WrittenNode where the dialect is not the one of the call at hand.
Elides(op, h, n) == op = "tsql" /\ h[n].class = "Length" /\ ClassOf(h, This(h, n)) = "Cast"
Spells(op, h, n) ==
  /\ op = "tsql" /\ h[n].class = "TimeToStr" /\ 2 \in DOMAIN h[n].kids
  /\ ClassOf(h, h[n].kids[2]) = "Literal" /\ h[h[n].kids[2]].name = <<"%Y", 0>>
Respelled(h, n) ==
  LET out == ShallowCopy(h, n)
      spelled == New(out, "Literal", <<"yyyy", 0>>, <<>>)
  IN Set(spelled, Len(out), 2, Len(spelled))
Ready(op, h, n) ==
  IF Elides(op, h, n)
  THEN LET out == ShallowCopy(h, n) IN Set(out, Len(out), 1, This(h, This(h, n)))
  ELSE IF Spells(op, h, n) THEN Respelled(h, n) ELSE h
Ripe(op, h, n) == IF Elides(op, h, n) \/ Spells(op, h, n) THEN Len(h) + 1 ELSE n

LEMMA ReadyIs ==
  ASSUME call.op \in {"tsql", "neutral"}
  PROVE  \A h, n : Prepared(h, n) = Ready(call.op, h, n) /\ WrittenNode(h, n) = Ripe(call.op, h, n)
<1> SUFFICES ASSUME NEW h, NEW n
             PROVE  Prepared(h, n) = Ready(call.op, h, n) /\ WrittenNode(h, n) = Ripe(call.op, h, n)
  OBVIOUS
<1>1. ElidesCast(h, n) <=> Elides(call.op, h, n) BY DEF ElidesCast, Elides
<1>2. ~ AddsCast(h, n) BY DEF AddsCast
<1>3. SpellsFormat(h, n) <=> Spells(call.op, h, n) BY DEF SpellsFormat, Spells
<1>4. WrittenNode(h, n) = Ripe(call.op, h, n) BY <1>1, <1>2, <1>3 DEF WrittenNode, Ripe
<1>5. Prepared(h, n) = Ready(call.op, h, n)
  BY <1>1, <1>2, <1>3 DEF Prepared, Ready, Respelled
<1> QED BY <1>4, <1>5

\* The heaps a respelled format is made of.
LEMMA RespelledHeaps ==
  ASSUME NEW h, IsHeap(h), NEW n \in DOMAIN h
  PROVE  LET out == ShallowCopy(h, n)
             spelled == New(out, "Literal", <<"yyyy", 0>>, <<>>)
         IN /\ IsHeap(out) /\ Len(out) = Len(h) + 1 /\ Len(out) \in DOMAIN out
            /\ IsHeap(spelled) /\ Len(spelled) = Len(h) + 2
            /\ Len(out) \in DOMAIN spelled /\ Len(spelled) \in 0..Len(spelled)
            /\ Respelled(h, n) = Set(spelled, Len(out), 2, Len(spelled))
<1> DEFINE out == ShallowCopy(h, n)
           none == <<>>
           spelled == New(out, "Literal", <<"yyyy", 0>>, none)
<1>1. Len(h) \in Nat BY DEF IsHeap
<1>2. Respelled(h, n) = Set(spelled, Len(out), 2, Len(spelled)) BY DEF Respelled
<1>3. IsHeap(out) /\ Len(out) = Len(h) + 1 BY ShallowFacts
<1> HIDE DEF out
<1>4. IsHeap(spelled) /\ Len(spelled) = Len(out) + 1
  <2>1. <<"yyyy", 0>> \in Names /\ "Literal" \in Classes /\ "Literal" \notin Unary BY MadeUp
  <2>2. none \in Seq(0..Len(out)) OBVIOUS
  <2> HIDE DEF none
  <2> QED BY <2>1, <2>2, <1>3, NewFacts
<1> HIDE DEF spelled
<1>5. Len(out) \in DOMAIN out /\ Len(out) \in DOMAIN spelled /\ Len(spelled) \in 0..Len(spelled)
  BY <1>1, <1>3, <1>4 DEF IsHeap
<1> QED BY <1>1, <1>2, <1>3, <1>4, <1>5 DEF out, spelled

LEMMA ReadyHeaps ==
  ASSUME NEW op, NEW h, IsHeap(h), NEW n \in DOMAIN h, Elides(op, h, n)
  PROVE  LET below == This(h, This(h, n))
             out == ShallowCopy(h, n)
         IN /\ below \in 0..Len(h) /\ This(h, n) \in DOMAIN h
            /\ h[n].class \in Unary /\ h[This(h, n)].class \in Unary
            /\ IsHeap(out) /\ Len(out) = Len(h) + 1 /\ Len(out) \in DOMAIN out
            /\ Ready(op, h, n) = Set(out, Len(out), 1, below)
<1> DEFINE cast == This(h, n)
           below == This(h, cast)
           out == ShallowCopy(h, n)
<1>1. Len(h) \in Nat /\ DOMAIN h = 1..Len(h) BY DEF IsHeap
<1>2. ClassOf(h, cast) = "Cast" /\ h[n].class = "Length" BY DEF Elides
<1>3. cast \in DOMAIN h /\ h[cast].class = "Cast" BY <1>2 DEF ClassOf
<1>4. h[n].class \in Unary /\ h[cast].class \in Unary BY <1>2, <1>3 DEF Unary
<1>5. Ready(op, h, n) = Set(out, Len(out), 1, below) BY DEF Ready
<1>6. IsHeap(out) /\ Len(out) = Len(h) + 1 BY ShallowFacts
<1> HIDE DEF out
<1>7. Len(out) \in DOMAIN out BY <1>1, <1>6 DEF IsHeap
<1>8. below \in 0..Len(h)
  <2> HIDE DEF cast
  <2> QED BY <1>3, <1>4, HeapFacts
<1> QED BY <1>3, <1>4, <1>5, <1>6, <1>7, <1>8 DEF out

LEMMA ReadyHeap ==
  ASSUME NEW op, NEW h, IsHeap(h), NEW n \in DOMAIN h
  PROVE  /\ IsHeap(Ready(op, h, n)) /\ Len(h) <= Len(Ready(op, h, n))
         /\ Ripe(op, h, n) \in DOMAIN Ready(op, h, n)
<1>1. Len(h) \in Nat /\ DOMAIN h = 1..Len(h) BY DEF IsHeap
<1>2. CASE Elides(op, h, n)
  <2> DEFINE below == This(h, This(h, n))
             out == ShallowCopy(h, n)
             g == Set(out, Len(out), 1, below)
  <2>1. /\ below \in 0..Len(h) /\ IsHeap(out) /\ Len(out) = Len(h) + 1 /\ Len(out) \in DOMAIN out
        /\ Ready(op, h, n) = g
    BY <1>2, ReadyHeaps
  <2> HIDE DEF below, out
  <2>2. below \in 0..Len(out) BY <2>1, <1>1
  <2>3. IsHeap(g) /\ Len(g) = Len(out) BY <2>1, <2>2, SetHeap
  <2> HIDE DEF g
  <2>4. Ripe(op, h, n) = Len(h) + 1 BY <1>2 DEF Ripe
  <2>5. DOMAIN g = 1..Len(g) BY <2>3 DEF IsHeap
  <2> QED BY <1>1, <2>1, <2>3, <2>4, <2>5
<1>3. CASE ~ Elides(op, h, n) /\ Spells(op, h, n)
  <2> DEFINE out == ShallowCopy(h, n)
             spelled == New(out, "Literal", <<"yyyy", 0>>, <<>>)
             g == Set(spelled, Len(out), 2, Len(spelled))
  <2>1. /\ Len(out) = Len(h) + 1 /\ IsHeap(spelled) /\ Len(spelled) = Len(h) + 2
        /\ Len(out) \in DOMAIN spelled /\ Len(spelled) \in 0..Len(spelled)
        /\ Respelled(h, n) = g
    BY RespelledHeaps
  <2> HIDE DEF out, spelled
  <2>2. IsHeap(g) /\ Len(g) = Len(spelled) BY <2>1, SetHeap
  <2> HIDE DEF g
  <2>3. Ready(op, h, n) = g /\ Ripe(op, h, n) = Len(h) + 1 BY <1>3, <2>1 DEF Ready, Ripe
  <2>4. DOMAIN g = 1..Len(g) BY <2>2 DEF IsHeap
  <2> QED BY <1>1, <2>1, <2>2, <2>3, <2>4
<1>4. CASE ~ Elides(op, h, n) /\ ~ Spells(op, h, n)
  BY <1>1, <1>4 DEF Ready, Ripe
<1> QED BY <1>2, <1>3, <1>4

LEMMA ReadyAlike ==
  ASSUME NEW op, NEW h, IsHeap(h), NEW g, IsHeap(g), NEW l \in Nat, NEW d \in Nat,
         Alike(l, d, h, g), NEW n \in DOMAIN h
  PROVE  /\ Alike(l, d, Ready(op, h, n), Ready(op, g, At(l, d, n)))
         /\ Ripe(op, g, At(l, d, n)) = At(l, d, Ripe(op, h, n))
<1> DEFINE q == At(l, d, n)
<1>1. /\ Len(h) \in Nat /\ DOMAIN h = 1..Len(h) /\ l <= Len(h) /\ Len(g) = Len(h) + d
      /\ \A m \in DOMAIN h :
           /\ At(l, d, m) \in DOMAIN g
           /\ \A j \in DOMAIN h[m].kids : g[At(l, d, m)].kids[j] = At(l, d, h[m].kids[j])
      /\ \A k \in 0..Len(h) : ClassOf(g, At(l, d, k)) = ClassOf(h, k)
  BY AlikeNode
<1>2. \A m \in DOMAIN h : g[At(l, d, m)].class = h[m].class BY DEF Alike
<1>3. ASSUME NEW m \in DOMAIN h, h[m].class \in Unary
      PROVE  This(h, m) \in 0..Len(h) /\ This(g, At(l, d, m)) = At(l, d, This(h, m))
  <2>1. This(h, m) \in 0..Len(h) /\ 1 \in DOMAIN h[m].kids BY <1>3, HeapFacts
  <2> QED BY <2>1, <1>1 DEF This
<1>4. "Length" \in Unary /\ "Cast" \in Unary BY DEF Unary
<1>5. Elides(op, g, q) <=> Elides(op, h, n)
  <2>1. CASE h[n].class = "Length"
    <3>1. ClassOf(g, This(g, q)) = ClassOf(h, This(h, n)) BY <2>1, <1>1, <1>3, <1>4
    <3> QED BY <3>1, <1>2 DEF Elides
  <2>2. CASE h[n].class # "Length"
    <3>1. g[q].class = h[n].class BY <1>2
    <3> QED BY <2>2, <3>1 DEF Elides
  <2> QED BY <2>1, <2>2
<1>6. Spells(op, g, q) <=> Spells(op, h, n)
  <2>1. g[q].class = h[n].class /\ g[q].name = h[n].name BY DEF Alike
  <2>2. DOMAIN g[q].kids = DOMAIN h[n].kids BY AlikeNode
  <2>3. ASSUME 2 \in DOMAIN h[n].kids
        PROVE  /\ ClassOf(g, g[q].kids[2]) = ClassOf(h, h[n].kids[2])
               /\ ClassOf(h, h[n].kids[2]) = "Literal"
                    => g[g[q].kids[2]].name = h[h[n].kids[2]].name
    <3>1. h[n].kids[2] \in 0..Len(h) BY <2>3, HeapFacts
    <3>2. g[q].kids[2] = At(l, d, h[n].kids[2]) BY <2>3, <1>1
    <3> DEFINE kid == h[n].kids[2]
    <3>3. ClassOf(h, kid) = "Literal" => kid \in DOMAIN h BY DEF ClassOf
    <3>4. kid \in DOMAIN h => g[At(l, d, kid)].name = h[kid].name BY DEF Alike
    <3> QED BY <1>1, <3>1, <3>2, <3>3, <3>4
  <2> QED BY <2>1, <2>2, <2>3 DEF Spells
<1>7. CASE ~ Elides(op, h, n) /\ ~ Spells(op, h, n)
  BY <1>5, <1>7, <1>6 DEF Ready, Ripe
<1>9. CASE ~ Elides(op, h, n) /\ Spells(op, h, n)
  <2> DEFINE out == ShallowCopy(h, n)
             spelled == New(out, "Literal", <<"yyyy", 0>>, <<>>)
             out2 == ShallowCopy(g, q)
             spelled2 == New(out2, "Literal", <<"yyyy", 0>>, <<>>)
  <2>1. /\ IsHeap(out) /\ Len(out) = Len(h) + 1
        /\ IsHeap(spelled) /\ Len(spelled) = Len(h) + 2
        /\ Len(out) \in DOMAIN spelled /\ Len(spelled) \in 0..Len(spelled)
        /\ Respelled(h, n) = Set(spelled, Len(out), 2, Len(spelled))
    BY RespelledHeaps
  <2>2. q \in DOMAIN g BY <1>1
  <2>3. /\ IsHeap(out2) /\ Len(out2) = Len(g) + 1
        /\ IsHeap(spelled2) /\ Len(spelled2) = Len(g) + 2
        /\ Respelled(g, q) = Set(spelled2, Len(out2), 2, Len(spelled2))
    BY <2>2, RespelledHeaps
  <2>4. Alike(l, d, out, out2) BY ShallowAlike
  <2>5. Alike(l, d, spelled, spelled2)
    <3>1. PICK kids : kids = <<>> OBVIOUS
    <3>2. kids \in Seq(0..Len(out)) /\ Ats(l, d, kids) = <<>> BY <3>1 DEF Ats
    <3>3. <<"yyyy", 0>> \in Names /\ "Literal" \in Classes /\ "Literal" \notin Unary BY MadeUp
    <3>4. PICK name : name = <<"yyyy", 0>> OBVIOUS
    <3> HIDE DEF out, out2
    <3>5. Alike(l, d, New(out, "Literal", name, kids), New(out2, "Literal", name, Ats(l, d, kids)))
      BY <2>1, <2>3, <2>4, <3>2, <3>3, <3>4, NewAlike
    <3> QED BY <3>1, <3>2, <3>4, <3>5
  <2> HIDE DEF out, out2, spelled, spelled2, q
  <2>6. At(l, d, Len(out)) = Len(out2) /\ At(l, d, Len(spelled)) = Len(spelled2)
    BY <1>1, <2>1, <2>3 DEF At
  <2>7. Alike(l, d, Set(spelled, Len(out), 2, Len(spelled)),
                    Set(spelled2, At(l, d, Len(out)), 2, At(l, d, Len(spelled))))
    BY <2>1, <2>3, <2>5, SetAlike
  <2>8. Ripe(op, g, q) = Len(g) + 1 /\ Ripe(op, h, n) = Len(h) + 1
    BY <1>5, <1>6, <1>9 DEF Ripe
  <2>9. Ready(op, h, n) = Respelled(h, n) /\ Ready(op, g, q) = Respelled(g, q)
    BY <1>5, <1>6, <1>9 DEF Ready
  <2>10. At(l, d, Len(h) + 1) = Len(g) + 1 BY <1>1 DEF At
  <2> QED BY <2>1, <2>3, <2>6, <2>7, <2>8, <2>9, <2>10 DEF q
<1>8. CASE Elides(op, h, n)
  <2> DEFINE below == This(h, This(h, n))
             out == ShallowCopy(h, n)
             below2 == This(g, This(g, q))
             out2 == ShallowCopy(g, q)
  <2>1. /\ below \in 0..Len(h) /\ This(h, n) \in DOMAIN h
        /\ h[n].class \in Unary /\ h[This(h, n)].class \in Unary
        /\ IsHeap(out) /\ Len(out) = Len(h) + 1 /\ Len(out) \in DOMAIN out
        /\ Ready(op, h, n) = Set(out, Len(out), 1, below)
    BY <1>8, ReadyHeaps
  <2>2. q \in DOMAIN g BY <1>1
  <2>3. /\ IsHeap(out2) /\ Len(out2) = Len(g) + 1
        /\ Ready(op, g, q) = Set(out2, Len(out2), 1, below2)
    BY <1>5, <1>8, <2>2, ReadyHeaps
  <2>4. below2 = At(l, d, below) BY <2>1, <1>3
  <2>5. Alike(l, d, out, out2) BY ShallowAlike
  <2> HIDE DEF below, below2, out, out2, q
  <2>6. At(l, d, Len(out)) = Len(out2) BY <1>1, <2>1, <2>3 DEF At
  <2>7. below \in 0..Len(out) BY <1>1, <2>1
  <2>8. Alike(l, d, Set(out, Len(out), 1, below),
                    Set(out2, At(l, d, Len(out)), 1, At(l, d, below)))
    BY <2>1, <2>3, <2>5, <2>7, SetAlike
  <2>9. Ripe(op, g, q) = Len(g) + 1 /\ Ripe(op, h, n) = Len(h) + 1 BY <1>5, <1>8 DEF Ripe
  <2> QED BY <2>1, <2>3, <2>4, <2>6, <2>8, <2>9 DEF q
<1> QED BY <1>7, <1>8, <1>9

-----------------------------------------------------------------------------
\* A new node has no Parent, so it closes no cycle of Parents over its children.
LEMMA NewRising ==
  ASSUME NEW h, IsHeap(h), Rising(h), NEW class \in Classes, NEW name \in Names,
         NEW kids \in Seq(0..Len(h)), class \in Unary => Len(kids) > 0
  PROVE  Rising(New(h, class, name, kids))
<1> DEFINE g == New(h, class, name, kids)
<1>1. Len(h) \in Nat /\ DOMAIN h = 1..Len(h) BY DEF IsHeap
<1>2. IsHeap(g) /\ Len(g) = Len(h) + 1 BY NewFacts
<1>3. /\ \A n \in DOMAIN h : g[n].parent = IF n \in Range(kids) THEN Len(h) + 1 ELSE h[n].parent
      /\ g[Len(h) + 1].parent = Nil
  BY NewParents
<1> HIDE DEF g
<1>4. DOMAIN g = 1..(Len(h) + 1) BY <1>2 DEF IsHeap
<1>5. ASSUME NEW S \in SUBSET DOMAIN g, S # {} PROVE \E n \in S : g[n].parent \notin S
  <2>1. CASE Len(h) + 1 \in S
    <3>1. Nil \notin S BY <1>1, <1>4 DEF Nil
    <3> QED BY <2>1, <3>1, <1>3
  <2>2. CASE Len(h) + 1 \notin S
    <3>1. S \in SUBSET DOMAIN h BY <2>2, <1>1, <1>4
    <3>2. PICK n \in S : h[n].parent \notin S BY <3>1, <1>5 DEF Rising
    <3> QED BY <2>2, <3>1, <3>2, <1>3
  <2> QED BY <2>1, <2>2
<1>6. Rising(g) BY <1>5 DEF Rising
<1> QED BY <1>6 DEF g

\* Nor does a node without a Parent when it takes another child.
LEMMA SetRising ==
  ASSUME NEW h, IsHeap(h), Rising(h), NEW n \in DOMAIN h, h[n].parent = Nil,
         NEW i, NEW k \in 0..Len(h), k # n
  PROVE  Rising(Set(h, n, i, k))
<1> DEFINE g == Set(h, n, i, k)
<1>1. Len(h) \in Nat /\ DOMAIN h = 1..Len(h) BY DEF IsHeap
<1>2. IsHeap(g) /\ Len(g) = Len(h) BY SetHeap
<1>3. \A m \in DOMAIN h : g[m].parent = IF m = k THEN n ELSE h[m].parent BY SetParents
<1> HIDE DEF g
<1>4. DOMAIN g = DOMAIN h BY <1>1, <1>2 DEF IsHeap
<1>5. ASSUME NEW S \in SUBSET DOMAIN g, S # {} PROVE \E m \in S : g[m].parent \notin S
  <2>1. CASE n \in S
    <3>1. Nil \notin S BY <1>1, <1>4 DEF Nil
    <3>2. g[n].parent = Nil BY <1>3
    <3> QED BY <2>1, <3>1, <3>2
  <2>2. CASE n \notin S
    <3>1. PICK m \in S : h[m].parent \notin S BY <1>4, <1>5 DEF Rising
    <3> QED BY <2>2, <3>1, <1>3, <1>4
  <2> QED BY <2>1, <2>2
<1>6. Rising(g) BY <1>5 DEF Rising
<1> QED BY <1>6 DEF g

LEMMA BlankRising ==
  ASSUME NEW h, IsHeap(h), Rising(h), NEW n \in DOMAIN h
  PROVE  Rising(Blank(h, n)) /\ Blank(h, n)[Len(h) + 1].parent = Nil
<1> DEFINE kids == [i \in DOMAIN h[n].kids |-> Nil]
<1>1. h[n] \in Nodes /\ h[n].kids \in Seq(0..Len(h)) /\ Len(h) \in Nat BY HeapFacts DEF IsHeap
<1>2. DOMAIN h[n].kids = 1..Len(h[n].kids) /\ Len(h[n].kids) \in Nat BY <1>1
<1>3. kids \in Seq(0..Len(h)) /\ Len(kids) = Len(h[n].kids) BY <1>1, <1>2 DEF Nil
<1>4. h[n].class \in Classes /\ h[n].name \in Names /\ (h[n].class \in Unary => Len(kids) > 0)
  BY <1>1, <1>3 DEF Nodes
<1>5. Blank(h, n) = New(h, h[n].class, h[n].name, kids) BY DEF Blank
<1> HIDE DEF kids
<1>6. Rising(New(h, h[n].class, h[n].name, kids)) BY <1>3, <1>4, NewRising
<1>7. New(h, h[n].class, h[n].name, kids)[Len(h) + 1].parent = Nil BY <1>3, <1>4, NewParents
<1> QED BY <1>5, <1>6, <1>7

LEMMA ShallowRising ==
  ASSUME NEW h, IsHeap(h), Rising(h), NEW n \in DOMAIN h
  PROVE  Rising(ShallowCopy(h, n)) /\ ShallowCopy(h, n)[Len(h) + 1].parent = Nil
<1>1. /\ h[n].class \in Classes /\ h[n].name \in Names /\ h[n].kids \in Seq(0..Len(h))
      /\ h[n].class \in Unary => Len(h[n].kids) > 0
  BY HeapFacts DEF Nodes
<1>2. Rising(New(h, h[n].class, h[n].name, h[n].kids)) BY <1>1, NewRising
<1>3. New(h, h[n].class, h[n].name, h[n].kids)[Len(h) + 1].parent = Nil BY <1>1, NewParents
<1> QED BY <1>2, <1>3 DEF ShallowCopy

LEMMA ReadyRising ==
  ASSUME NEW op, NEW h, IsHeap(h), Rising(h), ParentsWithin(h), NEW n \in DOMAIN h
  PROVE  Rising(Ready(op, h, n)) /\ ParentsWithin(Ready(op, h, n))
<1>1. Len(h) \in Nat /\ DOMAIN h = 1..Len(h) BY DEF IsHeap
<1>2. CASE ~ Elides(op, h, n) /\ ~ Spells(op, h, n) BY <1>2 DEF Ready
<1>3. CASE Elides(op, h, n)
  <2> DEFINE below == This(h, This(h, n))
             out == ShallowCopy(h, n)
  <2>1. /\ below \in 0..Len(h) /\ IsHeap(out) /\ Len(out) = Len(h) + 1 /\ Len(out) \in DOMAIN out
        /\ Ready(op, h, n) = Set(out, Len(out), 1, below)
    BY <1>3, ReadyHeaps
  <2>2. Rising(out) /\ out[Len(out)].parent = Nil BY <2>1, ShallowRising
  <2>3. ParentsWithin(out) BY CopiesWithin
  <2> HIDE DEF below, out
  <2>4. below \in 0..Len(out) /\ below # Len(out) BY <1>1, <2>1
  <2>5. Rising(Set(out, Len(out), 1, below)) BY <2>1, <2>2, <2>4, SetRising
  <2>6. ParentsWithin(Set(out, Len(out), 1, below)) BY <2>1, <2>3, <2>4, SetParents
  <2> QED BY <2>1, <2>5, <2>6
<1>4. CASE ~ Elides(op, h, n) /\ Spells(op, h, n)
  <2> DEFINE out == ShallowCopy(h, n)
             none == <<>>
             spelled == New(out, "Literal", <<"yyyy", 0>>, none)
  <2>1. /\ IsHeap(out) /\ Len(out) = Len(h) + 1 /\ Len(out) \in DOMAIN out
        /\ IsHeap(spelled) /\ Len(spelled) = Len(h) + 2
        /\ Len(out) \in DOMAIN spelled /\ Len(spelled) \in 0..Len(spelled)
        /\ Respelled(h, n) = Set(spelled, Len(out), 2, Len(spelled))
    BY RespelledHeaps
  <2>2. Rising(out) /\ out[Len(out)].parent = Nil BY <2>1, ShallowRising
  <2>3. ParentsWithin(out) BY CopiesWithin
  <2> HIDE DEF out
  <2>4. Rising(spelled) /\ ParentsWithin(spelled) /\ spelled[Len(out)].parent = Nil
    <3>1. <<"yyyy", 0>> \in Names /\ "Literal" \in Classes /\ "Literal" \notin Unary BY MadeUp
    <3>2. none \in Seq(0..Len(out)) /\ Len(out) \notin Range(none) BY DEF Range
    <3> HIDE DEF none
    <3>3. Rising(spelled) BY <3>1, <3>2, <2>1, <2>2, NewRising
    <3>4. /\ ParentsWithin(out) => ParentsWithin(spelled)
          /\ \A m \in DOMAIN out :
               spelled[m].parent = IF m \in Range(none) THEN Len(out) + 1 ELSE out[m].parent
      BY <3>1, <3>2, <2>1, NewParents
    <3> HIDE DEF spelled
    <3>5. spelled[Len(out)].parent = out[Len(out)].parent BY <3>2, <3>4, <2>1
    <3> QED BY <3>3, <3>4, <3>5, <2>2, <2>3
  <2> HIDE DEF spelled
  <2>5. Len(spelled) # Len(out) BY <1>1, <2>1
  <2>6. Rising(Set(spelled, Len(out), 2, Len(spelled))) BY <2>1, <2>4, <2>5, SetRising
  <2>7. ParentsWithin(Set(spelled, Len(out), 2, Len(spelled))) BY <2>1, <2>4, SetParents
  <2>8. Ready(op, h, n) = Respelled(h, n) BY <1>4 DEF Ready
  <2> QED BY <2>1, <2>6, <2>7, <2>8
<1> QED BY <1>2, <1>3, <1>4

\* What a comparison with zero does to Parents.
LEMMA ComparedParents ==
  ASSUME NEW h, IsHeap(h), NEW n \in DOMAIN h, NEW i, IsBare(h, n, i)
  PROVE  LET g == Compared(h, n, i) IN
           /\ Len(g) = Len(h) + 2
           /\ \A m \in DOMAIN h :
                g[m].parent = IF m = h[n].kids[i] THEN Len(h) + 2 ELSE h[m].parent
           /\ g[Len(h) + 1].parent = Len(h) + 2
           /\ g[Len(h) + 2].parent = n
<1> DEFINE kid == h[n].kids[i]
           none == <<>>
           zero == New(h, "Literal", <<"0", 0>>, none)
           pair == <<kid, Len(h) + 1>>
           neq == New(zero, "NEQ", NoName, pair)
<1>1. Len(h) \in Nat /\ DOMAIN h = 1..Len(h) BY DEF IsHeap
<1>2. /\ kid \in DOMAIN h
      /\ IsHeap(zero) /\ Len(zero) = Len(h) + 1 /\ pair \in Seq(0..Len(zero))
      /\ IsHeap(neq) /\ Len(neq) = Len(h) + 2 /\ n \in DOMAIN neq
      /\ Compared(h, n, i) = Set(neq, n, i, Len(h) + 2)
  BY ComparedHeaps
<1>3. \A m \in DOMAIN h : zero[m].parent = h[m].parent
  <2>1. <<"0", 0>> \in Names /\ "Literal" \in Classes /\ "Literal" \notin Unary BY MadeUp
  <2>2. none \in Seq(0..Len(h)) /\ Range(none) = {} BY DEF Range
  <2> HIDE DEF none
  <2>3. \A m \in DOMAIN h : zero[m].parent = IF m \in Range(none) THEN Len(h) + 1 ELSE h[m].parent
    BY <2>1, <2>2, NewParents
  <2> QED BY <2>2, <2>3
<1>4. Range(pair) = {kid, Len(h) + 1} BY DEF Range
<1> HIDE DEF zero, pair, kid
<1>5. /\ \A m \in DOMAIN zero :
           neq[m].parent = IF m \in Range(pair) THEN Len(zero) + 1 ELSE zero[m].parent
      /\ neq[Len(zero) + 1].parent = Nil
  <2>1. NoName \in Names /\ "NEQ" \in Classes /\ "NEQ" \notin Unary BY MadeUp
  <2> QED BY <2>1, <1>2, NewParents
<1> HIDE DEF neq
<1> DEFINE g == Set(neq, n, i, Len(h) + 2)
<1>6. Len(h) + 2 \in 0..Len(neq) BY <1>1, <1>2
<1>7. \A m \in DOMAIN neq : g[m].parent = IF m = Len(h) + 2 THEN n ELSE neq[m].parent
  <2>1. IsHeap(neq) /\ n \in DOMAIN neq BY <1>2
  <2> QED BY <2>1, <1>6, SetParents
<1>8. Len(g) = Len(neq) BY <1>2, <1>6, SetHeap
<1> HIDE DEF g
<1>9. DOMAIN zero = 1..(Len(h) + 1) /\ DOMAIN neq = 1..(Len(h) + 2) BY <1>2 DEF IsHeap
<1>10. ASSUME NEW m \in DOMAIN h
       PROVE  g[m].parent = IF m = kid THEN Len(h) + 2 ELSE h[m].parent
  <2>1. m \in DOMAIN zero /\ m \in DOMAIN neq /\ m # Len(h) + 2 /\ m # Len(h) + 1 BY <1>1, <1>9
  <2>2. g[m].parent = neq[m].parent BY <2>1, <1>7
  <2>3. neq[m].parent = IF m \in Range(pair) THEN Len(zero) + 1 ELSE zero[m].parent
    BY <2>1, <1>5
  <2>4. Len(zero) + 1 = Len(h) + 2 BY <1>1, <1>2
  <2>5. m \in Range(pair) <=> m = kid BY <2>1, <1>4
  <2> QED BY <2>2, <2>3, <2>4, <2>5, <1>3
<1>11. g[Len(h) + 1].parent = Len(h) + 2
  <2>1. Len(h) + 1 \in DOMAIN zero /\ Len(h) + 1 \in DOMAIN neq /\ Len(h) + 1 # Len(h) + 2
    BY <1>1, <1>9
  <2>2. Len(zero) + 1 = Len(h) + 2 BY <1>1, <1>2
  <2> QED BY <2>1, <2>2, <1>4, <1>5, <1>7
<1>12. g[Len(h) + 2].parent = n
  <2>1. Len(h) + 2 \in DOMAIN neq BY <1>1, <1>9
  <2> QED BY <2>1, <1>7
<1> QED BY <1>2, <1>8, <1>10, <1>11, <1>12 DEF g, kid

\* A bare value that names its holder as its Parent: the comparison comes between
\* them, and the Parents have no cycle.
LEMMA ComparedRising ==
  ASSUME NEW h, IsHeap(h), Rising(h), ParentsWithin(h), NEW n \in DOMAIN h, Linked(h, n), NEW i
  PROVE  Rising(Compared(h, n, i))
<1>1. Len(h) \in Nat /\ DOMAIN h = 1..Len(h) BY DEF IsHeap
<1>2. CASE ~ IsBare(h, n, i) BY <1>2 DEF Compared
<1>3. CASE IsBare(h, n, i)
  <2> DEFINE g == Compared(h, n, i)
             kid == h[n].kids[i]
             neq == Len(h) + 2
  <2>1. i \in DOMAIN h[n].kids /\ kid \in DOMAIN h BY <1>3, ComparedHeaps
  <2>2. h[kid].parent = n
    <3>1. kid # Nil BY <1>1, <2>1 DEF Nil
    <3> QED BY <2>1, <3>1 DEF Linked
  <2>3. /\ Len(g) = Len(h) + 2
        /\ \A m \in DOMAIN h : g[m].parent = IF m = kid THEN neq ELSE h[m].parent
        /\ g[Len(h) + 1].parent = neq /\ g[neq].parent = n
    BY <1>3, ComparedParents
  <2>4. IsHeap(g) BY ComparedHeap
  <2> HIDE DEF g, kid
  <2>5. DOMAIN g = 1..(Len(h) + 2) BY <2>3, <2>4 DEF IsHeap
  <2>6. ASSUME NEW S \in SUBSET DOMAIN g, S # {} PROVE \E m \in S : g[m].parent \notin S
    <3>1. CASE neq \notin S
      <4>1. CASE Len(h) + 1 \in S BY <3>1, <4>1, <2>3
      <4>2. CASE Len(h) + 1 \notin S
        <5>1. S \in SUBSET DOMAIN h BY <3>1, <4>2, <2>5, <1>1
        <5>2. PICK m \in S : h[m].parent \notin S BY <5>1, <2>6 DEF Rising
        <5> QED BY <3>1, <5>1, <5>2, <2>3
      <4> QED BY <4>1, <4>2
    <3>2. CASE neq \in S
      <4> DEFINE T == (S \cap DOMAIN h) \cup {kid}
      <4>1. T \in SUBSET DOMAIN h /\ T # {} BY <2>1
      <4>2. PICK m \in T : h[m].parent \notin T
        <5> HIDE DEF T
        <5> QED BY <4>1 DEF Rising
      <4>3. CASE m = kid
        <5>1. n \notin S BY <4>2, <4>3, <2>2
        <5> QED BY <3>2, <5>1, <2>3
      <4>4. CASE m # kid
        <5>1. m \in S /\ m \in DOMAIN h BY <4>4
        <5>2. g[m].parent = h[m].parent BY <4>4, <5>1, <2>3
        <5>3. h[m].parent \in 0..Len(h) BY <5>1 DEF ParentsWithin
        <5>4. h[m].parent \notin S
          <6>1. CASE h[m].parent = 0 BY <6>1, <2>5
          <6>2. CASE h[m].parent # 0
            <7>1. h[m].parent \in DOMAIN h BY <5>3, <6>2, <1>1
            <7> QED BY <7>1, <4>2
          <6> QED BY <6>1, <6>2
        <5> QED BY <5>1, <5>2, <5>4
      <4> QED BY <4>3, <4>4
    <3> QED BY <3>1, <3>2
  <2>7. Rising(g) BY <2>6 DEF Rising
  <2> QED BY <2>7 DEF g
<1> QED BY <1>2, <1>3

-----------------------------------------------------------------------------
(* A Generate as a machine of its own: what it has at hand, and what it    *)
(* does next, which is decided by what it has.                             *)

Hand(h, frames, work, phase, input, out) ==
  [heap |-> h, stack |-> frames, todo |-> work, phase |-> phase, input |-> input, text |-> out]

\* The calls: in T-SQL a copy is made and written, in Databricks the tree itself.
Begin(op, h, r) ==
  IF op = "tsql" THEN Hand(Blank(h, r), <<Frame(r, Len(h) + 1)>>, <<>>, "copy", r, <<>>)
  ELSE Hand(h, <<>>, <<r>>, "write", r, <<>>)

TopOf(c) == c.stack[Len(c.stack)]
Slot(c) == c.heap[TopOf(c).from].kids[TopOf(c).next]
Most(c) == SubSeq(c.stack, 1, Len(c.stack) - 1)

\* Which step is next.
Kind(c) ==
  IF c.phase = "copy"
  THEN IF TopOf(c).next <= Len(c.heap[TopOf(c).from].kids)
       THEN IF Slot(c) = Nil THEN "skip" ELSE "enter"
       ELSE IF Len(c.stack) > 1 THEN "leave" ELSE "walk"
  ELSE IF c.todo = <<>>
  THEN IF c.phase = "bools" THEN "turn" ELSE "done"
  ELSE IF Head(c.todo) = Nil THEN "pass"
  ELSE IF c.phase = "bools" THEN "compare" ELSE "write"

Skipped(c) == Hand(c.heap, Advanced(c.stack), c.todo, c.phase, c.input, c.text)
Entered(c) ==
  Hand(Blank(c.heap, Slot(c)), Append(c.stack, Frame(Slot(c), Len(c.heap) + 1)),
       c.todo, c.phase, c.input, c.text)
Left(c) ==
  LET up == c.stack[Len(c.stack) - 1] IN
  Hand(Set(c.heap, up.to, up.next, TopOf(c).to), Advanced(Most(c)), c.todo, c.phase, c.input, c.text)
Walked(c) == Hand(c.heap, <<>>, <<TopOf(c).to>>, "bools", TopOf(c).to, c.text)
Turned(c) == Hand(c.heap, c.stack, <<c.input>>, "write", c.input, c.text)
Passed(c) == Hand(c.heap, c.stack, Tail(c.todo), c.phase, c.input, c.text)
Ensured(c) ==
  LET n == Head(c.todo)
      h == Compared(Compared(c.heap, n, 1), n, 2)
  IN Hand(h, c.stack, h[n].kids \o Tail(c.todo), c.phase, c.input, c.text)
Wrote(op, c) ==
  LET n == Head(c.todo)
      h == Ready(op, c.heap, n)
      q == Ripe(op, c.heap, n)
  IN Hand(h, c.stack, h[q].kids \o Tail(c.todo), c.phase, c.input,
          Append(c.text, <<h[q].class, h[q].name, Ancestors(h, q)>>))

Succ(op, c) ==
  CASE Kind(c) = "skip" -> Skipped(c)
    [] Kind(c) = "enter" -> Entered(c)
    [] Kind(c) = "leave" -> Left(c)
    [] Kind(c) = "walk" -> Walked(c)
    [] Kind(c) = "turn" -> Turned(c)
    [] Kind(c) = "pass" -> Passed(c)
    [] Kind(c) = "compare" -> Ensured(c)
    [] Kind(c) = "write" -> Wrote(op, c)

\* What the states of the model give it.
Sane(c) ==
  /\ IsHeap(c.heap) /\ ParentsWithin(c.heap) /\ Rising(c.heap)
  /\ c.stack \in Seq(FramesOver(c.heap)) /\ c.todo \in Seq(0..Len(c.heap))
  /\ c.input \in 0..Len(c.heap)
  /\ c.phase \in {"copy", "bools", "write"}
  /\ c.phase = "copy" => c.stack # <<>>

AtFrame(l, d, f) == [from |-> At(l, d, f.from), to |-> At(l, d, f.to), next |-> f.next]
AtFrames(l, d, s, t) == Len(t) = Len(s) /\ \A i \in 1..Len(s) : t[i] = AtFrame(l, d, s[i])

\* The same is at hand, but for where the nodes are.
Same(l, d, c, e) ==
  /\ Alike(l, d, c.heap, e.heap) /\ AtFrames(l, d, c.stack, e.stack)
  /\ e.todo = Ats(l, d, c.todo)
  /\ e.input = At(l, d, c.input)
  /\ e.phase = c.phase /\ e.text = c.text

-----------------------------------------------------------------------------
LEMMA AtNil ==
  ASSUME NEW l \in Nat, NEW d \in Nat, NEW n \in Nat
  PROVE  At(l, d, n) = Nil <=> n = Nil
BY DEF At, Nil

LEMMA AlikeSizes ==
  ASSUME NEW h, IsHeap(h), NEW g, IsHeap(g), NEW l \in Nat, NEW d \in Nat, Alike(l, d, h, g)
  PROVE  /\ Len(h) \in Nat /\ DOMAIN h = 1..Len(h) /\ l <= Len(h) /\ Len(g) = Len(h) + d
         /\ At(l, d, Len(h) + 1) = Len(g) + 1
         /\ \A n \in DOMAIN h : At(l, d, n) \in DOMAIN g
<1>1. /\ Len(h) \in Nat /\ DOMAIN h = 1..Len(h) /\ l <= Len(h) /\ Len(g) = Len(h) + d
      /\ DOMAIN g = 1..Len(g)
  BY DEF IsHeap, Alike
<1>2. \A n \in DOMAIN h : At(l, d, n) \in DOMAIN g BY <1>1, AtNode
<1>3. At(l, d, Len(h) + 1) = Len(g) + 1 BY <1>1 DEF At
<1> QED BY <1>1, <1>2, <1>3

\* The top of the recursion.
LEMMA LastFacts ==
  ASSUME NEW c, Sane(c), c.phase = "copy"
  PROVE  /\ Len(c.stack) \in Nat /\ Len(c.stack) > 0
         /\ TopOf(c) \in FramesOver(c.heap)
         /\ TopOf(c).from \in DOMAIN c.heap /\ TopOf(c).to \in DOMAIN c.heap
         /\ TopOf(c).next \in Nat /\ TopOf(c).next > 0
         /\ c.heap[TopOf(c).from].kids \in Seq(Nat)
         /\ TopOf(c).next <= Len(c.heap[TopOf(c).from].kids) =>
              /\ TopOf(c).next \in DOMAIN c.heap[TopOf(c).from].kids
              /\ Slot(c) \in 0..Len(c.heap)
<1> DEFINE f == TopOf(c)
<1>1. c.stack \in Seq(FramesOver(c.heap)) /\ c.stack # <<>> /\ IsHeap(c.heap) BY DEF Sane
<1>2. Len(c.stack) \in Nat /\ Len(c.stack) > 0 /\ f \in FramesOver(c.heap) BY <1>1 DEF TopOf
<1> HIDE DEF f
<1>3. f.from \in DOMAIN c.heap /\ f.to \in DOMAIN c.heap /\ f.next \in Nat /\ f.next > 0
  BY <1>1, <1>2, FrameFacts
<1>4. c.heap[f.from] \in Nodes /\ \A i \in DOMAIN c.heap[f.from].kids :
                                     c.heap[f.from].kids[i] \in 0..Len(c.heap)
  BY <1>1, <1>3, HeapFacts
<1>5. c.heap[f.from].kids \in Seq(Nat) BY <1>4 DEF Nodes
<1>6. DOMAIN c.heap[f.from].kids = 1..Len(c.heap[f.from].kids) BY <1>5
<1>7. Len(c.heap[f.from].kids) \in Nat BY <1>5
<1>8. f.next <= Len(c.heap[f.from].kids) => f.next \in DOMAIN c.heap[f.from].kids
  BY <1>3, <1>6, <1>7
<1> QED BY <1>2, <1>3, <1>4, <1>5, <1>8 DEF f, Slot

LEMMA LastSame ==
  ASSUME NEW c, Sane(c), NEW e, Sane(e), NEW l \in Nat, NEW d \in Nat, Same(l, d, c, e),
         c.phase = "copy"
  PROVE  /\ Len(e.stack) = Len(c.stack) /\ e.phase = "copy"
         /\ TopOf(e) = AtFrame(l, d, TopOf(c))
         /\ TopOf(e).from = At(l, d, TopOf(c).from) /\ TopOf(e).to = At(l, d, TopOf(c).to)
         /\ TopOf(e).next = TopOf(c).next
         /\ Len(e.heap[TopOf(e).from].kids) = Len(c.heap[TopOf(c).from].kids)
         /\ TopOf(c).next <= Len(c.heap[TopOf(c).from].kids) =>
              Slot(e) = At(l, d, Slot(c)) /\ (Slot(e) = Nil <=> Slot(c) = Nil)
<1>1. /\ Len(c.stack) \in Nat /\ Len(c.stack) > 0 /\ TopOf(c).from \in DOMAIN c.heap
      /\ TopOf(c).next <= Len(c.heap[TopOf(c).from].kids) =>
           /\ TopOf(c).next \in DOMAIN c.heap[TopOf(c).from].kids
           /\ Slot(c) \in 0..Len(c.heap)
  BY LastFacts
<1>2. /\ IsHeap(c.heap) /\ IsHeap(e.heap) /\ Alike(l, d, c.heap, e.heap)
      /\ AtFrames(l, d, c.stack, e.stack) /\ e.phase = "copy"
  BY DEF Sane, Same
<1>3. Len(e.stack) = Len(c.stack) /\ TopOf(e) = AtFrame(l, d, TopOf(c))
  BY <1>1, <1>2 DEF AtFrames, TopOf
<1>4. /\ TopOf(e).from = At(l, d, TopOf(c).from) /\ TopOf(e).to = At(l, d, TopOf(c).to)
      /\ TopOf(e).next = TopOf(c).next
  BY <1>3 DEF AtFrame
<1>5. /\ Len(e.heap[At(l, d, TopOf(c).from)].kids) = Len(c.heap[TopOf(c).from].kids)
      /\ \A i \in DOMAIN c.heap[TopOf(c).from].kids :
           e.heap[At(l, d, TopOf(c).from)].kids[i] = At(l, d, c.heap[TopOf(c).from].kids[i])
  <2> DEFINE m == TopOf(c).from
  <2>1. m \in DOMAIN c.heap BY <1>1
  <2> HIDE DEF m
  <2>2. /\ Len(e.heap[At(l, d, m)].kids) = Len(c.heap[m].kids)
        /\ \A i \in DOMAIN c.heap[m].kids : e.heap[At(l, d, m)].kids[i] = At(l, d, c.heap[m].kids[i])
    BY <2>1, <1>2, AlikeNode
  <2> QED BY <2>2 DEF m
<1>6. ASSUME TopOf(c).next <= Len(c.heap[TopOf(c).from].kids)
      PROVE  Slot(e) = At(l, d, Slot(c)) /\ (Slot(e) = Nil <=> Slot(c) = Nil)
  <2>1. Slot(e) = At(l, d, Slot(c)) BY <1>1, <1>4, <1>5, <1>6 DEF Slot
  <2>2. Slot(c) \in Nat
    <3>1. Len(c.heap) \in Nat BY <1>2 DEF IsHeap
    <3> QED BY <3>1, <1>1, <1>6
  <2>3. At(l, d, Slot(c)) = Nil <=> Slot(c) = Nil BY <2>2, AtNil
  <2> QED BY <2>1, <2>3
<1> QED BY <1>2, <1>3, <1>4, <1>5, <1>6

LEMMA HeadSame ==
  ASSUME NEW c, Sane(c), NEW e, NEW l \in Nat, NEW d \in Nat, Same(l, d, c, e)
  PROVE  /\ c.todo \in Seq(Nat) /\ (e.todo = <<>> <=> c.todo = <<>>)
         /\ c.todo # <<>> =>
              /\ Head(c.todo) \in 0..Len(c.heap)
              /\ Head(e.todo) = At(l, d, Head(c.todo)) /\ Tail(e.todo) = Ats(l, d, Tail(c.todo))
              /\ Tail(c.todo) \in Seq(Nat)
              /\ Head(e.todo) = Nil <=> Head(c.todo) = Nil
<1>1. Len(c.heap) \in Nat /\ c.todo \in Seq(0..Len(c.heap)) BY DEF Sane, IsHeap
<1>2. c.todo \in Seq(Nat)
  <2>1. 0..Len(c.heap) \subseteq Nat BY <1>1
  <2> QED BY <1>1, <2>1
<1>3. e.todo = Ats(l, d, c.todo) BY DEF Same
<1> DEFINE s == c.todo
<1>4. s \in Seq(Nat) /\ s \in Seq(0..Len(c.heap)) BY <1>1, <1>2
<1> HIDE DEF s
<1>5. /\ Ats(l, d, s) = <<>> <=> s = <<>>
      /\ s # <<>> => /\ Head(Ats(l, d, s)) = At(l, d, Head(s))
                     /\ Tail(Ats(l, d, s)) = Ats(l, d, Tail(s))
  BY <1>4, AtsFacts
<1>6. s # <<>> => Head(s) \in 0..Len(c.heap) /\ Tail(s) \in Seq(Nat) BY <1>4
<1>7. s # <<>> => (At(l, d, Head(s)) = Nil <=> Head(s) = Nil)
  <2>1. s # <<>> => Head(s) \in Nat BY <1>4
  <2> DEFINE n == Head(s)
  <2> HIDE DEF n
  <2>2. s # <<>> => (At(l, d, n) = Nil <=> n = Nil) BY <2>1, AtNil DEF n
  <2> QED BY <2>2 DEF n
<1> QED BY <1>3, <1>4, <1>5, <1>6, <1>7 DEF s

\* So the same is next.
LEMMA KindSame ==
  ASSUME NEW c, Sane(c), NEW e, Sane(e), NEW l \in Nat, NEW d \in Nat, Same(l, d, c, e)
  PROVE  Kind(e) = Kind(c)
<1>1. CASE c.phase = "copy"
  <2>1. /\ Len(e.stack) = Len(c.stack) /\ e.phase = "copy" /\ TopOf(e).next = TopOf(c).next
        /\ Len(e.heap[TopOf(e).from].kids) = Len(c.heap[TopOf(c).from].kids)
        /\ TopOf(c).next <= Len(c.heap[TopOf(c).from].kids) => (Slot(e) = Nil <=> Slot(c) = Nil)
    BY <1>1, LastSame
  <2> QED BY <1>1, <2>1 DEF Kind
<1>2. CASE c.phase # "copy"
  <2>1. e.phase = c.phase BY DEF Same
  <2>2. /\ e.todo = <<>> <=> c.todo = <<>>
        /\ c.todo # <<>> => (Head(e.todo) = Nil <=> Head(c.todo) = Nil)
    BY HeadSame
  <2> QED BY <1>2, <2>1, <2>2 DEF Kind
<1> QED BY <1>1, <1>2

-----------------------------------------------------------------------------
\* The recursion's frames stay the same but for where the nodes are.
LEMMA AdvancedSame ==
  ASSUME NEW h, NEW g, NEW l, NEW d, NEW s \in Seq(FramesOver(h)), NEW t \in Seq(FramesOver(g)),
         AtFrames(l, d, s, t), Len(s) > 0
  PROVE  AtFrames(l, d, Advanced(s), Advanced(t))
<1> DEFINE a == Advanced(s)
           b == Advanced(t)
<1>1. Len(t) = Len(s) /\ Len(s) \in Nat /\ \A i \in 1..Len(s) : t[i] = AtFrame(l, d, s[i])
  BY DEF AtFrames
<1>2. /\ a \in Seq(FramesOver(h)) /\ DOMAIN a = 1..Len(s)
      /\ \A i \in 1..Len(s) :
           a[i] = IF i = Len(s) THEN [from |-> s[i].from, to |-> s[i].to, next |-> s[i].next + 1]
                  ELSE s[i]
  BY AdvancedFacts, AdvancedFrames
<1>3. /\ b \in Seq(FramesOver(g)) /\ DOMAIN b = 1..Len(t)
      /\ \A i \in 1..Len(t) :
           b[i] = IF i = Len(t) THEN [from |-> t[i].from, to |-> t[i].to, next |-> t[i].next + 1]
                  ELSE t[i]
  BY <1>1, AdvancedFacts, AdvancedFrames
<1> HIDE DEF a, b
<1>4. Len(a) = Len(s) /\ Len(b) = Len(s) BY <1>1, <1>2, <1>3
<1>5. ASSUME NEW i \in 1..Len(s) PROVE b[i] = AtFrame(l, d, a[i])
  <2>1. t[i] = AtFrame(l, d, s[i]) BY <1>1
  <2> QED BY <1>1, <1>2, <1>3, <2>1 DEF AtFrame
<1>6. AtFrames(l, d, a, b) BY <1>1, <1>4, <1>5 DEF AtFrames
<1> QED BY <1>6 DEF a, b

LEMMA AllButLast ==
  ASSUME NEW S, NEW s \in Seq(S), Len(s) > 1
  PROVE  /\ SubSeq(s, 1, Len(s) - 1) \in Seq(S) /\ Len(SubSeq(s, 1, Len(s) - 1)) = Len(s) - 1
         /\ \A i \in 1..(Len(s) - 1) : SubSeq(s, 1, Len(s) - 1)[i] = s[i]
OBVIOUS

LEMMA MostSame ==
  ASSUME NEW h, NEW g, NEW l, NEW d, NEW s \in Seq(FramesOver(h)), NEW t \in Seq(FramesOver(g)),
         AtFrames(l, d, s, t), Len(s) > 1
  PROVE  LET a == SubSeq(s, 1, Len(s) - 1)
             b == SubSeq(t, 1, Len(t) - 1)
         IN /\ a \in Seq(FramesOver(h)) /\ b \in Seq(FramesOver(g))
            /\ Len(a) = Len(s) - 1 /\ Len(a) > 0 /\ AtFrames(l, d, a, b)
<1> DEFINE a == SubSeq(s, 1, Len(s) - 1)
           b == SubSeq(t, 1, Len(t) - 1)
<1>1. Len(t) = Len(s) /\ Len(s) \in Nat /\ \A i \in 1..Len(s) : t[i] = AtFrame(l, d, s[i])
  BY DEF AtFrames
<1>2. /\ a \in Seq(FramesOver(h)) /\ Len(a) = Len(s) - 1
      /\ \A i \in 1..(Len(s) - 1) : a[i] = s[i]
  BY AllButLast
<1>3. /\ b \in Seq(FramesOver(g)) /\ Len(b) = Len(t) - 1
      /\ \A i \in 1..(Len(t) - 1) : b[i] = t[i]
  BY <1>1, AllButLast
<1> HIDE DEF a, b
<1>4. ASSUME NEW i \in 1..Len(a) PROVE b[i] = AtFrame(l, d, a[i])
  <2>1. i \in 1..Len(s) /\ i \in 1..(Len(s) - 1) BY <1>1, <1>2
  <2> QED BY <2>1, <1>1, <1>2, <1>3
<1>5. AtFrames(l, d, a, b) /\ Len(a) > 0 BY <1>1, <1>2, <1>3, <1>4 DEF AtFrames
<1> QED BY <1>2, <1>3, <1>5 DEF a, b

LEMMA AppendedSame ==
  ASSUME NEW S, NEW T, NEW l, NEW d, NEW s \in Seq(S), NEW t \in Seq(T),
         AtFrames(l, d, s, t), NEW f \in S, AtFrame(l, d, f) \in T
  PROVE  AtFrames(l, d, Append(s, f), Append(t, AtFrame(l, d, f)))
<1> DEFINE a == Append(s, f)
           b == Append(t, AtFrame(l, d, f))
<1>1. Len(t) = Len(s) /\ Len(s) \in Nat /\ \A i \in 1..Len(s) : t[i] = AtFrame(l, d, s[i])
  BY DEF AtFrames
<1>2. /\ a \in Seq(S) /\ DOMAIN a = 1..(Len(s) + 1) /\ a[Len(s) + 1] = f
      /\ \A i \in 1..Len(s) : a[i] = s[i]
  BY FramePushed
<1>3. /\ b \in Seq(T) /\ DOMAIN b = 1..(Len(t) + 1) /\ b[Len(t) + 1] = AtFrame(l, d, f)
      /\ \A i \in 1..Len(t) : b[i] = t[i]
  BY FramePushed
<1> HIDE DEF a, b
<1>4. Len(a) = Len(s) + 1 /\ Len(b) = Len(s) + 1 BY <1>1, <1>2, <1>3
<1>5. ASSUME NEW i \in 1..Len(a) PROVE b[i] = AtFrame(l, d, a[i])
  <2>1. CASE i = Len(s) + 1 BY <1>1, <1>2, <1>3, <2>1
  <2>2. CASE i # Len(s) + 1
    <3>1. i \in 1..Len(s) BY <1>1, <1>4, <2>2
    <3> QED BY <3>1, <1>1, <1>2, <1>3
  <2> QED BY <2>1, <2>2
<1>6. AtFrames(l, d, a, b) BY <1>4, <1>5 DEF AtFrames
<1> QED BY <1>6 DEF a, b

-----------------------------------------------------------------------------
(* Each step leaves the same at hand.                                      *)

LEMMA SkippedSame ==
  ASSUME NEW c, Sane(c), NEW e, Sane(e), NEW l \in Nat, NEW d \in Nat, Same(l, d, c, e),
         Kind(c) = "skip"
  PROVE  Same(l, d, Skipped(c), Skipped(e))
<1>1. c.phase = "copy" BY DEF Kind
<1>2. Len(c.stack) > 0 BY <1>1, LastFacts
<1>3. AtFrames(l, d, Advanced(c.stack), Advanced(e.stack))
  <2>1. /\ c.stack \in Seq(FramesOver(c.heap)) /\ e.stack \in Seq(FramesOver(e.heap))
        /\ AtFrames(l, d, c.stack, e.stack)
    BY DEF Sane, Same
  <2> QED BY <2>1, <1>2, AdvancedSame
<1> QED BY <1>3 DEF Same, Skipped, Hand

LEMMA EnteredSame ==
  ASSUME NEW c, Sane(c), NEW e, Sane(e), NEW l \in Nat, NEW d \in Nat, Same(l, d, c, e),
         Kind(c) = "enter"
  PROVE  Same(l, d, Entered(c), Entered(e))
<1> DEFINE n == Slot(c)
           q == Slot(e)
           F == Frame(n, Len(c.heap) + 1)
           G == Frame(q, Len(e.heap) + 1)
<1>1. /\ c.phase = "copy" /\ TopOf(c).next <= Len(c.heap[TopOf(c).from].kids) /\ n # Nil
  BY DEF Kind
<1>2. /\ IsHeap(c.heap) /\ IsHeap(e.heap) /\ Alike(l, d, c.heap, e.heap)
      /\ c.stack \in Seq(FramesOver(c.heap)) /\ e.stack \in Seq(FramesOver(e.heap))
      /\ AtFrames(l, d, c.stack, e.stack)
  BY DEF Sane, Same
<1>3. n \in 0..Len(c.heap) BY <1>1, LastFacts
<1>4. Len(c.heap) \in Nat /\ DOMAIN c.heap = 1..Len(c.heap) /\ Len(e.heap) \in Nat BY <1>2 DEF IsHeap
<1>5. q = At(l, d, n) BY <1>1, LastSame
<1> HIDE DEF n, q
<1>6. n \in DOMAIN c.heap BY <1>1, <1>3, <1>4 DEF Nil
<1>7. l <= Len(c.heap) /\ Len(e.heap) = Len(c.heap) + d /\ q \in DOMAIN e.heap
  BY <1>2, <1>5, <1>6, AlikeSizes
<1>8. Alike(l, d, Blank(c.heap, n), Blank(e.heap, q)) BY <1>2, <1>5, <1>6, BlankAlike
<1>9. G = AtFrame(l, d, F)
  <2>1. At(l, d, Len(c.heap) + 1) = Len(e.heap) + 1 BY <1>4, <1>7 DEF At
  <2> QED BY <2>1, <1>5 DEF Frame, AtFrame
<1>10. AtFrames(l, d, Append(c.stack, F), Append(e.stack, G))
  <2> DEFINE S == FramesOver(c.heap) \cup {F}
             T == FramesOver(e.heap) \cup {G}
  <2>1. c.stack \in Seq(S) /\ e.stack \in Seq(T)
    <3>1. FramesOver(c.heap) \subseteq S /\ FramesOver(e.heap) \subseteq T OBVIOUS
    <3>2. ASSUME NEW A, NEW B, A \subseteq B, NEW s \in Seq(A) PROVE s \in Seq(B) BY <3>2
    <3> HIDE DEF S, T
    <3> QED BY <1>2, <3>1, <3>2
  <2>2. F \in S /\ G \in T OBVIOUS
  <2> HIDE DEF S, T, F, G
  <2> QED BY <2>1, <2>2, <1>2, <1>9, AppendedSame
<1> QED BY <1>8, <1>10 DEF Same, Entered, Hand, n, q

LEMMA LeftSame ==
  ASSUME NEW c, Sane(c), NEW e, Sane(e), NEW l \in Nat, NEW d \in Nat, Same(l, d, c, e),
         Kind(c) = "leave"
  PROVE  Same(l, d, Left(c), Left(e))
<1> DEFINE up == c.stack[Len(c.stack) - 1]
           up2 == e.stack[Len(e.stack) - 1]
<1>1. c.phase = "copy" /\ Len(c.stack) > 1 BY DEF Kind
<1>2. /\ IsHeap(c.heap) /\ IsHeap(e.heap) /\ Alike(l, d, c.heap, e.heap)
      /\ c.stack \in Seq(FramesOver(c.heap)) /\ e.stack \in Seq(FramesOver(e.heap))
      /\ AtFrames(l, d, c.stack, e.stack)
  BY DEF Sane, Same
<1>3. /\ Len(e.stack) = Len(c.stack) /\ TopOf(e).to = At(l, d, TopOf(c).to)
      /\ Len(c.stack) \in Nat /\ TopOf(c).to \in DOMAIN c.heap
  BY <1>1, LastFacts, LastSame
<1>4. up2 = AtFrame(l, d, up) /\ up \in FramesOver(c.heap)
  <2>1. Len(c.stack) - 1 \in 1..Len(c.stack) BY <1>1, <1>3
  <2>2. \A i \in 1..Len(c.stack) : c.stack[i] \in FramesOver(c.heap) BY <1>2
  <2>3. \A i \in 1..Len(c.stack) : e.stack[i] = AtFrame(l, d, c.stack[i]) BY <1>2 DEF AtFrames
  <2> QED BY <2>1, <2>2, <2>3, <1>3
<1> HIDE DEF up, up2
<1>5. /\ up2.to = At(l, d, up.to) /\ up2.next = up.next /\ up.to \in DOMAIN c.heap
      /\ TopOf(c).to \in 0..Len(c.heap)
  <2>1. DOMAIN c.heap = 1..Len(c.heap) BY <1>2 DEF IsHeap
  <2> QED BY <2>1, <1>3, <1>4 DEF AtFrame, FramesOver
<1>6. Alike(l, d, Set(c.heap, up.to, up.next, TopOf(c).to),
                  Set(e.heap, At(l, d, up.to), up.next, At(l, d, TopOf(c).to)))
  BY <1>2, <1>5, SetAlike
<1>7. AtFrames(l, d, Advanced(Most(c)), Advanced(Most(e)))
  <2>1. /\ Most(c) \in Seq(FramesOver(c.heap)) /\ Most(e) \in Seq(FramesOver(e.heap))
        /\ Len(Most(c)) > 0 /\ AtFrames(l, d, Most(c), Most(e))
    BY <1>1, <1>2, MostSame DEF Most
  <2> QED BY <2>1, AdvancedSame
<1>8. Alike(l, d, Set(c.heap, up.to, up.next, TopOf(c).to), Set(e.heap, up2.to, up2.next, TopOf(e).to))
  BY <1>3, <1>5, <1>6
<1> QED BY <1>7, <1>8 DEF Same, Left, Hand, up, up2

LEMMA NoFrames ==
  ASSUME NEW l, NEW d
  PROVE  AtFrames(l, d, <<>>, <<>>)
BY DEF AtFrames

LEMMA OneAt ==
  ASSUME NEW l, NEW d, NEW n
  PROVE  Ats(l, d, <<n>>) = <<At(l, d, n)>>
BY DEF Ats

LEMMA WalkedSame ==
  ASSUME NEW c, Sane(c), NEW e, Sane(e), NEW l \in Nat, NEW d \in Nat, Same(l, d, c, e),
         Kind(c) = "walk"
  PROVE  Same(l, d, Walked(c), Walked(e))
<1>1. c.phase = "copy" BY DEF Kind
<1>2. TopOf(e).to = At(l, d, TopOf(c).to) BY <1>1, LastSame
<1>3. <<TopOf(e).to>> = Ats(l, d, <<TopOf(c).to>>) BY <1>2, OneAt
<1>4. Alike(l, d, c.heap, e.heap) /\ e.text = c.text BY DEF Same
<1> QED BY <1>2, <1>3, <1>4, NoFrames DEF Same, Walked, Hand

LEMMA TurnedSame ==
  ASSUME NEW c, NEW e, NEW l, NEW d, Same(l, d, c, e)
  PROVE  Same(l, d, Turned(c), Turned(e))
<1>1. /\ Alike(l, d, c.heap, e.heap) /\ e.text = c.text /\ e.input = At(l, d, c.input)
      /\ AtFrames(l, d, c.stack, e.stack)
  BY DEF Same
<1>2. <<e.input>> = Ats(l, d, <<c.input>>) BY <1>1, OneAt
<1> QED BY <1>1, <1>2 DEF Same, Turned, Hand

LEMMA PassedSame ==
  ASSUME NEW c, Sane(c), NEW e, NEW l \in Nat, NEW d \in Nat, Same(l, d, c, e), c.todo # <<>>
  PROVE  Same(l, d, Passed(c), Passed(e))
<1>1. Tail(e.todo) = Ats(l, d, Tail(c.todo)) BY HeadSame
<1> QED BY <1>1 DEF Same, Passed, Hand

\* What is to be visited after a node: its children and the others.
Queue(h, n, s) == h[n].kids \o s

LEMMA PushedSame ==
  ASSUME NEW h, IsHeap(h), NEW g, IsHeap(g), NEW l \in Nat, NEW d \in Nat, Alike(l, d, h, g),
         NEW n \in DOMAIN h, NEW s \in Seq(Nat)
  PROVE  Queue(g, At(l, d, n), Ats(l, d, s)) = Ats(l, d, Queue(h, n, s))
<1>1. h[n] \in Nodes BY HeapFacts
<1>2. h[n].kids \in Seq(Nat) BY <1>1 DEF Nodes
<1>3. g[At(l, d, n)].kids = Ats(l, d, h[n].kids) BY DEF Alike
<1> DEFINE k == h[n].kids
<1> HIDE DEF k
<1>4. k \in Seq(Nat) BY <1>2 DEF k
<1>5. Ats(l, d, k \o s) = Ats(l, d, k) \o Ats(l, d, s) BY <1>4, AtsJoined
<1> QED BY <1>3, <1>5 DEF k, Queue

\* The node that is next, where there is one.
LEMMA NextNode ==
  ASSUME NEW c, Sane(c), NEW e, Sane(e), NEW l \in Nat, NEW d \in Nat, Same(l, d, c, e),
         c.todo # <<>>, Head(c.todo) # Nil
  PROVE  /\ Head(c.todo) \in DOMAIN c.heap /\ Head(e.todo) = At(l, d, Head(c.todo))
         /\ Head(e.todo) \in DOMAIN e.heap
         /\ Tail(e.todo) = Ats(l, d, Tail(c.todo)) /\ Tail(c.todo) \in Seq(Nat)
         /\ IsHeap(c.heap) /\ IsHeap(e.heap) /\ Alike(l, d, c.heap, e.heap)
<1>1. IsHeap(c.heap) /\ IsHeap(e.heap) /\ Alike(l, d, c.heap, e.heap) BY DEF Sane, Same
<1>2. /\ Head(c.todo) \in 0..Len(c.heap) /\ Head(e.todo) = At(l, d, Head(c.todo))
      /\ Tail(e.todo) = Ats(l, d, Tail(c.todo)) /\ Tail(c.todo) \in Seq(Nat)
  BY HeadSame
<1> DEFINE n == Head(c.todo)
<1>3. n \in 0..Len(c.heap) /\ n # Nil BY <1>2
<1> HIDE DEF n
<1>4. n \in DOMAIN c.heap
  <2>1. DOMAIN c.heap = 1..Len(c.heap) /\ Len(c.heap) \in Nat BY <1>1 DEF IsHeap
  <2> QED BY <2>1, <1>3 DEF Nil
<1>5. At(l, d, n) \in DOMAIN e.heap BY <1>1, <1>4, AlikeSizes
<1> QED BY <1>1, <1>2, <1>4, <1>5 DEF n

LEMMA EnsuredSame ==
  ASSUME NEW c, Sane(c), NEW e, Sane(e), NEW l \in Nat, NEW d \in Nat, Same(l, d, c, e),
         c.todo # <<>>, Head(c.todo) # Nil
  PROVE  Same(l, d, Ensured(c), Ensured(e))
<1> DEFINE n == Head(c.todo)
           q == Head(e.todo)
           a == Compared(c.heap, n, 1)
           b == Compared(e.heap, q, 1)
           h == Compared(a, n, 2)
           g == Compared(b, q, 2)
           s == Tail(c.todo)
<1>1. /\ n \in DOMAIN c.heap /\ q = At(l, d, n) /\ q \in DOMAIN e.heap
      /\ Tail(e.todo) = Ats(l, d, s) /\ s \in Seq(Nat)
      /\ IsHeap(c.heap) /\ IsHeap(e.heap) /\ Alike(l, d, c.heap, e.heap)
  BY NextNode
<1> HIDE DEF n, q, s
<1>2. Alike(l, d, a, b) /\ IsHeap(a) /\ IsHeap(b) /\ n \in DOMAIN a /\ q \in DOMAIN b
  <2>1. IsHeap(a) /\ n \in DOMAIN a BY <1>1, ComparedHeap
  <2>2. IsHeap(b) /\ q \in DOMAIN b BY <1>1, ComparedHeap
  <2>3. Alike(l, d, a, b) BY <1>1, ComparedAlike
  <2> QED BY <2>1, <2>2, <2>3
<1> HIDE DEF a, b
<1>3. Alike(l, d, h, g) /\ IsHeap(h) /\ IsHeap(g) /\ n \in DOMAIN h
  <2>1. IsHeap(h) /\ n \in DOMAIN h BY <1>2, ComparedHeap
  <2>2. IsHeap(g) BY <1>2, ComparedHeap
  <2>3. Alike(l, d, h, g) BY <1>1, <1>2, ComparedAlike
  <2> QED BY <2>1, <2>2, <2>3
<1> HIDE DEF h, g
<1>4. g[q].kids \o Tail(e.todo) = Ats(l, d, h[n].kids \o s)
  <2>1. Queue(g, At(l, d, n), Ats(l, d, s)) = Ats(l, d, Queue(h, n, s))
    BY <1>1, <1>3, PushedSame
  <2> QED BY <2>1, <1>1 DEF Queue
<1>5. Ensured(c) = Hand(h, c.stack, h[n].kids \o s, c.phase, c.input, c.text)
  BY DEF Ensured, n, a, h, s
<1>6. Ensured(e) = Hand(g, e.stack, g[q].kids \o Tail(e.todo), e.phase, e.input, e.text)
  BY DEF Ensured, q, b, g
<1> DEFINE u == h[n].kids \o s
           v == g[q].kids \o Tail(e.todo)
<1>7. v = Ats(l, d, u) BY <1>4
<1> HIDE DEF u, v
<1>8. Same(l, d, Hand(h, c.stack, u, c.phase, c.input, c.text),
                 Hand(g, e.stack, v, e.phase, e.input, e.text))
  BY <1>3, <1>7 DEF Same, Hand
<1> QED BY <1>5, <1>6, <1>8 DEF u, v

\* The nodes written have the same above them, so what is written is the same.
LEMMA WroteSame ==
  ASSUME NEW op, NEW c, Sane(c), NEW e, Sane(e), NEW l \in Nat, NEW d \in Nat, Same(l, d, c, e),
         c.todo # <<>>, Head(c.todo) # Nil
  PROVE  Same(l, d, Wrote(op, c), Wrote(op, e))
<1> DEFINE n == Head(c.todo)
           q == Head(e.todo)
           h == Ready(op, c.heap, n)
           g == Ready(op, e.heap, q)
           m == Ripe(op, c.heap, n)
           p == Ripe(op, e.heap, q)
           s == Tail(c.todo)
<1>1. /\ n \in DOMAIN c.heap /\ q = At(l, d, n) /\ q \in DOMAIN e.heap
      /\ Tail(e.todo) = Ats(l, d, s) /\ s \in Seq(Nat)
      /\ IsHeap(c.heap) /\ IsHeap(e.heap) /\ Alike(l, d, c.heap, e.heap)
  BY NextNode
<1>2. Rising(c.heap) /\ ParentsWithin(c.heap) /\ Rising(e.heap) /\ ParentsWithin(e.heap)
  BY DEF Sane
<1> HIDE DEF n, q, s
<1>3. IsHeap(h) /\ Rising(h) /\ ParentsWithin(h) /\ m \in DOMAIN h
  BY <1>1, <1>2, ReadyHeap, ReadyRising
<1>4. IsHeap(g) /\ Rising(g) /\ ParentsWithin(g)
  BY <1>1, <1>2, ReadyHeap, ReadyRising
<1>5. Alike(l, d, h, g) /\ p = At(l, d, m) BY <1>1, ReadyAlike
<1> HIDE DEF h, g, m, p
<1>6. Ancestors(g, p) = Ancestors(h, m) BY <1>3, <1>4, <1>5, AncestorsAlike
<1>7. g[p].class = h[m].class /\ g[p].name = h[m].name BY <1>3, <1>5 DEF Alike
<1>8. g[p].kids \o Tail(e.todo) = Ats(l, d, h[m].kids \o s)
  <2>1. Queue(g, At(l, d, m), Ats(l, d, s)) = Ats(l, d, Queue(h, m, s))
    BY <1>1, <1>3, <1>4, <1>5, PushedSame
  <2> QED BY <2>1, <1>1, <1>5 DEF Queue
<1> DEFINE u == h[m].kids \o s
           v == g[p].kids \o Tail(e.todo)
           x == Append(c.text, <<h[m].class, h[m].name, Ancestors(h, m)>>)
           y == Append(e.text, <<g[p].class, g[p].name, Ancestors(g, p)>>)
<1>9. y = x
  <2>1. e.text = c.text BY DEF Same
  <2> QED BY <2>1, <1>6, <1>7
<1>10. v = Ats(l, d, u) BY <1>8
<1>11. Wrote(op, c) = Hand(h, c.stack, u, c.phase, c.input, x) BY DEF Wrote, n, h, m, s
<1>12. Wrote(op, e) = Hand(g, e.stack, v, e.phase, e.input, y) BY DEF Wrote, q, g, p
<1> HIDE DEF u, v, x, y
<1>13. Same(l, d, Hand(h, c.stack, u, c.phase, c.input, x),
                  Hand(g, e.stack, v, e.phase, e.input, y))
  BY <1>5, <1>9, <1>10 DEF Same, Hand
<1> QED BY <1>11, <1>12, <1>13

LEMMA SuccSame ==
  ASSUME NEW op, NEW c, Sane(c), NEW e, Sane(e), NEW l \in Nat, NEW d \in Nat, Same(l, d, c, e),
         Kind(c) # "done"
  PROVE  Same(l, d, Succ(op, c), Succ(op, e))
<1>1. Kind(e) = Kind(c) BY KindSame
<1>2. CASE Kind(c) = "skip" BY <1>1, <1>2, SkippedSame DEF Succ
<1>3. CASE Kind(c) = "enter" BY <1>1, <1>3, EnteredSame DEF Succ
<1>4. CASE Kind(c) = "leave" BY <1>1, <1>4, LeftSame DEF Succ
<1>5. CASE Kind(c) = "walk" BY <1>1, <1>5, WalkedSame DEF Succ
<1>6. CASE Kind(c) = "turn" BY <1>1, <1>6, TurnedSame DEF Succ
<1>7. CASE Kind(c) = "pass"
  <2>1. c.todo # <<>> BY <1>7 DEF Kind
  <2> QED BY <2>1, <1>1, <1>7, PassedSame DEF Succ
<1>8. CASE Kind(c) = "compare"
  <2>1. c.todo # <<>> /\ Head(c.todo) # Nil BY <1>8 DEF Kind
  <2> QED BY <2>1, <1>1, <1>8, EnsuredSame DEF Succ
<1>9. CASE Kind(c) = "write"
  <2>1. c.todo # <<>> /\ Head(c.todo) # Nil BY <1>9 DEF Kind
  <2> QED BY <2>1, <1>1, <1>9, WroteSame DEF Succ
<1>10. Kind(c) \in {"skip", "enter", "leave", "walk", "turn", "pass", "compare", "write"}
  BY DEF Kind
<1> QED BY <1>2, <1>3, <1>4, <1>5, <1>6, <1>7, <1>8, <1>9, <1>10

-----------------------------------------------------------------------------
\* The states a Generate went through, the first m of them.
Run(op, m, R) ==
  /\ m \in Nat /\ m > 0
  /\ \A i \in 1..m : Sane(R[i])
  /\ \A i \in 1..(m - 1) : Kind(R[i]) # "done" /\ R[i + 1] = Succ(op, R[i])

\* Two that start the same go on the same, and end with the same text.
LEMMA RunsSame ==
  ASSUME NEW op, NEW m, NEW k, NEW R, NEW Q, Run(op, m, R), Run(op, k, Q),
         NEW l \in Nat, NEW d \in Nat, Same(l, d, R[1], Q[1])
  PROVE  \A i \in 1..m : i <= k => Same(l, d, R[i], Q[i])
<1> DEFINE bad == {i \in 1..m : i <= k /\ ~ Same(l, d, R[i], Q[i])}
<1> SUFFICES ASSUME bad # {} PROVE FALSE OBVIOUS
<1>1. m \in Nat /\ k \in Nat BY DEF Run
<1>2. bad \subseteq Nat BY <1>1
<1>3. PICK i \in bad : \A j \in bad : i <= j
  <2> HIDE DEF bad
  <2> QED BY <1>2, LeastNumber
<1>4. i \in 1..m /\ i <= k /\ ~ Same(l, d, R[i], Q[i]) BY <1>3
<1>5. i # 1 BY <1>4
<1>6. i - 1 \in 1..(m - 1) /\ i - 1 \in 1..(k - 1) /\ i - 1 \in 1..m /\ i - 1 \in 1..k
  BY <1>1, <1>4, <1>5
<1>7. Same(l, d, R[i - 1], Q[i - 1])
  <2>1. ~ (i <= i - 1) BY <1>6
  <2>2. i - 1 \notin bad
    <3> HIDE DEF bad
    <3> QED BY <1>3, <2>1
  <2> QED BY <1>1, <1>6, <2>2
<1>8. (i - 1) + 1 = i BY <1>4, <1>1
<1>9. /\ Sane(R[i - 1]) /\ Sane(Q[i - 1]) /\ Kind(R[i - 1]) # "done"
      /\ R[i] = Succ(op, R[i - 1]) /\ Q[i] = Succ(op, Q[i - 1])
  BY <1>6, <1>8 DEF Run
<1> QED BY <1>4, <1>7, <1>9, SuccSame

LEMMA RunsEnd ==
  ASSUME NEW op, NEW m, NEW k, NEW R, NEW Q, Run(op, m, R), Run(op, k, Q),
         Kind(R[m]) = "done", Kind(Q[k]) = "done",
         NEW l \in Nat, NEW d \in Nat, Same(l, d, R[1], Q[1])
  PROVE  R[m].text = Q[k].text
<1>1. m \in Nat /\ k \in Nat /\ m > 0 /\ k > 0 BY DEF Run
<1>2. \A i \in 1..m : i <= k => Same(l, d, R[i], Q[i]) BY RunsSame
<1>3. ASSUME NEW i \in 1..m, i <= k PROVE Kind(Q[i]) = Kind(R[i])
  <2>1. Sane(R[i]) /\ Sane(Q[i]) BY <1>1, <1>3 DEF Run
  <2> QED BY <2>1, <1>2, <1>3, KindSame
<1>4. ~ (m < k)
  <2> SUFFICES ASSUME m < k PROVE FALSE OBVIOUS
  <2>1. m \in 1..(k - 1) /\ m \in 1..m /\ m <= k BY <1>1
  <2>2. Kind(Q[m]) # "done" BY <2>1 DEF Run
  <2> QED BY <2>1, <2>2, <1>3
<1>5. ~ (k < m)
  <2> SUFFICES ASSUME k < m PROVE FALSE OBVIOUS
  <2>1. k \in 1..(m - 1) /\ k \in 1..m /\ k <= k BY <1>1
  <2>2. Kind(R[k]) # "done" BY <2>1 DEF Run
  <2> QED BY <2>1, <2>2, <1>3
<1>6. m = k BY <1>1, <1>4, <1>5
<1>7. m \in 1..m BY <1>1
<1> QED BY <1>2, <1>6, <1>7 DEF Same

-----------------------------------------------------------------------------
\* What a comparison with zero does to children.
LEMMA ComparedKids ==
  ASSUME NEW h, IsHeap(h), NEW n \in DOMAIN h, NEW i, IsBare(h, n, i)
  PROVE  LET g == Compared(h, n, i) IN
           /\ \A m \in DOMAIN h : m # n => g[m].kids = h[m].kids
           /\ DOMAIN g[n].kids = DOMAIN h[n].kids
           /\ \A j \in DOMAIN h[n].kids : g[n].kids[j] = IF j = i THEN Len(h) + 2 ELSE h[n].kids[j]
           /\ g[Len(h) + 1].kids = <<>>
           /\ g[Len(h) + 2].kids = <<h[n].kids[i], Len(h) + 1>>
<1> DEFINE kid == h[n].kids[i]
           none == <<>>
           zero == New(h, "Literal", <<"0", 0>>, none)
           pair == <<kid, Len(h) + 1>>
           neq == New(zero, "NEQ", NoName, pair)
<1>1. Len(h) \in Nat /\ DOMAIN h = 1..Len(h) BY DEF IsHeap
<1>2. /\ kid \in DOMAIN h
      /\ IsHeap(zero) /\ Len(zero) = Len(h) + 1 /\ pair \in Seq(0..Len(zero))
      /\ IsHeap(neq) /\ Len(neq) = Len(h) + 2 /\ n \in DOMAIN neq
      /\ Compared(h, n, i) = Set(neq, n, i, Len(h) + 2)
  BY ComparedHeaps
<1>3. Grown(h, zero) /\ zero[Len(zero)].kids = none
  <2>1. <<"0", 0>> \in Names /\ "Literal" \in Classes /\ "Literal" \notin Unary BY MadeUp
  <2>2. none \in Seq(0..Len(h)) OBVIOUS
  <2> HIDE DEF none
  <2>3. /\ Grown(h, zero)
        /\ zero[Len(zero)] = [class |-> "Literal", name |-> <<"0", 0>>, kids |-> none, parent |-> Nil]
    BY <2>1, <2>2, NewFacts
  <2> QED BY <2>3
<1> HIDE DEF zero, pair, kid, none
<1>4. Grown(zero, neq) /\ neq[Len(neq)].kids = pair
  <2>1. NoName \in Names /\ "NEQ" \in Classes /\ "NEQ" \notin Unary BY MadeUp
  <2>2. /\ Grown(zero, neq)
        /\ neq[Len(neq)] = [class |-> "NEQ", name |-> NoName, kids |-> pair, parent |-> Nil]
    BY <2>1, <1>2, NewFacts
  <2> QED BY <2>2
<1> HIDE DEF neq
<1>5. /\ \A m \in DOMAIN h : neq[m].kids = h[m].kids
      /\ neq[Len(h) + 1].kids = none /\ neq[Len(h) + 2].kids = pair
  <2>1. \A m \in 1..Len(h) : zero[m].kids = h[m].kids BY <1>3 DEF Grown
  <2>2. \A m \in 1..(Len(h) + 1) : neq[m].kids = zero[m].kids BY <1>2, <1>4 DEF Grown
  <2>3. zero[Len(h) + 1].kids = none BY <1>2, <1>3
  <2>4. Len(h) + 1 \in 1..(Len(h) + 1) /\ \A m \in 1..Len(h) : m \in 1..(Len(h) + 1) BY <1>1
  <2>5. neq[Len(h) + 2].kids = pair BY <1>2, <1>4
  <2> QED BY <2>1, <2>2, <2>3, <2>4, <2>5, <1>1
<1> DEFINE g == Set(neq, n, i, Len(h) + 2)
<1>6. /\ \A m \in 1..Len(neq) : m # n => g[m].kids = neq[m].kids
      /\ DOMAIN g[n].kids = DOMAIN neq[n].kids
      /\ \A j \in DOMAIN neq[n].kids : g[n].kids[j] = IF j = i THEN Len(h) + 2 ELSE neq[n].kids[j]
  <2>1. Len(h) + 2 \in 0..Len(neq) BY <1>1, <1>2
  <2> QED BY <2>1, <1>2, SetFacts
<1> HIDE DEF g
<1>7. neq[n].kids = h[n].kids BY <1>5
<1>8. \A m \in DOMAIN h : m # n => g[m].kids = h[m].kids
  <2>1. \A m \in DOMAIN h : m \in 1..Len(neq) BY <1>1, <1>2
  <2> QED BY <2>1, <1>5, <1>6
<1>9. g[Len(h) + 1].kids = none /\ g[Len(h) + 2].kids = pair
  <2>1. Len(h) + 1 \in 1..Len(neq) /\ Len(h) + 2 \in 1..Len(neq) /\ n # Len(h) + 1 /\ n # Len(h) + 2
    BY <1>1, <1>2
  <2> QED BY <2>1, <1>5, <1>6
<1>10. Compared(h, n, i) = g BY <1>2 DEF g
<1> QED BY <1>6, <1>7, <1>8, <1>9, <1>10 DEF kid, pair, none

\* The comparison is linked in between the value and the node that held it.
LEMMA ComparedLinks ==
  ASSUME NEW h, IsHeap(h), NEW n \in DOMAIN h, NEW i, NEW o \in Nat, n > o,
         \A m \in DOMAIN h : m > o => Linked(h, m)
  PROVE  \A m \in DOMAIN Compared(h, n, i) : m > o => Linked(Compared(h, n, i), m)
<1>1. Len(h) \in Nat /\ DOMAIN h = 1..Len(h) BY DEF IsHeap
<1>2. CASE ~ IsBare(h, n, i) BY <1>2 DEF Compared
<1>3. CASE IsBare(h, n, i)
  <2> DEFINE g == Compared(h, n, i)
             kid == h[n].kids[i]
             a == Len(h) + 1
             b == Len(h) + 2
  <2>1. i \in DOMAIN h[n].kids /\ kid \in DOMAIN h BY <1>3, ComparedHeaps
  <2>2. /\ Len(g) = b
        /\ \A m \in DOMAIN h : g[m].parent = IF m = kid THEN b ELSE h[m].parent
        /\ g[a].parent = b /\ g[b].parent = n
    BY <1>3, ComparedParents
  <2>3. /\ \A m \in DOMAIN h : m # n => g[m].kids = h[m].kids
        /\ DOMAIN g[n].kids = DOMAIN h[n].kids
        /\ \A j \in DOMAIN h[n].kids : g[n].kids[j] = IF j = i THEN b ELSE h[n].kids[j]
        /\ g[a].kids = <<>> /\ g[b].kids = <<kid, a>>
    BY <1>3, ComparedKids
  <2>4. IsHeap(g) BY ComparedHeap
  <2> HIDE DEF g, kid
  <2>5. DOMAIN g = 1..b /\ b = Len(h) + 2 /\ a = Len(h) + 1 BY <2>2, <2>4 DEF IsHeap
  <2> HIDE DEF a, b
  <2>6. kid # Nil /\ h[kid].parent = n /\ \A j \in DOMAIN h[n].kids : h[n].kids[j] = kid => j = i
    <3>1. kid # Nil BY <2>1, <1>1 DEF Nil
    <3>2. Linked(h, n) OBVIOUS
    <3> QED BY <2>1, <3>1, <3>2 DEF Linked, kid
  <2>7. \A m \in DOMAIN h : \A j \in DOMAIN h[m].kids :
          h[m].kids[j] # Nil => h[m].kids[j] \in DOMAIN h
    BY <1>1, HeapFacts DEF Nil
  <2>8. ASSUME NEW m \in DOMAIN h, m > o, m # n PROVE Linked(g, m)
    <3>1. Linked(h, m) BY <2>8
    <3>2. ASSUME NEW j \in DOMAIN h[m].kids, h[m].kids[j] # Nil
          PROVE  g[h[m].kids[j]].parent = h[h[m].kids[j]].parent
      <4>1. h[h[m].kids[j]].parent = m BY <3>1, <3>2 DEF Linked
      <4>2. h[m].kids[j] # kid BY <4>1, <2>6, <2>8
      <4>3. h[m].kids[j] \in DOMAIN h BY <3>2, <2>7
      <4> QED BY <4>2, <4>3, <2>2
    <3>3. g[m].kids = h[m].kids BY <2>3, <2>8
    <3> QED BY <3>1, <3>2, <3>3, LinkedKept
  <2>9. Linked(g, n)
    <3>1. Linked(h, n) OBVIOUS
    <3>2. ASSUME NEW j \in DOMAIN h[n].kids, g[n].kids[j] # Nil
          PROVE  /\ g[g[n].kids[j]].parent = n
                 /\ \A q \in DOMAIN h[n].kids : g[n].kids[q] = g[n].kids[j] => q = j
      <4>1. \A q \in DOMAIN h[n].kids : h[n].kids[q] # b
        <5>1. b \notin 0..Len(h) BY <1>1, <2>5
        <5>2. \A q \in DOMAIN h[n].kids : h[n].kids[q] \in 0..Len(h) BY HeapFacts
        <5> QED BY <5>1, <5>2
      <4>2. CASE j = i
        <5>1. g[n].kids[j] = b BY <2>3, <4>2
        <5> QED BY <5>1, <4>1, <4>2, <2>2, <2>3
      <4>3. CASE j # i
        <5>1. g[n].kids[j] = h[n].kids[j] BY <2>3, <4>3
        <5>2. h[n].kids[j] # kid BY <2>6, <4>3
        <5>3. h[n].kids[j] \in DOMAIN h BY <2>7, <3>2, <5>1
        <5>4. /\ h[h[n].kids[j]].parent = n
              /\ \A q \in DOMAIN h[n].kids : h[n].kids[q] = h[n].kids[j] => q = j
          BY <3>1, <3>2, <5>1 DEF Linked
        <5> QED BY <5>1, <5>2, <5>3, <5>4, <4>1, <4>3, <2>2, <2>3
      <4> QED BY <4>2, <4>3
    <3> QED BY <2>3, <3>2 DEF Linked
  <2>10. Linked(g, a) BY <2>3 DEF Linked
  <2>11. Linked(g, b)
    <3>1. g[kid].parent = b BY <2>1, <2>2
    <3>2. kid # a BY <2>1, <2>5, <1>1
    <3> QED BY <3>1, <3>2, <2>2, <2>3 DEF Linked
  <2>12. \A m \in DOMAIN g : m \in DOMAIN h \/ m = a \/ m = b BY <1>1, <2>5
  <2>13. \A m \in DOMAIN g : m > o => Linked(g, m) BY <2>8, <2>9, <2>10, <2>11, <2>12
  <2> QED BY <2>13 DEF g
<1> QED BY <1>2, <1>3

-----------------------------------------------------------------------------
\* Parents have no cycle; the nodes a deep copy has made are linked to what they
\* hold, and those that are not finished have no Parent yet; and nothing is left
\* over of the recursion, or to be visited, when it is over.
Upright ==
  /\ Rising(heap)
  /\ call.phase = "copy" =>
       stack # <<>> /\ \A i \in DOMAIN stack : heap[stack[i].to].parent = Nil
  /\ call.phase # "copy" => stack = <<>>
  /\ call.phase \notin {"bools", "write"} => todo = <<>>
  /\ call.phase \in {"copy", "bools"} =>
       \A n \in DOMAIN heap : n > call.owned => Linked(heap, n)

Offered == Ops \subseteq {"copy", "tsql", "neutral"}

LEMMA OfferedFacts ==
  ASSUME Offered, Inv, Typed
  PROVE  /\ call.phase \in {"idle", "copy", "bools", "write"}
         /\ call.phase = "copy" => call.op \in {"copy", "tsql"}
         /\ call.phase = "bools" => call.op = "tsql"
         /\ call.phase = "write" => call.op \in {"tsql", "neutral"}
<1>1. call.phase \in Phases BY DEF Inv, CallInv
<1>2. /\ call.phase = "copy" => call.op \in {"copy", "tsql"}
      /\ call.phase = "simplify" => call.op = "simplify"
      /\ call.phase = "bools" => call.op = "tsql"
      /\ call.phase = "write" => call.op \notin {"copy", "simplify"}
  BY DEF Inv, CallInv
<1>3. call.phase # "idle" => call.op \in {"copy", "tsql", "neutral"} BY DEF Typed, Offered
<1> QED BY <1>1, <1>2, <1>3 DEF Phases

LEMMA InitUpright == Init => Upright
<1> SUFFICES ASSUME Init PROVE Upright OBVIOUS
<1>1. IsHeap(heap) /\ RootDown(heap) BY ParsedAssumption DEF Init
<1>2. Rising(heap) BY <1>1, RootDownRising
<1>3. call.phase = "idle" /\ stack = <<>> /\ todo = <<>> BY DEF Init, Idle
<1> QED BY <1>2, <1>3 DEF Upright

\* A node copied without its children is linked, and leaves the others as they are.
LEMMA BlankLinks ==
  ASSUME NEW h, IsHeap(h), NEW n \in DOMAIN h, NEW o \in Nat,
         \A m \in DOMAIN h : m > o => Linked(h, m)
  PROVE  \A m \in DOMAIN Blank(h, n) : m > o => Linked(Blank(h, n), m)
<1> DEFINE g == Blank(h, n)
<1>1. /\ IsHeap(g) /\ Len(g) = Len(h) + 1
      /\ \A i \in DOMAIN g[Len(g)].kids : g[Len(g)].kids[i] = Nil
      /\ \A m \in 1..Len(h) : g[m] = h[m]
  BY BlankFacts
<1> HIDE DEF g
<1>2. Len(h) \in Nat /\ DOMAIN h = 1..Len(h) /\ DOMAIN g = 1..(Len(h) + 1) BY <1>1 DEF IsHeap
<1>3. Linked(g, Len(h) + 1) BY <1>1 DEF Linked
<1>4. ASSUME NEW m \in DOMAIN h, Linked(h, m) PROVE Linked(g, m)
  <2>1. g[m].kids = h[m].kids BY <1>1, <1>2
  <2>2. \A i \in DOMAIN h[m].kids : h[m].kids[i] # Nil => h[m].kids[i] \in DOMAIN h
    BY <1>2, HeapFacts DEF Nil
  <2> QED BY <1>1, <1>2, <1>4, <2>1, <2>2, LinkedKept
<1>5. \A m \in DOMAIN g : m > o => Linked(g, m) BY <1>2, <1>3, <1>4
<1> QED BY <1>5 DEF g

LEMMA CallUpright ==
  ASSUME Offered, Inv, Typed, Upright, Calls
  PROVE  Upright'
<1>1. IsHeap(heap) /\ Len(heap) \in Nat /\ DOMAIN heap = 1..Len(heap) /\ roots \subseteq DOMAIN heap
  BY DEF Inv, HeapInv, IsHeap
<1>2. PICK r \in roots : CallCopy(r) \/ CallTSQL(r) \/ CallSimplify(r) \/ CallGenerate(r)
  BY DEF Calls
<1>3. r \in DOMAIN heap /\ Rising(heap) BY <1>1 DEF Upright
<1>4. ~ CallSimplify(r) BY DEF CallSimplify, Makes, Offered
<1>5. ASSUME NEW op, Copies(op, r) PROVE Upright'
  <2>1. /\ heap' = Blank(heap, r) /\ stack' = <<Frame(r, Len(heap) + 1)>> /\ todo' = todo
        /\ call.phase = "idle" /\ call'.phase = "copy" /\ call'.owned = Len(heap)
    BY <1>5 DEF Copies, Makes
  <2>2. Rising(heap') /\ heap'[Len(heap) + 1].parent = Nil BY <1>1, <1>3, <2>1, BlankRising
  <2>3. stack' # <<>> /\ \A i \in DOMAIN stack' : heap'[stack'[i].to].parent = Nil
    BY <2>1, <2>2 DEF Frame
  <2>4. todo' = <<>> BY <2>1 DEF Upright
  <2>5. \A n \in DOMAIN heap' : n > Len(heap) => Linked(heap', n)
    <3>1. \A m \in DOMAIN heap : m > Len(heap) => Linked(heap, m) BY <1>1
    <3> QED BY <3>1, <1>1, <1>3, <2>1, BlankLinks
  <2> QED BY <2>1, <2>2, <2>3, <2>4, <2>5 DEF Upright
<1>6. ASSUME CallGenerate(r) PROVE Upright'
  <2>1. heap' = heap /\ stack' = stack /\ call.phase = "idle" /\ call'.phase = "write"
    BY <1>6 DEF CallGenerate, Makes
  <2> QED BY <2>1 DEF Upright
<1> QED BY <1>2, <1>4, <1>5, <1>6 DEF CallCopy, CallTSQL

LEMMA SkipUpright ==
  ASSUME Offered, Inv, Typed, Upright, SkipChild
  PROVE  Upright'
<1> DEFINE l == Len(stack)
<1>1. /\ Copying /\ heap' = heap /\ call' = call /\ todo' = todo BY DEF SkipChild
<1>2. call.phase = "copy" BY <1>1, OfferedFacts DEF Copying
<1>3. /\ DOMAIN stack = 1..l /\ l \in DOMAIN stack /\ DOMAIN stack' = 1..l
      /\ \A i \in 1..l :
           stack'[i] = IF i = l
                       THEN [from |-> stack[i].from, to |-> stack[i].to,
                             next |-> stack[i].next + 1]
                       ELSE stack[i]
  BY FrameSkipped
<1> HIDE DEF l
<1>4. \A i \in DOMAIN stack : stack'[i].to = stack[i].to
  <2> SUFFICES ASSUME NEW i \in 1..l PROVE stack'[i].to = stack[i].to BY <1>3
  <2>1. CASE i = l BY <1>3, <2>1
  <2>2. CASE i # l BY <1>3, <2>2
  <2> QED BY <2>1, <2>2
<1>5. stack' # <<>>
  <2>1. 1..l # {} BY <1>3
  <2> QED BY <2>1, <1>3
<1> QED BY <1>1, <1>2, <1>3, <1>4, <1>5 DEF Upright

LEMMA EnterUpright ==
  ASSUME Offered, Inv, Typed, Upright, EnterChild
  PROVE  Upright'
<1> DEFINE l == Len(stack)
           n == Len(heap) + 1
<1>1. /\ Copying /\ AtChild /\ ~ PassedOver /\ call' = call /\ todo' = todo BY DEF EnterChild
<1>2. call.phase = "copy" BY <1>1, OfferedFacts DEF Copying
<1>3. heap' = Blank(heap, Child) BY <1>2 DEF EnterChild
<1>4. Child \in DOMAIN heap BY <1>1, ChildFacts
<1>5. IsHeap(heap) /\ Len(heap) \in Nat /\ DOMAIN heap = 1..Len(heap) BY DEF Inv, HeapInv, IsHeap
<1>6. /\ DOMAIN stack' = 1..(l + 1) /\ l \in Nat /\ DOMAIN stack = 1..l
      /\ stack'[l + 1] = [from |-> Child, to |-> n, next |-> 1]
      /\ \A i \in 1..l : stack'[i] = stack[i]
      /\ \A i \in 1..l : stack[i] \in FramesOver(heap)
  BY FrameEntered
<1>7. Rising(heap') /\ heap'[n].parent = Nil BY <1>3, <1>4, <1>5, BlankRising DEF Upright
<1>8. \A m \in 1..Len(heap) : heap'[m] = heap[m] BY <1>3, <1>4, <1>5, BlankFacts
<1>9. \A i \in DOMAIN stack' : heap'[stack'[i].to].parent = Nil
  <2>1. ASSUME NEW i \in 1..l PROVE heap'[stack'[i].to].parent = Nil
    <3>1. stack'[i] = stack[i] /\ stack[i].to \in 1..Len(heap) BY <1>6 DEF FramesOver
    <3>2. heap[stack[i].to].parent = Nil BY <1>2, <1>6 DEF Upright
    <3> QED BY <3>1, <3>2, <1>8
  <2>2. heap'[stack'[l + 1].to].parent = Nil BY <1>6, <1>7
  <2>3. \A i \in DOMAIN stack' : i \in 1..l \/ i = l + 1 BY <1>6
  <2> QED BY <2>1, <2>2, <2>3
<1>10. \A m \in DOMAIN heap' : m > call.owned => Linked(heap', m)
  <2>1. call.owned \in Nat BY <1>5 DEF Inv, CallInv
  <2>2. \A m \in DOMAIN heap : m > call.owned => Linked(heap, m) BY <1>2 DEF Upright
  <2> QED BY <2>1, <2>2, <1>3, <1>4, <1>5, BlankLinks
<1>11. stack' # <<>> BY <1>6
<1>12. todo' = <<>> BY <1>1, <1>2 DEF Upright
<1> HIDE DEF l, n
<1> QED BY <1>1, <1>2, <1>7, <1>9, <1>10, <1>11, <1>12 DEF Upright

LEMMA LeaveUpright ==
  ASSUME Offered, Inv, Typed, NoCycle, Upright, LeaveChild
  PROVE  Upright'
<1> DEFINE l == Len(stack) - 1
           up == stack[l]
           k == Top.to
<1>1. /\ Copying /\ call' = call /\ todo' = todo BY DEF LeaveChild
<1>2. call.phase = "copy" BY <1>1, OfferedFacts DEF Copying
<1>3. IsHeap(heap) /\ Len(heap) \in Nat /\ DOMAIN heap = 1..Len(heap) BY DEF Inv, HeapInv, IsHeap
<1>4. Outcome = k BY <1>1, <1>2, OutcomeType
<1>5. /\ l \in Nat /\ l > 0 /\ l \in DOMAIN stack /\ l + 1 \in DOMAIN stack
      /\ l + 1 = Len(stack) /\ Top = stack[l + 1] /\ DOMAIN stack = 1..(l + 1)
      /\ DOMAIN stack' = 1..l
      /\ \A i \in 1..l :
           stack'[i] = IF i = l
                       THEN [from |-> stack[i].from, to |-> stack[i].to,
                             next |-> stack[i].next + 1]
                       ELSE stack[i]
      /\ \A i \in 1..(l + 1) : stack[i] \in FramesOver(heap)
      /\ heap' = Set(heap, up.to, up.next, Outcome)
  BY FrameLeft
<1> HIDE DEF l
<1>6. /\ \A i \in 1..l : stack[i].to # k
      /\ Unheld(heap, k) /\ \A i \in 1..(l + 1) : stack[i].to \in DOMAIN heap
      /\ \A i \in 1..(l + 1) : heap[stack[i].to].parent = Nil
  <2>1. \A i, j \in DOMAIN stack : i < j => stack[i].to # stack[j].to
    BY <1>2 DEF NoCycle, OpenInv
  <2>2. \A i \in 1..l : i \in DOMAIN stack /\ i < l + 1 BY <1>5
  <2>3. Unheld(heap, k) BY <1>2, <1>5 DEF NoCycle, OpenInv
  <2>4. \A i \in 1..(l + 1) : stack[i].to \in DOMAIN heap BY <1>3, <1>5 DEF FramesOver
  <2>5. \A i \in 1..(l + 1) : heap[stack[i].to].parent = Nil BY <1>2, <1>5 DEF Upright
  <2> QED BY <1>5, <2>1, <2>2, <2>3, <2>4, <2>5
<1>7. up.to \in DOMAIN heap /\ k \in DOMAIN heap /\ k # up.to /\ heap[up.to].parent = Nil
  BY <1>5, <1>6
<1> HIDE DEF up, k
<1>8. heap' = Set(heap, up.to, up.next, k) /\ k \in 0..Len(heap) BY <1>3, <1>4, <1>5, <1>7
<1>9. Rising(heap') BY <1>3, <1>7, <1>8, SetRising DEF Upright
<1>10. IsHeap(heap') /\ Len(heap') = Len(heap) BY <1>3, <1>7, <1>8, SetHeap
<1>11. \A m \in DOMAIN heap : heap'[m].parent = IF m = k THEN up.to ELSE heap[m].parent
  <2> DEFINE g == Set(heap, up.to, up.next, k)
  <2>1. \A m \in DOMAIN heap : g[m].parent = IF m = k THEN up.to ELSE heap[m].parent
    <3> DEFINE u == up.to
               x == up.next
               kk == k
    <3>1. IsHeap(heap) /\ u \in DOMAIN heap BY <1>3, <1>7
    <3>2. kk \in 0..Len(heap) /\ kk # Nil BY <1>3, <1>7 DEF Nil
    <3> HIDE DEF u, x, kk
    <3>3. \A m \in DOMAIN heap : Set(heap, u, x, kk)[m].parent = IF m = kk THEN u ELSE heap[m].parent
      BY <3>1, <3>2, SetParents
    <3> QED BY <3>3 DEF u, x, kk, g
  <2> HIDE DEF g
  <2> QED BY <2>1, <1>8 DEF g
<1>12. \A i \in DOMAIN stack' : heap'[stack'[i].to].parent = Nil
  <2> SUFFICES ASSUME NEW i \in 1..l PROVE heap'[stack'[i].to].parent = Nil BY <1>5
  <2>1. stack'[i].to = stack[i].to /\ i \in 1..(l + 1) BY <1>5
  <2> QED BY <2>1, <1>6, <1>11
<1>13. \A m \in DOMAIN heap' : m > call.owned => Linked(heap', m)
  <2>1. DOMAIN heap' = DOMAIN heap BY <1>3, <1>10 DEF IsHeap
  <2>2. \A m \in DOMAIN heap : \A j \in DOMAIN heap[m].kids : heap[m].kids[j] # k
    BY <1>6 DEF Unheld
  <2>3. ASSUME NEW m \in DOMAIN heap, m > call.owned PROVE Linked(heap', m)
    <3>1. Linked(heap, m) BY <1>2, <2>3 DEF Upright
    <3>2. \A p \in DOMAIN heap :
            /\ Linked(heap, p) /\ p # up.to
            /\ k # Nil => \A j \in DOMAIN heap[p].kids : heap[p].kids[j] # k
            => Linked(Set(heap, up.to, up.next, k), p)
      BY <1>3, <1>7, <1>8, SetLinks
    <3>3. /\ Linked(heap, up.to)
          /\ k # Nil => \A j \in DOMAIN heap[up.to].kids : heap[up.to].kids[j] # k
          => Linked(Set(heap, up.to, up.next, k), up.to)
      BY <1>3, <1>7, <1>8, SetLinks
    <3>4. CASE m = up.to BY <3>1, <3>3, <3>4, <2>2, <1>7, <1>8
    <3>5. CASE m # up.to BY <3>1, <3>2, <3>5, <2>2, <2>3, <1>8
    <3> QED BY <3>4, <3>5
  <2> QED BY <2>1, <2>3
<1>14. stack' # <<>> BY <1>5
<1>15. todo' = <<>> BY <1>1, <1>2 DEF Upright
<1> QED BY <1>1, <1>2, <1>9, <1>12, <1>13, <1>14, <1>15 DEF Upright

\* The node that is visited.
LEMMA Visited ==
  ASSUME Inv, todo # <<>>, Head(todo) # Nil
  PROVE  /\ IsHeap(heap) /\ Len(heap) \in Nat /\ DOMAIN heap = 1..Len(heap)
         /\ Head(todo) \in DOMAIN heap
         /\ CopyFirst /\ call.phase \in {"bools", "write"} => Head(todo) > call.owned
         /\ call.owned \in Nat
<1>1. IsHeap(heap) /\ Len(heap) \in Nat /\ DOMAIN heap = 1..Len(heap) BY DEF Inv, HeapInv, IsHeap
<1>2. todo \in Seq(0..Len(heap)) /\ call.owned \in 0..Len(heap) BY DEF Inv, TodoInv, CallInv
<1>3. Head(todo) \in 0..Len(heap) /\ 1 \in DOMAIN todo /\ Head(todo) = todo[1] BY <1>2, HeadOfWork
<1> DEFINE n == Head(todo)
<1>4. n \in 0..Len(heap) /\ n # Nil /\ n = todo[1] BY <1>3
<1> HIDE DEF n
<1>5. n \in DOMAIN heap BY <1>1, <1>4 DEF Nil
<1>6. ASSUME CopyFirst, call.phase \in {"bools", "write"} PROVE n > call.owned
  <2>1. n \notin 1..call.owned BY <1>3, <1>4, <1>6 DEF Inv, ApartInv
  <2> QED BY <2>1, <1>1, <1>2, <1>5
<1> QED BY <1>1, <1>2, <1>5, <1>6 DEF n

LEMMA WritingUpright ==
  ASSUME Offered, Inv, Typed, Upright, Writing
  PROVE  Upright'
<1>1. CASE CopyForTSQL
  <2>1. /\ Copying /\ heap' = heap /\ stack' = <<>>
        /\ call' = [call EXCEPT !.phase = "bools", !.input = Outcome]
    BY <1>1 DEF CopyForTSQL, Finished
  <2>2. call.phase = "copy" BY <2>1, OfferedFacts DEF Copying
  <2>3. call'.phase = "bools" /\ call'.owned = call.owned BY <2>1 DEF Inv, CallInv
  <2> QED BY <2>1, <2>2, <2>3 DEF Upright
<1>2. CASE PassAbsent
  <2>1. /\ heap' = heap /\ stack' = stack /\ call' = call /\ call.phase \in {"bools", "write"}
    BY <1>2 DEF PassAbsent
  <2> QED BY <2>1 DEF Upright
<1>3. CASE EnsureBools
  <2> DEFINE n == Head(todo)
             a == Compared(heap, n, 1)
             o == call.owned
  <2>1. /\ call.phase = "bools" /\ todo # <<>> /\ n # Nil /\ heap' = Compared(a, n, 2)
        /\ stack' = stack /\ call' = call
    BY <1>3 DEF EnsureBools
  <2>2. CopyFirst BY <2>1, OfferedFacts DEF CopyFirst
  <2>3. IsHeap(heap) /\ n \in DOMAIN heap /\ n > o /\ o \in Nat BY <2>1, <2>2, Visited
  <2> HIDE DEF n, o
  <2>4. \A m \in DOMAIN heap : m > o => Linked(heap, m) BY <2>1 DEF Upright, o
  <2>5. Linked(heap, n) BY <2>3, <2>4
  <2>6. IsHeap(a) /\ n \in DOMAIN a BY <2>3, ComparedHeap
  <2>7. ParentsWithin(heap) /\ Rising(heap) BY DEF Typed, Upright
  <2>8. ParentsWithin(a) BY <2>3, <2>7, ComparedWithin
  <2>9. Rising(a) BY <2>3, <2>5, <2>7, ComparedRising
  <2>10. \A m \in DOMAIN a : m > o => Linked(a, m) BY <2>3, <2>4, ComparedLinks
  <2> HIDE DEF a
  <2>11. Linked(a, n) BY <2>3, <2>6, <2>10
  <2>12. Rising(heap') BY <2>1, <2>6, <2>8, <2>9, <2>11, ComparedRising
  <2>13. \A m \in DOMAIN heap' : m > o => Linked(heap', m)
    BY <2>1, <2>3, <2>6, <2>10, ComparedLinks
  <2> QED BY <2>1, <2>12, <2>13 DEF Upright, o
<1>4. CASE BoolsDone
  <2>1. /\ heap' = heap /\ stack' = stack /\ call.phase = "bools"
        /\ call' = [call EXCEPT !.phase = "write"]
    BY <1>4 DEF BoolsDone
  <2>2. call'.phase = "write" BY <2>1 DEF Inv, CallInv
  <2> QED BY <2>1, <2>2 DEF Upright
<1>5. CASE WriteNode
  <2> DEFINE n == Head(todo)
  <2>1. /\ call.phase = "write" /\ todo # <<>> /\ n # Nil /\ heap' = Prepared(heap, n)
        /\ stack' = stack /\ call' = call
    BY <1>5 DEF WriteNode
  <2>2. IsHeap(heap) /\ n \in DOMAIN heap BY <2>1, Visited
  <2>3. call.op \in {"tsql", "neutral"} BY <2>1, OfferedFacts
  <2>4. heap' = Ready(call.op, heap, n) BY <2>1, <2>3, ReadyIs
  <2> HIDE DEF n
  <2>5. Rising(heap') BY <2>2, <2>4, ReadyRising DEF Typed, Upright
  <2> QED BY <2>1, <2>5 DEF Upright
<1>6. CASE GenerateReturns
  <2>1. /\ heap' = heap /\ stack' = stack /\ todo' = todo /\ todo = <<>> /\ call.phase = "write"
        /\ call' = [call EXCEPT !.phase = "idle"]
    BY <1>6 DEF GenerateReturns
  <2>2. call'.phase = "idle" BY <2>1 DEF Inv, CallInv
  <2> QED BY <2>1, <2>2 DEF Upright
<1> QED BY <1>1, <1>2, <1>3, <1>4, <1>5, <1>6 DEF Writing

LEMMA ReturnsUpright ==
  ASSUME Offered, Inv, Typed, Upright, Returns
  PROVE  Upright'
<1>1. ~ SimplifyReturns /\ ~ NextPass BY OfferedFacts DEF SimplifyReturns, NextPass
<1>2. /\ heap' = heap /\ stack' = <<>> /\ todo' = todo /\ Copying
      /\ call' = [call EXCEPT !.phase = "idle", !.input = Outcome]
  BY <1>1 DEF Returns, CopyReturns, Finished
<1>3. call'.phase = "idle" BY <1>2 DEF Inv, CallInv
<1>4. call.phase = "copy" BY <1>2, OfferedFacts DEF Copying
<1>5. todo' = <<>> BY <1>2, <1>4 DEF Upright
<1> QED BY <1>2, <1>3, <1>5 DEF Upright

LEMMA OfferedNot ==
  ASSUME Offered
  PROVE  "hive" \notin Ops
BY DEF Offered

LEMMA StepUpright ==
  ASSUME Offered, Inv, Typed, NoCycle, Upright, [Next]_vars
  PROVE  Upright'
<1>1. CASE UNCHANGED vars BY <1>1 DEF vars, Upright
<1>2. CASE Rewriting BY <1>2, NoneRewritten, OfferedNot
<1>3. CASE Recursion BY <1>3, SkipUpright, EnterUpright, LeaveUpright DEF Recursion
<1> QED BY <1>1, <1>2, <1>3, CallUpright, ReturnsUpright, WritingUpright DEF Next

-----------------------------------------------------------------------------
\* What the Generate at hand has.
Now == Hand(heap, stack, todo, call.phase, call.input, text)
Generating == call.phase # "idle" /\ call.op # "copy"

LEMMA NowSane ==
  ASSUME Offered, Inv, Typed, Upright, call.phase # "idle"
  PROVE  Sane(Now)
<1>1. IsHeap(heap) /\ ParentsWithin(heap) /\ Rising(heap) BY DEF Inv, HeapInv, Typed, Upright
<1>2. stack \in Seq(FramesOver(heap)) /\ todo \in Seq(0..Len(heap)) BY DEF Inv, StackInv, TodoInv
<1>3. call.input \in 0..Len(heap) BY DEF Inv, CallInv
<1>4. call.phase \in {"copy", "bools", "write"} BY OfferedFacts
<1>5. call.phase = "copy" => stack # <<>> BY DEF Upright
<1> QED BY <1>1, <1>2, <1>3, <1>4, <1>5 DEF Sane, Now, Hand

LEMMA NowParts ==
  /\ Now.heap = heap /\ Now.stack = stack /\ Now.todo = todo /\ Now.phase = call.phase
  /\ Now.input = call.input /\ Now.text = text
  /\ TopOf(Now) = Top /\ Slot(Now) = Child /\ Most(Now) = Below
BY DEF Now, Hand, TopOf, Slot, Most, Top, Child, Below

\* The call and the text kept while the copy is made.
LEMMA RecursionSucc ==
  ASSUME Offered, Inv, Typed, Upright, Recursion
  PROVE  Kind(Now) # "done" /\ Now' = Succ(call.op, Now) /\ call' = call /\ written' = written
<1>1. /\ Copying /\ call' = call /\ todo' = todo /\ text' = text /\ written' = written
  BY DEF Recursion, SkipChild, EnterChild, LeaveChild
<1>2. call.phase = "copy" BY <1>1, OfferedFacts DEF Copying
<1>3. PassedOver <=> Child = Nil BY <1>2 DEF PassedOver
<1>4. CASE SkipChild
  <2>1. Kind(Now) = "skip" BY <1>2, <1>3, <1>4, NowParts DEF Kind, SkipChild, AtChild
  <2>2. Succ(call.op, Now) = Skipped(Now) BY <2>1 DEF Succ
  <2>3. Now' = Hand(heap, Advanced(stack), todo, call.phase, call.input, text)
    BY <1>1, <1>4 DEF SkipChild, Now
  <2> QED BY <1>1, <2>1, <2>2, <2>3, NowParts DEF Skipped
<1>5. CASE EnterChild
  <2>1. Kind(Now) = "enter" BY <1>2, <1>3, <1>5, NowParts DEF Kind, EnterChild, AtChild
  <2>2. Succ(call.op, Now) = Entered(Now) BY <2>1 DEF Succ
  <2>3. Now' = Hand(Blank(heap, Child), Append(stack, Frame(Child, Len(heap) + 1)), todo,
                    call.phase, call.input, text)
    BY <1>1, <1>2, <1>5 DEF EnterChild, Now
  <2> QED BY <1>1, <2>1, <2>2, <2>3, NowParts DEF Entered
<1>6. CASE LeaveChild
  <2>1. Kind(Now) = "leave" BY <1>2, <1>6, NowParts DEF Kind, LeaveChild, AtChild
  <2>2. Succ(call.op, Now) = Left(Now) BY <2>1 DEF Succ
  <2>3. Outcome = Top.to BY <1>2 DEF Outcome
  <2>4. heap' = Set(heap, stack[Len(stack) - 1].to, stack[Len(stack) - 1].next, Top.to)
    BY <1>6, <2>3 DEF LeaveChild
  <2>5. Now' = Hand(Set(heap, stack[Len(stack) - 1].to, stack[Len(stack) - 1].next, Top.to),
                    Advanced(Below), todo, call.phase, call.input, text)
    BY <1>1, <1>6, <2>4 DEF LeaveChild, Now
  <2> QED BY <1>1, <2>1, <2>2, <2>5, NowParts DEF Left
<1> QED BY <1>4, <1>5, <1>6 DEF Recursion

\* A step of the writer, but for the one that returns.
LEMMA WritingSucc ==
  ASSUME Offered, Inv, Typed, Upright, Writing, ~ GenerateReturns
  PROVE  /\ Generating /\ Generating' /\ Kind(Now) # "done" /\ Now' = Succ(call.op, Now)
         /\ call'.op = call.op /\ call'.root = call.root /\ call'.owned = call.owned
         /\ written' = written
<1>1. CASE CopyForTSQL
  <2>1. /\ Copying /\ ~ AtChild /\ Len(stack) = 1 /\ heap' = heap /\ stack' = <<>>
        /\ call.op = "tsql" /\ todo' = <<Outcome>> /\ text' = text /\ written' = written
        /\ call' = [call EXCEPT !.phase = "bools", !.input = Outcome]
    BY <1>1 DEF CopyForTSQL, Finished
  <2>2. call.phase = "copy" BY <2>1, OfferedFacts DEF Copying
  <2>3. /\ call'.phase = "bools" /\ call'.input = Outcome /\ call'.op = call.op
        /\ call'.root = call.root /\ call'.owned = call.owned
    BY <2>1 DEF Inv, CallInv
  <2>4. Kind(Now) = "walk"
    <3>1. ~ (Len(Now.stack) > 1)
      <4>1. Len(stack) = 1 /\ Now.stack = stack BY <2>1, NowParts
      <4>2. Len(Now.stack) = 1 BY <4>1
      <4> QED BY <4>2
    <3>2. ~ (TopOf(Now).next <= Len(Now.heap[TopOf(Now).from].kids)) BY <2>1, NowParts DEF AtChild
    <3> QED BY <2>2, <3>1, <3>2, NowParts DEF Kind
  <2>5. Outcome = Top.to BY <2>2 DEF Outcome
  <2>6. Now' = Hand(heap, <<>>, <<Top.to>>, "bools", Top.to, text) BY <2>1, <2>3, <2>5 DEF Now
  <2>7. Succ(call.op, Now) = Walked(Now) BY <2>4 DEF Succ
  <2>8. Walked(Now) = Hand(heap, <<>>, <<Top.to>>, "bools", Top.to, text) BY NowParts DEF Walked
  <2>9. Generating /\ Generating' BY <2>1, <2>2, <2>3 DEF Generating
  <2> QED BY <2>1, <2>3, <2>4, <2>6, <2>7, <2>8, <2>9
<1>2. CASE PassAbsent
  <2>1. /\ call.phase \in {"bools", "write"} /\ todo # <<>> /\ Head(todo) = Nil /\ todo' = Tail(todo)
        /\ heap' = heap /\ stack' = stack /\ call' = call /\ text' = text /\ written' = written
    BY <1>2 DEF PassAbsent
  <2>2. Kind(Now) = "pass" BY <2>1, NowParts DEF Kind
  <2>3. Now' = Hand(heap, stack, Tail(todo), call.phase, call.input, text) BY <2>1 DEF Now
  <2>4. Succ(call.op, Now) = Passed(Now) BY <2>2 DEF Succ
  <2>5. Generating BY <2>1, OfferedFacts DEF Generating
  <2> QED BY <2>1, <2>2, <2>3, <2>4, <2>5, NowParts DEF Passed, Generating
<1>3. CASE EnsureBools
  <2> DEFINE h == Compared(Compared(heap, Head(todo), 1), Head(todo), 2)
  <2>1. /\ call.phase = "bools" /\ todo # <<>> /\ Head(todo) # Nil
        /\ heap' = h /\ todo' = heap'[Head(todo)].kids \o Tail(todo)
        /\ stack' = stack /\ call' = call /\ text' = text /\ written' = written
    BY <1>3 DEF EnsureBools
  <2>2. Kind(Now) = "compare" BY <2>1, NowParts DEF Kind
  <2>3. Now' = Hand(h, stack, h[Head(todo)].kids \o Tail(todo), call.phase, call.input, text)
    BY <2>1 DEF Now
  <2>4. Succ(call.op, Now) = Ensured(Now) BY <2>2 DEF Succ
  <2>5. Generating BY <2>1, OfferedFacts DEF Generating
  <2>6. Ensured(Now) = Hand(h, stack, h[Head(todo)].kids \o Tail(todo), call.phase, call.input, text)
    BY NowParts DEF Ensured
  <2> QED BY <2>1, <2>2, <2>3, <2>4, <2>5, <2>6 DEF Generating
<1>4. CASE BoolsDone
  <2>1. /\ heap' = heap /\ stack' = stack /\ call.phase = "bools" /\ todo = <<>>
        /\ todo' = <<call.input>> /\ text' = text /\ written' = written
        /\ call' = [call EXCEPT !.phase = "write"]
    BY <1>4 DEF BoolsDone
  <2>2. /\ call'.phase = "write" /\ call'.input = call.input /\ call'.op = call.op
        /\ call'.root = call.root /\ call'.owned = call.owned
    BY <2>1 DEF Inv, CallInv
  <2>3. Kind(Now) = "turn" BY <2>1, NowParts DEF Kind
  <2>4. Now' = Hand(heap, stack, <<call.input>>, "write", call.input, text) BY <2>1, <2>2 DEF Now
  <2>5. Succ(call.op, Now) = Turned(Now) BY <2>3 DEF Succ
  <2>6. Generating BY <2>1, OfferedFacts DEF Generating
  <2> QED BY <2>1, <2>2, <2>3, <2>4, <2>5, <2>6, NowParts DEF Turned, Generating
<1>5. CASE WriteNode
  <2> DEFINE n == Head(todo)
             h == Ready(call.op, heap, n)
             q == Ripe(call.op, heap, n)
  <2>1. /\ call.phase = "write" /\ todo # <<>> /\ Head(todo) # Nil
        /\ heap' = Prepared(heap, n)
        /\ text' = Append(text, <<heap'[WrittenNode(heap, n)].class, heap'[WrittenNode(heap, n)].name,
                                  Ancestors(heap', WrittenNode(heap, n))>>)
        /\ todo' = heap'[WrittenNode(heap, n)].kids \o Tail(todo)
        /\ stack' = stack /\ call' = call /\ written' = written
    BY <1>5 DEF WriteNode
  <2>2. call.op \in {"tsql", "neutral"} BY <2>1, OfferedFacts
  <2>3. Prepared(heap, n) = h /\ WrittenNode(heap, n) = q BY <2>2, ReadyIs
  <2>4. /\ heap' = h /\ todo' = h[q].kids \o Tail(todo)
        /\ text' = Append(text, <<h[q].class, h[q].name, Ancestors(h, q)>>)
    BY <2>1, <2>3
  <2>5. Kind(Now) = "write" BY <2>1, NowParts DEF Kind
  <2>6. Now' = Hand(h, stack, h[q].kids \o Tail(todo), call.phase, call.input,
                    Append(text, <<h[q].class, h[q].name, Ancestors(h, q)>>))
    BY <2>1, <2>4 DEF Now
  <2>7. Succ(call.op, Now) = Wrote(call.op, Now) BY <2>5 DEF Succ
  <2>8. Wrote(call.op, Now) =
          Hand(h, stack, h[q].kids \o Tail(todo), call.phase, call.input,
               Append(text, <<h[q].class, h[q].name, Ancestors(h, q)>>))
    BY NowParts DEF Wrote
  <2>9. Generating BY <2>1, <2>2 DEF Generating
  <2> QED BY <2>1, <2>5, <2>6, <2>7, <2>8, <2>9 DEF Generating
<1> QED BY <1>1, <1>2, <1>3, <1>4, <1>5 DEF Writing

\* The Generate that returns has nothing left to do.
LEMMA ReturnsDone ==
  ASSUME GenerateReturns
  PROVE  Kind(Now) = "done"
<1>1. call.phase = "write" /\ todo = <<>> BY DEF GenerateReturns
<1> QED BY <1>1, NowParts DEF Kind

-----------------------------------------------------------------------------
\* The nodes of h stand in the heap as they stood in h.
Stands(h) ==
  /\ IsHeap(h) /\ ParentsWithin(h) /\ Len(h) <= Len(heap)
  /\ \A n \in DOMAIN h : heap[n] = h[n]
  /\ call.phase # "idle" => Len(h) <= call.owned

\* The steps of a call under way.
LEMMA OldNodes ==
  ASSUME Offered, Inv, Typed, call.phase # "idle", Next
  PROVE  call'.owned = call.owned /\ \A n \in 1..call.owned : heap'[n] = heap[n]
<1>1. ~ Calls BY DEF Calls, CallCopy, CallTSQL, CallSimplify, CallGenerate, Copies, Makes
<1>2. ~ Rewriting BY NoneRewritten, OfferedNot
<1>3. Recursion \/ Returns \/ Writing BY <1>1, <1>2 DEF Next
<1>4. call'.owned = call.owned
  <2>1. \E p, i, s : call' = call \/ call' = [call EXCEPT !.phase = p]
                     \/ call' = [call EXCEPT !.phase = p, !.input = i]
                     \/ call' = [call EXCEPT !.input = i, !.pass = s]
    BY <1>3 DEF Recursion, Returns, Writing, SkipChild, EnterChild, LeaveChild, CopyReturns,
                SimplifyReturns, NextPass, CopyForTSQL, PassAbsent, EnsureBools, BoolsDone,
                WriteNode, GenerateReturns
  <2> QED BY <2>1 DEF Inv, CallInv
<1>5. CASE CopyFirst
  <2>1. SameNodes(heap, heap', call.owned)
    <3>1. [Next]_vars OBVIOUS
    <3>2. Kept BY <3>1, StepInv, OfferedNot
    <3> QED BY <3>2, <1>5 DEF Kept
  <2> QED BY <2>1, <1>4 DEF SameNodes
<1>6. CASE ~ CopyFirst
  <2>1. call.op = "neutral" /\ call.phase = "write"
    <3>1. call.op \notin {"copy", "tsql"} BY <1>6 DEF CopyFirst
    <3> QED BY <3>1, OfferedFacts
  <2>2. PassAbsent \/ WriteNode \/ GenerateReturns
    BY <1>3, <2>1 DEF Recursion, Returns, Writing, SkipChild, EnterChild, LeaveChild, CopyReturns,
                      SimplifyReturns, NextPass, CopyForTSQL, EnsureBools, BoolsDone,
                      Finished, Copying
  <2>3. heap' = heap
    <3>1. CASE WriteNode
      <4>1. heap' = Ready(call.op, heap, Head(todo)) BY <2>1, <3>1, ReadyIs DEF WriteNode
      <4> QED BY <2>1, <4>1 DEF Ready, Elides, Spells
    <3> QED BY <2>2, <3>1 DEF PassAbsent, GenerateReturns
  <2> QED BY <2>3, <1>4
<1> QED BY <1>5, <1>6

\* A call starts with the nodes there are.
LEMMA CallStarts ==
  ASSUME Offered, Inv, Typed, Upright, Calls
  PROVE  /\ call.phase = "idle" /\ call'.phase # "idle" /\ call'.owned = Len(heap)
         /\ call'.root \in DOMAIN heap /\ written' = written
         /\ Len(heap) <= Len(heap') /\ \A n \in DOMAIN heap : heap'[n] = heap[n]
         /\ Generating' => Now' = Begin(call'.op, heap, call'.root)
<1>1. IsHeap(heap) /\ Len(heap) \in Nat /\ DOMAIN heap = 1..Len(heap) /\ roots \subseteq DOMAIN heap
  BY DEF Inv, HeapInv, IsHeap
<1>2. PICK r \in roots : CallCopy(r) \/ CallTSQL(r) \/ CallSimplify(r) \/ CallGenerate(r)
  BY DEF Calls
<1>3. ~ CallSimplify(r) BY DEF CallSimplify, Makes, Offered
<1>4. r \in DOMAIN heap BY <1>1
<1>5. ASSUME NEW op, NEW phase, Makes(op, phase, r), phase # "idle"
      PROVE  /\ call.phase = "idle" /\ call'.phase = phase /\ call'.owned = Len(heap)
             /\ call'.root = r /\ call'.op = op /\ call'.input = r /\ text' = <<>>
             /\ op \in Ops /\ written' = written /\ todo = <<>> /\ stack = <<>>
  BY <1>5 DEF Makes, Upright
<1>6. ASSUME NEW op \in {"copy", "tsql"}, Copies(op, r)
      PROVE  /\ call.phase = "idle" /\ call'.phase # "idle" /\ call'.owned = Len(heap)
             /\ call'.root \in DOMAIN heap /\ written' = written
             /\ Len(heap) <= Len(heap') /\ \A n \in DOMAIN heap : heap'[n] = heap[n]
             /\ Generating' => Now' = Begin(call'.op, heap, call'.root)
  <2>1. /\ Makes(op, "copy", r) /\ heap' = Blank(heap, r) /\ todo' = todo
        /\ stack' = <<Frame(r, Len(heap) + 1)>>
    BY <1>6 DEF Copies
  <2>2. /\ call.phase = "idle" /\ call'.phase = "copy" /\ call'.owned = Len(heap)
        /\ call'.root = r /\ call'.op = op /\ call'.input = r /\ text' = <<>>
        /\ written' = written /\ todo = <<>>
    BY <2>1, <1>5
  <2>3. Len(heap') = Len(heap) + 1 /\ \A n \in 1..Len(heap) : heap'[n] = heap[n]
    BY <1>1, <1>4, <2>1, BlankFacts
  <2>4. Now' = Hand(Blank(heap, r), <<Frame(r, Len(heap) + 1)>>, <<>>, "copy", r, <<>>)
    BY <2>1, <2>2 DEF Now
  <2>5. Generating' => op = "tsql" BY <2>2 DEF Generating
  <2>6. op = "tsql" => Now' = Begin(call'.op, heap, call'.root) BY <2>2, <2>4 DEF Begin
  <2> QED BY <1>1, <1>4, <2>2, <2>3, <2>5, <2>6
<1>7. ASSUME CallGenerate(r)
      PROVE  /\ call.phase = "idle" /\ call'.phase # "idle" /\ call'.owned = Len(heap)
             /\ call'.root \in DOMAIN heap /\ written' = written
             /\ Len(heap) <= Len(heap') /\ \A n \in DOMAIN heap : heap'[n] = heap[n]
             /\ Generating' => Now' = Begin(call'.op, heap, call'.root)
  <2>1. PICK op \in Dialects \ {"tsql"} : Makes(op, "write", r) BY <1>7 DEF CallGenerate
  <2>2. todo' = <<r>> /\ heap' = heap /\ stack' = stack BY <1>7 DEF CallGenerate
  <2>3. /\ call.phase = "idle" /\ call'.phase = "write" /\ call'.owned = Len(heap)
        /\ call'.root = r /\ call'.op = op /\ call'.input = r /\ text' = <<>>
        /\ written' = written /\ stack = <<>>
    BY <2>1, <1>5
  <2>4. Now' = Hand(heap, <<>>, <<r>>, "write", r, <<>>) BY <2>2, <2>3 DEF Now
  <2>5. Now' = Begin(call'.op, heap, call'.root) BY <2>1, <2>3, <2>4 DEF Begin
  <2> QED BY <1>1, <1>4, <2>2, <2>3, <2>5
<1> QED BY <1>2, <1>3, <1>6, <1>7 DEF CallCopy, CallTSQL

LEMMA StandsOn ==
  ASSUME Offered, Inv, Inv', Typed, Upright, [Next]_vars
  PROVE  \A h : Stands(h) => Stands(h)'
<1> SUFFICES ASSUME NEW h, Stands(h) PROVE Stands(h)' OBVIOUS
<1>1. /\ Len(heap) \in Nat /\ DOMAIN heap = 1..Len(heap) /\ Len(heap') \in Nat
      /\ call'.owned \in 0..Len(heap')
  BY DEF Inv, HeapInv, IsHeap, CallInv
<1>2. /\ IsHeap(h) /\ ParentsWithin(h) /\ Len(h) <= Len(heap) /\ Len(h) \in Nat
      /\ DOMAIN h = 1..Len(h) /\ \A n \in DOMAIN h : heap[n] = h[n]
      /\ call.phase # "idle" => Len(h) <= call.owned
  BY DEF Stands, IsHeap
<1>3. CASE UNCHANGED vars BY <1>2, <1>3 DEF vars, Stands
<1>4. CASE Calls
  <2>1. /\ call'.owned = Len(heap) /\ Len(heap) <= Len(heap')
        /\ \A n \in DOMAIN heap : heap'[n] = heap[n]
    BY <1>4, CallStarts
  <2>2. \A n \in DOMAIN h : n \in DOMAIN heap BY <1>1, <1>2
  <2>3. \A n \in DOMAIN h : heap'[n] = h[n] BY <2>1, <2>2, <1>2
  <2> QED BY <1>1, <1>2, <2>1, <2>3 DEF Stands
<1>5. CASE Next /\ ~ Calls
  <2>1. call.phase # "idle"
    <3>1. ~ Rewriting BY NoneRewritten, OfferedNot
    <3>2. Recursion \/ Returns \/ Writing BY <1>5, <3>1 DEF Next
    <3> QED BY <3>2 DEF Recursion, Returns, Writing, SkipChild, EnterChild, LeaveChild, CopyReturns,
                        SimplifyReturns, NextPass, CopyForTSQL, PassAbsent, EnsureBools, BoolsDone,
                        WriteNode, GenerateReturns, Finished, Copying
  <2>2. call'.owned = call.owned /\ \A n \in 1..call.owned : heap'[n] = heap[n]
    BY <1>5, <2>1, OldNodes
  <2>3. Len(h) <= call.owned BY <1>2, <2>1
  <2>4. \A n \in DOMAIN h : n \in 1..call.owned BY <1>1, <1>2, <2>2, <2>3
  <2>5. \A n \in DOMAIN h : heap'[n] = h[n] BY <1>2, <2>2, <2>4
  <2>6. Len(h) <= Len(heap') BY <1>1, <1>2, <2>2, <2>3
  <2> QED BY <1>2, <2>2, <2>3, <2>5, <2>6 DEF Stands
<1> QED BY <1>3, <1>4, <1>5

-----------------------------------------------------------------------------
\* A Generate run from its call to its end.
Writes(op, h, r, t) ==
  \E m, R : Run(op, m, R) /\ R[1] = Begin(op, h, r) /\ Kind(R[m]) = "done" /\ R[m].text = t

\* Every text that was kept is what such a run wrote, over nodes that have not
\* changed since; and the Generate at hand is such a run, so far.
Remembered ==
  \A p \in DOMAIN written :
    \E h : Stands(h) /\ p[1] \in DOMAIN h /\ Writes(p[2], h, p[1], written[p])

UnderWay ==
  Generating =>
    \E h, m, R : /\ Stands(h) /\ call.root \in DOMAIN h /\ Run(call.op, m, R)
                 /\ R[1] = Begin(call.op, h, call.root) /\ R[m] = Now

Told == Remembered /\ UnderWay

LEMMA InitTold == Init => Told
<1> SUFFICES ASSUME Init PROVE Told OBVIOUS
<1>1. DOMAIN written = {} BY DEF Init
<1>2. call.phase = "idle" BY DEF Init, Idle
<1> QED BY <1>1, <1>2 DEF Told, Remembered, UnderWay, Generating

LEMMA RunStarts ==
  ASSUME NEW op, NEW c, Sane(c)
  PROVE  \E m, R : Run(op, m, R) /\ R[1] = c /\ R[m] = c
<1> DEFINE R == [i \in 1..1 |-> c]
<1>1. \A i \in 1..1 : R[i] = c OBVIOUS
<1>2. 1 \in 1..1 /\ 1..(1 - 1) = {} OBVIOUS
<1> HIDE DEF R
<1>3. Run(op, 1, R) BY <1>1, <1>2 DEF Run
<1> QED BY <1>1, <1>2, <1>3

LEMMA RunGoesOn ==
  ASSUME NEW op, NEW m, NEW R, Run(op, m, R), Kind(R[m]) # "done", Sane(Succ(op, R[m]))
  PROVE  \E Q : Run(op, m + 1, Q) /\ Q[1] = R[1] /\ Q[m + 1] = Succ(op, R[m])
<1> DEFINE Q == [i \in 1..(m + 1) |-> IF i <= m THEN R[i] ELSE Succ(op, R[m])]
<1>1. m \in Nat /\ m > 0 /\ m + 1 \in Nat /\ m + 1 > 0 BY DEF Run
<1>2. \A i \in 1..m : Q[i] = R[i] BY <1>1
<1>3. Q[m + 1] = Succ(op, R[m]) BY <1>1
<1> HIDE DEF Q
<1>4. \A i \in 1..(m + 1) : Sane(Q[i])
  <2>1. \A i \in 1..m : Sane(Q[i]) BY <1>2 DEF Run
  <2>2. Sane(Q[m + 1]) BY <1>3
  <2>3. \A i \in 1..(m + 1) : i \in 1..m \/ i = m + 1 BY <1>1
  <2> QED BY <2>1, <2>2, <2>3
<1>5. \A i \in 1..((m + 1) - 1) : Kind(Q[i]) # "done" /\ Q[i + 1] = Succ(op, Q[i])
  <2> SUFFICES ASSUME NEW i \in 1..m PROVE Kind(Q[i]) # "done" /\ Q[i + 1] = Succ(op, Q[i])
    BY <1>1
  <2>1. CASE i = m BY <2>1, <1>1, <1>2, <1>3
  <2>2. CASE i # m
    <3>1. i \in 1..(m - 1) /\ i + 1 \in 1..m BY <2>2, <1>1
    <3>2. Kind(R[i]) # "done" /\ R[i + 1] = Succ(op, R[i]) BY <3>1 DEF Run
    <3> QED BY <3>1, <3>2, <1>2
  <2> QED BY <2>1, <2>2
<1>6. Run(op, m + 1, Q) BY <1>1, <1>4, <1>5 DEF Run
<1>7. 1 \in 1..m BY <1>1
<1> QED BY <1>2, <1>3, <1>6, <1>7

-----------------------------------------------------------------------------
LEMMA NextSane ==
  ASSUME Offered, Inv', Typed', Upright', call'.phase # "idle"
  PROVE  Sane(Now')
<1>1. IsHeap(heap') /\ ParentsWithin(heap') /\ Rising(heap') BY DEF Inv, HeapInv, Typed, Upright
<1>2. stack' \in Seq(FramesOver(heap')) /\ todo' \in Seq(0..Len(heap'))
  BY DEF Inv, StackInv, TodoInv
<1>3. call'.input \in 0..Len(heap') /\ call'.phase \in Phases
      /\ (call'.phase = "simplify" => call'.op = "simplify")
  BY DEF Inv, CallInv
<1>4. call'.phase \in {"copy", "bools", "write"} BY <1>3 DEF Phases, Typed, Offered
<1>5. call'.phase = "copy" => stack' # <<>> BY DEF Upright
<1>6. /\ Now'.heap = heap' /\ Now'.stack = stack' /\ Now'.todo = todo' /\ Now'.phase = call'.phase
      /\ Now'.input = call'.input
  BY DEF Now, Hand
<1> QED BY <1>1, <1>2, <1>3, <1>4, <1>5, <1>6 DEF Sane

\* Called again over the same nodes, with others after them, a Generate begins the same.
LEMMA BeginSame ==
  ASSUME NEW op, NEW h, IsHeap(h), ParentsWithin(h), NEW g, IsHeap(g), Len(h) <= Len(g),
         \A n \in DOMAIN h : g[n] = h[n], NEW r \in DOMAIN h
  PROVE  Same(Len(h), Len(g) - Len(h), Begin(op, h, r), Begin(op, g, r))
<1> DEFINE l == Len(h)
           d == Len(g) - Len(h)
<1>1. /\ l \in Nat /\ Len(g) \in Nat /\ d \in Nat /\ DOMAIN h = 1..l /\ Len(g) = l + d
      /\ l <= Len(h)
  BY DEF IsHeap
<1> HIDE DEF l, d
<1>2. \A n \in 0..l : At(l, d, n) = n BY <1>1 DEF At
<1>3. Alike(l, d, h, g)
  <2> SUFFICES ASSUME NEW n \in DOMAIN h
               PROVE  /\ g[At(l, d, n)].class = h[n].class /\ g[At(l, d, n)].name = h[n].name
                      /\ g[At(l, d, n)].kids = Ats(l, d, h[n].kids)
                      /\ g[At(l, d, n)].parent = At(l, d, h[n].parent)
    BY <1>1 DEF Alike, l
  <2>1. At(l, d, n) = n /\ g[n] = h[n] BY <1>1, <1>2
  <2>2. h[n].parent \in 0..l BY DEF ParentsWithin, l
  <2>3. h[n].kids \in Seq(0..l) BY HeapFacts DEF l
  <2>4. \A i \in DOMAIN h[n].kids : At(l, d, h[n].kids[i]) = h[n].kids[i]
    <3> DEFINE s == h[n].kids
    <3>1. s \in Seq(0..l) BY <2>3
    <3> HIDE DEF s
    <3>2. \A i \in DOMAIN s : s[i] \in 0..l
      <4>1. \A S : \A q \in Seq(S) : \A i \in DOMAIN q : q[i] \in S OBVIOUS
      <4> QED BY <3>1, <4>1
    <3>3. \A i \in DOMAIN s : At(l, d, s[i]) = s[i] BY <1>2, <3>2
    <3> QED BY <3>3 DEF s
  <2>5. Ats(l, d, h[n].kids) = h[n].kids
    <3> DEFINE s == h[n].kids
    <3>1. s = [i \in DOMAIN s |-> s[i]] BY <2>3
    <3> QED BY <3>1, <2>4 DEF Ats
  <2> QED BY <1>2, <2>1, <2>2, <2>5
<1>4. r \in 0..l /\ At(l, d, r) = r /\ At(l, d, l + 1) = Len(g) + 1
  <2>1. r \in 0..l BY <1>1
  <2> QED BY <2>1, <1>1, <1>2 DEF At
<1>5. CASE op = "tsql"
  <2> DEFINE c == Begin(op, h, r)
             e == Begin(op, g, r)
  <2>1. c = Hand(Blank(h, r), <<Frame(r, l + 1)>>, <<>>, "copy", r, <<>>) BY <1>5 DEF Begin, l
  <2>2. e = Hand(Blank(g, r), <<Frame(r, Len(g) + 1)>>, <<>>, "copy", r, <<>>) BY <1>5 DEF Begin
  <2>3. Alike(l, d, Blank(h, r), Blank(g, r)) BY <1>1, <1>3, <1>4, BlankAlike
  <2>4. AtFrames(l, d, <<Frame(r, l + 1)>>, <<Frame(r, Len(g) + 1)>>)
    BY <1>4 DEF AtFrames, AtFrame, Frame
  <2>5. Ats(l, d, <<>>) = <<>> BY DEF Ats
  <2>6. Same(l, d, c, e) BY <1>4, <2>1, <2>2, <2>3, <2>4, <2>5 DEF Same, Hand
  <2> QED BY <2>6 DEF l, d
<1>6. CASE op # "tsql"
  <2> DEFINE c == Begin(op, h, r)
             e == Begin(op, g, r)
  <2>1. c = Hand(h, <<>>, <<r>>, "write", r, <<>>) /\ e = Hand(g, <<>>, <<r>>, "write", r, <<>>)
    BY <1>6 DEF Begin
  <2>2. AtFrames(l, d, <<>>, <<>>) BY DEF AtFrames
  <2>3. Ats(l, d, <<r>>) = <<r>> BY <1>4, OneAt
  <2>4. Same(l, d, c, e) BY <1>3, <1>4, <2>1, <2>2, <2>3 DEF Same, Hand
  <2> QED BY <2>4 DEF l, d
<1> QED BY <1>5, <1>6

\* What is kept of the runs that ended.
LEMMA StillRemembered ==
  ASSUME Offered, Inv, Inv', Typed, Upright, [Next]_vars, Remembered, written' = written
  PROVE  Remembered'
<1> SUFFICES ASSUME NEW p \in DOMAIN written
             PROVE  \E h : Stands(h)' /\ p[1] \in DOMAIN h /\ Writes(p[2], h, p[1], written[p])
  BY DEF Remembered
<1>1. PICK h : Stands(h) /\ p[1] \in DOMAIN h /\ Writes(p[2], h, p[1], written[p]) BY DEF Remembered
<1>2. Stands(h)' BY <1>1, StandsOn
<1> QED BY <1>1, <1>2

\* The run at hand is one step longer.
LEMMA StillUnderWay ==
  ASSUME Offered, Inv, Inv', Typed, Typed', Upright, Upright', [Next]_vars, UnderWay,
         Generating, Generating', Kind(Now) # "done", Now' = Succ(call.op, Now),
         call'.op = call.op, call'.root = call.root
  PROVE  UnderWay'
<1>1. PICK h, m, R : /\ Stands(h) /\ call.root \in DOMAIN h /\ Run(call.op, m, R)
                     /\ R[1] = Begin(call.op, h, call.root) /\ R[m] = Now
  BY DEF UnderWay
<1>2. Sane(Now') BY NextSane DEF Generating
<1>3. \E Q : Run(call.op, m + 1, Q) /\ Q[1] = R[1] /\ Q[m + 1] = Now' BY <1>1, <1>2, RunGoesOn
<1>4. Stands(h)' BY <1>1, StandsOn
<1> QED BY <1>1, <1>3, <1>4 DEF UnderWay

LEMMA StepTold ==
  ASSUME Offered, Inv, Inv', Typed, Typed', Upright, Upright', [Next]_vars, Told
  PROVE  Told'
<1>1. CASE UNCHANGED vars BY <1>1 DEF vars, Told, Remembered, UnderWay, Generating, Now, Stands
<1>2. CASE Rewriting BY <1>2, NoneRewritten, OfferedNot
<1>3. CASE Calls
  <2>1. /\ call'.phase # "idle" /\ call'.owned = Len(heap)
        /\ call'.root \in DOMAIN heap /\ written' = written
        /\ Len(heap) <= Len(heap') /\ \A n \in DOMAIN heap : heap'[n] = heap[n]
        /\ Generating' => Now' = Begin(call'.op, heap, call'.root)
    BY <1>3, CallStarts
  <2>2. Remembered' BY <2>1, StillRemembered DEF Told
  <2>3. UnderWay'
    <3> SUFFICES ASSUME Generating'
                 PROVE  \E h, m, R : /\ Stands(h)' /\ call'.root \in DOMAIN h /\ Run(call'.op, m, R)
                                     /\ R[1] = Begin(call'.op, h, call'.root) /\ R[m] = Now'
      BY DEF UnderWay
    <3>1. PICK h : h = heap OBVIOUS
    <3>4. Stands(h)'
      <4>1. IsHeap(h) /\ ParentsWithin(h) /\ Len(h) \in Nat
        BY <3>1 DEF Inv, HeapInv, Typed, IsHeap
      <4>2. Len(h) <= Len(heap') /\ (\A n \in DOMAIN h : heap'[n] = h[n]) /\ Len(h) <= call'.owned
        BY <2>1, <3>1, <4>1
      <4> QED BY <4>1, <4>2 DEF Stands
    <3>2. Sane(Now') BY <2>1, NextSane
    <3>3. \E m, R : Run(call'.op, m, R) /\ R[1] = Now' /\ R[m] = Now' BY <3>2, RunStarts
    <3>5. call'.root \in DOMAIN h /\ Now' = Begin(call'.op, h, call'.root) BY <2>1, <3>1
    <3> QED BY <3>3, <3>4, <3>5
  <2> QED BY <2>2, <2>3 DEF Told
<1>4. CASE Recursion
  <2>1. Kind(Now) # "done" /\ Now' = Succ(call.op, Now) /\ call' = call /\ written' = written
    BY <1>4, RecursionSucc
  <2>2. Remembered' BY <2>1, StillRemembered DEF Told
  <2>3. CASE Generating
    <3>1. Generating' BY <2>1, <2>3 DEF Generating
    <3> QED BY <2>1, <2>2, <2>3, <3>1, StillUnderWay DEF Told
  <2>4. CASE ~ Generating
    <3>1. ~ Generating' BY <2>1, <2>4 DEF Generating
    <3> QED BY <2>2, <3>1 DEF Told, UnderWay
  <2> QED BY <2>3, <2>4
<1>5. CASE Writing /\ ~ GenerateReturns
  <2>1. /\ Generating /\ Generating' /\ Kind(Now) # "done" /\ Now' = Succ(call.op, Now)
        /\ call'.op = call.op /\ call'.root = call.root /\ written' = written
    BY <1>5, WritingSucc
  <2>2. Remembered' BY <2>1, StillRemembered DEF Told
  <2> QED BY <2>1, <2>2, StillUnderWay DEF Told
<1>6. CASE Returns
  <2>1. /\ written' = written /\ call' = [call EXCEPT !.phase = "idle", !.input = Outcome]
    <3>1. ~ SimplifyReturns /\ ~ NextPass BY OfferedFacts DEF SimplifyReturns, NextPass
    <3> QED BY <1>6, <3>1 DEF Returns, CopyReturns
  <2>2. call'.phase = "idle" BY <2>1 DEF Inv, CallInv
  <2>3. Remembered' BY <2>1, StillRemembered DEF Told
  <2> QED BY <2>2, <2>3 DEF Told, UnderWay, Generating
<1>7. CASE GenerateReturns
  <2> DEFINE k == <<call.root, call.op>>
  <2>1. /\ call.phase = "write" /\ call' = [call EXCEPT !.phase = "idle"]
        /\ written' = IF k \in DOMAIN written THEN written
                      ELSE [p \in DOMAIN written \cup {k} |->
                              IF p \in DOMAIN written THEN written[p] ELSE text]
    BY <1>7 DEF GenerateReturns
  <2>2. call'.phase = "idle" BY <2>1 DEF Inv, CallInv
  <2>3. UnderWay' BY <2>2 DEF UnderWay, Generating
  <2>4. CASE k \in DOMAIN written
    <3>1. Remembered' BY <2>1, <2>4, StillRemembered DEF Told
    <3> QED BY <2>3, <3>1 DEF Told
  <2>5. CASE k \notin DOMAIN written
    <3>1. Generating BY <2>1, OfferedFacts DEF Generating
    <3>2. PICK h, m, R : /\ Stands(h) /\ call.root \in DOMAIN h /\ Run(call.op, m, R)
                         /\ R[1] = Begin(call.op, h, call.root) /\ R[m] = Now
      BY <3>1 DEF Told, UnderWay
    <3>3. Writes(call.op, h, call.root, text)
      <4>1. Kind(Now) = "done" /\ Now.text = text BY <1>7, ReturnsDone, NowParts
      <4> QED BY <3>2, <4>1 DEF Writes
    <3>4. \A g : Stands(g) => Stands(g)' BY StandsOn
    <3>5. ASSUME NEW p \in DOMAIN written'
          PROVE  \E g : Stands(g)' /\ p[1] \in DOMAIN g /\ Writes(p[2], g, p[1], written'[p])
      <4>1. CASE p \in DOMAIN written
        <5>1. written'[p] = written[p] BY <2>1, <2>5, <4>1
        <5>2. PICK g : Stands(g) /\ p[1] \in DOMAIN g /\ Writes(p[2], g, p[1], written[p])
          BY <4>1 DEF Told, Remembered
        <5> QED BY <5>1, <5>2, <3>4
      <4>2. CASE p \notin DOMAIN written
        <5>1. p = k /\ written'[p] = text BY <2>1, <2>5, <3>5, <4>2
        <5>2. p[1] = call.root /\ p[2] = call.op BY <5>1
        <5> QED BY <5>1, <5>2, <3>2, <3>3, <3>4
      <4> QED BY <4>1, <4>2
    <3> QED BY <2>3, <3>5 DEF Told, Remembered
  <2> QED BY <2>4, <2>5
<1> QED BY <1>1, <1>2, <1>3, <1>4, <1>5, <1>6, <1>7 DEF Next, Writing

\* Two runs over the same nodes, in the same dialect, write the same.
LEMMA WritesOnce ==
  ASSUME NEW op, NEW h, IsHeap(h), ParentsWithin(h), NEW g, IsHeap(g), Len(h) <= Len(g),
         \A n \in DOMAIN h : g[n] = h[n], NEW r \in DOMAIN h,
         NEW t, Writes(op, h, r, t), NEW u, Writes(op, g, r, u)
  PROVE  t = u
<1>1. PICK m, R : Run(op, m, R) /\ R[1] = Begin(op, h, r) /\ Kind(R[m]) = "done" /\ R[m].text = t
  BY DEF Writes
<1>2. PICK k, Q : Run(op, k, Q) /\ Q[1] = Begin(op, g, r) /\ Kind(Q[k]) = "done" /\ Q[k].text = u
  BY DEF Writes
<1>3. Len(h) \in Nat /\ Len(g) - Len(h) \in Nat BY DEF IsHeap
<1>4. Same(Len(h), Len(g) - Len(h), R[1], Q[1]) BY <1>1, <1>2, BeginSame
<1> QED BY <1>1, <1>2, <1>3, <1>4, RunsEnd

LEMMA StepRepeats ==
  ASSUME Offered, Inv, Typed, Told, [Next]_vars
  PROVE  call.phase = "write" /\ call'.phase = "idle" /\ <<call.root, call.op>> \in DOMAIN written
           => text = written[<<call.root, call.op>>]
<1> SUFFICES ASSUME call.phase = "write", call'.phase = "idle",
                    <<call.root, call.op>> \in DOMAIN written
             PROVE  text = written[<<call.root, call.op>>]
  OBVIOUS
<1>1. GenerateReturns
  <2>1. ~ UNCHANGED vars BY DEF vars
  <2>2. ~ Calls BY DEF Calls, CallCopy, CallTSQL, CallSimplify, CallGenerate, Copies, Makes
  <2>3. ~ Rewriting BY NoneRewritten, OfferedNot
  <2>4. ~ Recursion /\ ~ Returns
    BY DEF Recursion, Returns, SkipChild, EnterChild, LeaveChild, CopyReturns, SimplifyReturns,
           NextPass, Finished, Copying
  <2>5. ~ CopyForTSQL /\ ~ PassAbsent /\ ~ EnsureBools /\ ~ BoolsDone /\ ~ WriteNode
    BY DEF CopyForTSQL, PassAbsent, EnsureBools, BoolsDone, WriteNode, Finished, Copying
  <2> QED BY <2>1, <2>2, <2>3, <2>4, <2>5 DEF Next, Writing
<1>2. PICK g, m, R : /\ Stands(g) /\ call.root \in DOMAIN g /\ Run(call.op, m, R)
                     /\ R[1] = Begin(call.op, g, call.root) /\ R[m] = Now
  <2>1. Generating BY OfferedFacts DEF Generating
  <2> QED BY <2>1 DEF Told, UnderWay
<1>3. Writes(call.op, g, call.root, text)
  <2>1. Kind(Now) = "done" /\ Now.text = text BY <1>1, ReturnsDone, NowParts
  <2> QED BY <1>2, <2>1 DEF Writes
<1> DEFINE p == <<call.root, call.op>>
<1>4. PICK h : Stands(h) /\ p[1] \in DOMAIN h /\ Writes(p[2], h, p[1], written[p])
  BY DEF Told, Remembered
<1>5. /\ IsHeap(h) /\ ParentsWithin(h) /\ call.root \in DOMAIN h
      /\ Writes(call.op, h, call.root, written[p])
  BY <1>4 DEF Stands
<1>6. IsHeap(g) /\ ParentsWithin(g) BY <1>2 DEF Stands
<1> HIDE DEF p
<1>7. Len(h) \in Nat /\ DOMAIN h = 1..Len(h) /\ Len(g) \in Nat /\ DOMAIN g = 1..Len(g)
  BY <1>5, <1>6 DEF IsHeap
<1>8. \A n \in DOMAIN h : n \in DOMAIN g => g[n] = h[n] BY <1>2, <1>4 DEF Stands
<1>9. CASE Len(h) <= Len(g)
  <2>1. \A n \in DOMAIN h : g[n] = h[n] BY <1>7, <1>8, <1>9
  <2> QED BY <1>3, <1>5, <1>6, <1>9, <2>1, WritesOnce DEF p
<1>10. CASE Len(g) <= Len(h)
  <2>1. \A n \in DOMAIN g : h[n] = g[n] BY <1>7, <1>8, <1>10
  <2> QED BY <1>2, <1>3, <1>5, <1>6, <1>10, <2>1, WritesOnce DEF p
<1> QED BY <1>7, <1>9, <1>10

\* Generating one tree in T-SQL, or with no dialect named, a second time writes the
\* same text, whatever was copied and written in between: Generate, generate.go, on
\* the copy ensureBoolsTSQL was given, casts elided and formats respelled, or on the
\* caller's own nodes.
THEOREM WritingRepeats ==
  ASSUME Ops \subseteq {"copy", "tsql", "neutral"}
  PROVE  Spec => WritingIsRepeatable
<1>1. Offered /\ "hive" \notin Ops BY DEF Offered
<1>2. Init => Inv /\ Typed /\ NoCycle /\ Upright /\ Told
  BY InitInv, InitTyped, InitNoCycle, InitUpright, InitTold
<1>3. Inv /\ Typed /\ NoCycle /\ Upright /\ Told /\ [Next]_vars
        => (Inv /\ Typed /\ NoCycle /\ Upright /\ Told)'
  <2> SUFFICES ASSUME Inv, Typed, NoCycle, Upright, Told, [Next]_vars
               PROVE  (Inv /\ Typed /\ NoCycle /\ Upright /\ Told)'
    OBVIOUS
  <2>1. Inv' BY <1>1, StepInv
  <2>2. Typed' BY <1>1, <2>1, StepTyped
  <2>3. NoCycle' BY <1>1, <2>1, StepNoCycle
  <2>4. Upright' BY <1>1, StepUpright
  <2>5. Told' BY <1>1, <2>1, <2>2, <2>4, StepTold
  <2> QED BY <2>1, <2>2, <2>3, <2>4, <2>5
<1>4. ASSUME Inv, Typed, Told, [Next]_vars
      PROVE  call.phase = "write" /\ call'.phase = "idle" /\ <<call.root, call.op>> \in DOMAIN written
               => text = written[<<call.root, call.op>>]
  BY <1>1, <1>4, StepRepeats
<1>5. ASSUME Inv, Typed, Told, [Next]_vars
      PROVE  call.phase = "write" /\ call'.phase = "idle" /\ Rewritten = {}
             /\ <<call.root, call.op>> \in DOMAIN written
               => text = written[<<call.root, call.op>>]
  BY <1>4, <1>5
<1> QED BY <1>2, <1>3, <1>5, PTL DEF Spec, WritingIsRepeatable
=============================================================================
