-------------------------- MODULE ExprTree_proofs --------------------------
(***************************************************************************)
(* What a call may do to the nodes that were there before it, and what     *)
(* Copy returns, for every tree a parser may have built and any number of  *)
(* calls, wherever no QUALIFY is rewritten ("hive" \notin Ops: that        *)
(* rewrite does change the nodes it is given).                             *)
(*                                                                         *)
(* Nothing old changes: every node a frame of the recursion copies INTO is *)
(* newer than the call, so Set only ever assigns the arguments of new      *)
(* nodes; and after a deep copy no new node holds an old one, so not even  *)
(* a Parent moves (Inv).                                                   *)
(*                                                                         *)
(* No cycle is closed: a tree starts without one, a new node is held by    *)
(* none, and a node that is still being copied into is held by none either *)
(* until its frame returns (NoCycle).  Only then does each node have a     *)
(* Term.                                                                   *)
(*                                                                         *)
(* A copy is its original: each frame's copy is like its original in the   *)
(* slots that are done, and absent in the others, and each frame copies    *)
(* the child the frame below it is at (Twinned).  And it is a tree: the    *)
(* nodes finished so far hold each other only, once each (Built).          *)
(*                                                                         *)
(* What Simplify returns is a tree as well, though it is not all new: the  *)
(* amount of an INTERVAL is the node it was.  So the nodes a pass has      *)
(* finished are sound along with those amounts, which only intervals hold  *)
(* (Amounts), and a pass comes to a node once, from the node that holds it *)
(* (Pass).  Between calls the nodes below the trees a caller knows are of  *)
(* that kind, but for Parents that may point elsewhere (Live).             *)
(***************************************************************************)
EXTENDS ExprTree, WellFoundedInduction, TLAPS

\* g is h with new nodes: those of h keep their class, name and children.
Grown(h, g) ==
  /\ Len(g) >= Len(h)
  /\ \A n \in 1..Len(h) :
       g[n].class = h[n].class /\ g[n].name = h[n].name /\ g[n].kids = h[n].kids

LEMMA ParentMoved ==
  ASSUME NEW r \in Nodes, NEW p \in Nat
  PROVE  LET moved == [r EXCEPT !.parent = p] IN
           moved \in Nodes /\ moved.class = r.class /\ moved.name = r.name /\ moved.kids = r.kids
  BY DEF Nodes

LEMMA SlotAssigned ==
  ASSUME NEW s \in Seq(Nat), NEW i, NEW k \in Nat
  PROVE  LET set == [s EXCEPT ![i] = k] IN
           /\ set \in Seq(Nat) /\ Len(set) = Len(s) /\ DOMAIN set = DOMAIN s
           /\ \A j \in DOMAIN s : set[j] = IF j = i THEN k ELSE s[j]
<1> DEFINE set == [s EXCEPT ![i] = k]
<1>1. DOMAIN set = DOMAIN s /\ \A j \in DOMAIN s : set[j] = IF j = i THEN k ELSE s[j]
  OBVIOUS
<1>2. DOMAIN s = 1..Len(s) /\ Len(s) \in Nat /\ \A j \in DOMAIN s : s[j] \in Nat
  OBVIOUS
<1>3. set \in [1..Len(s) -> Nat]
  BY <1>1, <1>2
<1> HIDE DEF set
<1>4. set \in Seq(Nat) /\ Len(set) = Len(s)
  BY <1>2, <1>3
<1> QED BY <1>1, <1>4 DEF set

\* New adds one node, and moves no Parent but those of its children.
LEMMA NewFacts ==
  ASSUME NEW h, IsHeap(h), NEW class \in Classes, NEW name \in Names,
         NEW kids \in Seq(0..Len(h)), class \in Unary => Len(kids) > 0
  PROVE  LET g == New(h, class, name, kids) IN
           /\ IsHeap(g)
           /\ Len(g) = Len(h) + 1
           /\ Grown(h, g)
           /\ g[Len(g)] = [class |-> class, name |-> name, kids |-> kids, parent |-> Nil]
           /\ \A n \in 1..Len(h) : n \notin Range(kids) => g[n] = h[n]
<1> DEFINE old == [n \in DOMAIN h |->
                     IF n \in Range(kids) THEN [h[n] EXCEPT !.parent = Len(h) + 1] ELSE h[n]]
           node == [class |-> class, name |-> name, kids |-> kids, parent |-> Nil]
           g == New(h, class, name, kids)
<1>1. h \in Seq(Nodes) /\ Len(h) \in Nat /\ DOMAIN h = 1..Len(h)
  BY DEF IsHeap
<1>2. ASSUME NEW n \in 1..Len(h)
      PROVE  /\ old[n] \in Nodes
             /\ old[n].class = h[n].class /\ old[n].name = h[n].name /\ old[n].kids = h[n].kids
             /\ n \notin Range(kids) => old[n] = h[n]
  <2>1. h[n] \in Nodes /\ Len(h) + 1 \in Nat BY <1>1
  <2>2. CASE n \in Range(kids)
    <3> DEFINE moved == [h[n] EXCEPT !.parent = Len(h) + 1]
    <3>1. old[n] = moved BY <2>2, <1>1
    <3>2. /\ moved \in Nodes
          /\ moved.class = h[n].class /\ moved.name = h[n].name /\ moved.kids = h[n].kids
      <4> HIDE DEF old, node, g
      <4> QED BY <2>1, ParentMoved
    <3> HIDE DEF old, moved, node, g
    <3> QED BY <2>2, <3>1, <3>2
  <2>3. CASE n \notin Range(kids)
    <3>1. old[n] = h[n] BY <2>3, <1>1
    <3> HIDE DEF old
    <3> QED BY <2>1, <2>3, <3>1
  <2> QED BY <2>2, <2>3
<1>3. old \in Seq(Nodes) /\ Len(old) = Len(h)
  <2>1. old \in [1..Len(h) -> Nodes] BY <1>1, <1>2
  <2> HIDE DEF old
  <2> QED BY <2>1, <1>1
<1>4. node \in Nodes
  <2>1. kids \in Seq(Nat) BY <1>1
  <2> QED BY <2>1 DEF Nodes, Nil
<1>5. g = Append(old, node) BY DEF New
<1>6. /\ g \in Seq(Nodes) /\ Len(g) = Len(h) + 1 /\ g[Len(h) + 1] = node
      /\ \A n \in 1..Len(h) : g[n] = old[n]
  <2> HIDE DEF old, node, g
  <2> QED BY <1>3, <1>4, <1>5, <1>1
<1>7. Grown(h, g)
  <2> HIDE DEF old, node, g
  <2> QED BY <1>1, <1>2, <1>6 DEF Grown
<1>8. IsHeap(g)
  <2>1. ASSUME NEW n \in 1..Len(g), NEW i \in DOMAIN g[n].kids
        PROVE  g[n].kids[i] \in 0..Len(g)
    <3>1. CASE n = Len(h) + 1
      <4>1. g[n].kids = kids BY <3>1, <1>6
      <4>2. kids[i] \in 0..Len(h) BY <4>1
      <4> HIDE DEF g
      <4> QED BY <4>1, <4>2, <1>6, <1>1
    <3>2. CASE n # Len(h) + 1
      <4>1. n \in 1..Len(h) BY <3>2, <1>6, <1>1
      <4>2. g[n].kids = h[n].kids BY <4>1, <1>7 DEF Grown
      <4>3. h[n].kids[i] \in 0..Len(h) BY <4>1, <4>2, <1>1 DEF IsHeap
      <4> HIDE DEF g
      <4> QED BY <4>2, <4>3, <1>6, <1>1
    <3> QED BY <3>1, <3>2
  <2> HIDE DEF g, old, node
  <2> QED BY <2>1, <1>6 DEF IsHeap
<1> HIDE DEF g, old
<1> QED BY <1>1, <1>2, <1>6, <1>7, <1>8 DEF g

\* Set assigns one argument of one node, and the Parent of the child.
LEMMA SetFacts ==
  ASSUME NEW h, IsHeap(h), NEW n \in DOMAIN h, NEW i, NEW k \in 0..Len(h)
  PROVE  LET g == Set(h, n, i, k) IN
           /\ IsHeap(g)
           /\ Len(g) = Len(h)
           /\ \A m \in 1..Len(h) : g[m].class = h[m].class /\ g[m].name = h[m].name
           /\ \A m \in 1..Len(h) : m # n => g[m].kids = h[m].kids
           /\ DOMAIN g[n].kids = DOMAIN h[n].kids
           /\ \A j \in DOMAIN h[n].kids : g[n].kids[j] = IF j = i THEN k ELSE h[n].kids[j]
           /\ \A m \in 1..Len(h) : m # n /\ m # k => g[m] = h[m]
<1> DEFINE set == [h[n].kids EXCEPT ![i] = k]
           slot(m) == IF m = n THEN [h[m] EXCEPT !.kids = set] ELSE h[m]
           g == Set(h, n, i, k)
<1>1. h \in Seq(Nodes) /\ Len(h) \in Nat /\ DOMAIN h = 1..Len(h) /\ k \in Nat
  BY DEF IsHeap
<1>2. h[n].kids \in Seq(Nat)
  <2>1. h[n] \in Nodes BY <1>1
  <2> QED BY <2>1 DEF Nodes
<1>3. /\ set \in Seq(Nat) /\ Len(set) = Len(h[n].kids) /\ DOMAIN set = DOMAIN h[n].kids
      /\ \A j \in DOMAIN set : set[j] = IF j = i THEN k ELSE h[n].kids[j]
  BY <1>1, <1>2, SlotAssigned
<1>4. ASSUME NEW m \in 1..Len(h)
      PROVE  /\ slot(m) \in Nodes
             /\ slot(m).class = h[m].class /\ slot(m).name = h[m].name
             /\ slot(m).kids = IF m = n THEN set ELSE h[m].kids
             /\ m # n => slot(m) = h[m]
  <2>1. h[m] \in Nodes BY <1>1
  <2> HIDE DEF set
  <2> QED BY <2>1, <1>3, <1>2 DEF Nodes
<1>5. ASSUME NEW m \in 1..Len(h)
      PROVE  /\ g[m] = IF m = k THEN [slot(m) EXCEPT !.parent = n] ELSE slot(m)
             /\ DOMAIN g = 1..Len(h)
  BY <1>1 DEF Set
<1>6. ASSUME NEW m \in 1..Len(h)
      PROVE  /\ g[m] \in Nodes
             /\ g[m].class = h[m].class /\ g[m].name = h[m].name
             /\ g[m].kids = IF m = n THEN set ELSE h[m].kids
             /\ m # n /\ m # k => g[m] = h[m]
  <2>1. n \in Nat BY <1>1
  <2> HIDE DEF set, slot, g
  <2> QED BY <1>4, <1>5, <2>1 DEF Nodes
<1>7. g \in Seq(Nodes) /\ Len(g) = Len(h)
  <2>1. g = [m \in 1..Len(h) |-> g[m]] BY <1>1 DEF Set
  <2> HIDE DEF set, slot, g
  <2>2. g \in [1..Len(h) -> Nodes] BY <2>1, <1>6
  <2> QED BY <2>2, <1>1
<1>8. ASSUME NEW m \in DOMAIN g, NEW j \in DOMAIN g[m].kids
      PROVE  g[m].kids[j] \in 0..Len(g)
  <2>1. m \in 1..Len(h) BY <1>7, <1>1
  <2>2. \A q \in DOMAIN h[m].kids : h[m].kids[q] \in 0..Len(h) BY <2>1, <1>1 DEF IsHeap
  <2>3. g[m].kids = IF m = n THEN set ELSE h[m].kids BY <2>1, <1>6
  <2> HIDE DEF set, slot, g
  <2> QED BY <2>1, <2>2, <2>3, <1>3, <1>7
<1>9. IsHeap(g)
  <2> HIDE DEF g
  <2> QED BY <1>7, <1>8 DEF IsHeap
<1>10. DOMAIN g[n].kids = DOMAIN h[n].kids
       /\ \A j \in DOMAIN h[n].kids : g[n].kids[j] = IF j = i THEN k ELSE h[n].kids[j]
  <2>1. g[n].kids = set BY <1>1, <1>6
  <2> HIDE DEF g, set
  <2> QED BY <2>1, <1>3
<1> HIDE DEF set, slot, g
<1> QED BY <1>6, <1>7, <1>9, <1>10 DEF g

LEMMA SetHeap ==
  ASSUME NEW h, IsHeap(h), NEW n \in DOMAIN h, NEW i, NEW k \in 0..Len(h)
  PROVE  IsHeap(Set(h, n, i, k)) /\ Len(Set(h, n, i, k)) = Len(h)
<1> DEFINE g == Set(h, n, i, k)
<1>1. IsHeap(g) /\ Len(g) = Len(h)
  BY SetFacts
<1> QED BY <1>1

\* The names and classes the calls make up.
LEMMA MadeUp ==
  /\ NoName \in Names /\ <<"0", 0>> \in Names /\ <<"yyyy", 0>> \in Names
  /\ "Literal" \in Classes \ Unary /\ "NEQ" \in Classes \ Unary /\ "Cast" \in Classes
  BY WordsAssumption DEF NoName, Names, Unary, Classes

\* A node that is at hand has children that are nodes, and one that is Unary has one.
LEMMA HeapFacts ==
  ASSUME NEW h, IsHeap(h), NEW n \in DOMAIN h
  PROVE  /\ h[n] \in Nodes
         /\ h[n].kids \in Seq(0..Len(h))
         /\ \A i \in DOMAIN h[n].kids : h[n].kids[i] \in 0..Len(h)
         /\ h[n].class \in Unary => This(h, n) \in 0..Len(h) /\ 1 \in DOMAIN h[n].kids
<1>1. h \in Seq(Nodes) /\ h[n] \in Nodes
  BY DEF IsHeap
<1>2. \A i \in DOMAIN h[n].kids : h[n].kids[i] \in 0..Len(h)
  BY DEF IsHeap
<1>3. h[n].kids \in Seq(Nat)
  BY <1>1 DEF Nodes
<1>4. h[n].kids \in Seq(0..Len(h))
  BY <1>2, <1>3
<1>5. h[n].class \in Unary => 1 \in DOMAIN h[n].kids
  BY <1>1, <1>3 DEF Nodes
<1> QED BY <1>1, <1>2, <1>4, <1>5 DEF This

\* What a rule of Simplify leaves is a node of the heap or nothing.
LEMMA SimplifiedType ==
  ASSUME NEW h, IsHeap(h), NEW n \in DOMAIN h, NEW holder
  PROVE  Simplified(h, n, holder) \in 0..Len(h)
<1>1. ASSUME NEW m \in DOMAIN h PROVE m \in 0..Len(h)
  BY DEF IsHeap
<1>2. ASSUME NEW m \in 0..Len(h) PROVE Unparenthesised(h, m, holder) \in 0..Len(h)
  <2>1. CASE ClassOf(h, m) = "Paren"
    <3>1. m \in DOMAIN h /\ h[m].class \in Unary BY <2>1 DEF ClassOf, Unary
    <3>2. This(h, m) \in 0..Len(h) BY <3>1, HeapFacts
    <3> QED BY <3>2, <2>1 DEF Unparenthesised
  <2>2. CASE ClassOf(h, m) # "Paren"
    BY <2>2 DEF Unparenthesised
  <2> QED BY <2>1, <2>2
<1>3. Unnegated(h, n) \in 0..Len(h)
  <2> DEFINE this == This(h, n)
             inner == IF ClassOf(h, this) = "Paren" THEN This(h, this) ELSE this
  <2>1. CASE h[n].class = "Neg" /\ ClassOf(h, inner) = "Neg"
    <3>1. inner \in DOMAIN h /\ h[inner].class \in Unary BY <2>1 DEF ClassOf, Unary
    <3>2. This(h, inner) \in 0..Len(h)
      <4> HIDE DEF inner
      <4> QED BY <3>1, HeapFacts
    <3>3. Unnegated(h, n) = This(h, inner) BY <2>1 DEF Unnegated
    <3> QED BY <3>2, <3>3
  <2>2. CASE ~ (h[n].class = "Neg" /\ ClassOf(h, inner) = "Neg")
    <3>1. Unnegated(h, n) = n BY <2>2 DEF Unnegated
    <3> QED BY <3>1, <1>1
  <2> QED BY <2>1, <2>2
<1>4. Nil \in 0..Len(h)
  BY DEF Nil, IsHeap
<1> QED BY <1>2, <1>3, <1>4 DEF Simplified

LEMMA ShallowFacts ==
  ASSUME NEW h, IsHeap(h), NEW n \in DOMAIN h
  PROVE  LET g == ShallowCopy(h, n) IN
           /\ IsHeap(g) /\ Len(g) = Len(h) + 1 /\ Grown(h, g)
           /\ g[Len(g)].kids = h[n].kids /\ g[Len(g)].class = h[n].class
           /\ \A m \in 1..Len(h) : m \notin Range(h[n].kids) => g[m] = h[m]
<1>1. /\ h[n].class \in Classes /\ h[n].name \in Names /\ h[n].kids \in Seq(0..Len(h))
      /\ h[n].class \in Unary => Len(h[n].kids) > 0
  BY HeapFacts DEF Nodes
<1> DEFINE g == ShallowCopy(h, n)
<1>2. g = New(h, h[n].class, h[n].name, h[n].kids)
  BY DEF ShallowCopy
<1> HIDE DEF g
<1>3. /\ IsHeap(g) /\ Len(g) = Len(h) + 1 /\ Grown(h, g)
      /\ g[Len(g)] = [class |-> h[n].class, name |-> h[n].name, kids |-> h[n].kids, parent |-> Nil]
      /\ \A m \in 1..Len(h) : m \notin Range(h[n].kids) => g[m] = h[m]
  BY <1>1, <1>2, NewFacts
<1> QED BY <1>3 DEF g

LEMMA BlankFacts ==
  ASSUME NEW h, IsHeap(h), NEW n \in DOMAIN h
  PROVE  LET g == Blank(h, n) IN
           /\ IsHeap(g) /\ Len(g) = Len(h) + 1 /\ Grown(h, g)
           /\ \A i \in DOMAIN g[Len(g)].kids : g[Len(g)].kids[i] = Nil
           /\ \A m \in 1..Len(h) : g[m] = h[m]
<1> DEFINE kids == [i \in DOMAIN h[n].kids |-> Nil]
           g == Blank(h, n)
<1>1. h[n] \in Nodes /\ h[n].kids \in Seq(0..Len(h)) /\ Len(h) \in Nat
  BY HeapFacts DEF IsHeap
<1>2. DOMAIN h[n].kids = 1..Len(h[n].kids) /\ Len(h[n].kids) \in Nat
  BY <1>1
<1>3. kids \in Seq(0..Len(h)) /\ Len(kids) = Len(h[n].kids)
  BY <1>1, <1>2 DEF Nil
<1>4. \A m \in 1..Len(h) : m \notin Range(kids)
  BY DEF Range, Nil
<1>5. g = New(h, h[n].class, h[n].name, kids)
  BY DEF Blank
<1>6. h[n].class \in Classes /\ h[n].name \in Names /\ (h[n].class \in Unary => Len(kids) > 0)
  BY <1>1, <1>3 DEF Nodes
<1>7. \A i \in DOMAIN kids : kids[i] = Nil
  OBVIOUS
<1> HIDE DEF g, kids
<1>8. /\ IsHeap(g) /\ Len(g) = Len(h) + 1 /\ Grown(h, g)
      /\ g[Len(g)] = [class |-> h[n].class, name |-> h[n].name, kids |-> kids, parent |-> Nil]
      /\ \A m \in 1..Len(h) : m \notin Range(kids) => g[m] = h[m]
  BY <1>3, <1>5, <1>6, NewFacts
<1> QED BY <1>4, <1>7, <1>8 DEF g

-----------------------------------------------------------------------------
\* No node newer than the first o holds one of them.
Apart(h, o) ==
  \A m \in DOMAIN h : m > o => \A i \in DOMAIN h[m].kids : h[m].kids[i] \notin 1..o

\* The first o nodes are what they were, but for their Parents; or altogether.
SameArguments(h, g, o) ==
  \A n \in 1..o : /\ n \in DOMAIN g
                 /\ g[n].class = h[n].class /\ g[n].name = h[n].name /\ g[n].kids = h[n].kids
SameNodes(h, g, o) == \A n \in 1..o : n \in DOMAIN g /\ g[n] = h[n]

LEMMA GrownSame ==
  ASSUME NEW h, IsHeap(h), NEW g, IsHeap(g), Grown(h, g), NEW o \in 0..Len(h)
  PROVE  SameArguments(h, g, o)
  BY DEF Grown, SameArguments, IsHeap

\* A node added over none of the first o nodes leaves them as they were.
LEMMA NewApart ==
  ASSUME NEW h, IsHeap(h), NEW class \in Classes, NEW name \in Names,
         NEW kids \in Seq(0..Len(h)), class \in Unary => Len(kids) > 0,
         NEW o \in 0..Len(h), Apart(h, o), \A i \in DOMAIN kids : kids[i] \notin 1..o
  PROVE  LET g == New(h, class, name, kids) IN Apart(g, o) /\ SameNodes(h, g, o)
<1> DEFINE g == New(h, class, name, kids)
<1>1. /\ IsHeap(g) /\ Len(g) = Len(h) + 1 /\ Grown(h, g)
      /\ g[Len(g)] = [class |-> class, name |-> name, kids |-> kids, parent |-> Nil]
      /\ \A n \in 1..Len(h) : n \notin Range(kids) => g[n] = h[n]
  BY NewFacts
<1> HIDE DEF g
<1>2. Len(h) \in Nat /\ DOMAIN h = 1..Len(h) /\ DOMAIN g = 1..Len(g) /\ o \in Nat /\ o <= Len(h)
  BY <1>1 DEF IsHeap
<1>3. \A n \in 1..o : n \notin Range(kids)
  BY DEF Range
<1>4. SameNodes(h, g, o)
  BY <1>1, <1>2, <1>3 DEF SameNodes
<1>5. ASSUME NEW m \in DOMAIN g, m > o, NEW i \in DOMAIN g[m].kids
      PROVE  g[m].kids[i] \notin 1..o
  <2>1. CASE m = Len(g)
    <3>1. g[m].kids = kids BY <1>1, <2>1
    <3> QED BY <3>1
  <2>2. CASE m # Len(g)
    <3>1. m \in DOMAIN h /\ g[m].kids = h[m].kids BY <1>1, <1>2, <2>2 DEF Grown
    <3> QED BY <3>1, <1>5 DEF Apart
  <2> QED BY <2>1, <2>2
<1>6. Apart(g, o)
  BY <1>5 DEF Apart
<1> QED BY <1>4, <1>6 DEF g

\* So does assigning an argument of a new node, when the child is new as well.
LEMMA SetApart ==
  ASSUME NEW h, IsHeap(h), NEW n \in DOMAIN h, NEW i, NEW k \in 0..Len(h),
         NEW o \in 0..Len(h), n > o
  PROVE  LET g == Set(h, n, i, k) IN
           /\ SameArguments(h, g, o)
           /\ Apart(h, o) /\ k \notin 1..o => Apart(g, o) /\ SameNodes(h, g, o)
<1> DEFINE g == Set(h, n, i, k)
<1>1. /\ IsHeap(g) /\ Len(g) = Len(h)
      /\ \A m \in 1..Len(h) : g[m].class = h[m].class /\ g[m].name = h[m].name
      /\ \A m \in 1..Len(h) : m # n => g[m].kids = h[m].kids
      /\ DOMAIN g[n].kids = DOMAIN h[n].kids
      /\ \A j \in DOMAIN h[n].kids : g[n].kids[j] = IF j = i THEN k ELSE h[n].kids[j]
      /\ \A m \in 1..Len(h) : m # n /\ m # k => g[m] = h[m]
  BY SetFacts
<1> HIDE DEF g
<1>2. Len(h) \in Nat /\ DOMAIN h = 1..Len(h) /\ DOMAIN g = 1..Len(h) /\ o \in Nat /\ o <= Len(h)
  BY <1>1 DEF IsHeap
<1>3. SameArguments(h, g, o)
  BY <1>1, <1>2 DEF SameArguments
<1>4. ASSUME Apart(h, o), k \notin 1..o
      PROVE  Apart(g, o) /\ SameNodes(h, g, o)
  <2>1. SameNodes(h, g, o)
    BY <1>1, <1>2, <1>4 DEF SameNodes
  <2>2. ASSUME NEW m \in DOMAIN g, m > o, NEW j \in DOMAIN g[m].kids
        PROVE  g[m].kids[j] \notin 1..o
    <3>1. \A q \in DOMAIN h[m].kids : h[m].kids[q] \notin 1..o
      BY <2>2, <1>2, <1>4 DEF Apart
    <3>2. CASE m = n BY <3>1, <3>2, <1>1, <1>4
    <3>3. CASE m # n BY <3>1, <3>3, <1>1, <1>2
    <3> QED BY <3>2, <3>3
  <2> QED BY <2>1, <2>2 DEF Apart
<1> QED BY <1>3, <1>4 DEF g

LEMMA Chain ==
  ASSUME NEW h, NEW f, NEW g, NEW o \in Nat,
         SameArguments(h, f, o), SameArguments(f, g, o)
  PROVE  SameArguments(h, g, o) /\ (SameNodes(h, f, o) /\ SameNodes(f, g, o) => SameNodes(h, g, o))
  BY DEF SameArguments, SameNodes

\* ensureBoolAt at a node newer than the first o.
LEMMA ComparedFacts ==
  ASSUME NEW h, IsHeap(h), NEW n \in DOMAIN h, NEW i, NEW o \in 0..Len(h), n > o, Apart(h, o)
  PROVE  LET g == Compared(h, n, i) IN
           /\ IsHeap(g) /\ Len(g) >= Len(h)
           /\ SameArguments(h, g, o) /\ SameNodes(h, g, o) /\ Apart(g, o)
<1>1. Len(h) \in Nat /\ DOMAIN h = 1..Len(h) /\ o \in Nat /\ o <= Len(h)
  BY DEF IsHeap
<1>2. CASE IsBare(h, n, i)
  <2> DEFINE zero == New(h, "Literal", <<"0", 0>>, <<>>)
             kids == <<h[n].kids[i], Len(zero)>>
             neq == New(zero, "NEQ", NoName, kids)
  <2>1. Compared(h, n, i) = Set(neq, n, i, Len(neq))
    BY <1>2 DEF Compared
  <2>2. /\ IsHeap(zero) /\ Len(zero) = Len(h) + 1 /\ Grown(h, zero)
        /\ SameArguments(h, zero, o)
        /\ Apart(zero, o) /\ SameNodes(h, zero, o)
    <3>1. <<"0", 0>> \in Names /\ "Literal" \in Classes /\ "Literal" \notin Unary
      BY MadeUp
    <3>2. <<>> \in Seq(0..Len(h)) /\ \A j \in DOMAIN <<>> : <<>>[j] \notin 1..o
      OBVIOUS
    <3>3. IsHeap(zero) /\ Len(zero) = Len(h) + 1 /\ Grown(h, zero)
      BY <3>1, <3>2, NewFacts
    <3>4. Apart(zero, o) /\ SameNodes(h, zero, o)
      BY <3>1, <3>2, NewApart
    <3> HIDE DEF zero
    <3>5. SameArguments(h, zero, o)
      BY <3>3, GrownSame
    <3> QED BY <3>3, <3>4, <3>5
  <2>3. h[n].kids[i] \in 0..Len(h) /\ h[n].kids[i] \notin 1..o
    <3>1. i \in DOMAIN h[n].kids BY <1>2 DEF IsBare
    <3> QED BY <3>1, HeapFacts DEF Apart
  <2> HIDE DEF zero
  <2>4. kids \in Seq(0..Len(zero)) /\ \A j \in DOMAIN kids : kids[j] \notin 1..o
    <3>1. h[n].kids[i] \in 0..Len(zero) /\ Len(zero) \in 0..Len(zero) /\ Len(zero) \notin 1..o
      BY <2>2, <2>3, <1>1
    <3> QED BY <3>1, <2>3
  <2>5. /\ IsHeap(neq) /\ Len(neq) = Len(h) + 2
        /\ SameArguments(h, neq, o)
        /\ Apart(neq, o) /\ SameNodes(h, neq, o)
    <3>1. NoName \in Names /\ "NEQ" \in Classes /\ "NEQ" \notin Unary /\ o \in 0..Len(zero)
      BY <2>2, <1>1, MadeUp
    <3> HIDE DEF kids
    <3>2. IsHeap(neq) /\ Len(neq) = Len(zero) + 1 /\ Grown(zero, neq)
      BY <3>1, <2>2, <2>4, NewFacts
    <3>3. Apart(neq, o) /\ SameNodes(zero, neq, o)
      BY <3>1, <2>2, <2>4, NewApart
    <3> HIDE DEF neq
    <3>4. SameArguments(zero, neq, o)
      BY <3>1, <3>2, <2>2, GrownSame
    <3> QED BY <3>2, <3>3, <3>4, <2>2, <1>1, Chain
  <2> HIDE DEF neq
  <2>6. n \in DOMAIN neq /\ Len(neq) \in 0..Len(neq) /\ Len(neq) \notin 1..o /\ o \in 0..Len(neq)
    BY <2>5, <1>1 DEF IsHeap
  <2> DEFINE g == Set(neq, n, i, Len(neq))
  <2>7. IsHeap(g) /\ Len(g) = Len(neq)
    BY <2>5, <2>6, SetHeap
  <2>8. SameArguments(neq, g, o) /\ Apart(g, o) /\ SameNodes(neq, g, o)
    BY <2>5, <2>6, SetApart
  <2> HIDE DEF g
  <2>9. SameArguments(h, g, o) /\ SameNodes(h, g, o)
    BY <2>5, <2>8, <1>1, Chain
  <2> QED BY <2>1, <2>5, <2>7, <2>8, <2>9, <1>1 DEF g
<1>3. CASE ~ (IsBare(h, n, i))
  <2>1. Compared(h, n, i) = h
    BY <1>3 DEF Compared
  <2> QED BY <2>1, <1>1 DEF SameArguments, SameNodes
<1> QED BY <1>2, <1>3

\* The node about to be written, made ready: nothing of the first o nodes but a
\* Parent moves, and not even that where the node and all after it are apart.
LEMMA PreparedFacts ==
  ASSUME NEW h, IsHeap(h), NEW n \in DOMAIN h, NEW o \in 0..Len(h)
  PROVE  LET g == Prepared(h, n) IN
           /\ IsHeap(g) /\ Len(g) >= Len(h)
           /\ WrittenNode(h, n) \in DOMAIN g
           /\ SameArguments(h, g, o)
           /\ call.op = "tsql" /\ n > o /\ Apart(h, o) =>
                Apart(g, o) /\ SameNodes(h, g, o) /\ WrittenNode(h, n) > o
<1> DEFINE out == ShallowCopy(h, n)
<1>1. Len(h) \in Nat /\ DOMAIN h = 1..Len(h) /\ o \in Nat /\ o <= Len(h)
  BY DEF IsHeap
<1>2. /\ IsHeap(out) /\ Len(out) = Len(h) + 1 /\ Grown(h, out)
      /\ SameArguments(h, out, o)
      /\ n > o /\ Apart(h, o) => Apart(out, o) /\ SameNodes(h, out, o)
  <2>1. IsHeap(out) /\ Len(out) = Len(h) + 1 /\ Grown(h, out)
    BY ShallowFacts
  <2>2. ASSUME n > o, Apart(h, o) PROVE Apart(out, o) /\ SameNodes(h, out, o)
    <3>1. /\ h[n].class \in Classes /\ h[n].name \in Names /\ h[n].kids \in Seq(0..Len(h))
          /\ h[n].class \in Unary => Len(h[n].kids) > 0
      BY HeapFacts DEF Nodes
    <3>2. \A i \in DOMAIN h[n].kids : h[n].kids[i] \notin 1..o
      BY <2>2 DEF Apart
    <3> QED BY <3>1, <3>2, <2>2, NewApart DEF ShallowCopy
  <2> HIDE DEF out
  <2> QED BY <2>1, <2>2, GrownSame
<1> HIDE DEF out
<1>3. Len(out) \in DOMAIN out /\ Len(out) > o /\ o \in 0..Len(out)
  BY <1>1, <1>2 DEF IsHeap
<1>4. CASE ElidesCast(h, n)
  <2> DEFINE cast == This(h, n)
             g == Set(out, Len(out), 1, This(h, cast))
  <2>1. Prepared(h, n) = g /\ WrittenNode(h, n) = Len(h) + 1
    BY <1>4 DEF Prepared, WrittenNode, out
  <2>2. cast \in DOMAIN h /\ h[cast].class \in Unary /\ h[n].class \in Unary
    BY <1>4 DEF ElidesCast, ClassOf, Unary
  <2>3. This(h, cast) \in 0..Len(h) /\ 1 \in DOMAIN h[cast].kids /\ 1 \in DOMAIN h[n].kids
    <3> HIDE DEF cast
    <3> QED BY <2>2, HeapFacts
  <2>4. ASSUME n > o, Apart(h, o) PROVE This(h, cast) \notin 1..o
    <3>1. cast \notin 1..o BY <2>3, <2>4 DEF Apart, This
    <3>2. cast > o BY <3>1, <2>2, <1>1
    <3> HIDE DEF cast
    <3> QED BY <3>2, <2>2, <2>3, <2>4 DEF Apart, This
  <2>5. This(h, cast) \in 0..Len(out)
    BY <2>3, <1>1, <1>2
  <2> HIDE DEF cast
  <2>6. IsHeap(g) /\ Len(g) = Len(out)
    BY <2>5, <1>2, <1>3, SetHeap
  <2>7. /\ SameArguments(out, g, o)
        /\ Apart(out, o) /\ This(h, cast) \notin 1..o => Apart(g, o) /\ SameNodes(out, g, o)
    BY <2>5, <1>2, <1>3, SetApart
  <2> HIDE DEF g
  <2>8. /\ SameArguments(h, g, o)
        /\ SameNodes(h, out, o) /\ SameNodes(out, g, o) => SameNodes(h, g, o)
    BY <1>1, <1>2, <2>7, Chain
  <2>9. Len(g) = Len(h) + 1 /\ Len(h) + 1 \in DOMAIN g /\ Len(h) + 1 > o
    BY <2>6, <1>2, <1>1 DEF IsHeap
  <2> QED BY <2>1, <2>4, <2>6, <2>7, <2>8, <2>9, <1>1, <1>2
<1>5. CASE ~ ElidesCast(h, n) /\ AddsCast(h, n)
  <2> DEFINE kids == <<This(h, n)>>
             cast == New(out, "Cast", NoName, kids)
             g == Set(cast, Len(out), 1, Len(cast))
  <2>1. Prepared(h, n) = g /\ WrittenNode(h, n) = Len(h) + 1 /\ call.op # "tsql"
    BY <1>5 DEF Prepared, WrittenNode, AddsCast, out
  <2>2. h[n].class \in Unary
    BY <1>5 DEF AddsCast, Unary
  <2>3. This(h, n) \in 0..Len(out)
    BY <2>2, HeapFacts, <1>1, <1>2
  <2>4. IsHeap(cast) /\ Len(cast) = Len(out) + 1 /\ Grown(out, cast)
    <3>1. kids \in Seq(0..Len(out)) /\ Len(kids) > 0 /\ NoName \in Names /\ "Cast" \in Classes
      BY <2>3, MadeUp
    <3> HIDE DEF kids
    <3> QED BY <3>1, <1>2, NewFacts
  <2> HIDE DEF cast
  <2>5. Len(out) \in DOMAIN cast /\ Len(cast) \in 0..Len(cast) /\ o \in 0..Len(cast)
    BY <2>4, <1>1, <1>2, <1>3 DEF IsHeap
  <2>6. IsHeap(g) /\ Len(g) = Len(cast)
    BY <2>4, <2>5, SetHeap
  <2>7. SameArguments(cast, g, o)
    BY <2>4, <2>5, <1>3, SetApart
  <2> HIDE DEF g
  <2>8. SameArguments(out, cast, o)
    BY <2>4, <1>2, <1>3, GrownSame
  <2>9. SameArguments(h, g, o)
    BY <2>7, <2>8, <1>1, <1>2, Chain
  <2>10. Len(g) = Len(h) + 2 /\ Len(h) + 1 \in DOMAIN g
    BY <2>4, <2>6, <1>2, <1>1 DEF IsHeap
  <2> QED BY <2>1, <2>6, <2>9, <2>10, <1>1
<1>6. CASE ~ ElidesCast(h, n) /\ ~ AddsCast(h, n) /\ SpellsFormat(h, n)
  <2> DEFINE spelled == New(out, "Literal", <<"yyyy", 0>>, <<>>)
             g == Set(spelled, Len(out), 2, Len(spelled))
  <2>1. Prepared(h, n) = g /\ WrittenNode(h, n) = Len(h) + 1
    BY <1>6 DEF Prepared, WrittenNode, out
  <2>2. /\ IsHeap(spelled) /\ Len(spelled) = Len(out) + 1 /\ Grown(out, spelled)
        /\ Apart(out, o) => Apart(spelled, o) /\ SameNodes(out, spelled, o)
    <3>1. PICK class, name, kids : class = "Literal" /\ name = <<"yyyy", 0>> /\ kids = <<>> OBVIOUS
    <3>2. /\ kids \in Seq(0..Len(out)) /\ (class \in Unary => Len(kids) > 0)
          /\ \A i \in DOMAIN kids : kids[i] \notin 1..o
      BY <3>1 DEF Unary
    <3>3. class \in Classes /\ name \in Names BY <3>1, MadeUp
    <3>4. IsHeap(New(out, class, name, kids)) /\ Len(New(out, class, name, kids)) = Len(out) + 1
          /\ Grown(out, New(out, class, name, kids))
      BY <3>2, <3>3, <1>2, NewFacts
    <3>5. Apart(out, o) => /\ Apart(New(out, class, name, kids), o)
                           /\ SameNodes(out, New(out, class, name, kids), o)
      BY <3>2, <3>3, <1>2, <1>3, NewApart
    <3> QED BY <3>1, <3>4, <3>5
  <2> HIDE DEF spelled
  <2>3. Len(out) \in DOMAIN spelled /\ Len(spelled) \in 0..Len(spelled) /\ o \in 0..Len(spelled)
    BY <2>2, <1>1, <1>2, <1>3 DEF IsHeap
  <2>4. IsHeap(g) /\ Len(g) = Len(spelled) BY <2>2, <2>3, SetHeap
  <2>5. Len(spelled) \notin 1..o BY <2>2, <1>1, <1>2
  <2>6. /\ SameArguments(spelled, g, o)
        /\ Apart(spelled, o) => Apart(g, o) /\ SameNodes(spelled, g, o)
    BY <2>2, <2>3, <2>5, <1>3, SetApart
  <2> HIDE DEF g
  <2>7. SameArguments(out, spelled, o) BY <2>2, <1>2, <1>3, GrownSame
  <2>8. SameArguments(h, spelled, o) /\ SameArguments(h, g, o)
    <3>1. SameArguments(h, spelled, o) BY <2>7, <1>1, <1>2, Chain
    <3> QED BY <3>1, <2>6, <1>1, Chain
  <2>9. ASSUME n > o, Apart(h, o) PROVE Apart(g, o) /\ SameNodes(h, g, o)
    <3>1. SameNodes(h, out, o) /\ SameNodes(out, spelled, o) /\ SameNodes(spelled, g, o)
          /\ Apart(g, o)
      BY <2>2, <2>6, <2>9, <1>2
    <3>2. SameNodes(h, spelled, o) BY <3>1, <2>7, <1>1, <1>2, Chain
    <3>3. SameNodes(h, g, o) BY <3>1, <3>2, <2>6, <2>8, <1>1, Chain
    <3> QED BY <3>1, <3>3
  <2>10. Len(g) = Len(h) + 2 /\ Len(h) + 1 \in DOMAIN g /\ Len(h) + 1 > o
    BY <2>2, <2>4, <1>2, <1>1 DEF IsHeap
  <2> QED BY <2>1, <2>4, <2>8, <2>9, <2>10, <1>1
<1>7. CASE ~ ElidesCast(h, n) /\ ~ AddsCast(h, n) /\ ~ SpellsFormat(h, n)
  <2>1. Prepared(h, n) = h /\ WrittenNode(h, n) = n
    BY <1>7 DEF Prepared, WrittenNode
  <2> QED BY <2>1, <1>1 DEF SameArguments, SameNodes
<1> QED BY <1>4, <1>5, <1>6, <1>7

-----------------------------------------------------------------------------
FramesOver(h) == [from : 1..Len(h), to : 1..Len(h), next : Nat \ {0}]
Phases == {"idle", "copy", "simplify", "bools", "write"}
CopyFirst == call.op \in {"copy", "tsql"} /\ call.phase # "idle"

HeapInv == IsHeap(heap) /\ roots \subseteq 1..Len(heap)

CallInv ==
  /\ call \in [op : Ops \cup {"none"}, phase : Phases, root : Nat,
               owned : 0..Len(heap), input : 0..Len(heap), pass : Nat]
  /\ rewrite = NoRewrite
  /\ call.phase = "copy" => call.op \in {"copy", "tsql"}
  /\ call.phase = "simplify" => call.op = "simplify"
  /\ call.phase = "bools" => call.op = "tsql"
  /\ call.phase = "write" => call.op \notin {"copy", "simplify"}

\* Frames copy into nodes the call has made.
StackInv ==
  /\ stack \in Seq(FramesOver(heap))
  /\ call.phase \in {"copy", "simplify"} => \A i \in DOMAIN stack : stack[i].to > call.owned

TodoInv == todo \in Seq(0..Len(heap))

\* After a deep copy nothing new holds anything old, and nothing old is visited.
ApartInv ==
  CopyFirst =>
    /\ Apart(heap, call.owned)
    /\ call.phase \in {"bools", "write"} => \A i \in DOMAIN todo : todo[i] \notin 1..call.owned
    /\ call.phase = "bools" => call.input \notin 1..call.owned

Inv == HeapInv /\ CallInv /\ StackInv /\ TodoInv /\ ApartInv

\* What a step of a call may change.
Kept ==
  call.phase # "idle" =>
    /\ SameArguments(heap, heap', call.owned)
    /\ CopyFirst => SameNodes(heap, heap', call.owned)

LEMMA Regrown ==
  ASSUME NEW h, NEW g, Len(h) \in Nat, Len(g) \in Nat, Len(h) <= Len(g)
  PROVE  /\ \A s : s \in Seq(FramesOver(h)) => s \in Seq(FramesOver(g))
         /\ \A s : s \in Seq(0..Len(h)) => s \in Seq(0..Len(g))
<1>1. FramesOver(h) \subseteq FramesOver(g)
  <2>1. 1..Len(h) \subseteq 1..Len(g) OBVIOUS
  <2> QED BY <2>1 DEF FramesOver
<1>2. 0..Len(h) \subseteq 0..Len(g)
  OBVIOUS
<1>3. ASSUME NEW S, NEW T, S \subseteq T, NEW s \in Seq(S) PROVE s \in Seq(T)
  BY <1>3
<1> QED BY <1>1, <1>2, <1>3

LEMMA SameHeapKept ==
  ASSUME Inv, heap' = heap
  PROVE  Kept
  BY DEF Inv, HeapInv, CallInv, IsHeap, Kept, SameArguments, SameNodes

LEMMA TopFacts ==
  ASSUME Inv, Copying
  PROVE  /\ Len(stack) \in Nat /\ Len(stack) > 0 /\ Len(stack) \in DOMAIN stack
         /\ Top \in FramesOver(heap) /\ Top.to > call.owned
         /\ Top.from \in DOMAIN heap /\ Top.to \in DOMAIN heap
         /\ Len(heap) \in Nat
<1>1. stack \in Seq(FramesOver(heap)) /\ stack # <<>>
  BY DEF Inv, StackInv, Copying
<1>2. Len(stack) \in Nat /\ Len(stack) > 0 /\ Len(stack) \in DOMAIN stack
  BY <1>1
<1>3. Top \in FramesOver(heap)
  BY <1>1, <1>2 DEF Top
<1>4. Top.to > call.owned
  BY <1>2 DEF Inv, StackInv, Copying, Top
<1>5. DOMAIN heap = 1..Len(heap) /\ Len(heap) \in Nat
  BY DEF Inv, HeapInv, IsHeap
<1> QED BY <1>2, <1>3, <1>4, <1>5 DEF FramesOver

LEMMA OutcomeType ==
  ASSUME Inv, Copying
  PROVE  /\ Outcome \in 0..Len(heap)
         /\ call.phase = "copy" => Outcome = Top.to
<1>1. Top.to \in DOMAIN heap /\ IsHeap(heap) /\ Top.to \in 0..Len(heap)
  BY TopFacts DEF Inv, HeapInv, IsHeap
<1>2. CASE call.phase = "copy"
  BY <1>1, <1>2 DEF Outcome
<1>3. CASE call.phase # "copy"
  BY <1>1, <1>3, SimplifiedType DEF Outcome
<1> QED BY <1>2, <1>3

-----------------------------------------------------------------------------
LEMMA InitInv == Init => Inv
<1> SUFFICES ASSUME Init PROVE Inv
  OBVIOUS
<1>1. IsHeap(heap) /\ Len(heap) > 0 /\ Len(heap) \in Nat
  BY ParsedAssumption DEF Init, IsHeap
<1>2. HeapInv
  BY <1>1 DEF Init, HeapInv
<1>3. CallInv
  BY <1>1 DEF Init, CallInv, Idle, Phases, Nil
<1>4. StackInv /\ TodoInv
  BY DEF Init, StackInv, TodoInv, Idle
<1>5. ApartInv
  BY DEF Init, ApartInv, CopyFirst, Idle
<1> QED BY <1>2, <1>3, <1>4, <1>5 DEF Inv

\* A call that starts by copying its root one level: the new node is the only one
\* newer than the call.
LEMMA CallStep ==
  ASSUME Inv, Calls, "hive" \notin Ops
  PROVE  Inv' /\ Kept
<1>1. call.phase = "idle"
  BY DEF Calls, CallCopy, CallTSQL, CallSimplify, CallGenerate, Copies, Makes
<1>2. Kept
  BY <1>1 DEF Kept
<1>3. /\ IsHeap(heap) /\ Len(heap) \in Nat /\ DOMAIN heap = 1..Len(heap)
      /\ roots \subseteq DOMAIN heap /\ rewrite = NoRewrite
      /\ stack \in Seq(FramesOver(heap)) /\ todo \in Seq(0..Len(heap))
  BY DEF Inv, HeapInv, CallInv, StackInv, TodoInv, IsHeap
<1>4. PICK r \in roots : CallCopy(r) \/ CallTSQL(r) \/ CallSimplify(r) \/ CallGenerate(r)
  BY DEF Calls
<1>5. ASSUME NEW op \in {"copy", "tsql"}, Copies(op, r)
      PROVE  Inv'
  <2>1. /\ IsHeap(heap') /\ Len(heap') = Len(heap) + 1 /\ Grown(heap, heap')
        /\ \A i \in DOMAIN heap'[Len(heap')].kids : heap'[Len(heap')].kids[i] = Nil
    BY <1>3, <1>5, BlankFacts DEF Copies
  <2>2. /\ call' = [op |-> op, phase |-> "copy", root |-> r, owned |-> Len(heap),
                    input |-> r, pass |-> 1]
        /\ stack' = <<Frame(r, Len(heap) + 1)>> /\ todo' = todo
        /\ roots' = roots /\ rewrite' = rewrite /\ op \in Ops /\ r \in roots
    BY <1>5 DEF Copies, Makes
  <2>3. HeapInv'
    BY <1>3, <2>1, <2>2 DEF HeapInv
  <2>4. CallInv'
    BY <1>3, <2>1, <2>2 DEF CallInv, Phases
  <2>5. Frame(r, Len(heap) + 1) \in FramesOver(heap')
    BY <1>3, <2>1, <2>2 DEF Frame, FramesOver
  <2>6. StackInv'
    BY <1>3, <2>1, <2>2, <2>5 DEF StackInv, Frame
  <2>7. TodoInv'
    BY <1>3, <2>1, <2>2, Regrown DEF TodoInv
  <2>8. Apart(heap', Len(heap))
    BY <1>3, <2>1 DEF Apart, Nil, IsHeap
  <2>9. ApartInv'
    BY <2>2, <2>8 DEF ApartInv, CopyFirst
  <2> QED BY <2>3, <2>4, <2>6, <2>7, <2>9 DEF Inv
<1>6. ASSUME CallSimplify(r)
      PROVE  Inv'
  <2>1. IsHeap(heap') /\ Len(heap') = Len(heap) + 1
    BY <1>3, <1>6, ShallowFacts DEF CallSimplify
  <2>2. /\ call' = [op |-> "simplify", phase |-> "simplify", root |-> r, owned |-> Len(heap),
                    input |-> r, pass |-> 1]
        /\ stack' = <<Frame(r, Len(heap) + 1)>> /\ todo' = todo
        /\ roots' = roots /\ rewrite' = rewrite /\ "simplify" \in Ops /\ r \in roots
    BY <1>6 DEF CallSimplify, Makes
  <2>3. HeapInv'
    BY <1>3, <2>1, <2>2 DEF HeapInv
  <2>4. CallInv'
    BY <1>3, <2>1, <2>2 DEF CallInv, Phases
  <2>5. Frame(r, Len(heap) + 1) \in FramesOver(heap')
    BY <1>3, <2>1, <2>2 DEF Frame, FramesOver
  <2>6. StackInv'
    BY <1>3, <2>1, <2>2, <2>5 DEF StackInv, Frame
  <2>7. TodoInv'
    BY <1>3, <2>1, <2>2, Regrown DEF TodoInv
  <2>8. ApartInv'
    BY <2>2 DEF ApartInv, CopyFirst
  <2> QED BY <2>3, <2>4, <2>6, <2>7, <2>8 DEF Inv
<1>7. ASSUME CallGenerate(r)
      PROVE  Inv'
  <2>1. PICK dialect \in Dialects \ {"tsql"} : Makes(dialect, "write", r)
    BY <1>7 DEF CallGenerate
  <2>2. /\ call' = [op |-> dialect, phase |-> "write", root |-> r, owned |-> Len(heap),
                    input |-> r, pass |-> 1]
        /\ stack' = stack /\ todo' = <<r>> /\ heap' = heap
        /\ roots' = roots /\ rewrite' = rewrite /\ dialect \in Ops /\ r \in roots
        /\ dialect \notin {"copy", "simplify", "tsql"}
    BY <1>7, <2>1 DEF CallGenerate, Makes, Dialects
  <2>3. HeapInv'
    BY <1>3, <2>2 DEF HeapInv
  <2>4. CallInv'
    BY <1>3, <2>2 DEF CallInv, Phases
  <2>5. StackInv' /\ TodoInv'
    BY <1>3, <2>2 DEF StackInv, TodoInv
  <2>6. ApartInv'
    BY <2>2 DEF ApartInv, CopyFirst
  <2> QED BY <2>3, <2>4, <2>5, <2>6 DEF Inv
<1> QED BY <1>2, <1>4, <1>5, <1>6, <1>7 DEF CallCopy, CallTSQL

-----------------------------------------------------------------------------
LEMMA AdvancedFacts ==
  ASSUME NEW h, NEW frames \in Seq(FramesOver(h)), Len(frames) > 0
  PROVE  /\ Advanced(frames) \in Seq(FramesOver(h))
         /\ DOMAIN Advanced(frames) = DOMAIN frames
         /\ \A i \in DOMAIN frames : Advanced(frames)[i].to = frames[i].to
<1> DEFINE top == frames[Len(frames)]
           new == [from |-> top.from, to |-> top.to, next |-> top.next + 1]
<1>1. Len(frames) \in Nat /\ DOMAIN frames = 1..Len(frames)
      /\ \A i \in DOMAIN frames : frames[i] \in FramesOver(h)
  OBVIOUS
<1>2. top \in FramesOver(h)
  BY <1>1
<1>3. new \in FramesOver(h) /\ new.to = top.to
  BY <1>2 DEF FramesOver
<1>4. Advanced(frames) = [frames EXCEPT ![Len(frames)] = new]
  BY DEF Advanced
<1> HIDE DEF new
<1>5. DOMAIN Advanced(frames) = DOMAIN frames
      /\ \A i \in DOMAIN frames :
           Advanced(frames)[i] = IF i = Len(frames) THEN new ELSE frames[i]
  BY <1>1, <1>4
<1>6. Advanced(frames) \in [1..Len(frames) -> FramesOver(h)]
  BY <1>1, <1>3, <1>4
<1>7. Advanced(frames) \in Seq(FramesOver(h))
  BY <1>1, <1>6
<1> QED BY <1>3, <1>5, <1>7

LEMMA BelowFacts ==
  ASSUME Inv, Copying, Len(stack) > 1
  PROVE  /\ Below \in Seq(FramesOver(heap)) /\ Len(Below) = Len(stack) - 1
         /\ \A i \in DOMAIN Below : i \in DOMAIN stack /\ Below[i] = stack[i]
<1>1. stack \in Seq(FramesOver(heap)) /\ Len(stack) \in Nat
  BY DEF Inv, StackInv
<1>2. Below \in Seq(FramesOver(heap)) /\ Len(Below) = Len(stack) - 1
      /\ \A i \in 1..(Len(stack) - 1) : Below[i] = stack[i]
  BY <1>1 DEF Below
<1> QED BY <1>1, <1>2

\* An absent child, or one that is passed over: only the frame moves on.
LEMMA SkipStep ==
  ASSUME Inv, SkipChild
  PROVE  Inv' /\ Kept
<1>1. Copying /\ stack' = Advanced(stack)
      /\ UNCHANGED <<heap, roots, call, todo, text, rewrite, written, calls>>
  BY DEF SkipChild
<1>2. /\ stack' \in Seq(FramesOver(heap)) /\ DOMAIN stack' = DOMAIN stack
      /\ \A i \in DOMAIN stack : stack'[i].to = stack[i].to
  BY <1>1, TopFacts, AdvancedFacts DEF Inv, StackInv
<1>3. HeapInv' /\ CallInv' /\ TodoInv' /\ ApartInv'
  BY <1>1 DEF Inv, HeapInv, CallInv, TodoInv, ApartInv, CopyFirst
<1>4. StackInv'
  BY <1>1, <1>2 DEF Inv, StackInv
<1> QED BY <1>1, <1>3, <1>4, SameHeapKept DEF Inv

LEMMA FramePushed ==
  ASSUME NEW S, NEW s \in Seq(S), NEW e \in S
  PROVE  /\ Append(s, e) \in Seq(S) /\ DOMAIN Append(s, e) = 1..(Len(s) + 1)
         /\ Append(s, e)[Len(s) + 1] = e
         /\ \A i \in 1..Len(s) : Append(s, e)[i] = s[i]
OBVIOUS

LEMMA EnterStep ==
  ASSUME Inv, EnterChild
  PROVE  Inv' /\ Kept
<1>1. /\ Copying /\ AtChild /\ ~ PassedOver
      /\ heap' = IF call.phase = "copy" THEN Blank(heap, Child) ELSE ShallowCopy(heap, Child)
      /\ stack' = Append(stack, Frame(Child, Len(heap) + 1))
      /\ UNCHANGED <<roots, call, todo, text, rewrite, written, calls>>
  BY DEF EnterChild
<1>2. /\ IsHeap(heap) /\ Len(heap) \in Nat /\ DOMAIN heap = 1..Len(heap)
      /\ call.owned \in 0..Len(heap) /\ Top \in FramesOver(heap) /\ Top.from \in DOMAIN heap
      /\ stack \in Seq(FramesOver(heap)) /\ todo \in Seq(0..Len(heap))
      /\ call.phase \in {"copy", "simplify"}
  BY <1>1, TopFacts DEF Inv, HeapInv, CallInv, StackInv, TodoInv, IsHeap, Copying
<1>3. Child \in DOMAIN heap
  <2>1. Top.next \in DOMAIN heap[Top.from].kids
    BY <1>1, <1>2, HeapFacts DEF AtChild, FramesOver
  <2>2. Child \in 0..Len(heap)
    BY <1>2, <2>1, HeapFacts DEF Child
  <2>3. Child # Nil
    BY <1>1 DEF PassedOver
  <2> QED BY <1>2, <2>2, <2>3 DEF Nil
<1>4. IsHeap(heap') /\ Len(heap') = Len(heap) + 1 /\ Grown(heap, heap')
  BY <1>1, <1>2, <1>3, BlankFacts, ShallowFacts
<1>5. HeapInv'
  BY <1>1, <1>2, <1>4 DEF Inv, HeapInv
<1>6. CallInv'
  <2>1. 0..Len(heap) \subseteq 0..Len(heap') BY <1>2, <1>4
  <2> QED BY <1>1, <2>1 DEF Inv, CallInv
<1>7. stack \in Seq(FramesOver(heap')) /\ TodoInv'
  <2>1. Len(heap') \in Nat /\ Len(heap) <= Len(heap')
    BY <1>2, <1>4
  <2>2. /\ \A s : s \in Seq(FramesOver(heap)) => s \in Seq(FramesOver(heap'))
        /\ \A s : s \in Seq(0..Len(heap)) => s \in Seq(0..Len(heap'))
    BY <1>2, <2>1, Regrown
  <2> QED BY <1>1, <1>2, <2>2 DEF TodoInv
<1>8. StackInv'
  <2>1. Frame(Child, Len(heap) + 1) \in FramesOver(heap')
    BY <1>2, <1>3, <1>4 DEF Frame, FramesOver
  <2>2. Frame(Child, Len(heap) + 1).to > call.owned
    BY <1>2 DEF Frame
  <2>3. \A i \in DOMAIN stack : stack[i].to > call.owned
    BY <1>2 DEF Inv, StackInv
  <2>4. /\ stack' \in Seq(FramesOver(heap')) /\ DOMAIN stack' = 1..(Len(stack) + 1)
        /\ stack'[Len(stack) + 1] = Frame(Child, Len(heap) + 1)
        /\ \A i \in 1..Len(stack) : stack'[i] = stack[i]
    <3>1. stack' = Append(stack, Frame(Child, Len(heap) + 1))
      BY <1>1
    <3> QED BY <3>1, <1>7, <2>1, FramePushed
  <2>5. \A i \in DOMAIN stack' : stack'[i].to > call.owned
    BY <1>2, <2>2, <2>3, <2>4
  <2> QED BY <1>1, <2>4, <2>5 DEF StackInv
<1>9. ASSUME CopyFirst
      PROVE  SameNodes(heap, heap', call.owned) /\ Apart(heap', call.owned)
  <2>1. call.phase = "copy" /\ Apart(heap, call.owned)
    BY <1>2, <1>9 DEF Inv, CallInv, ApartInv, CopyFirst
  <2>2. /\ \A i \in DOMAIN heap'[Len(heap')].kids : heap'[Len(heap')].kids[i] = Nil
        /\ \A m \in 1..Len(heap) : heap'[m] = heap[m]
    <3>1. heap' = Blank(heap, Child) BY <1>1, <2>1
    <3>2. IsHeap(heap) BY <1>2
    <3> QED BY ONLY <1>3, <3>1, <3>2, BlankFacts
  <2>3. DOMAIN heap' = 1..(Len(heap) + 1)
    BY <1>4 DEF IsHeap
  <2>4. Apart(heap', call.owned)
    <3>1. \A m \in DOMAIN heap' : m \in DOMAIN heap \/ m = Len(heap') BY ONLY <1>2, <1>4, <2>3
    <3>2. \A m \in DOMAIN heap : heap'[m] = heap[m] BY ONLY <1>2, <2>2
    <3>3. Nil \notin 1..call.owned BY <1>2 DEF Nil
    <3> QED BY ONLY <2>1, <2>2, <3>1, <3>2, <3>3 DEF Apart
  <2> QED BY <1>2, <2>2, <2>3, <2>4 DEF SameNodes
<1>10. ApartInv'
  BY <1>1, <1>2, <1>9 DEF ApartInv, CopyFirst
<1>11. Kept
  BY <1>2, <1>4, <1>9, GrownSame DEF Kept
<1> QED BY <1>5, <1>6, <1>7, <1>8, <1>10, <1>11 DEF Inv

LEMMA LeaveStep ==
  ASSUME Inv, LeaveChild
  PROVE  Inv' /\ Kept
<1> DEFINE up == stack[Len(stack) - 1]
<1>1. /\ Copying /\ Len(stack) > 1
      /\ heap' = Set(heap, up.to, up.next, Outcome)
      /\ stack' = Advanced(Below)
      /\ UNCHANGED <<roots, call, todo, text, rewrite, written, calls>>
  BY DEF LeaveChild
<1>2. /\ IsHeap(heap) /\ Len(heap) \in Nat /\ DOMAIN heap = 1..Len(heap)
      /\ call.owned \in 0..Len(heap)
      /\ stack \in Seq(FramesOver(heap)) /\ Len(stack) \in Nat
      /\ call.phase \in {"copy", "simplify"}
      /\ \A i \in DOMAIN stack : stack[i].to > call.owned
  BY <1>1 DEF Inv, HeapInv, CallInv, StackInv, IsHeap, Copying
<1>3. up \in FramesOver(heap) /\ up.to > call.owned
  BY <1>1, <1>2
<1> HIDE DEF up
<1>4. up.to \in DOMAIN heap /\ Outcome \in 0..Len(heap)
  BY <1>1, <1>2, <1>3, OutcomeType DEF FramesOver
<1>5. IsHeap(heap') /\ Len(heap') = Len(heap)
  BY <1>1, <1>2, <1>4, SetHeap
<1>6. /\ SameArguments(heap, heap', call.owned)
      /\ Apart(heap, call.owned) /\ Outcome \notin 1..call.owned =>
           Apart(heap', call.owned) /\ SameNodes(heap, heap', call.owned)
  BY <1>1, <1>2, <1>3, <1>4, SetApart
<1>7. HeapInv' /\ CallInv' /\ TodoInv'
  BY <1>1, <1>5 DEF Inv, HeapInv, CallInv, TodoInv
<1>8. StackInv'
  <2>1. Below \in Seq(FramesOver(heap)) /\ Len(Below) > 0
        /\ \A i \in DOMAIN Below : Below[i].to > call.owned
    BY <1>1, <1>2, BelowFacts
  <2>2. /\ stack' \in Seq(FramesOver(heap)) /\ DOMAIN stack' = DOMAIN Below
        /\ \A i \in DOMAIN Below : stack'[i].to = Below[i].to
    BY <1>1, <2>1, AdvancedFacts
  <2>3. FramesOver(heap') = FramesOver(heap)
    BY <1>5 DEF FramesOver
  <2> QED BY <1>1, <2>1, <2>2, <2>3 DEF StackInv
<1>9. ASSUME CopyFirst
      PROVE  Apart(heap', call.owned) /\ SameNodes(heap, heap', call.owned)
  <2>1. call.phase = "copy" /\ Apart(heap, call.owned)
    BY <1>2, <1>9 DEF Inv, CallInv, ApartInv, CopyFirst
  <2>2. Outcome > call.owned
    BY <1>1, <2>1, OutcomeType, TopFacts
  <2> QED BY <1>2, <1>4, <1>6, <2>1, <2>2
<1>10. ApartInv'
  BY <1>1, <1>2, <1>9 DEF ApartInv, CopyFirst
<1>11. Kept
  BY <1>6, <1>9 DEF Kept
<1> QED BY <1>7, <1>8, <1>10, <1>11 DEF Inv

-----------------------------------------------------------------------------
LEMMA CopyReturnsStep ==
  ASSUME Inv, CopyReturns
  PROVE  Inv' /\ Kept
<1>1. /\ Copying /\ call.op = "copy" /\ heap' = heap /\ todo' = todo /\ rewrite' = rewrite
      /\ roots' = roots \cup {Outcome} /\ stack' = <<>>
      /\ call' = [call EXCEPT !.phase = "idle", !.input = Outcome]
  BY DEF CopyReturns, Finished
<1>2. call.phase = "copy"
  BY <1>1 DEF Inv, CallInv, Copying
<1>3. Outcome \in 1..Len(heap) /\ Outcome \in 0..Len(heap)
  BY <1>1, <1>2, OutcomeType, TopFacts DEF FramesOver
<1>4. HeapInv' /\ TodoInv' /\ StackInv'
  BY <1>1, <1>3 DEF Inv, HeapInv, TodoInv, StackInv
<1>5. CallInv' /\ call'.phase = "idle"
  BY <1>1, <1>3 DEF Inv, CallInv, Phases
<1> QED BY <1>1, <1>4, <1>5, SameHeapKept DEF Inv, ApartInv, CopyFirst

LEMMA SimplifyReturnsStep ==
  ASSUME Inv, SimplifyReturns
  PROVE  Inv' /\ Kept
<1>1. /\ Copying /\ heap' = heap /\ todo' = todo /\ rewrite' = rewrite
      /\ roots' = roots \cup ({Outcome} \ {Nil}) /\ stack' = <<>>
      /\ call' = [call EXCEPT !.phase = "idle", !.input = Outcome]
  BY DEF SimplifyReturns, Finished
<1>2. Outcome \in 0..Len(heap) /\ Len(heap) \in Nat
  BY <1>1, OutcomeType, TopFacts
<1>3. HeapInv' /\ TodoInv' /\ StackInv'
  BY <1>1, <1>2 DEF Inv, HeapInv, TodoInv, StackInv, Nil
<1>4. CallInv' /\ call'.phase = "idle"
  BY <1>1, <1>2 DEF Inv, CallInv, Phases
<1> QED BY <1>1, <1>3, <1>4, SameHeapKept DEF Inv, ApartInv, CopyFirst

\* Another pass copies the root of the last one, which the call has made.
LEMMA NextPassStep ==
  ASSUME Inv, NextPass
  PROVE  Inv' /\ Kept
<1>1. /\ Copying /\ call.phase = "simplify" /\ Outcome # Nil
      /\ heap' = ShallowCopy(heap, Outcome)
      /\ stack' = <<Frame(Outcome, Len(heap) + 1)>>
      /\ call' = [call EXCEPT !.input = Outcome, !.pass = @ + 1]
      /\ UNCHANGED <<roots, todo, rewrite>>
  BY DEF NextPass, Finished
<1>2. /\ IsHeap(heap) /\ Len(heap) \in Nat /\ DOMAIN heap = 1..Len(heap)
      /\ call.owned \in 0..Len(heap) /\ call.op = "simplify" /\ todo \in Seq(0..Len(heap))
  BY <1>1 DEF Inv, HeapInv, CallInv, TodoInv, IsHeap
<1>3. Outcome \in DOMAIN heap
  BY <1>1, <1>2, OutcomeType DEF Nil
<1>4. IsHeap(heap') /\ Len(heap') = Len(heap) + 1 /\ Grown(heap, heap')
  BY <1>1, <1>2, <1>3, ShallowFacts
<1>5. HeapInv'
  BY <1>1, <1>2, <1>4 DEF Inv, HeapInv
<1>6. CallInv' /\ call'.op = "simplify" /\ call'.owned = call.owned
  <2>1. 0..Len(heap) \subseteq 0..Len(heap') /\ Outcome \in 0..Len(heap)
    BY <1>2, <1>3, <1>4
  <2>2. call \in [op : Ops \cup {"none"}, phase : Phases, root : Nat,
                  owned : 0..Len(heap'), input : 0..Len(heap'), pass : Nat]
    BY <2>1 DEF Inv, CallInv
  <2>3. call' \in [op : Ops \cup {"none"}, phase : Phases, root : Nat,
                   owned : 0..Len(heap'), input : 0..Len(heap'), pass : Nat]
    <3> DEFINE S == 0..Len(heap')
    <3>1. call \in [op : Ops \cup {"none"}, phase : Phases, root : Nat,
                    owned : S, input : S, pass : Nat] /\ Outcome \in S
      BY <2>1, <2>2
    <3> HIDE DEF S
    <3>2. call.pass + 1 \in Nat
      BY <3>1
    <3>3. call' \in [op : Ops \cup {"none"}, phase : Phases, root : Nat,
                     owned : S, input : S, pass : Nat]
      BY <1>1, <3>1, <3>2
    <3> QED BY <3>3 DEF S
  <2> QED BY <1>1, <1>2, <2>2, <2>3 DEF Inv, CallInv
<1>7. TodoInv'
  <2>1. Len(heap') \in Nat /\ Len(heap) <= Len(heap')
    BY <1>2, <1>4
  <2>2. \A s : s \in Seq(0..Len(heap)) => s \in Seq(0..Len(heap'))
    BY <1>2, <2>1, Regrown
  <2> QED BY <1>1, <1>2, <2>2 DEF TodoInv
<1>8. StackInv'
  <2>1. Frame(Outcome, Len(heap) + 1) \in FramesOver(heap')
    BY <1>2, <1>3, <1>4 DEF Frame, FramesOver
  <2>2. Frame(Outcome, Len(heap) + 1).to > call.owned
    BY <1>2 DEF Frame
  <2> QED BY <1>1, <1>6, <2>1, <2>2 DEF StackInv
<1>9. ApartInv' /\ ~ CopyFirst
  BY <1>2, <1>6 DEF ApartInv, CopyFirst
<1>10. Kept
  BY <1>2, <1>4, <1>9, GrownSame DEF Kept
<1> QED BY <1>5, <1>6, <1>7, <1>8, <1>9, <1>10 DEF Inv

-----------------------------------------------------------------------------
\* The nodes to be visited after the first was: its children, then the others.
LEMMA Pushed ==
  ASSUME NEW S, NEW s \in Seq(S), NEW t \in Seq(S), t # <<>>
  PROVE  /\ Head(t) \in S /\ 1 \in DOMAIN t /\ Head(t) = t[1]
         /\ Tail(t) \in Seq(S)
         /\ \A i \in DOMAIN Tail(t) : i + 1 \in DOMAIN t /\ Tail(t)[i] = t[i + 1]
         /\ s \o Tail(t) \in Seq(S)
<1>1. Len(t) \in Nat /\ Len(t) > 0 /\ DOMAIN t = 1..Len(t)
  OBVIOUS
<1>2. /\ Tail(t) \in Seq(S) /\ Len(Tail(t)) = Len(t) - 1
      /\ \A i \in 1..(Len(t) - 1) : Tail(t)[i] = t[i + 1]
  BY <1>1
<1>3. Head(t) \in S /\ 1 \in DOMAIN t /\ Head(t) = t[1]
  BY <1>1
<1> QED BY <1>1, <1>2, <1>3

\* None of them is in a set that holds none of either sequence.
LEMMA PushedOutside ==
  ASSUME NEW S, NEW s \in Seq(S), NEW t \in Seq(S), t # <<>>, NEW P,
         \A i \in DOMAIN s : s[i] \notin P, \A i \in DOMAIN t : t[i] \notin P
  PROVE  \A i \in DOMAIN (s \o Tail(t)) : (s \o Tail(t))[i] \notin P
<1> DEFINE rest == Tail(t)
<1>1. /\ rest \in Seq(S)
      /\ \A i \in DOMAIN rest : i + 1 \in DOMAIN t /\ rest[i] = t[i + 1]
  BY Pushed
<1> HIDE DEF rest
<1>2. /\ DOMAIN (s \o rest) = 1..(Len(s) + Len(rest))
      /\ \A i \in 1..(Len(s) + Len(rest)) :
           (s \o rest)[i] = IF i <= Len(s) THEN s[i] ELSE rest[i - Len(s)]
  BY <1>1
<1>3. ASSUME NEW i \in DOMAIN (s \o rest)
      PROVE  (s \o rest)[i] \notin P
  <2>1. i \in 1..(Len(s) + Len(rest)) /\ Len(s) \in Nat /\ Len(rest) \in Nat
        /\ DOMAIN s = 1..Len(s) /\ DOMAIN rest = 1..Len(rest)
    BY <1>1, <1>2
  <2>2. CASE i <= Len(s)
    BY <2>1, <2>2, <1>2
  <2>3. CASE ~ (i <= Len(s))
    <3>1. i - Len(s) \in DOMAIN rest /\ (s \o rest)[i] = rest[i - Len(s)]
      BY <2>1, <2>3, <1>2
    <3> QED BY <3>1, <1>1
  <2> QED BY <2>2, <2>3
<1> QED BY <1>3 DEF rest

LEMMA CopyForTSQLStep ==
  ASSUME Inv, CopyForTSQL
  PROVE  Inv' /\ Kept
<1>1. /\ Copying /\ call.op = "tsql" /\ heap' = heap /\ rewrite' = rewrite /\ roots' = roots
      /\ todo' = <<Outcome>> /\ stack' = <<>>
      /\ call' = [call EXCEPT !.phase = "bools", !.input = Outcome]
  BY DEF CopyForTSQL, Finished
<1>2. call.phase = "copy" /\ CopyFirst /\ call.owned \in 0..Len(heap)
  BY <1>1 DEF Inv, CallInv, Copying, CopyFirst
<1>3. Outcome \in 0..Len(heap) /\ Outcome > call.owned /\ Len(heap) \in Nat
  BY <1>1, <1>2, OutcomeType, TopFacts
<1>4. HeapInv' /\ TodoInv' /\ StackInv'
  BY <1>1, <1>3 DEF Inv, HeapInv, TodoInv, StackInv
<1>5. CallInv' /\ call'.phase = "bools" /\ call'.input = Outcome /\ call'.owned = call.owned
  BY <1>1, <1>3 DEF Inv, CallInv, Phases
<1>6. Outcome \notin 1..call.owned /\ \A i \in DOMAIN <<Outcome>> : <<Outcome>>[i] = Outcome
  BY <1>2, <1>3
<1>7. ApartInv'
  BY <1>1, <1>2, <1>5, <1>6 DEF Inv, ApartInv
<1> QED BY <1>1, <1>4, <1>5, <1>7, SameHeapKept DEF Inv

LEMMA PassAbsentStep ==
  ASSUME Inv, PassAbsent
  PROVE  Inv' /\ Kept
<1>1. /\ call.phase \in {"bools", "write"} /\ todo # <<>> /\ todo' = Tail(todo)
      /\ UNCHANGED <<heap, roots, call, stack, text, rewrite, written, calls>>
  BY DEF PassAbsent
<1>2. /\ Tail(todo) \in Seq(0..Len(heap))
      /\ \A i \in DOMAIN Tail(todo) : i + 1 \in DOMAIN todo /\ Tail(todo)[i] = todo[i + 1]
  <2>1. <<>> \in Seq(0..Len(heap))
    OBVIOUS
  <2> QED BY <1>1, <2>1, Pushed DEF Inv, TodoInv
<1>3. HeapInv' /\ CallInv' /\ StackInv' /\ TodoInv'
  BY <1>1, <1>2 DEF Inv, HeapInv, CallInv, StackInv, TodoInv
<1>4. ApartInv'
  BY <1>1, <1>2 DEF Inv, ApartInv, CopyFirst
<1> QED BY <1>1, <1>3, <1>4, SameHeapKept DEF Inv

LEMMA HeadOfWork ==
  ASSUME NEW S, NEW s \in Seq(S), s # <<>>
  PROVE  1 \in DOMAIN s /\ Head(s) = s[1]
OBVIOUS

\* What is walked is the copy, so what is compared is a node of it.
LEMMA EnsureBoolsStep ==
  ASSUME Inv, EnsureBools
  PROVE  Inv' /\ Kept
<1> DEFINE n == Head(todo)
<1>1. /\ call.phase = "bools" /\ todo # <<>> /\ n # Nil
      /\ heap' = Compared(Compared(heap, n, 1), n, 2) /\ todo' = heap'[n].kids \o Tail(todo)
      /\ UNCHANGED <<roots, call, stack, text, rewrite, written, calls>>
  BY DEF EnsureBools
<1>2. /\ IsHeap(heap) /\ Len(heap) \in Nat /\ DOMAIN heap = 1..Len(heap)
      /\ call.owned \in 0..Len(heap) /\ call.owned \in Nat
      /\ CopyFirst /\ Apart(heap, call.owned)
      /\ todo \in Seq(0..Len(heap)) /\ \A i \in DOMAIN todo : todo[i] \notin 1..call.owned
      /\ stack \in Seq(FramesOver(heap))
  <2>1. IsHeap(heap)
    BY DEF Inv, HeapInv
  <2>2. Len(heap) \in Nat /\ DOMAIN heap = 1..Len(heap)
    BY <2>1 DEF IsHeap
  <2>3. call.owned \in 0..Len(heap) /\ CopyFirst
    BY <1>1 DEF Inv, CallInv, CopyFirst
  <2>4. Apart(heap, call.owned) /\ \A i \in DOMAIN todo : todo[i] \notin 1..call.owned
    BY <1>1, <2>3 DEF Inv, ApartInv
  <2>5. todo \in Seq(0..Len(heap)) /\ stack \in Seq(FramesOver(heap))
    BY DEF Inv, TodoInv, StackInv
  <2> QED BY <2>1, <2>2, <2>3, <2>4, <2>5
<1>3. n \in DOMAIN heap /\ n > call.owned
  <2>1. 1 \in DOMAIN todo /\ n = todo[1]
    BY <1>1, <1>2, HeadOfWork
  <2>2. n \in 0..Len(heap) /\ n \notin 1..call.owned
    <3> HIDE DEF n
    <3> QED BY <1>2, <2>1
  <2>3. n # 0 BY <1>1 DEF Nil
  <2> HIDE DEF n
  <2> QED BY <1>2, <2>2, <2>3
<1> HIDE DEF n
<1>4. /\ IsHeap(heap') /\ Len(heap') >= Len(heap)
      /\ SameArguments(heap, heap', call.owned) /\ SameNodes(heap, heap', call.owned)
      /\ Apart(heap', call.owned)
  <2> DEFINE h == Compared(heap, n, 1)
  <2>1. /\ IsHeap(h) /\ Len(h) >= Len(heap)
        /\ SameArguments(heap, h, call.owned) /\ SameNodes(heap, h, call.owned)
        /\ Apart(h, call.owned)
    BY <1>2, <1>3, ComparedFacts
  <2> HIDE DEF h
  <2>2. n \in DOMAIN h /\ call.owned \in 0..Len(h)
    BY <1>2, <1>3, <2>1 DEF IsHeap
  <2> DEFINE g == Compared(h, n, 2)
  <2>3. /\ IsHeap(g) /\ Len(g) >= Len(h)
        /\ SameArguments(h, g, call.owned) /\ SameNodes(h, g, call.owned)
        /\ Apart(g, call.owned)
    BY <2>1, <2>2, <1>3, ComparedFacts
  <2>4. heap' = g
    BY <1>1 DEF h
  <2> HIDE DEF g
  <2>5. Len(g) >= Len(heap)
    BY <1>2, <2>1, <2>3 DEF IsHeap
  <2> QED BY <1>2, <2>1, <2>3, <2>4, <2>5, Chain
<1>5. /\ Len(heap') \in Nat /\ Len(heap) <= Len(heap') /\ DOMAIN heap' = 1..Len(heap')
  BY <1>2, <1>4 DEF IsHeap
<1>6. /\ \A s : s \in Seq(FramesOver(heap)) => s \in Seq(FramesOver(heap'))
      /\ \A s : s \in Seq(0..Len(heap)) => s \in Seq(0..Len(heap'))
  BY <1>2, <1>5, Regrown
<1>7. /\ heap'[n].kids \in Seq(0..Len(heap'))
      /\ \A i \in DOMAIN heap'[n].kids : heap'[n].kids[i] \notin 1..call.owned
  <2>1. n \in DOMAIN heap' BY <1>2, <1>3, <1>5
  <2> QED BY <1>3, <1>4, <2>1, HeapFacts DEF Apart
<1>8. /\ todo' \in Seq(0..Len(heap'))
      /\ \A i \in DOMAIN todo' : todo'[i] \notin 1..call.owned
  <2>1. todo \in Seq(0..Len(heap')) BY <1>2, <1>6
  <2>2. todo' \in Seq(0..Len(heap'))
    BY <1>1, <1>2, <1>7, <2>1, Pushed
  <2> QED BY <1>1, <1>2, <1>7, <2>1, <2>2, PushedOutside
<1>9. HeapInv' /\ StackInv' /\ TodoInv'
  <2>1. HeapInv' BY <1>1, <1>2, <1>4, <1>5 DEF Inv, HeapInv
  <2>2. StackInv' BY <1>1, <1>2, <1>6 DEF Inv, StackInv
  <2>3. TodoInv' BY <1>1, <1>8 DEF Inv, TodoInv
  <2> QED BY <2>1, <2>2, <2>3
<1>10. CallInv'
  <2>1. 0..Len(heap) \subseteq 0..Len(heap') BY <1>2, <1>5
  <2> QED BY <1>1, <2>1 DEF Inv, CallInv
<1>11. ApartInv'
  BY <1>1, <1>2, <1>4, <1>8 DEF Inv, ApartInv
<1> QED BY <1>4, <1>9, <1>10, <1>11 DEF Inv, Kept

LEMMA BoolsDoneStep ==
  ASSUME Inv, BoolsDone
  PROVE  Inv' /\ Kept
<1>1. /\ call.phase = "bools" /\ call' = [call EXCEPT !.phase = "write"]
      /\ todo' = <<call.input>>
      /\ UNCHANGED <<heap, roots, stack, rewrite>>
  BY DEF BoolsDone
<1>2. CopyFirst /\ call.op = "tsql" /\ call.input \in 0..Len(heap)
  BY <1>1 DEF Inv, CallInv, CopyFirst
<1>3. HeapInv' /\ StackInv' /\ TodoInv'
  BY <1>1, <1>2 DEF Inv, HeapInv, StackInv, TodoInv
<1>4. CallInv' /\ call'.owned = call.owned /\ call'.phase = "write"
  BY <1>1, <1>2 DEF Inv, CallInv, Phases
<1>5. ApartInv'
  BY <1>1, <1>2, <1>4 DEF Inv, ApartInv
<1> QED BY <1>1, <1>3, <1>4, <1>5, SameHeapKept DEF Inv

\* A writer copies the node before it gives it another argument.
LEMMA WriteNodeStep ==
  ASSUME Inv, WriteNode
  PROVE  Inv' /\ Kept
<1> DEFINE at == Head(todo)
           n == WrittenNode(heap, at)
<1>1. /\ call.phase = "write" /\ todo # <<>> /\ at # Nil
      /\ heap' = Prepared(heap, at) /\ todo' = heap'[n].kids \o Tail(todo)
      /\ UNCHANGED <<roots, call, stack, rewrite, written, calls>>
  BY DEF WriteNode
<1>2. /\ IsHeap(heap) /\ Len(heap) \in Nat /\ DOMAIN heap = 1..Len(heap)
      /\ call.owned \in 0..Len(heap) /\ call.owned \in Nat
      /\ call.op # "copy" /\ todo \in Seq(0..Len(heap))
      /\ stack \in Seq(FramesOver(heap))
  <2>1. IsHeap(heap)
    BY DEF Inv, HeapInv
  <2>2. Len(heap) \in Nat /\ DOMAIN heap = 1..Len(heap)
    BY <2>1 DEF IsHeap
  <2>3. call.owned \in 0..Len(heap) /\ call.op # "copy"
    BY <1>1 DEF Inv, CallInv
  <2>4. todo \in Seq(0..Len(heap)) /\ stack \in Seq(FramesOver(heap))
    BY DEF Inv, TodoInv, StackInv
  <2> QED BY <2>1, <2>2, <2>3, <2>4
<1>3. at \in DOMAIN heap /\ 1 \in DOMAIN todo /\ at = todo[1]
  <2>1. at \in 0..Len(heap) /\ 1 \in DOMAIN todo /\ at = todo[1]
    <3>1. <<>> \in Seq(0..Len(heap)) OBVIOUS
    <3> QED BY <1>1, <1>2, <3>1, Pushed
  <2> QED BY <1>1, <1>2, <2>1 DEF Nil
<1> HIDE DEF at
<1>4. /\ IsHeap(heap') /\ Len(heap') >= Len(heap) /\ n \in DOMAIN heap'
      /\ SameArguments(heap, heap', call.owned)
      /\ call.op = "tsql" /\ at > call.owned /\ Apart(heap, call.owned) =>
           Apart(heap', call.owned) /\ SameNodes(heap, heap', call.owned) /\ n > call.owned
  BY <1>1, <1>2, <1>3, PreparedFacts
<1> HIDE DEF n
<1>5. Len(heap') \in Nat /\ Len(heap) <= Len(heap') /\ DOMAIN heap' = 1..Len(heap')
  BY <1>2, <1>4 DEF IsHeap
<1>6. /\ \A s : s \in Seq(FramesOver(heap)) => s \in Seq(FramesOver(heap'))
      /\ \A s : s \in Seq(0..Len(heap)) => s \in Seq(0..Len(heap'))
  BY <1>2, <1>5, Regrown
<1>7. heap'[n].kids \in Seq(0..Len(heap')) /\ todo \in Seq(0..Len(heap'))
  BY <1>2, <1>4, <1>6, HeapFacts
<1>8. HeapInv' /\ StackInv' /\ TodoInv'
  <2>1. todo' \in Seq(0..Len(heap')) BY <1>1, <1>7, Pushed
  <2> QED BY <1>1, <1>2, <1>4, <1>5, <1>6, <2>1 DEF Inv, HeapInv, StackInv, TodoInv
<1>9. CallInv'
  <2>1. 0..Len(heap) \subseteq 0..Len(heap') BY <1>2, <1>5
  <2> QED BY <1>1, <2>1 DEF Inv, CallInv
<1>10. ASSUME CopyFirst
       PROVE  /\ Apart(heap', call.owned) /\ SameNodes(heap, heap', call.owned)
              /\ \A i \in DOMAIN todo' : todo'[i] \notin 1..call.owned
  <2>1. /\ call.op = "tsql" /\ Apart(heap, call.owned)
        /\ \A i \in DOMAIN todo : todo[i] \notin 1..call.owned
    BY <1>1, <1>2, <1>10 DEF Inv, ApartInv, CopyFirst
  <2>2. at > call.owned
    BY <1>2, <1>3, <2>1
  <2>3. Apart(heap', call.owned) /\ SameNodes(heap, heap', call.owned) /\ n > call.owned
    BY <1>4, <2>1, <2>2
  <2>4. \A i \in DOMAIN heap'[n].kids : heap'[n].kids[i] \notin 1..call.owned
    BY <1>4, <2>3 DEF Apart
  <2>5. \A i \in DOMAIN todo' : todo'[i] \notin 1..call.owned
    BY <1>1, <1>7, <2>1, <2>4, PushedOutside
  <2> QED BY <2>3, <2>5
<1>11. ApartInv'
  BY <1>1, <1>10 DEF ApartInv, CopyFirst
<1>12. Kept
  BY <1>4, <1>10 DEF Kept
<1> QED BY <1>8, <1>9, <1>11, <1>12 DEF Inv

LEMMA GenerateReturnsStep ==
  ASSUME Inv, GenerateReturns
  PROVE  Inv' /\ Kept
<1>1. /\ call.phase = "write" /\ call' = [call EXCEPT !.phase = "idle"]
      /\ UNCHANGED <<heap, roots, stack, todo, rewrite>>
  BY DEF GenerateReturns
<1>2. HeapInv' /\ StackInv' /\ TodoInv'
  BY <1>1 DEF Inv, CallInv, HeapInv, StackInv, TodoInv
<1>3. CallInv' /\ call'.phase = "idle"
  BY <1>1 DEF Inv, CallInv, Phases
<1> QED BY <1>1, <1>2, <1>3, SameHeapKept DEF Inv, ApartInv, CopyFirst

-----------------------------------------------------------------------------
\* Without a dialect that has no QUALIFY none is rewritten.
LEMMA NoneRewritten ==
  ASSUME Inv, "hive" \notin Ops
  PROVE  ~ Rewriting
<1>1. call.op # "hive" /\ call.phase # "qualify" /\ rewrite = NoRewrite
  BY DEF Inv, CallInv, Phases
<1> QED BY <1>1 DEF Rewriting, BeginQualify, HasQualify, Qualifying, QualifyWindow, QualifyColumn,
                    QualifyKnownColumn, ProjectWindow, ProjectColumn, EndQualify

LEMMA StepInv ==
  ASSUME Inv, [Next]_vars, "hive" \notin Ops
  PROVE  Inv' /\ Kept
<1>1. CASE Calls
  BY <1>1, CallStep
<1>2. CASE Recursion
  BY <1>2, SkipStep, EnterStep, LeaveStep DEF Recursion
<1>3. CASE Returns
  BY <1>3, CopyReturnsStep, SimplifyReturnsStep, NextPassStep DEF Returns
<1>4. CASE Writing
  BY <1>4, CopyForTSQLStep, PassAbsentStep, EnsureBoolsStep, BoolsDoneStep, WriteNodeStep,
     GenerateReturnsStep DEF Writing
<1>5. CASE Rewriting
  BY <1>5, NoneRewritten
<1>6. CASE UNCHANGED vars
  <2>1. UNCHANGED <<heap, roots, call, stack, todo, rewrite>>
    BY <1>6 DEF vars
  <2>2. Inv'
    BY <2>1 DEF Inv, HeapInv, CallInv, StackInv, TodoInv, ApartInv, CopyFirst
  <2> QED BY <2>1, <2>2, SameHeapKept
<1> QED BY <1>1, <1>2, <1>3, <1>4, <1>5, <1>6 DEF Next

\* The recursion copies into nodes of its own, and what is walked or written
\* after a deep copy is the copy: Copy, Simplify and Generate, expression.go,
\* simplify.go and generate.go.
THEOREM Invariance ==
  ASSUME "hive" \notin Ops
  PROVE  Spec => []Inv
<1>1. Inv /\ [Next]_vars => Inv'
  BY StepInv
<1> QED BY <1>1, InitInv, PTL DEF Spec

\* No call changes an argument of a node that was there before it: whatever the
\* tree, the trees a caller holds keep their shape.
THEOREM CallersTreesKept ==
  ASSUME "hive" \notin Ops
  PROVE  Spec => ArgumentsKept
<1>1. ASSUME Inv, [Next]_vars
      PROVE  \A n \in 1..call.owned :
               call.op # "hive" /\ call.phase # "idle" =>
                 /\ n \in DOMAIN heap'
                 /\ heap'[n].class = heap[n].class /\ heap'[n].name = heap[n].name
                 /\ heap'[n].kids = heap[n].kids
  BY <1>1, StepInv DEF Kept, SameArguments
<1> QED BY <1>1, Invariance, PTL DEF Spec, ArgumentsKept

\* Copy, and Generate for T-SQL, which copies first, do not touch the caller's
\* nodes at all: not even the Parent that New and Set move.
THEOREM DeepCopiesLeaveParents ==
  ASSUME "hive" \notin Ops
  PROVE  Spec => CopiesLeaveParents
<1>1. ASSUME Inv, [Next]_vars
      PROVE  \A n \in 1..call.owned :
               call.op \in {"copy", "tsql"} /\ call.phase # "idle" =>
                 n \in DOMAIN heap' /\ heap'[n] = heap[n]
  BY <1>1, StepInv DEF Kept, SameNodes, CopyFirst
<1> QED BY <1>1, Invariance, PTL DEF Spec, CopiesLeaveParents

-----------------------------------------------------------------------------
(* What Copy returns.  A tree has no cycle, so what is said of a node and  *)
(* what it holds is said of one that holds no other first.                 *)

\* Every set of nodes holds one that holds no other of them.
Acyclic(h) ==
  \A S \in SUBSET DOMAIN h :
    S # {} => \E n \in S : \A i \in DOMAIN h[n].kids : h[n].kids[i] \notin S

\* The order of the naturals as a relation.
Less == {pair \in Nat \X Nat : pair[1] < pair[2]}

\* Every set of naturals that is not empty has a least element.
LEMMA LeastNumber ==
  ASSUME NEW S, S \subseteq Nat, S # {}
  PROVE  \E x \in S : \A y \in S : x <= y
<1>1. IsWellFoundedOn(Less, Nat) BY NatLessThanWellFounded DEF OpToRel, Less
<1>2. PICK x \in S : \A y \in S : ~ (<<y, x>> \in Less) BY <1>1, WFMin
<1>3. ASSUME NEW y \in S PROVE x <= y
  <2>1. x \in Nat /\ y \in Nat OBVIOUS
  <2>2. <<y, x>> \notin Less BY <1>2
  <2>3. ~(y < x) BY <2>1, <2>2 DEF Less
  <2> QED BY <2>1, <2>3
<1> QED BY <1>3

\* Numbered from the root down, the last of some nodes holds no other of them.
LEMMA RootDownAcyclic ==
  ASSUME NEW h, IsHeap(h), RootDown(h)
  PROVE  Acyclic(h)
<1>1. Len(h) \in Nat /\ DOMAIN h = 1..Len(h) BY DEF IsHeap
<1>2. ASSUME NEW S \in SUBSET DOMAIN h, S # {}
      PROVE  \E n \in S : \A i \in DOMAIN h[n].kids : h[n].kids[i] \notin S
  <2> DEFINE gap(n) == Len(h) - n
             T == {gap(n) : n \in S}
  <2>1. \A n \in S : n \in Nat /\ n >= 1 /\ n <= Len(h) /\ gap(n) \in Nat BY <1>1
  <2>2. T \subseteq Nat /\ T # {} BY <1>2, <2>1
  <2>3. PICK x \in T : \A y \in T : x <= y
    <3> HIDE DEF T
    <3> QED BY <2>2, LeastNumber
  <2>4. PICK n \in S : x = gap(n) BY <2>3
  <2>5. ASSUME NEW m \in S PROVE m <= n
    <3>1. gap(m) \in T OBVIOUS
    <3>2. Len(h) - n <= Len(h) - m BY <2>3, <2>4, <3>1
    <3> HIDE DEF T
    <3> QED BY <1>1, <2>1, <3>2
  <2>6. ASSUME NEW i \in DOMAIN h[n].kids PROVE h[n].kids[i] \notin S
    <3>1. h[n].kids[i] \in Range(h[n].kids) BY DEF Range
    <3>2. h[n].kids[i] = Nil \/ n < h[n].kids[i] BY <3>1 DEF RootDown
    <3>3. Nil \notin S BY <2>1 DEF Nil
    <3> QED BY <2>1, <2>5, <3>2, <3>3
  <2> QED BY <2>6
<1> QED BY <1>2 DEF Acyclic

\* Nodes, and none, that hold only each other.
Closed(h, S) ==
  /\ S \subseteq 0..Len(h) /\ Nil \in S
  /\ \A n \in S \ {Nil} : \A i \in DOMAIN h[n].kids : h[n].kids[i] \in S

\* Heaps agree on nodes but for their Parents.
Agree(h, g, S) ==
  \A n \in S \ {Nil} :
    /\ n \in DOMAIN g
    /\ g[n].class = h[n].class /\ g[n].name = h[n].name /\ g[n].kids = h[n].kids

\* What Term computes, and Under, for some of the nodes.
Terms(f, h, S) ==
  f = [n \in S |->
         IF n = Nil THEN <<>>
         ELSE <<h[n].class, h[n].name, [i \in DOMAIN h[n].kids |-> f[h[n].kids[i]]]>>]
Unders(f, h, S) ==
  f = [n \in S |->
         IF n = Nil THEN {} ELSE {n} \cup UNION {f[h[n].kids[i]] : i \in DOMAIN h[n].kids}]

LEMMA ClosedNode ==
  ASSUME NEW h, IsHeap(h), NEW S, Closed(h, S), NEW n \in S, n # Nil
  PROVE  n \in DOMAIN h /\ \A i \in DOMAIN h[n].kids : h[n].kids[i] \in S
<1>1. n \in 0..Len(h) /\ Len(h) \in Nat /\ DOMAIN h = 1..Len(h) BY DEF Closed, IsHeap
<1> QED BY <1>1 DEF Closed, Nil

LEMMA ClosedAll ==
  ASSUME NEW h, IsHeap(h)
  PROVE  Closed(h, 0..Len(h))
  BY DEF Closed, IsHeap, Nil

\* Two tables of terms agree where the heaps they are about do.
LEMMA TermsAgree ==
  ASSUME NEW h, IsHeap(h), Acyclic(h), NEW g, NEW S, Closed(h, S), Agree(h, g, S),
         NEW T, S \subseteq T, NEW R, S \subseteq R,
         NEW f, Terms(f, h, T), NEW e, Terms(e, g, R)
  PROVE  \A n \in S : f[n] = e[n]
<1> DEFINE bad == {n \in S : f[n] # e[n]}
<1> SUFFICES ASSUME bad # {} PROVE FALSE OBVIOUS
<1>1. f[Nil] = <<>> /\ e[Nil] = <<>>
  <2>1. Nil \in T /\ Nil \in R BY DEF Closed
  <2> QED BY <2>1 DEF Terms
<1>2. bad \subseteq DOMAIN h BY <1>1, ClosedNode
<1>3. PICK n \in bad : \A i \in DOMAIN h[n].kids : h[n].kids[i] \notin bad
  <2> HIDE DEF bad
  <2> QED BY <1>2 DEF Acyclic
<1>4. n \in S /\ n # Nil /\ n \in T /\ n \in R /\ f[n] # e[n] BY <1>1, <1>3
<1>5. \A i \in DOMAIN h[n].kids : f[h[n].kids[i]] = e[h[n].kids[i]] BY <1>3, <1>4, ClosedNode
<1>6. g[n].class = h[n].class /\ g[n].name = h[n].name /\ g[n].kids = h[n].kids BY <1>4 DEF Agree
<1>7. f[n] = <<h[n].class, h[n].name, [i \in DOMAIN h[n].kids |-> f[h[n].kids[i]]]>>
  BY <1>4 DEF Terms
<1>8. e[n] = <<g[n].class, g[n].name, [i \in DOMAIN g[n].kids |-> e[g[n].kids[i]]]>>
  BY <1>4 DEF Terms
<1>9. [i \in DOMAIN h[n].kids |-> f[h[n].kids[i]]] = [i \in DOMAIN h[n].kids |-> e[h[n].kids[i]]]
  BY <1>5
<1> QED BY <1>4, <1>6, <1>7, <1>8, <1>9

\* Any heap without a cycle has a table of all its terms: the greatest set of
\* nodes that has one is all of them.
LEMMA TermsExist ==
  ASSUME NEW h, IsHeap(h), Acyclic(h)
  PROVE  \E f : Terms(f, h, 0..Len(h))
<1> DEFINE P == {S \in SUBSET (0..Len(h)) : Closed(h, S) /\ \E f : Terms(f, h, S)}
           U == UNION P
           tab(n) == CHOOSE v : \E S \in P : \E f : n \in S /\ Terms(f, h, S) /\ v = f[n]
           e == [n \in U |-> tab(n)]
<1>1. Len(h) \in Nat /\ DOMAIN h = 1..Len(h) /\ Nil \in 0..Len(h) BY DEF IsHeap, Nil
<1>2. {Nil} \in P
  <2>1. Closed(h, {Nil}) BY <1>1 DEF Closed
  <2>2. Terms([n \in {Nil} |-> <<>>], h, {Nil})
    <3> DEFINE f == [n \in {Nil} |-> <<>>]
    <3>1. f = [n \in {Nil} |->
                 IF n = Nil THEN <<>>
                 ELSE <<h[n].class, h[n].name, [i \in DOMAIN h[n].kids |-> f[h[n].kids[i]]]>>]
      OBVIOUS
    <3> QED BY <3>1 DEF Terms
  <2> QED BY <2>1, <2>2, <1>1
<1>3. Closed(h, U)
  <2>1. U \subseteq 0..Len(h) /\ Nil \in U BY <1>2
  <2>2. ASSUME NEW n \in U \ {Nil}, NEW i \in DOMAIN h[n].kids PROVE h[n].kids[i] \in U
    <3>1. PICK S \in P : n \in S BY <2>2
    <3>2. h[n].kids[i] \in S BY <2>2, <3>1 DEF Closed
    <3> QED BY <3>2
  <2> HIDE DEF U
  <2> QED BY <2>1, <2>2 DEF Closed
<1>4. ASSUME NEW S \in P, NEW f, Terms(f, h, S), NEW n \in S PROVE e[n] = f[n]
  <2>1. \E v : \E Q \in P : \E q : n \in Q /\ Terms(q, h, Q) /\ v = q[n] BY <1>4
  <2>2. PICK Q \in P : \E q : n \in Q /\ Terms(q, h, Q) /\ tab(n) = q[n] BY <2>1
  <2>3. PICK q : n \in Q /\ Terms(q, h, Q) /\ tab(n) = q[n] BY <2>2
  <2>4. Closed(h, S \cap Q) BY DEF Closed
  <2>5. Agree(h, h, S \cap Q)
    <3> HIDE DEF P
    <3> QED BY <2>4, <1>1 DEF Agree, Closed, Nil
  <2>6. S \cap Q \subseteq S /\ S \cap Q \subseteq Q /\ n \in S \cap Q BY <2>3
  <2>7. f[n] = q[n]
    <3> HIDE DEF P
    <3> QED BY <2>3, <2>4, <2>5, <2>6, <1>4, TermsAgree
  <2>8. n \in U BY <1>4
  <2> HIDE DEF P, U, tab
  <2> QED BY <2>3, <2>7, <2>8
<1>5. Terms(e, h, U)
  <2> DEFINE w(n, f) == IF n = Nil THEN <<>>
                        ELSE <<h[n].class, h[n].name, [i \in DOMAIN h[n].kids |-> f[h[n].kids[i]]]>>
  <2>1. ASSUME NEW n \in U PROVE e[n] = w(n, e)
    <3>1. PICK S \in P : n \in S OBVIOUS
    <3>2. PICK f : Terms(f, h, S) BY <3>1
    <3>3. e[n] = f[n]
      <4> HIDE DEF P, U, e
      <4> QED BY <3>1, <3>2, <1>4
    <3>4. f[n] = w(n, f)
      <4> HIDE DEF P, U, e
      <4> QED BY <3>1, <3>2 DEF Terms
    <3>5. ASSUME n # Nil PROVE \A i \in DOMAIN h[n].kids : f[h[n].kids[i]] = e[h[n].kids[i]]
      <4>1. \A i \in DOMAIN h[n].kids : h[n].kids[i] \in S BY <3>1, <3>5 DEF Closed
      <4> HIDE DEF P, U, e
      <4> QED BY <4>1, <3>1, <3>2, <1>4
    <3> HIDE DEF P, U, e
    <3>6. w(n, f) = w(n, e)
      <4>1. CASE n = Nil BY <4>1
      <4>2. CASE n # Nil
        <5>1. [i \in DOMAIN h[n].kids |-> f[h[n].kids[i]]]
                = [i \in DOMAIN h[n].kids |-> e[h[n].kids[i]]]
          BY <4>2, <3>5
        <5> QED BY <5>1
      <4> QED BY <4>1, <4>2
    <3> QED BY <3>3, <3>4, <3>6
  <2>2. e = [n \in U |-> e[n]] OBVIOUS
  <2> HIDE DEF U, e
  <2>3. e = [n \in U |-> w(n, e)] BY <2>1, <2>2
  <2> QED BY <2>3 DEF Terms
<1>6. U = 0..Len(h)
  <2> DEFINE D == (0..Len(h)) \ U
  <2> SUFFICES ASSUME D # {} PROVE FALSE
    <3>1. U \subseteq 0..Len(h) OBVIOUS
    <3> HIDE DEF U
    <3> QED BY <3>1
  <2>1. Nil \in U BY <1>2
  <2>2. D \subseteq DOMAIN h
    <3> HIDE DEF U
    <3> QED BY <2>1, <1>1 DEF Nil
  <2>3. PICK n \in D : \A i \in DOMAIN h[n].kids : h[n].kids[i] \notin D
    <3> HIDE DEF D
    <3> QED BY <2>2 DEF Acyclic
  <2>4. \A i \in DOMAIN h[n].kids : h[n].kids[i] \in U
    <3> HIDE DEF U
    <3>1. n \in DOMAIN h BY <2>2
    <3>2. \A i \in DOMAIN h[n].kids : h[n].kids[i] \in 0..Len(h) BY <3>1, HeapFacts
    <3> QED BY <2>3, <3>2
  <2> DEFINE V == U \cup {n}
             f == [m \in V |->
                     IF m = Nil THEN <<>>
                     ELSE <<h[m].class, h[m].name, [i \in DOMAIN h[m].kids |-> e[h[m].kids[i]]]>>]
  <2>5. n \in 0..Len(h) /\ n \notin U /\ n # Nil BY <2>1
  <2>6. Closed(h, V)
    <3> HIDE DEF U
    <3> QED BY <1>3, <2>4, <2>5 DEF Closed
  <2> HIDE DEF P, U, e, tab
  <2>7. ASSUME NEW m \in U PROVE f[m] = e[m]
    BY <1>5 DEF Terms
  <2>8. ASSUME NEW m \in V, m # Nil
        PROVE  [i \in DOMAIN h[m].kids |-> e[h[m].kids[i]]]
                 = [i \in DOMAIN h[m].kids |-> f[h[m].kids[i]]]
    <3>1. \A i \in DOMAIN h[m].kids : h[m].kids[i] \in U BY <2>8, <2>4, <1>3 DEF Closed
    <3> HIDE DEF f
    <3> QED BY <3>1, <2>7
  <2>9. Terms(f, h, V)
    <3> DEFINE a(m) == IF m = Nil THEN <<>>
                       ELSE <<h[m].class, h[m].name, [i \in DOMAIN h[m].kids |-> e[h[m].kids[i]]]>>
               b(m) == IF m = Nil THEN <<>>
                       ELSE <<h[m].class, h[m].name, [i \in DOMAIN h[m].kids |-> f[h[m].kids[i]]]>>
    <3>1. \A m \in V : a(m) = b(m)
      <4> HIDE DEF f, V
      <4> QED BY <2>8
    <3>2. f = [m \in V |-> a(m)] OBVIOUS
    <3> HIDE DEF f, V
    <3>3. f = [m \in V |-> b(m)]
      <4> HIDE DEF a, b
      <4> QED BY <3>1, <3>2
    <3> QED BY <3>3 DEF Terms
  <2>10. V \subseteq 0..Len(h) /\ n \in V BY <2>6 DEF Closed
  <2> HIDE DEF f, V
  <2>11. V \in P BY <2>6, <2>9, <2>10 DEF P
  <2> QED BY <2>5, <2>10, <2>11 DEF U
<1> HIDE DEF e, U, P, tab
<1> QED BY <1>5, <1>6

\* Term is the one for the root.
LEMMA TermIs ==
  ASSUME NEW h, IsHeap(h), Acyclic(h)
  PROVE  \E f : Terms(f, h, 0..Len(h)) /\ \A n : Term(h, n) = f[n]
<1> DEFINE f == CHOOSE f : Terms(f, h, 0..Len(h))
<1>1. Terms(f, h, 0..Len(h)) BY TermsExist
<1>2. ASSUME NEW n PROVE Term(h, n) = f[n] BY DEF Term, Terms
<1> QED BY <1>1, <1>2

\* What the definition of a term says.
LEMMA TermStep ==
  ASSUME NEW h, IsHeap(h), Acyclic(h)
  PROVE  /\ Term(h, Nil) = <<>>
         /\ \A n \in DOMAIN h :
              Term(h, n) = <<h[n].class, h[n].name,
                             [i \in DOMAIN h[n].kids |-> Term(h, h[n].kids[i])]>>
<1>1. Len(h) \in Nat /\ DOMAIN h = 1..Len(h) /\ Nil \in 0..Len(h) /\ Nil = 0 BY DEF IsHeap, Nil
<1>2. PICK f : Terms(f, h, 0..Len(h)) /\ \A n : Term(h, n) = f[n] BY TermIs
<1>3. f[Nil] = <<>> BY <1>1, <1>2 DEF Terms
<1>4. ASSUME NEW n \in DOMAIN h
      PROVE  f[n] = <<h[n].class, h[n].name, [i \in DOMAIN h[n].kids |-> f[h[n].kids[i]]]>>
  <2>1. n \in 0..Len(h) /\ n # Nil BY <1>1
  <2> QED BY <1>2, <2>1 DEF Terms
<1>5. ASSUME NEW n \in DOMAIN h
      PROVE  [i \in DOMAIN h[n].kids |-> f[h[n].kids[i]]]
               = [i \in DOMAIN h[n].kids |-> Term(h, h[n].kids[i])]
  BY <1>2
<1> QED BY <1>2, <1>3, <1>4, <1>5

\* Terms stay what they are where a heap does.
LEMMA TermKept ==
  ASSUME NEW h, IsHeap(h), Acyclic(h), NEW g, IsHeap(g), Acyclic(g), Len(h) <= Len(g),
         NEW S, Closed(h, S), Agree(h, g, S)
  PROVE  \A n \in S : Term(g, n) = Term(h, n)
<1>1. Len(h) \in Nat /\ Len(g) \in Nat BY DEF IsHeap
<1>2. S \subseteq 0..Len(h) /\ S \subseteq 0..Len(g) BY <1>1 DEF Closed
<1>3. PICK f : Terms(f, h, 0..Len(h)) /\ \A n : Term(h, n) = f[n] BY TermIs
<1>4. PICK e : Terms(e, g, 0..Len(g)) /\ \A n : Term(g, n) = e[n] BY TermIs
<1> DEFINE T == 0..Len(h)
           R == 0..Len(g)
<1>5. S \subseteq T /\ S \subseteq R /\ Terms(f, h, T) /\ Terms(e, g, R) BY <1>2, <1>3, <1>4
<1> HIDE DEF T, R
<1>6. \A n \in S : f[n] = e[n] BY <1>5, TermsAgree
<1> QED BY <1>3, <1>4, <1>6

\* The same of what is under a node.
LEMMA UndersAgree ==
  ASSUME NEW h, IsHeap(h), Acyclic(h), NEW S, Closed(h, S),
         NEW T, S \subseteq T, NEW R, S \subseteq R,
         NEW f, Unders(f, h, T), NEW e, Unders(e, h, R)
  PROVE  \A n \in S : f[n] = e[n]
<1> DEFINE bad == {n \in S : f[n] # e[n]}
<1> SUFFICES ASSUME bad # {} PROVE FALSE OBVIOUS
<1>1. f[Nil] = {} /\ e[Nil] = {}
  <2>1. Nil \in T /\ Nil \in R BY DEF Closed
  <2> QED BY <2>1 DEF Unders
<1>2. bad \subseteq DOMAIN h BY <1>1, ClosedNode
<1>3. PICK n \in bad : \A i \in DOMAIN h[n].kids : h[n].kids[i] \notin bad
  <2> HIDE DEF bad
  <2> QED BY <1>2 DEF Acyclic
<1>4. n \in S /\ n # Nil /\ n \in T /\ n \in R /\ f[n] # e[n] BY <1>1, <1>3
<1>5. \A i \in DOMAIN h[n].kids : f[h[n].kids[i]] = e[h[n].kids[i]] BY <1>3, <1>4, ClosedNode
<1>6. f[n] = {n} \cup UNION {f[h[n].kids[i]] : i \in DOMAIN h[n].kids}
  BY <1>4 DEF Unders
<1>7. e[n] = {n} \cup UNION {e[h[n].kids[i]] : i \in DOMAIN h[n].kids}
  BY <1>4 DEF Unders
<1>8. {f[h[n].kids[i]] : i \in DOMAIN h[n].kids} = {e[h[n].kids[i]] : i \in DOMAIN h[n].kids}
  BY <1>5
<1> QED BY <1>4, <1>6, <1>7, <1>8

LEMMA UndersExist ==
  ASSUME NEW h, IsHeap(h), Acyclic(h)
  PROVE  \E f : Unders(f, h, 0..Len(h))
<1> DEFINE P == {S \in SUBSET (0..Len(h)) : Closed(h, S) /\ \E f : Unders(f, h, S)}
           U == UNION P
           tab(n) == CHOOSE v : \E S \in P : \E f : n \in S /\ Unders(f, h, S) /\ v = f[n]
           e == [n \in U |-> tab(n)]
<1>1. Len(h) \in Nat /\ DOMAIN h = 1..Len(h) /\ Nil \in 0..Len(h) BY DEF IsHeap, Nil
<1>2. {Nil} \in P
  <2>1. Closed(h, {Nil}) BY <1>1 DEF Closed
  <2>2. Unders([n \in {Nil} |-> {}], h, {Nil})
    <3> DEFINE f == [n \in {Nil} |-> {}]
    <3>1. f = [n \in {Nil} |->
                 IF n = Nil THEN {}
                 ELSE {n} \cup UNION {f[h[n].kids[i]] : i \in DOMAIN h[n].kids}]
      OBVIOUS
    <3> QED BY <3>1 DEF Unders
  <2> QED BY <2>1, <2>2, <1>1
<1>3. Closed(h, U)
  <2>1. U \subseteq 0..Len(h) /\ Nil \in U BY <1>2
  <2>2. ASSUME NEW n \in U \ {Nil}, NEW i \in DOMAIN h[n].kids PROVE h[n].kids[i] \in U
    <3>1. PICK S \in P : n \in S BY <2>2
    <3>2. h[n].kids[i] \in S BY <2>2, <3>1 DEF Closed
    <3> QED BY <3>2
  <2> HIDE DEF U
  <2> QED BY <2>1, <2>2 DEF Closed
<1>4. ASSUME NEW S \in P, NEW f, Unders(f, h, S), NEW n \in S PROVE e[n] = f[n]
  <2>1. \E v : \E Q \in P : \E q : n \in Q /\ Unders(q, h, Q) /\ v = q[n] BY <1>4
  <2>2. PICK Q \in P : \E q : n \in Q /\ Unders(q, h, Q) /\ tab(n) = q[n] BY <2>1
  <2>3. PICK q : n \in Q /\ Unders(q, h, Q) /\ tab(n) = q[n] BY <2>2
  <2>4. Closed(h, S \cap Q) BY DEF Closed
  <2>6. S \cap Q \subseteq S /\ S \cap Q \subseteq Q /\ n \in S \cap Q BY <2>3
  <2>7. f[n] = q[n]
    <3> HIDE DEF P
    <3> QED BY <2>3, <2>4, <2>6, <1>4, UndersAgree
  <2>8. n \in U BY <1>4
  <2> HIDE DEF P, U, tab
  <2> QED BY <2>3, <2>7, <2>8
<1>5. Unders(e, h, U)
  <2> DEFINE w(n, f) == IF n = Nil THEN {}
                        ELSE {n} \cup UNION {f[h[n].kids[i]] : i \in DOMAIN h[n].kids}
  <2>1. ASSUME NEW n \in U PROVE e[n] = w(n, e)
    <3>1. PICK S \in P : n \in S OBVIOUS
    <3>2. PICK f : Unders(f, h, S) BY <3>1
    <3>3. e[n] = f[n]
      <4> HIDE DEF P, U, e
      <4> QED BY <3>1, <3>2, <1>4
    <3>4. f[n] = w(n, f)
      <4> HIDE DEF P, U, e
      <4> QED BY <3>1, <3>2 DEF Unders
    <3>5. ASSUME n # Nil PROVE \A i \in DOMAIN h[n].kids : f[h[n].kids[i]] = e[h[n].kids[i]]
      <4>1. \A i \in DOMAIN h[n].kids : h[n].kids[i] \in S BY <3>1, <3>5 DEF Closed
      <4> HIDE DEF P, U, e
      <4> QED BY <4>1, <3>1, <3>2, <1>4
    <3> HIDE DEF P, U, e
    <3>6. w(n, f) = w(n, e)
      <4>1. CASE n = Nil BY <4>1
      <4>2. CASE n # Nil
        <5>1. {f[h[n].kids[i]] : i \in DOMAIN h[n].kids}
                = {e[h[n].kids[i]] : i \in DOMAIN h[n].kids}
          BY <4>2, <3>5
        <5> QED BY <5>1
      <4> QED BY <4>1, <4>2
    <3> QED BY <3>3, <3>4, <3>6
  <2>2. e = [n \in U |-> e[n]] OBVIOUS
  <2> HIDE DEF U, e
  <2>3. e = [n \in U |-> w(n, e)] BY <2>1, <2>2
  <2> QED BY <2>3 DEF Unders
<1>6. U = 0..Len(h)
  <2> DEFINE D == (0..Len(h)) \ U
  <2> SUFFICES ASSUME D # {} PROVE FALSE
    <3>1. U \subseteq 0..Len(h) OBVIOUS
    <3> HIDE DEF U
    <3> QED BY <3>1
  <2>1. Nil \in U BY <1>2
  <2>2. D \subseteq DOMAIN h
    <3> HIDE DEF U
    <3> QED BY <2>1, <1>1 DEF Nil
  <2>3. PICK n \in D : \A i \in DOMAIN h[n].kids : h[n].kids[i] \notin D
    <3> HIDE DEF D
    <3> QED BY <2>2 DEF Acyclic
  <2>4. \A i \in DOMAIN h[n].kids : h[n].kids[i] \in U
    <3> HIDE DEF U
    <3>1. n \in DOMAIN h BY <2>2
    <3>2. \A i \in DOMAIN h[n].kids : h[n].kids[i] \in 0..Len(h) BY <3>1, HeapFacts
    <3> QED BY <2>3, <3>2
  <2> DEFINE V == U \cup {n}
             f == [m \in V |->
                     IF m = Nil THEN {}
                     ELSE {m} \cup UNION {e[h[m].kids[i]] : i \in DOMAIN h[m].kids}]
  <2>5. n \in 0..Len(h) /\ n \notin U /\ n # Nil BY <2>1
  <2>6. Closed(h, V)
    <3> HIDE DEF U
    <3> QED BY <1>3, <2>4, <2>5 DEF Closed
  <2> HIDE DEF P, U, e, tab
  <2>7. ASSUME NEW m \in U PROVE f[m] = e[m]
    BY <1>5 DEF Unders
  <2>8. ASSUME NEW m \in V, m # Nil
        PROVE  {e[h[m].kids[i]] : i \in DOMAIN h[m].kids}
                 = {f[h[m].kids[i]] : i \in DOMAIN h[m].kids}
    <3>1. \A i \in DOMAIN h[m].kids : h[m].kids[i] \in U BY <2>8, <2>4, <1>3 DEF Closed
    <3> HIDE DEF f
    <3> QED BY <3>1, <2>7
  <2>9. Unders(f, h, V)
    <3> DEFINE a(m) == IF m = Nil THEN {}
                       ELSE {m} \cup UNION {e[h[m].kids[i]] : i \in DOMAIN h[m].kids}
               b(m) == IF m = Nil THEN {}
                       ELSE {m} \cup UNION {f[h[m].kids[i]] : i \in DOMAIN h[m].kids}
    <3>1. \A m \in V : a(m) = b(m)
      <4> HIDE DEF f, V
      <4> QED BY <2>8
    <3>2. f = [m \in V |-> a(m)] OBVIOUS
    <3> HIDE DEF f, V
    <3>3. f = [m \in V |-> b(m)]
      <4> HIDE DEF a, b
      <4> QED BY <3>1, <3>2
    <3> QED BY <3>3 DEF Unders
  <2>10. V \subseteq 0..Len(h) /\ n \in V BY <2>6 DEF Closed
  <2> HIDE DEF f, V
  <2>11. V \in P BY <2>6, <2>9, <2>10 DEF P
  <2> QED BY <2>5, <2>10, <2>11 DEF U
<1> HIDE DEF e, U, P, tab
<1> QED BY <1>5, <1>6

\* What is under a node of a closed set is in it.
LEMMA UnderClosed ==
  ASSUME NEW h, IsHeap(h), Acyclic(h), NEW S, Closed(h, S)
  PROVE  \A n \in S : Under(h, n) \subseteq S \ {Nil}
<1> DEFINE f == CHOOSE f : Unders(f, h, 0..Len(h))
           bad == {n \in S : ~ (f[n] \subseteq S \ {Nil})}
<1>1. Unders(f, h, 0..Len(h)) BY UndersExist
<1>2. ASSUME NEW n PROVE Under(h, n) = f[n] BY DEF Under, Unders
<1> HIDE DEF f
<1> SUFFICES ASSUME bad # {} PROVE FALSE BY <1>2
<1>3. S \subseteq 0..Len(h) /\ Nil \in S BY DEF Closed
<1>4. f[Nil] = {} BY <1>1, <1>3 DEF Unders
<1>5. bad \subseteq DOMAIN h BY <1>4, ClosedNode
<1>6. PICK n \in bad : \A i \in DOMAIN h[n].kids : h[n].kids[i] \notin bad
  <2> HIDE DEF bad
  <2> QED BY <1>5 DEF Acyclic
<1>7. n \in S /\ n # Nil /\ n \in 0..Len(h) BY <1>3, <1>4, <1>6
<1>8. f[n] = {n} \cup UNION {f[h[n].kids[i]] : i \in DOMAIN h[n].kids}
  BY <1>1, <1>7 DEF Unders
<1>9. \A i \in DOMAIN h[n].kids : f[h[n].kids[i]] \subseteq S \ {Nil}
  BY <1>6, <1>7, ClosedNode
<1> QED BY <1>6, <1>7, <1>8, <1>9

-----------------------------------------------------------------------------
\* No node holds this one.
Unheld(h, n) == \A m \in DOMAIN h : \A i \in DOMAIN h[m].kids : h[m].kids[i] # n

\* A node added over nodes of the heap closes no cycle.
LEMMA AddedAcyclic ==
  ASSUME NEW h, IsHeap(h), Acyclic(h), NEW g, IsHeap(g), Len(g) = Len(h) + 1, Grown(h, g),
         \A i \in DOMAIN g[Len(g)].kids : g[Len(g)].kids[i] \in 0..Len(h)
  PROVE  /\ Acyclic(g) /\ Unheld(g, Len(g))
         /\ \A n \in DOMAIN h :
              /\ Unheld(h, n)
              /\ \A i \in DOMAIN g[Len(g)].kids : g[Len(g)].kids[i] # n
              => Unheld(g, n)
<1>1. /\ Len(h) \in Nat /\ DOMAIN h = 1..Len(h) /\ DOMAIN g = 1..(Len(h) + 1)
      /\ Len(g) \in DOMAIN g /\ Len(g) \notin DOMAIN h /\ Len(g) \notin 0..Len(h)
  BY DEF IsHeap
<1>2. ASSUME NEW n \in DOMAIN h
      PROVE  g[n].kids = h[n].kids /\ \A i \in DOMAIN h[n].kids : h[n].kids[i] \in 0..Len(h)
  BY <1>1 DEF Grown, IsHeap
<1>3. ASSUME NEW n \in DOMAIN g PROVE n \in DOMAIN h \/ n = Len(g) BY <1>1
<1>4. ASSUME NEW S \in SUBSET DOMAIN g, S # {}
      PROVE  \E n \in S : \A i \in DOMAIN g[n].kids : g[n].kids[i] \notin S
  <2> DEFINE old == S \ {Len(g)}
  <2>1. old \in SUBSET DOMAIN h BY <1>3
  <2>2. CASE old = {}
    <3>1. S = {Len(g)} BY <1>4, <2>2
    <3>2. \A i \in DOMAIN g[Len(g)].kids : g[Len(g)].kids[i] # Len(g) BY <1>1
    <3> QED BY <3>1, <3>2
  <2>3. CASE old # {}
    <3>1. PICK n \in old : \A i \in DOMAIN h[n].kids : h[n].kids[i] \notin old
      <4> HIDE DEF old
      <4> QED BY <2>1, <2>3 DEF Acyclic
    <3>2. n \in DOMAIN h BY <2>1
    <3>3. g[n].kids = h[n].kids /\ \A i \in DOMAIN h[n].kids : h[n].kids[i] # Len(g)
      BY <3>2, <1>1, <1>2
    <3> QED BY <3>1, <3>3
  <2> QED BY <2>2, <2>3
<1>5. Acyclic(g) BY <1>4 DEF Acyclic
<1>6. Unheld(g, Len(g)) BY <1>1, <1>2, <1>3 DEF Unheld
<1>7. ASSUME NEW n \in DOMAIN h, Unheld(h, n),
             \A i \in DOMAIN g[Len(g)].kids : g[Len(g)].kids[i] # n
      PROVE  Unheld(g, n)
  BY <1>2, <1>3, <1>7 DEF Unheld
<1> QED BY <1>5, <1>6, <1>7

\* Nor does one more child of a node that none holds.
LEMMA SetAcyclic ==
  ASSUME NEW h, IsHeap(h), Acyclic(h), NEW n \in DOMAIN h, Unheld(h, n),
         NEW i, NEW k \in 0..Len(h), k # n
  PROVE  LET g == Set(h, n, i, k) IN
           /\ Acyclic(g)
           /\ \A m \in DOMAIN h : Unheld(h, m) /\ m # k => Unheld(g, m)
<1> DEFINE g == Set(h, n, i, k)
<1>1. /\ IsHeap(g) /\ Len(g) = Len(h)
      /\ \A m \in 1..Len(h) : m # n => g[m].kids = h[m].kids
      /\ DOMAIN g[n].kids = DOMAIN h[n].kids
      /\ \A j \in DOMAIN h[n].kids : g[n].kids[j] = IF j = i THEN k ELSE h[n].kids[j]
  BY SetFacts
<1> HIDE DEF g
<1>2. DOMAIN h = 1..Len(h) /\ DOMAIN g = 1..Len(h) BY <1>1 DEF IsHeap
<1>3. ASSUME NEW S \in SUBSET DOMAIN g, S # {}
      PROVE  \E m \in S : \A j \in DOMAIN g[m].kids : g[m].kids[j] \notin S
  <2> DEFINE rest == S \ {n}
  <2>1. rest \in SUBSET DOMAIN h BY <1>2
  <2>2. CASE rest = {}
    <3>1. S = {n} BY <1>3, <2>2
    <3>2. \A j \in DOMAIN g[n].kids : g[n].kids[j] # n BY <1>1 DEF Unheld
    <3> QED BY <3>1, <3>2
  <2>3. CASE rest # {}
    <3>1. PICK m \in rest : \A j \in DOMAIN h[m].kids : h[m].kids[j] \notin rest
      <4> HIDE DEF rest
      <4> QED BY <2>1, <2>3 DEF Acyclic
    <3>2. m \in DOMAIN h /\ m # n BY <2>1
    <3>3. g[m].kids = h[m].kids /\ \A j \in DOMAIN h[m].kids : h[m].kids[j] # n
      BY <3>2, <1>1, <1>2 DEF Unheld
    <3> QED BY <3>1, <3>3
  <2> QED BY <2>2, <2>3
<1>4. Acyclic(g) BY <1>3 DEF Acyclic
<1>5. ASSUME NEW m \in DOMAIN h, Unheld(h, m), m # k PROVE Unheld(g, m)
  <2>1. ASSUME NEW p \in DOMAIN g, NEW j \in DOMAIN g[p].kids PROVE g[p].kids[j] # m
    <3>1. CASE p = n BY <3>1, <1>1, <1>2, <1>5, <2>1 DEF Unheld
    <3>2. CASE p # n BY <3>2, <1>1, <1>2, <1>5, <2>1 DEF Unheld
    <3> QED BY <3>1, <3>2
  <2> QED BY <2>1 DEF Unheld
<1> QED BY <1>4, <1>5 DEF g

\* Nor does a comparison between a node and its child.
LEMMA ComparedAcyclic ==
  ASSUME NEW h, IsHeap(h), Acyclic(h), NEW n \in DOMAIN h, NEW i
  PROVE  Acyclic(Compared(h, n, i))
<1>1. Len(h) \in Nat /\ DOMAIN h = 1..Len(h) /\ n \in Nat BY DEF IsHeap
<1>2. CASE ~ IsBare(h, n, i) BY <1>2 DEF Compared
<1>3. CASE IsBare(h, n, i)
  <2> DEFINE zero == New(h, "Literal", <<"0", 0>>, <<>>)
             child == h[n].kids[i]
             kids == <<child, Len(zero)>>
             neq == New(zero, "NEQ", NoName, kids)
             g == Set(neq, n, i, Len(neq))
  <2>1. Compared(h, n, i) = g BY <1>3 DEF Compared
  <2>2. i \in DOMAIN h[n].kids BY <1>3 DEF IsBare
  <2>3. child \in 0..Len(h)
    <3> HIDE DEF zero
    <3> QED BY <2>2, HeapFacts
  <2>4. /\ IsHeap(zero) /\ Len(zero) = Len(h) + 1 /\ Grown(h, zero)
        /\ zero[Len(zero)].kids = <<>>
    <3>1. <<"0", 0>> \in Names /\ "Literal" \in Classes /\ "Literal" \notin Unary
      BY MadeUp
    <3> DEFINE none == <<>>
               z == New(h, "Literal", <<"0", 0>>, none)
    <3>2. none \in Seq(0..Len(h)) OBVIOUS
    <3> HIDE DEF none, zero
    <3>3. /\ IsHeap(z) /\ Len(z) = Len(h) + 1 /\ Grown(h, z)
          /\ z[Len(z)] = [class |-> "Literal", name |-> <<"0", 0>>, kids |-> none, parent |-> Nil]
      BY <3>1, <3>2, NewFacts
    <3> HIDE DEF z
    <3>4. z[Len(z)].kids = none BY <3>3
    <3>5. z = zero BY DEF z, none, zero
    <3> QED BY <3>3, <3>4, <3>5 DEF none
  <2> HIDE DEF zero
  <2>5. kids \in Seq(0..Len(zero))
    <3>1. child \in 0..Len(zero) /\ Len(zero) \in 0..Len(zero) BY <2>3, <2>4, <1>1
    <3> HIDE DEF child
    <3> QED BY <3>1
  <2>6. /\ IsHeap(neq) /\ Len(neq) = Len(zero) + 1 /\ Grown(zero, neq)
        /\ neq[Len(neq)].kids = kids
    <3>1. NoName \in Names /\ "NEQ" \in Classes /\ "NEQ" \notin Unary BY MadeUp
    <3> HIDE DEF kids
    <3>2. /\ IsHeap(neq) /\ Len(neq) = Len(zero) + 1 /\ Grown(zero, neq)
          /\ neq[Len(neq)] = [class |-> "NEQ", name |-> NoName, kids |-> kids, parent |-> Nil]
      BY <3>1, <2>4, <2>5, NewFacts
    <3> HIDE DEF neq
    <3> QED BY <3>2
  <2> HIDE DEF neq
  <2>7. /\ Len(zero) = Len(h) + 1 /\ Len(neq) = Len(h) + 2
        /\ DOMAIN neq = 1..(Len(h) + 2) /\ n \in DOMAIN neq /\ Len(neq) \in 0..Len(neq)
    BY <1>1, <2>4, <2>6 DEF IsHeap
  <2>8. /\ IsHeap(g) /\ Len(g) = Len(neq)
        /\ \A m \in 1..Len(neq) : m # n => g[m].kids = neq[m].kids
        /\ DOMAIN g[n].kids = DOMAIN neq[n].kids
        /\ \A j \in DOMAIN neq[n].kids : g[n].kids[j] = IF j = i THEN Len(neq) ELSE neq[n].kids[j]
    BY <2>6, <2>7, SetFacts
  <2> HIDE DEF g
  <2>9. /\ \A m \in DOMAIN h : neq[m].kids = h[m].kids
        /\ neq[Len(h) + 1].kids = <<>> /\ neq[Len(h) + 2].kids = <<child, Len(h) + 1>>
    <3>1. \A m \in DOMAIN h : neq[m].kids = zero[m].kids /\ zero[m].kids = h[m].kids
      BY <1>1, <2>4, <2>6 DEF Grown
    <3>2. neq[Len(zero)].kids = zero[Len(zero)].kids BY <1>1, <2>4, <2>6 DEF Grown
    <3> QED BY <3>1, <3>2, <2>4, <2>6, <2>7
  <2>10. n # Len(h) + 1 /\ n # Len(h) + 2 BY <1>1
  <2>11. /\ g[Len(h) + 1].kids = <<>> /\ g[Len(h) + 2].kids = <<child, Len(h) + 1>>
         /\ \A m \in DOMAIN h : m # n => g[m].kids = h[m].kids
         /\ DOMAIN g[n].kids = DOMAIN h[n].kids
         /\ \A j \in DOMAIN h[n].kids : g[n].kids[j] = IF j = i THEN Len(h) + 2 ELSE h[n].kids[j]
         /\ DOMAIN g = 1..(Len(h) + 2)
    BY <1>1, <2>7, <2>8, <2>9, <2>10 DEF IsHeap
  <2>12. ASSUME NEW S \in SUBSET DOMAIN g, S # {}
         PROVE  \E m \in S : \A j \in DOMAIN g[m].kids : g[m].kids[j] \notin S
    <3> DEFINE old == S \cap DOMAIN h
    <3>1. S \subseteq old \cup {Len(h) + 1, Len(h) + 2} BY <1>1, <2>11
    <3>2. CASE Len(h) + 1 \in S BY <3>2, <2>11
    <3>3. CASE Len(h) + 1 \notin S /\ old = {}
      <4>1. S = {Len(h) + 2} BY <3>1, <3>3, <2>12
      <4>2. child # Len(h) + 2 /\ Len(h) + 1 # Len(h) + 2 BY <1>1, <2>3
      <4>3. \A j \in DOMAIN g[Len(h) + 2].kids :
              g[Len(h) + 2].kids[j] = child \/ g[Len(h) + 2].kids[j] = Len(h) + 1
        BY <2>11
      <4> QED BY <4>1, <4>2, <4>3
    <3>4. CASE Len(h) + 1 \notin S /\ old # {}
      <4>1. PICK m \in old : \A j \in DOMAIN h[m].kids : h[m].kids[j] \notin old
        <5> HIDE DEF old
        <5>1. old \in SUBSET DOMAIN h BY DEF old
        <5> QED BY <5>1, <3>4 DEF Acyclic
      <4>2. \A j \in DOMAIN h[m].kids : h[m].kids[j] \in 0..Len(h)
        <5>1. m \in DOMAIN h OBVIOUS
        <5> QED BY <5>1, HeapFacts
      <4>3. \A j \in DOMAIN h[m].kids : h[m].kids[j] \notin S BY <4>1, <4>2, <3>1, <1>1
      <4>4. CASE m # n \/ Len(h) + 2 \notin S BY <4>3, <4>4, <2>11
      <4>5. CASE m = n /\ Len(h) + 2 \in S
        <5>1. child \notin S BY <4>3, <4>5, <2>2
        <5>2. \A j \in DOMAIN g[Len(h) + 2].kids :
                g[Len(h) + 2].kids[j] = child \/ g[Len(h) + 2].kids[j] = Len(h) + 1
          BY <2>11
        <5> QED BY <5>1, <5>2, <3>4, <4>5
      <4> QED BY <4>4, <4>5
    <3> QED BY <3>2, <3>3, <3>4
  <2>13. Acyclic(g) BY <2>12 DEF Acyclic
  <2> QED BY <2>1, <2>13
<1> QED BY <1>2, <1>3

LEMMA ShallowAcyclic ==
  ASSUME NEW h, IsHeap(h), Acyclic(h), NEW n \in DOMAIN h
  PROVE  LET g == ShallowCopy(h, n) IN
           /\ Acyclic(g) /\ Unheld(g, Len(g))
           /\ \A m \in DOMAIN h : Unheld(h, m) => Unheld(g, m)
<1> DEFINE g == ShallowCopy(h, n)
<1>1. IsHeap(g) /\ Len(g) = Len(h) + 1 /\ Grown(h, g) /\ g[Len(g)].kids = h[n].kids
  BY ShallowFacts
<1> HIDE DEF g
<1>2. \A i \in DOMAIN g[Len(g)].kids : g[Len(g)].kids[i] \in 0..Len(h) BY <1>1, HeapFacts
<1>3. \A m \in DOMAIN h :
        Unheld(h, m) => \A i \in DOMAIN g[Len(g)].kids : g[Len(g)].kids[i] # m
  BY <1>1 DEF Unheld
<1> QED BY <1>1, <1>2, <1>3, AddedAcyclic DEF g

LEMMA BlankAcyclic ==
  ASSUME NEW h, IsHeap(h), Acyclic(h), NEW n \in DOMAIN h
  PROVE  LET g == Blank(h, n) IN
           /\ Acyclic(g) /\ Unheld(g, Len(g))
           /\ \A m \in DOMAIN h : Unheld(h, m) => Unheld(g, m)
<1> DEFINE g == Blank(h, n)
<1>1. /\ IsHeap(g) /\ Len(g) = Len(h) + 1 /\ Grown(h, g)
      /\ \A i \in DOMAIN g[Len(g)].kids : g[Len(g)].kids[i] = Nil
  BY BlankFacts
<1> HIDE DEF g
<1>2. Nil \in 0..Len(h) /\ Nil \notin DOMAIN h BY DEF IsHeap, Nil
<1> QED BY <1>1, <1>2, AddedAcyclic DEF g

LEMMA PreparedAcyclic ==
  ASSUME NEW h, IsHeap(h), Acyclic(h), NEW n \in DOMAIN h
  PROVE  Acyclic(Prepared(h, n))
<1> DEFINE out == ShallowCopy(h, n)
<1>1. Len(h) \in Nat /\ DOMAIN h = 1..Len(h) BY DEF IsHeap
<1>2. IsHeap(out) /\ Len(out) = Len(h) + 1 BY ShallowFacts
<1>3. Acyclic(out) /\ Unheld(out, Len(out)) BY ShallowAcyclic
<1> HIDE DEF out
<1>4. Len(out) \in DOMAIN out BY <1>1, <1>2 DEF IsHeap
<1>5. CASE ElidesCast(h, n)
  <2> DEFINE cast == This(h, n)
             below == This(h, cast)
  <2>1. Prepared(h, n) = Set(out, Len(out), 1, below)
    BY <1>5 DEF Prepared, out
  <2>2. cast \in DOMAIN h /\ h[cast].class \in Unary
    BY <1>5 DEF ElidesCast, ClassOf, Unary
  <2>3. below \in 0..Len(h)
    <3> HIDE DEF cast
    <3> QED BY <2>2, HeapFacts
  <2>4. below \in 0..Len(out) /\ below # Len(out)
    <3> HIDE DEF below
    <3> QED BY <2>3, <1>1, <1>2
  <2> HIDE DEF below
  <2> QED BY <2>1, <2>4, <1>2, <1>3, <1>4, SetAcyclic
<1>6. CASE ~ ElidesCast(h, n) /\ AddsCast(h, n)
  <2> DEFINE kids == <<This(h, n)>>
             cast == New(out, "Cast", NoName, kids)
  <2>1. Prepared(h, n) = Set(cast, Len(out), 1, Len(cast))
    BY <1>6 DEF Prepared, out
  <2>2. h[n].class \in Unary BY <1>6 DEF AddsCast, Unary
  <2>3. This(h, n) \in 0..Len(h) BY <2>2, HeapFacts
  <2>4. kids \in Seq(0..Len(out)) /\ Len(kids) > 0
    <3>1. This(h, n) \in 0..Len(out) BY <2>3, <1>1, <1>2
    <3> QED BY <3>1
  <2>5. \A i \in DOMAIN kids : kids[i] \in 0..Len(h) /\ kids[i] # Len(out)
    <3>1. This(h, n) # Len(out) BY <2>3, <1>1, <1>2
    <3>2. \A i \in DOMAIN kids : kids[i] = This(h, n) OBVIOUS
    <3> HIDE DEF kids
    <3> QED BY <3>1, <3>2, <2>3
  <2> HIDE DEF kids
  <2>6. /\ IsHeap(cast) /\ Len(cast) = Len(out) + 1 /\ Grown(out, cast)
        /\ cast[Len(cast)].kids = kids
    <3>1. NoName \in Names /\ "Cast" \in Classes BY MadeUp
    <3>2. /\ IsHeap(cast) /\ Len(cast) = Len(out) + 1 /\ Grown(out, cast)
          /\ cast[Len(cast)] = [class |-> "Cast", name |-> NoName, kids |-> kids, parent |-> Nil]
      BY <3>1, <2>4, <1>2, NewFacts
    <3> HIDE DEF cast
    <3> QED BY <3>2
  <2> HIDE DEF cast
  <2>7. \A i \in DOMAIN cast[Len(cast)].kids :
          cast[Len(cast)].kids[i] \in 0..Len(out) /\ cast[Len(cast)].kids[i] # Len(out)
    BY <2>5, <2>6, <1>1, <1>2
  <2>8. Acyclic(cast) /\ Unheld(cast, Len(out))
    BY <2>6, <2>7, <1>2, <1>3, <1>4, AddedAcyclic
  <2>9. Len(out) \in DOMAIN cast /\ Len(cast) \in 0..Len(cast) /\ Len(cast) # Len(out)
    BY <2>6, <1>1, <1>2 DEF IsHeap
  <2> QED BY <2>1, <2>6, <2>8, <2>9, SetAcyclic
<1>7. CASE ~ ElidesCast(h, n) /\ ~ AddsCast(h, n) /\ SpellsFormat(h, n)
  <2> DEFINE spelled == New(out, "Literal", <<"yyyy", 0>>, <<>>)
  <2>1. Prepared(h, n) = Set(spelled, Len(out), 2, Len(spelled)) BY <1>7 DEF Prepared, out
  <2>2. /\ IsHeap(spelled) /\ Len(spelled) = Len(out) + 1 /\ Grown(out, spelled)
        /\ spelled[Len(spelled)].kids = <<>>
    <3>1. "Literal" \in Classes /\ <<"yyyy", 0>> \in Names /\ "Literal" \notin Unary
      BY MadeUp DEF Unary
    <3>2. PICK name, kids : name = <<"yyyy", 0>> /\ kids = <<>> OBVIOUS
    <3>3. kids \in Seq(0..Len(out)) BY <3>2
    <3>4. name \in Names BY <3>1, <3>2
    <3>5. /\ IsHeap(spelled) /\ Len(spelled) = Len(out) + 1 /\ Grown(out, spelled)
          /\ spelled[Len(spelled)] = [class |-> "Literal", name |-> name, kids |-> kids, parent |-> Nil]
      <4>1. spelled = New(out, "Literal", name, kids) BY <3>2
      <4> HIDE DEF spelled
      <4> QED BY <4>1, <3>1, <3>3, <3>4, <1>2, NewFacts
    <3> HIDE DEF spelled
    <3> QED BY <3>2, <3>5
  <2> HIDE DEF spelled
  <2>3. Acyclic(spelled) /\ Unheld(spelled, Len(out))
    BY <2>2, <1>2, <1>3, <1>4, AddedAcyclic
  <2>4. Len(out) \in DOMAIN spelled /\ Len(spelled) \in 0..Len(spelled) /\ Len(spelled) # Len(out)
    BY <2>2, <1>1, <1>2 DEF IsHeap
  <2> QED BY <2>1, <2>2, <2>3, <2>4, SetAcyclic
<1>8. CASE ~ ElidesCast(h, n) /\ ~ AddsCast(h, n) /\ ~ SpellsFormat(h, n)
  BY <1>8 DEF Prepared
<1> QED BY <1>5, <1>6, <1>7, <1>8

-----------------------------------------------------------------------------
\* New makes itself the Parent of its children, and Set of the child it is given.
LEMMA NewParents ==
  ASSUME NEW h, IsHeap(h), NEW class \in Classes, NEW name \in Names,
         NEW kids \in Seq(0..Len(h)), class \in Unary => Len(kids) > 0
  PROVE  LET g == New(h, class, name, kids) IN
           /\ \A n \in DOMAIN h :
                g[n].parent = IF n \in Range(kids) THEN Len(h) + 1 ELSE h[n].parent
           /\ g[Len(h) + 1].parent = Nil
           /\ ParentsWithin(h) => ParentsWithin(g)
<1> DEFINE old == [n \in DOMAIN h |->
                     IF n \in Range(kids) THEN [h[n] EXCEPT !.parent = Len(h) + 1] ELSE h[n]]
           node == [class |-> class, name |-> name, kids |-> kids, parent |-> Nil]
           g == New(h, class, name, kids)
<1>1. h \in Seq(Nodes) /\ Len(h) \in Nat /\ DOMAIN h = 1..Len(h) BY DEF IsHeap
<1>2. old \in [1..Len(h) -> {old[n] : n \in 1..Len(h)}] BY <1>1
<1>3. old \in Seq({old[n] : n \in 1..Len(h)}) /\ Len(old) = Len(h)
  <2> HIDE DEF old
  <2> QED BY <1>1, <1>2
<1>4. g = Append(old, node) BY DEF New
<1>5. g[Len(h) + 1] = node /\ \A n \in 1..Len(h) : g[n] = old[n]
  <2> HIDE DEF old, node, g
  <2> QED BY <1>1, <1>3, <1>4
<1>6. IsHeap(g) /\ Len(g) = Len(h) + 1 BY NewFacts
<1>7. ASSUME NEW n \in DOMAIN h
      PROVE  g[n].parent = IF n \in Range(kids) THEN Len(h) + 1 ELSE h[n].parent
  <2>1. h[n] \in Nodes BY <1>1
  <2>2. g[n] = IF n \in Range(kids) THEN [h[n] EXCEPT !.parent = Len(h) + 1] ELSE h[n]
    BY <1>1, <1>5
  <2> HIDE DEF g
  <2> QED BY <2>1, <2>2 DEF Nodes
<1>8. g[Len(h) + 1].parent = Nil BY <1>5
<1>9. ASSUME ParentsWithin(h) PROVE ParentsWithin(g)
  <2> HIDE DEF g, old, node
  <2>1. \A n \in DOMAIN g : n \in DOMAIN h \/ n = Len(h) + 1 BY <1>1, <1>6 DEF IsHeap
  <2>2. \A n \in DOMAIN h : h[n].parent \in 0..Len(g) BY <1>1, <1>6, <1>9 DEF ParentsWithin
  <2>3. Len(h) + 1 \in 0..Len(g) /\ Nil \in 0..Len(g) BY <1>1, <1>6 DEF Nil
  <2> QED BY <1>7, <1>8, <2>1, <2>2, <2>3 DEF ParentsWithin
<1> HIDE DEF g
<1> QED BY <1>7, <1>8, <1>9 DEF g

LEMMA SetParents ==
  ASSUME NEW h, IsHeap(h), NEW n \in DOMAIN h, NEW i, NEW k \in 0..Len(h)
  PROVE  LET g == Set(h, n, i, k) IN
           /\ \A m \in DOMAIN h : g[m].parent = IF m = k THEN n ELSE h[m].parent
           /\ ParentsWithin(h) => ParentsWithin(g)
<1> DEFINE set == [h[n].kids EXCEPT ![i] = k]
           slot(m) == IF m = n THEN [h[m] EXCEPT !.kids = set] ELSE h[m]
           g == Set(h, n, i, k)
<1>1. h \in Seq(Nodes) /\ Len(h) \in Nat /\ DOMAIN h = 1..Len(h) BY DEF IsHeap
<1>2. IsHeap(g) /\ Len(g) = Len(h) BY SetHeap
<1>3. ASSUME NEW m \in DOMAIN h
      PROVE  g[m].parent = IF m = k THEN n ELSE h[m].parent
  <2>1. h[m] \in Nodes BY <1>1
  <2>2. slot(m).parent = h[m].parent /\ slot(m) = [slot(m) EXCEPT !.class = slot(m).class]
    <3> HIDE DEF set
    <3> QED BY <2>1 DEF Nodes
  <2>3. [slot(m) EXCEPT !.parent = n].parent = n
    <3> HIDE DEF set
    <3> QED BY <2>1 DEF Nodes
  <2>4. g[m] = IF m = k THEN [slot(m) EXCEPT !.parent = n] ELSE slot(m) BY DEF Set
  <2> HIDE DEF g, slot
  <2> QED BY <2>2, <2>3, <2>4
<1>4. ASSUME ParentsWithin(h) PROVE ParentsWithin(g)
  <2> HIDE DEF g
  <2>1. DOMAIN g = DOMAIN h /\ n \in 0..Len(h) BY <1>1, <1>2 DEF IsHeap
  <2> QED BY <1>2, <1>3, <1>4, <2>1 DEF ParentsWithin
<1> HIDE DEF g
<1> QED BY <1>3, <1>4 DEF g

LEMMA CopiesWithin ==
  ASSUME NEW h, IsHeap(h), NEW n \in DOMAIN h, ParentsWithin(h)
  PROVE  ParentsWithin(ShallowCopy(h, n)) /\ ParentsWithin(Blank(h, n))
<1> DEFINE kids == [i \in DOMAIN h[n].kids |-> Nil]
<1>1. h[n] \in Nodes /\ h[n].kids \in Seq(0..Len(h)) /\ Len(h) \in Nat BY HeapFacts DEF IsHeap
<1>2. /\ h[n].class \in Classes /\ h[n].name \in Names
      /\ h[n].class \in Unary => Len(h[n].kids) > 0
  BY <1>1 DEF Nodes
<1>3. DOMAIN h[n].kids = 1..Len(h[n].kids) /\ Len(h[n].kids) \in Nat BY <1>1
<1>4. kids \in Seq(0..Len(h)) /\ Len(kids) = Len(h[n].kids) BY <1>1, <1>3 DEF Nil
<1> HIDE DEF kids
<1>5. ParentsWithin(New(h, h[n].class, h[n].name, kids)) BY <1>2, <1>4, NewParents
<1>6. ParentsWithin(New(h, h[n].class, h[n].name, h[n].kids)) BY <1>1, <1>2, NewParents
<1> QED BY <1>5, <1>6 DEF ShallowCopy, Blank, kids

LEMMA ComparedWithin ==
  ASSUME NEW h, IsHeap(h), NEW n \in DOMAIN h, ParentsWithin(h), NEW i
  PROVE  ParentsWithin(Compared(h, n, i))
<1>1. Len(h) \in Nat /\ DOMAIN h = 1..Len(h) BY DEF IsHeap
<1>2. CASE ~ IsBare(h, n, i) BY <1>2 DEF Compared
<1>3. CASE IsBare(h, n, i)
  <2> DEFINE none == <<>>
             zero == New(h, "Literal", <<"0", 0>>, none)
             kids == <<h[n].kids[i], Len(zero)>>
             neq == New(zero, "NEQ", NoName, kids)
  <2>1. Compared(h, n, i) = Set(neq, n, i, Len(neq)) BY <1>3 DEF Compared
  <2>2. IsHeap(zero) /\ Len(zero) = Len(h) + 1 /\ ParentsWithin(zero)
    <3>1. <<"0", 0>> \in Names /\ "Literal" \in Classes /\ "Literal" \notin Unary BY MadeUp
    <3>2. none \in Seq(0..Len(h)) OBVIOUS
    <3> HIDE DEF none
    <3>3. IsHeap(zero) /\ Len(zero) = Len(h) + 1 BY <3>1, <3>2, NewFacts
    <3>4. ParentsWithin(zero) BY <3>1, <3>2, NewParents
    <3> QED BY <3>3, <3>4
  <2>3. h[n].kids[i] \in 0..Len(h)
    <3>1. i \in DOMAIN h[n].kids BY <1>3 DEF IsBare
    <3> QED BY <3>1, HeapFacts
  <2> HIDE DEF zero
  <2>4. kids \in Seq(0..Len(zero))
    <3>1. h[n].kids[i] \in 0..Len(zero) /\ Len(zero) \in 0..Len(zero) BY <2>2, <2>3, <1>1
    <3> QED BY <3>1
  <2> HIDE DEF kids
  <2>5. IsHeap(neq) /\ Len(neq) = Len(zero) + 1 /\ ParentsWithin(neq)
    <3>1. NoName \in Names /\ "NEQ" \in Classes /\ "NEQ" \notin Unary BY MadeUp
    <3>2. IsHeap(neq) /\ Len(neq) = Len(zero) + 1 BY <3>1, <2>2, <2>4, NewFacts
    <3>3. ParentsWithin(neq) BY <3>1, <2>2, <2>4, NewParents
    <3> QED BY <3>2, <3>3
  <2> HIDE DEF neq
  <2>6. n \in DOMAIN neq /\ Len(neq) \in 0..Len(neq) BY <1>1, <2>2, <2>5 DEF IsHeap
  <2>7. ParentsWithin(Set(neq, n, i, Len(neq))) BY <2>5, <2>6, SetParents
  <2> QED BY <2>1, <2>7
<1> QED BY <1>2, <1>3

LEMMA PreparedWithin ==
  ASSUME NEW h, IsHeap(h), NEW n \in DOMAIN h, ParentsWithin(h)
  PROVE  ParentsWithin(Prepared(h, n))
<1> DEFINE out == ShallowCopy(h, n)
<1>1. Len(h) \in Nat /\ DOMAIN h = 1..Len(h) BY DEF IsHeap
<1>2. IsHeap(out) /\ Len(out) = Len(h) + 1 /\ ParentsWithin(out) BY ShallowFacts, CopiesWithin
<1> HIDE DEF out
<1>3. Len(out) \in DOMAIN out BY <1>1, <1>2 DEF IsHeap
<1>4. CASE ElidesCast(h, n)
  <2> DEFINE cast == This(h, n)
             below == This(h, cast)
  <2>1. Prepared(h, n) = Set(out, Len(out), 1, below) BY <1>4 DEF Prepared, out
  <2>2. cast \in DOMAIN h /\ h[cast].class \in Unary BY <1>4 DEF ElidesCast, ClassOf, Unary
  <2>3. below \in 0..Len(h)
    <3> HIDE DEF cast
    <3> QED BY <2>2, HeapFacts
  <2> HIDE DEF below
  <2>4. below \in 0..Len(out) BY <2>3, <1>1, <1>2
  <2>5. ParentsWithin(Set(out, Len(out), 1, below)) BY <2>4, <1>2, <1>3, SetParents
  <2> QED BY <2>1, <2>5
<1>5. CASE ~ ElidesCast(h, n) /\ AddsCast(h, n)
  <2> DEFINE kids == <<This(h, n)>>
             cast == New(out, "Cast", NoName, kids)
  <2>1. Prepared(h, n) = Set(cast, Len(out), 1, Len(cast)) BY <1>5 DEF Prepared, out
  <2>2. h[n].class \in Unary BY <1>5 DEF AddsCast, Unary
  <2>3. This(h, n) \in 0..Len(out)
    <3>1. This(h, n) \in 0..Len(h) BY <2>2, HeapFacts
    <3> QED BY <3>1, <1>1, <1>2
  <2>4. kids \in Seq(0..Len(out)) /\ Len(kids) > 0 BY <2>3
  <2> HIDE DEF kids
  <2>5. IsHeap(cast) /\ Len(cast) = Len(out) + 1 /\ ParentsWithin(cast)
    <3>1. NoName \in Names /\ "Cast" \in Classes BY MadeUp
    <3>2. IsHeap(cast) /\ Len(cast) = Len(out) + 1 BY <3>1, <2>4, <1>2, NewFacts
    <3>3. ParentsWithin(cast) BY <3>1, <2>4, <1>2, NewParents
    <3> QED BY <3>2, <3>3
  <2> HIDE DEF cast
  <2>6. Len(out) \in DOMAIN cast /\ Len(cast) \in 0..Len(cast) BY <1>1, <1>2, <2>5 DEF IsHeap
  <2>7. ParentsWithin(Set(cast, Len(out), 1, Len(cast))) BY <2>5, <2>6, SetParents
  <2> QED BY <2>1, <2>7
<1>6. CASE ~ ElidesCast(h, n) /\ ~ AddsCast(h, n) /\ SpellsFormat(h, n)
  <2> DEFINE spelled == New(out, "Literal", <<"yyyy", 0>>, <<>>)
  <2>1. Prepared(h, n) = Set(spelled, Len(out), 2, Len(spelled)) BY <1>6 DEF Prepared, out
  <2>2. IsHeap(spelled) /\ Len(spelled) = Len(out) + 1 /\ ParentsWithin(spelled)
    <3>1. "Literal" \in Classes /\ <<"yyyy", 0>> \in Names /\ "Literal" \notin Unary
      BY MadeUp DEF Unary
    <3>2. <<>> \in Seq(0..Len(out)) OBVIOUS
    <3>3. IsHeap(spelled) /\ Len(spelled) = Len(out) + 1 BY <3>1, <3>2, <1>2, NewFacts
    <3>4. ParentsWithin(spelled) BY <3>1, <3>2, <1>2, NewParents
    <3> QED BY <3>3, <3>4
  <2> HIDE DEF spelled
  <2>3. Len(out) \in DOMAIN spelled /\ Len(spelled) \in 0..Len(spelled) BY <1>1, <1>2, <2>2 DEF IsHeap
  <2>4. ParentsWithin(Set(spelled, Len(out), 2, Len(spelled))) BY <2>2, <2>3, SetParents
  <2> QED BY <2>1, <2>4
<1>7. CASE ~ ElidesCast(h, n) /\ ~ AddsCast(h, n) /\ ~ SpellsFormat(h, n) BY <1>7 DEF Prepared
<1> QED BY <1>4, <1>5, <1>6, <1>7

-----------------------------------------------------------------------------
\* What Inv leaves out of the types: Parents, the root and the pass of a call,
\* and for what roots a text was kept.
Typed ==
  /\ ParentsWithin(heap)
  /\ call.root \in 0..Len(heap) /\ call.pass \in 0..MaxPasses /\ calls \in 0..MaxCalls
  /\ call.phase # "idle" => call.root \in roots /\ call.op \in Ops
  /\ DOMAIN written \subseteq roots \X Ops

LEMMA InitTyped == Init => Typed
<1> SUFFICES ASSUME Init PROVE Typed OBVIOUS
<1>1. IsHeap(heap) /\ Len(heap) \in Nat BY ParsedAssumption DEF Init, IsHeap
<1>2. ParentsWithin(heap) BY ParsedAssumption DEF Init
<1>3. DOMAIN written = {} BY DEF Init
<1>4. call.root = 0 /\ call.pass = 0 /\ call.phase = "idle" BY DEF Init, Idle, Nil
<1>5. calls \in 0..MaxCalls BY CallsAssumption DEF Init
<1> QED BY <1>1, <1>2, <1>3, <1>4, <1>5 DEF Typed, MaxPasses

\* A step of the heap alone, or of the call, keeps the rest.
LEMMA TypedKept ==
  ASSUME Inv, Inv', Typed, ParentsWithin(heap'), Len(heap) <= Len(heap'),
         roots \subseteq roots', written' = written, calls' = calls,
         call'.root = call.root, call'.op = call.op, call'.pass \in 0..MaxPasses,
         call'.phase # "idle" => call.phase # "idle"
  PROVE  Typed'
<1>1. Len(heap) \in Nat /\ Len(heap') \in Nat BY DEF Inv, HeapInv, IsHeap
<1>2. call'.root \in 0..Len(heap') BY <1>1 DEF Typed
<1>3. call'.phase # "idle" => call'.root \in roots' /\ call'.op \in Ops BY DEF Typed
<1>4. DOMAIN written' \subseteq roots' \X Ops BY DEF Typed
<1> QED BY <1>2, <1>3, <1>4 DEF Typed

LEMMA CallTyped ==
  ASSUME Inv, Inv', Typed, Calls
  PROVE  Typed'
<1>1. /\ IsHeap(heap) /\ Len(heap) \in Nat /\ DOMAIN heap = 1..Len(heap)
      /\ roots \subseteq DOMAIN heap
      /\ IsHeap(heap') /\ Len(heap') \in Nat /\ roots' \subseteq 1..Len(heap')
  BY DEF Inv, HeapInv, IsHeap
<1>2. PICK r \in roots : CallCopy(r) \/ CallTSQL(r) \/ CallSimplify(r) \/ CallGenerate(r)
  BY DEF Calls
<1>3. PICK op, phase : Makes(op, phase, r)
  BY <1>2 DEF CallCopy, CallTSQL, CallSimplify, CallGenerate, Copies
<1>4. /\ op \in Ops /\ calls < MaxCalls /\ calls' = calls + 1 /\ roots' = roots
      /\ written' = written
      /\ call' = [op |-> op, phase |-> phase, root |-> r, owned |-> Len(heap), input |-> r,
                  pass |-> 1]
  BY <1>3 DEF Makes
<1>5. ParentsWithin(heap')
  <2>1. r \in DOMAIN heap BY <1>1
  <2>2. heap' \in {heap, Blank(heap, r), ShallowCopy(heap, r)}
    BY <1>2 DEF CallCopy, CallTSQL, CallSimplify, CallGenerate, Copies
  <2> QED BY <1>1, <2>1, <2>2, CopiesWithin DEF Typed
<1>6. calls' \in 0..MaxCalls BY <1>4, CallsAssumption DEF Typed
<1>7. call'.root \in roots' /\ call'.op \in Ops /\ call'.pass = 1 BY <1>4
<1>8. call'.root \in 0..Len(heap') /\ call'.pass \in 0..MaxPasses
  <2>1. call'.root \in 1..Len(heap') BY <1>1, <1>7
  <2>2. 1 \in 0..MaxPasses BY DEF MaxPasses
  <2> QED BY <1>1, <1>7, <2>1, <2>2
<1> QED BY <1>4, <1>5, <1>6, <1>7, <1>8 DEF Typed

LEMMA RecursionTyped ==
  ASSUME Inv, Inv', Typed, Recursion
  PROVE  Typed'
<1>1. /\ IsHeap(heap) /\ Len(heap) \in Nat /\ DOMAIN heap = 1..Len(heap)
      /\ Copying /\ UNCHANGED <<roots, call, written, calls>>
  BY DEF Recursion, SkipChild, EnterChild, LeaveChild, Inv, HeapInv, IsHeap
<1>2. Top \in FramesOver(heap) /\ Top.from \in DOMAIN heap BY <1>1, TopFacts
<1>3. ParentsWithin(heap') /\ Len(heap) <= Len(heap')
  <2>1. CASE SkipChild BY <2>1, <1>1 DEF SkipChild, Typed
  <2>2. CASE EnterChild
    <3>1. Child \in DOMAIN heap
      <4>1. Top.next \in DOMAIN heap[Top.from].kids
        BY <1>1, <1>2, <2>2, HeapFacts DEF EnterChild, AtChild, FramesOver
      <4>2. Child \in 0..Len(heap) BY <1>1, <1>2, <4>1, HeapFacts DEF Child
      <4>3. Child # Nil BY <2>2 DEF EnterChild, PassedOver
      <4> QED BY <1>1, <4>2, <4>3 DEF Nil
    <3>2. heap' \in {Blank(heap, Child), ShallowCopy(heap, Child)} BY <2>2 DEF EnterChild
    <3>3. Len(heap') = Len(heap) + 1 BY <1>1, <3>1, <3>2, BlankFacts, ShallowFacts
    <3>4. ParentsWithin(heap') BY <1>1, <3>1, <3>2, CopiesWithin DEF Typed
    <3> QED BY <1>1, <3>3, <3>4
  <2>3. CASE LeaveChild
    <3> DEFINE up == stack[Len(stack) - 1]
    <3>1. Len(stack) > 1 /\ heap' = Set(heap, up.to, up.next, Outcome) BY <2>3 DEF LeaveChild
    <3>2. stack \in Seq(FramesOver(heap)) /\ Len(stack) \in Nat BY DEF Inv, StackInv
    <3>3. up \in FramesOver(heap) BY <3>1, <3>2
    <3> HIDE DEF up
    <3>4. up.to \in DOMAIN heap /\ Outcome \in 0..Len(heap)
      BY <1>1, <3>3, OutcomeType DEF FramesOver
    <3>5. Len(heap') = Len(heap) BY <1>1, <3>1, <3>4, SetHeap
    <3>6. ParentsWithin(heap') BY <1>1, <3>1, <3>4, SetParents DEF Typed
    <3> QED BY <1>1, <3>5, <3>6
  <2> QED BY <2>1, <2>2, <2>3 DEF Recursion
<1> QED BY <1>1, <1>3, TypedKept DEF Typed

LEMMA ReturnsTyped ==
  ASSUME Inv, Inv', Typed, Returns
  PROVE  Typed'
<1>1. IsHeap(heap) /\ Len(heap) \in Nat /\ DOMAIN heap = 1..Len(heap)
  BY DEF Inv, HeapInv, IsHeap
<1>2. call \in [op : Ops \cup {"none"}, phase : Phases, root : Nat,
                owned : 0..Len(heap), input : 0..Len(heap), pass : Nat]
  BY DEF Inv, CallInv
<1>3. CASE CopyReturns \/ SimplifyReturns
  <2>1. /\ heap' = heap /\ roots \subseteq roots' /\ written' = written /\ calls' = calls
        /\ call' = [call EXCEPT !.phase = "idle", !.input = Outcome]
    BY <1>3 DEF CopyReturns, SimplifyReturns
  <2>2. /\ call'.root = call.root /\ call'.op = call.op /\ call'.pass = call.pass
        /\ call'.phase = "idle"
    BY <1>2, <2>1
  <2> QED BY <1>1, <2>1, <2>2, TypedKept DEF Typed
<1>4. CASE NextPass
  <2>1. /\ Copying /\ call.phase = "simplify" /\ Outcome # Nil /\ call.pass < MaxPasses
        /\ heap' = ShallowCopy(heap, Outcome) /\ roots' = roots
        /\ written' = written /\ calls' = calls
        /\ call' = [call EXCEPT !.input = Outcome, !.pass = @ + 1]
    BY <1>4 DEF NextPass, Finished
  <2>2. Outcome \in DOMAIN heap BY <1>1, <2>1, OutcomeType DEF Nil
  <2>3. ParentsWithin(heap') /\ Len(heap') = Len(heap) + 1
    BY <1>1, <2>1, <2>2, ShallowFacts, CopiesWithin DEF Typed
  <2>4. /\ call'.root = call.root /\ call'.op = call.op /\ call'.pass = call.pass + 1
        /\ call'.phase = call.phase
    BY <1>2, <2>1
  <2>5. call'.pass \in 0..MaxPasses
    <3>1. call.pass \in Nat BY <1>2
    <3>2. \A pass \in Nat : pass < MaxPasses => pass + 1 \in 0..MaxPasses BY DEF MaxPasses
    <3> QED BY <2>1, <2>4, <3>1, <3>2
  <2>6. Len(heap) <= Len(heap') BY <1>1, <2>3
  <2> QED BY <2>1, <2>3, <2>4, <2>5, <2>6, TypedKept
<1> QED BY <1>3, <1>4 DEF Returns

LEMMA WritingTyped ==
  ASSUME Inv, Inv', Typed, Writing
  PROVE  Typed'
<1>1. /\ IsHeap(heap) /\ Len(heap) \in Nat /\ DOMAIN heap = 1..Len(heap)
      /\ todo \in Seq(0..Len(heap))
  BY DEF Inv, HeapInv, TodoInv, IsHeap
<1>2. call \in [op : Ops \cup {"none"}, phase : Phases, root : Nat,
                owned : 0..Len(heap), input : 0..Len(heap), pass : Nat]
  BY DEF Inv, CallInv
<1>3. CASE CopyForTSQL
  <2>1. /\ call.phase # "idle" /\ heap' = heap /\ roots' = roots
        /\ written' = written /\ calls' = calls
        /\ call' = [call EXCEPT !.phase = "bools", !.input = Outcome]
    BY <1>3 DEF CopyForTSQL, Finished, Copying
  <2>2. call'.root = call.root /\ call'.op = call.op /\ call'.pass = call.pass
    BY <1>2, <2>1
  <2> QED BY <1>1, <2>1, <2>2, TypedKept DEF Typed
<1>4. CASE PassAbsent
  BY <1>1, <1>4, TypedKept DEF PassAbsent, Typed
<1>5. ASSUME EnsureBools \/ WriteNode PROVE Head(todo) \in DOMAIN heap
  <2>1. todo # <<>> /\ Head(todo) # Nil BY <1>5 DEF EnsureBools, WriteNode
  <2>2. Head(todo) \in 0..Len(heap) BY <1>1, <2>1, HeadOfWork
  <2> QED BY <1>1, <2>1, <2>2 DEF Nil
<1>6. CASE EnsureBools
  <2> DEFINE n == Head(todo)
             h == Compared(heap, n, 1)
  <2>1. /\ heap' = Compared(h, n, 2) /\ UNCHANGED <<roots, call, written, calls>>
        /\ call.phase = "bools"
    BY <1>6 DEF EnsureBools
  <2>2. n \in DOMAIN heap BY <1>5, <1>6
  <2> HIDE DEF n
  <2>3. call.owned \in 0..Len(heap) /\ Apart(heap, call.owned) /\ n > call.owned
    <3>1. CopyFirst BY <2>1 DEF Inv, CallInv, CopyFirst
    <3>2. \A i \in DOMAIN todo : todo[i] \notin 1..call.owned BY <2>1, <3>1 DEF Inv, ApartInv
    <3>3. 1 \in DOMAIN todo /\ n = todo[1] BY <1>1, <1>6, HeadOfWork DEF n, EnsureBools
    <3>4. call.owned \in 0..Len(heap) BY <1>2
    <3> QED BY <1>1, <2>1, <2>2, <3>1, <3>2, <3>3, <3>4 DEF Inv, ApartInv
  <2>4. /\ IsHeap(h) /\ Len(h) >= Len(heap) /\ Apart(h, call.owned) /\ ParentsWithin(h)
    <3>1. IsHeap(h) /\ Len(h) >= Len(heap) /\ Apart(h, call.owned)
      BY <1>1, <2>2, <2>3, ComparedFacts
    <3>2. ParentsWithin(h) BY <1>1, <2>2, ComparedWithin DEF Typed
    <3> QED BY <3>1, <3>2
  <2> HIDE DEF h
  <2>5. /\ Len(h) \in Nat /\ n \in DOMAIN h /\ call.owned \in 0..Len(h)
    BY <1>1, <2>2, <2>3, <2>4 DEF IsHeap
  <2>6. ParentsWithin(heap') BY <2>1, <2>4, <2>5, ComparedWithin
  <2>7. IsHeap(heap') /\ Len(heap') >= Len(h) BY <2>1, <2>3, <2>4, <2>5, ComparedFacts
  <2>8. Len(heap) <= Len(heap') BY <1>1, <2>4, <2>5, <2>7 DEF IsHeap
  <2> QED BY <2>1, <2>6, <2>8, TypedKept DEF Typed
<1>7. CASE BoolsDone
  <2>1. /\ call.phase # "idle" /\ heap' = heap /\ roots' = roots
        /\ written' = written /\ calls' = calls
        /\ call' = [call EXCEPT !.phase = "write"]
    BY <1>7 DEF BoolsDone
  <2>2. call'.root = call.root /\ call'.op = call.op /\ call'.pass = call.pass
    BY <1>2, <2>1
  <2> QED BY <1>1, <2>1, <2>2, TypedKept DEF Typed
<1>8. CASE WriteNode
  <2>1. heap' = Prepared(heap, Head(todo)) /\ UNCHANGED <<roots, call, written, calls>>
    BY <1>8 DEF WriteNode
  <2>2. Head(todo) \in DOMAIN heap BY <1>5, <1>8
  <2>3. 0 \in 0..Len(heap) BY <1>1
  <2>4. Len(heap') >= Len(heap) BY <1>1, <2>1, <2>2, <2>3, PreparedFacts
  <2>5. ParentsWithin(heap') BY <1>1, <2>1, <2>2, PreparedWithin DEF Typed
  <2>6. Len(heap') \in Nat BY DEF Inv, HeapInv, IsHeap
  <2>7. Len(heap) <= Len(heap') BY <1>1, <2>4, <2>6
  <2> QED BY <2>1, <2>5, <2>7, TypedKept DEF Typed
<1>9. CASE GenerateReturns
  <2>1. /\ call.phase = "write" /\ heap' = heap /\ roots' = roots /\ calls' = calls
        /\ call' = [call EXCEPT !.phase = "idle"]
        /\ DOMAIN written' = DOMAIN written \cup {<<call.root, call.op>>}
    BY <1>9 DEF GenerateReturns
  <2>2. /\ call'.root = call.root /\ call'.op = call.op /\ call'.pass = call.pass
        /\ call'.phase = "idle"
    BY <1>2, <2>1
  <2>3. call.root \in roots /\ call.op \in Ops BY <2>1 DEF Typed
  <2>4. DOMAIN written' \subseteq roots' \X Ops BY <2>1, <2>3 DEF Typed
  <2> QED BY <2>1, <2>2, <2>4 DEF Typed
<1> QED BY <1>3, <1>4, <1>6, <1>7, <1>8, <1>9 DEF Writing

LEMMA StepTyped ==
  ASSUME Inv, Inv', Typed, [Next]_vars, "hive" \notin Ops
  PROVE  Typed'
<1>1. CASE UNCHANGED vars
  BY <1>1 DEF vars, Typed
<1>2. CASE Rewriting BY <1>2, NoneRewritten
<1> QED BY <1>1, <1>2, CallTyped, RecursionTyped, ReturnsTyped, WritingTyped DEF Next

\* The heap holds nodes over nodes; the recursion, the walk and what the caller
\* holds are at nodes of it; and a text is kept for roots and dialects only.
THEOREM TypeCorrect ==
  ASSUME "hive" \notin Ops
  PROVE  Spec => []TypeOK
<1>1. Inv /\ Inv' /\ Typed /\ [Next]_vars => Typed' BY StepTyped
<1>2. ASSUME Inv, Typed PROVE TypeOK
  <2>1. /\ IsHeap(heap) /\ ParentsWithin(heap) /\ DOMAIN heap = 1..Len(heap)
        /\ roots \subseteq DOMAIN heap
    BY <1>2 DEF Inv, HeapInv, Typed, IsHeap
  <2>2. call \in [op : Ops \cup {"none"},
                  phase : {"idle", "copy", "simplify", "bools", "write", "qualify"},
                  root : 0..Len(heap), owned : 0..Len(heap), input : 0..Len(heap),
                  pass : 0..MaxPasses]
    BY <1>2 DEF Inv, CallInv, Typed, Phases
  <2>3. \A i \in DOMAIN stack : {stack[i].from, stack[i].to} \subseteq DOMAIN heap
    <3>1. \A i \in DOMAIN stack : stack[i] \in FramesOver(heap) BY <1>2 DEF Inv, StackInv
    <3> QED BY <2>1, <3>1 DEF FramesOver
  <2>4. Range(todo) \subseteq 0..Len(heap) BY <1>2 DEF Inv, TodoInv, Range
  <2> QED BY <1>2, <2>1, <2>2, <2>3, <2>4 DEF TypeOK, Typed
<1> QED BY <1>1, <1>2, InitTyped, Invariance, PTL DEF Spec

-----------------------------------------------------------------------------
\* No node holds one that is still being copied into, and the frames of the
\* recursion copy into different ones.
OpenInv ==
  call.phase \in {"copy", "simplify"} =>
    /\ \A i \in DOMAIN stack : Unheld(heap, stack[i].to)
    /\ \A i, j \in DOMAIN stack : i < j => stack[i].to # stack[j].to

\* So no step closes a cycle.
NoCycle == Acyclic(heap) /\ OpenInv

\* What a node becomes is nothing, itself, or held by something already.
LEMMA SimplifiedHeld ==
  ASSUME NEW h, IsHeap(h), NEW n \in DOMAIN h, NEW holder
  PROVE  LET s == Simplified(h, n, holder) IN s = Nil \/ s = n \/ ~ Unheld(h, s)
<1>1. ASSUME NEW m \in DOMAIN h, h[m].class \in Unary PROVE ~ Unheld(h, This(h, m))
  BY <1>1, HeapFacts DEF Unheld, This
<1>2. ASSUME NEW m
      PROVE  Unparenthesised(h, m, holder) = m \/ ~ Unheld(h, Unparenthesised(h, m, holder))
  <2>1. CASE ClassOf(h, m) = "Paren"
    <3>1. m \in DOMAIN h /\ h[m].class \in Unary BY <2>1 DEF ClassOf, Unary
    <3>2. ~ Unheld(h, This(h, m)) BY <1>1, <3>1
    <3> QED BY <3>2 DEF Unparenthesised
  <2>2. CASE ClassOf(h, m) # "Paren" BY <2>2 DEF Unparenthesised
  <2> QED BY <2>1, <2>2
<1>3. Unnegated(h, n) = n \/ ~ Unheld(h, Unnegated(h, n))
  <2> DEFINE this == This(h, n)
             inner == IF ClassOf(h, this) = "Paren" THEN This(h, this) ELSE this
  <2>1. CASE h[n].class = "Neg" /\ ClassOf(h, inner) = "Neg"
    <3>1. inner \in DOMAIN h /\ h[inner].class \in Unary BY <2>1 DEF ClassOf, Unary
    <3>2. ~ Unheld(h, This(h, inner))
      <4> HIDE DEF inner
      <4> QED BY <3>1, <1>1
    <3>3. Unnegated(h, n) = This(h, inner) BY <2>1 DEF Unnegated
    <3> QED BY <3>2, <3>3
  <2>2. CASE ~ (h[n].class = "Neg" /\ ClassOf(h, inner) = "Neg")
    BY <2>2 DEF Unnegated
  <2> QED BY <2>1, <2>2
<1>4. \/ Simplified(h, n, holder) = Nil
      \/ Simplified(h, n, holder) = Unparenthesised(h, Unnegated(h, n), holder)
  BY DEF Simplified
<1> QED BY <1>2, <1>3, <1>4

LEMMA OutcomeHeld ==
  ASSUME Inv, Copying
  PROVE  Outcome = Nil \/ Outcome = Top.to \/ ~ Unheld(heap, Outcome)
<1>1. Top.to \in DOMAIN heap /\ IsHeap(heap) BY TopFacts DEF Inv, HeapInv
<1> QED BY <1>1, SimplifiedHeld DEF Outcome

LEMMA InitNoCycle == Init => NoCycle
<1> SUFFICES ASSUME Init PROVE NoCycle OBVIOUS
<1>1. Acyclic(heap) BY ParsedAssumption, RootDownAcyclic DEF Init
<1>2. call.phase = "idle" BY DEF Init, Idle
<1> QED BY <1>1, <1>2 DEF NoCycle, OpenInv

\* The recursion starts at a node of its own.
LEMMA OneFrame ==
  ASSUME NEW n, stack' = <<Frame(n, Len(heap'))>>, Acyclic(heap'), Unheld(heap', Len(heap'))
  PROVE  NoCycle'
<1>1. DOMAIN stack' = {1} /\ stack'[1].to = Len(heap') BY DEF Frame
<1>2. \A i \in DOMAIN stack' : Unheld(heap', stack'[i].to) BY <1>1
<1>3. \A i, j \in DOMAIN stack' : i < j => stack'[i].to # stack'[j].to BY <1>1
<1> QED BY <1>2, <1>3 DEF NoCycle, OpenInv

LEMMA CallNoCycle ==
  ASSUME Inv, NoCycle, Calls
  PROVE  NoCycle'
<1>1. IsHeap(heap) /\ Len(heap) \in Nat /\ DOMAIN heap = 1..Len(heap) /\ roots \subseteq DOMAIN heap
  BY DEF Inv, HeapInv, IsHeap
<1>2. PICK r \in roots : CallCopy(r) \/ CallTSQL(r) \/ CallSimplify(r) \/ CallGenerate(r)
  BY DEF Calls
<1>3. r \in DOMAIN heap BY <1>1
<1>4. ASSUME heap' = Blank(heap, r) \/ heap' = ShallowCopy(heap, r),
             stack' = <<Frame(r, Len(heap) + 1)>>
      PROVE  NoCycle'
  <2>1. Len(heap') = Len(heap) + 1 BY <1>1, <1>3, <1>4, BlankFacts, ShallowFacts
  <2>2. Acyclic(heap') /\ Unheld(heap', Len(heap'))
    BY <1>1, <1>3, <1>4, BlankAcyclic, ShallowAcyclic DEF NoCycle
  <2> QED BY <1>4, <2>1, <2>2, OneFrame
<1>5. ASSUME CallGenerate(r) PROVE NoCycle'
  <2>1. heap' = heap /\ call'.phase = "write" BY <1>5 DEF CallGenerate, Makes
  <2> QED BY <2>1 DEF NoCycle, OpenInv
<1> QED BY <1>2, <1>4, <1>5 DEF CallCopy, CallTSQL, CallSimplify, Copies

LEMMA SkipNoCycle ==
  ASSUME Inv, NoCycle, SkipChild
  PROVE  NoCycle'
<1>1. Copying /\ stack' = Advanced(stack) /\ heap' = heap /\ call' = call BY DEF SkipChild
<1>2. DOMAIN stack' = DOMAIN stack /\ \A i \in DOMAIN stack : stack'[i].to = stack[i].to
  BY <1>1, TopFacts, AdvancedFacts DEF Inv, StackInv
<1> QED BY <1>1, <1>2 DEF NoCycle, OpenInv

\* A child that is entered is a node, which is held.
LEMMA ChildFacts ==
  ASSUME Inv, Copying, AtChild, ~ PassedOver
  PROVE  /\ Top.next \in DOMAIN heap[Top.from].kids
         /\ Child \in DOMAIN heap /\ ~ Unheld(heap, Child)
<1>1. /\ IsHeap(heap) /\ Len(heap) \in Nat /\ DOMAIN heap = 1..Len(heap)
      /\ Top \in FramesOver(heap) /\ Top.from \in DOMAIN heap
  BY TopFacts DEF Inv, HeapInv, IsHeap
<1>2. Top.next \in DOMAIN heap[Top.from].kids BY <1>1, HeapFacts DEF AtChild, FramesOver
<1>3. Child \in 0..Len(heap) BY <1>1, <1>2, HeapFacts DEF Child
<1>4. Child # Nil BY DEF PassedOver
<1>5. ~ Unheld(heap, Child) BY <1>1, <1>2 DEF Unheld, Child
<1> QED BY <1>1, <1>2, <1>3, <1>4, <1>5 DEF Nil

LEMMA EnterNoCycle ==
  ASSUME Inv, NoCycle, EnterChild
  PROVE  NoCycle'
<1>1. /\ Copying /\ AtChild /\ ~ PassedOver
      /\ heap' = Blank(heap, Child) \/ heap' = ShallowCopy(heap, Child)
      /\ stack' = Append(stack, Frame(Child, Len(heap) + 1)) /\ call' = call
  BY DEF EnterChild
<1>2. /\ IsHeap(heap) /\ Len(heap) \in Nat /\ DOMAIN heap = 1..Len(heap) /\ Child \in DOMAIN heap
      /\ stack \in Seq(FramesOver(heap)) /\ Len(stack) \in Nat /\ DOMAIN stack = 1..Len(stack)
  BY <1>1, ChildFacts DEF Inv, HeapInv, StackInv, IsHeap
<1>3. /\ Len(heap') = Len(heap) + 1 /\ Acyclic(heap') /\ Unheld(heap', Len(heap'))
      /\ \A m \in DOMAIN heap : Unheld(heap, m) => Unheld(heap', m)
  <2>1. CASE heap' = Blank(heap, Child)
    BY <1>2, <2>1, BlankFacts, BlankAcyclic DEF NoCycle
  <2>2. CASE heap' = ShallowCopy(heap, Child)
    BY <1>2, <2>2, ShallowFacts, ShallowAcyclic DEF NoCycle
  <2> QED BY <1>1, <2>1, <2>2
<1>4. /\ DOMAIN stack' = 1..(Len(stack) + 1)
      /\ stack'[Len(stack) + 1] = Frame(Child, Len(heap) + 1)
      /\ \A i \in 1..Len(stack) : stack'[i] = stack[i]
  <2> DEFINE F == Frame(Child, Len(heap) + 1)
             T == {stack[i] : i \in DOMAIN stack} \cup {F}
  <2>1. stack \in [1..Len(stack) -> T] BY <1>2
  <2>2. stack \in Seq(T) /\ F \in T
    <3>1. F \in T OBVIOUS
    <3> HIDE DEF T, F
    <3> QED BY <1>2, <2>1, <3>1
  <2>3. stack' = Append(stack, F) BY <1>1
  <2> HIDE DEF T, F
  <2>4. /\ DOMAIN stack' = 1..(Len(stack) + 1) /\ stack'[Len(stack) + 1] = F
        /\ \A i \in 1..Len(stack) : stack'[i] = stack[i]
    BY <2>2, <2>3, FramePushed
  <2> QED BY <2>4 DEF F
<1>5. stack'[Len(stack) + 1].to = Len(heap) + 1 BY <1>4 DEF Frame
<1>6. \A i \in DOMAIN stack : /\ stack[i].to \in 1..Len(heap) /\ Unheld(heap, stack[i].to)
                              /\ stack'[i].to = stack[i].to
  <2>1. \A i \in DOMAIN stack : stack[i] \in FramesOver(heap) BY <1>2
  <2>2. call.phase \in {"copy", "simplify"} BY <1>1 DEF Copying
  <2> QED BY <1>2, <1>4, <2>1, <2>2 DEF FramesOver, NoCycle, OpenInv
<1>7. ASSUME NEW i \in DOMAIN stack' PROVE Unheld(heap', stack'[i].to)
  <2>1. CASE i = Len(stack) + 1 BY <2>1, <1>3, <1>5
  <2>2. CASE i # Len(stack) + 1
    <3>1. i \in DOMAIN stack BY <1>2, <1>4, <2>2
    <3>2. stack[i].to \in DOMAIN heap BY <3>1, <1>2, <1>6
    <3> QED BY <3>1, <3>2, <1>3, <1>6
  <2> QED BY <2>1, <2>2
<1>8. ASSUME NEW i \in DOMAIN stack', NEW j \in DOMAIN stack', i < j
      PROVE  stack'[i].to # stack'[j].to
  <2>1. i \in DOMAIN stack BY <1>2, <1>4, <1>8
  <2>2. CASE j = Len(stack) + 1
    <3>1. stack'[i].to \in 1..Len(heap) BY <2>1, <1>6
    <3> QED BY <3>1, <2>2, <1>2, <1>5
  <2>3. CASE j # Len(stack) + 1
    <3>1. j \in DOMAIN stack BY <1>2, <1>4, <2>3
    <3>2. call.phase \in {"copy", "simplify"} BY <1>1 DEF Copying
    <3> QED BY <2>1, <3>1, <3>2, <1>6, <1>8 DEF NoCycle, OpenInv
  <2> QED BY <2>2, <2>3
<1> QED BY <1>3, <1>7, <1>8 DEF NoCycle, OpenInv

\* What the child became is not a node that is being copied into.
LEMMA LeaveNoCycle ==
  ASSUME Inv, NoCycle, LeaveChild
  PROVE  NoCycle'
<1> DEFINE up == stack[Len(stack) - 1]
<1>1. /\ Copying /\ Len(stack) > 1 /\ heap' = Set(heap, up.to, up.next, Outcome)
      /\ stack' = Advanced(Below) /\ call' = call
  BY DEF LeaveChild
<1>2. /\ IsHeap(heap) /\ Len(heap) \in Nat /\ DOMAIN heap = 1..Len(heap)
      /\ stack \in Seq(FramesOver(heap)) /\ Len(stack) \in Nat /\ DOMAIN stack = 1..Len(stack)
      /\ call.phase \in {"copy", "simplify"} /\ Outcome \in 0..Len(heap)
  BY <1>1, OutcomeType DEF Inv, HeapInv, StackInv, IsHeap, Copying
<1>3. /\ Below \in Seq(FramesOver(heap)) /\ Len(Below) = Len(stack) - 1
      /\ \A i \in DOMAIN Below : i \in DOMAIN stack /\ Below[i] = stack[i]
  BY <1>1, BelowFacts
<1>4. DOMAIN Below = 1..(Len(stack) - 1) /\ Len(Below) > 0 BY <1>1, <1>2, <1>3
<1>5. /\ DOMAIN stack' = 1..(Len(stack) - 1)
      /\ \A i \in 1..(Len(stack) - 1) : stack'[i].to = stack[i].to
  <2>1. /\ DOMAIN stack' = DOMAIN Below
        /\ \A i \in DOMAIN Below : stack'[i].to = Below[i].to
    BY <1>1, <1>3, <1>4, AdvancedFacts
  <2> QED BY <2>1, <1>3, <1>4
<1>6. ASSUME NEW i \in 1..(Len(stack) - 1)
      PROVE  /\ i \in DOMAIN stack /\ stack[i].to \in DOMAIN heap /\ Unheld(heap, stack[i].to)
             /\ Outcome # stack[i].to
  <2>1. i \in DOMAIN stack /\ Len(stack) \in DOMAIN stack /\ i < Len(stack) BY <1>1, <1>2
  <2>2. stack[i] \in FramesOver(heap) BY <1>2, <2>1
  <2>3. stack[i].to \in DOMAIN heap /\ stack[i].to # Nil BY <1>2, <2>2 DEF FramesOver, Nil
  <2>4. Unheld(heap, stack[i].to) /\ stack[i].to # Top.to
    BY <1>2, <2>1 DEF NoCycle, OpenInv, Top
  <2>5. Outcome = Nil \/ Outcome = Top.to \/ ~ Unheld(heap, Outcome) BY <1>1, OutcomeHeld
  <2> QED BY <2>1, <2>3, <2>4, <2>5
<1>7. Len(stack) - 1 \in 1..(Len(stack) - 1) BY <1>1, <1>2
<1>8. up.to \in DOMAIN heap /\ Unheld(heap, up.to) /\ Outcome # up.to BY <1>6, <1>7
<1> HIDE DEF up
<1>9. /\ Acyclic(heap')
      /\ \A m \in DOMAIN heap : Unheld(heap, m) /\ m # Outcome => Unheld(heap', m)
  BY <1>1, <1>2, <1>8, SetAcyclic DEF NoCycle
<1>10. \A i \in DOMAIN stack' : Unheld(heap', stack'[i].to) BY <1>5, <1>6, <1>9
<1>11. \A i, j \in DOMAIN stack' : i < j => stack'[i].to # stack'[j].to
  BY <1>2, <1>5, <1>6 DEF NoCycle, OpenInv
<1> QED BY <1>9, <1>10, <1>11 DEF NoCycle, OpenInv

LEMMA ReturnsNoCycle ==
  ASSUME Inv, NoCycle, Returns
  PROVE  NoCycle'
<1>1. IsHeap(heap) /\ Len(heap) \in Nat /\ DOMAIN heap = 1..Len(heap)
  BY DEF Inv, HeapInv, IsHeap
<1>2. CASE CopyReturns \/ SimplifyReturns
  <2>1. heap' = heap /\ call' = [call EXCEPT !.phase = "idle", !.input = Outcome]
    BY <1>2 DEF CopyReturns, SimplifyReturns
  <2>2. call'.phase = "idle" BY <2>1 DEF Inv, CallInv
  <2> QED BY <2>1, <2>2 DEF NoCycle, OpenInv
<1>3. CASE NextPass
  <2>1. /\ Copying /\ Outcome # Nil /\ heap' = ShallowCopy(heap, Outcome)
        /\ stack' = <<Frame(Outcome, Len(heap) + 1)>>
    BY <1>3 DEF NextPass, Finished
  <2>2. Outcome \in DOMAIN heap BY <1>1, <2>1, OutcomeType DEF Nil
  <2>3. Len(heap') = Len(heap) + 1 BY <1>1, <2>1, <2>2, ShallowFacts
  <2>4. Acyclic(heap') /\ Unheld(heap', Len(heap'))
    BY <1>1, <2>1, <2>2, ShallowAcyclic DEF NoCycle
  <2> QED BY <2>1, <2>3, <2>4, OneFrame
<1> QED BY <1>2, <1>3 DEF Returns

LEMMA WritingNoCycle ==
  ASSUME Inv, NoCycle, Writing
  PROVE  NoCycle'
<1>1. /\ IsHeap(heap) /\ Len(heap) \in Nat /\ DOMAIN heap = 1..Len(heap)
      /\ todo \in Seq(0..Len(heap))
  BY DEF Inv, HeapInv, TodoInv, IsHeap
<1>2. call'.phase \notin {"copy", "simplify"}
  BY DEF Writing, CopyForTSQL, PassAbsent, EnsureBools, BoolsDone, WriteNode, GenerateReturns,
         Inv, CallInv
<1>3. ASSUME EnsureBools \/ WriteNode PROVE Head(todo) \in DOMAIN heap
  <2>1. todo # <<>> /\ Head(todo) # Nil BY <1>3 DEF EnsureBools, WriteNode
  <2>2. Head(todo) \in 0..Len(heap) BY <1>1, <2>1, HeadOfWork
  <2> QED BY <1>1, <2>1, <2>2 DEF Nil
<1>4. CASE EnsureBools
  <2> DEFINE n == Head(todo)
             h == Compared(heap, n, 1)
  <2>1. heap' = Compared(h, n, 2) BY <1>4 DEF EnsureBools
  <2>2. n \in DOMAIN heap BY <1>3, <1>4
  <2>3. Apart(heap, call.owned) /\ n > call.owned /\ call.owned \in 0..Len(heap)
    <3>1. call.phase = "bools" /\ todo # <<>> BY <1>4 DEF EnsureBools
    <3>2. CopyFirst /\ call.owned \in 0..Len(heap) BY <3>1 DEF Inv, CallInv, CopyFirst
    <3>3. \A i \in DOMAIN todo : todo[i] \notin 1..call.owned BY <3>1, <3>2 DEF Inv, ApartInv
    <3>4. 1 \in DOMAIN todo /\ n = todo[1] BY <1>1, <3>1, HeadOfWork
    <3> HIDE DEF n
    <3> QED BY <1>1, <2>2, <3>1, <3>2, <3>3, <3>4 DEF Inv, ApartInv
  <2> HIDE DEF n
  <2>4. IsHeap(h) /\ Len(h) >= Len(heap) BY <1>1, <2>2, <2>3, ComparedFacts
  <2>5. Acyclic(h) BY <1>1, <2>2, ComparedAcyclic DEF NoCycle
  <2> HIDE DEF h
  <2>6. n \in DOMAIN h BY <1>1, <2>2, <2>4 DEF IsHeap
  <2>7. Acyclic(heap') BY <2>1, <2>4, <2>5, <2>6, ComparedAcyclic
  <2> QED BY <2>7, <1>2 DEF NoCycle, OpenInv
<1>5. CASE WriteNode
  <2>1. heap' = Prepared(heap, Head(todo)) BY <1>5 DEF WriteNode
  <2>2. Acyclic(heap') BY <1>1, <1>3, <1>5, <2>1, PreparedAcyclic DEF NoCycle
  <2> QED BY <2>2, <1>2 DEF NoCycle, OpenInv
<1>6. CASE CopyForTSQL \/ PassAbsent \/ BoolsDone \/ GenerateReturns
  <2>1. heap' = heap BY <1>6 DEF CopyForTSQL, PassAbsent, BoolsDone, GenerateReturns
  <2> QED BY <2>1, <1>2 DEF NoCycle, OpenInv
<1> QED BY <1>4, <1>5, <1>6 DEF Writing

LEMMA StepNoCycle ==
  ASSUME Inv, NoCycle, [Next]_vars, "hive" \notin Ops
  PROVE  NoCycle'
<1>1. CASE UNCHANGED vars BY <1>1 DEF vars, NoCycle, OpenInv
<1>2. CASE Rewriting BY <1>2, NoneRewritten
<1>3. CASE Recursion BY <1>3, SkipNoCycle, EnterNoCycle, LeaveNoCycle DEF Recursion
<1> QED BY <1>1, <1>2, <1>3, CallNoCycle, ReturnsNoCycle, WritingNoCycle DEF Next

-----------------------------------------------------------------------------
\* Terms of a heap that grew, and of one where a node that none holds was given
\* another child.
LEMMA GrownTerms ==
  ASSUME NEW h, IsHeap(h), Acyclic(h), NEW g, IsHeap(g), Acyclic(g), Grown(h, g)
  PROVE  \A n \in 0..Len(h) : Term(g, n) = Term(h, n)
<1> DEFINE S == 0..Len(h)
<1>1. Len(h) \in Nat /\ Len(g) \in Nat /\ Len(h) <= Len(g) /\ DOMAIN g = 1..Len(g)
  BY DEF IsHeap, Grown
<1>2. Closed(h, S) BY ClosedAll
<1>3. Agree(h, g, S) BY <1>1 DEF Agree, Grown, Nil
<1> HIDE DEF S
<1>4. \A n \in S : Term(g, n) = Term(h, n) BY <1>1, <1>2, <1>3, TermKept
<1> QED BY <1>4 DEF S

LEMMA SetTerms ==
  ASSUME NEW h, IsHeap(h), Acyclic(h), NEW n \in DOMAIN h, Unheld(h, n),
         NEW i, NEW k \in 0..Len(h), k # n
  PROVE  \A m \in 0..Len(h) : m # n => Term(Set(h, n, i, k), m) = Term(h, m)
<1> DEFINE S == (0..Len(h)) \ {n}
           g == Set(h, n, i, k)
<1>1. /\ IsHeap(g) /\ Len(g) = Len(h)
      /\ \A m \in 1..Len(h) : g[m].class = h[m].class /\ g[m].name = h[m].name
      /\ \A m \in 1..Len(h) : m # n => g[m].kids = h[m].kids
  BY SetFacts
<1>2. Acyclic(g) BY SetAcyclic
<1> HIDE DEF g
<1>3. Len(h) \in Nat /\ DOMAIN h = 1..Len(h) /\ DOMAIN g = 1..Len(h) BY <1>1 DEF IsHeap
<1>4. Closed(h, S)
  <2>1. S \subseteq 0..Len(h) /\ Nil \in S BY <1>3 DEF Nil
  <2>2. ASSUME NEW m \in S \ {Nil}, NEW j \in DOMAIN h[m].kids PROVE h[m].kids[j] \in S
    <3>1. m \in DOMAIN h BY <1>3, <2>2 DEF Nil
    <3>2. h[m].kids[j] \in 0..Len(h) /\ h[m].kids[j] # n BY <3>1, <2>2, HeapFacts DEF Unheld
    <3> QED BY <3>2
  <2> QED BY <2>1, <2>2 DEF Closed
<1>5. Agree(h, g, S) BY <1>1, <1>3 DEF Agree, Nil
<1>6. Len(h) <= Len(g) BY <1>1, <1>3
<1> HIDE DEF S
<1>7. \A m \in S : Term(g, m) = Term(h, m) BY <1>1, <1>2, <1>4, <1>5, <1>6, TermKept
<1> QED BY <1>7 DEF S, g

LEMMA BlankNode ==
  ASSUME NEW h, IsHeap(h), NEW n \in DOMAIN h
  PROVE  LET g == Blank(h, n) IN
           /\ g[Len(h) + 1].class = h[n].class /\ g[Len(h) + 1].name = h[n].name
           /\ DOMAIN g[Len(h) + 1].kids = DOMAIN h[n].kids
<1> DEFINE kids == [i \in DOMAIN h[n].kids |-> Nil]
           g == New(h, h[n].class, h[n].name, kids)
<1>1. h[n] \in Nodes /\ h[n].kids \in Seq(0..Len(h)) /\ Len(h) \in Nat BY HeapFacts DEF IsHeap
<1>2. /\ h[n].class \in Classes /\ h[n].name \in Names
      /\ h[n].class \in Unary => Len(h[n].kids) > 0
  BY <1>1 DEF Nodes
<1>3. DOMAIN h[n].kids = 1..Len(h[n].kids) /\ Len(h[n].kids) \in Nat BY <1>1
<1>4. /\ kids \in Seq(0..Len(h)) /\ Len(kids) = Len(h[n].kids)
      /\ DOMAIN kids = DOMAIN h[n].kids
  BY <1>1, <1>3 DEF Nil
<1> HIDE DEF kids
<1>5. /\ Len(g) = Len(h) + 1
      /\ g[Len(g)] = [class |-> h[n].class, name |-> h[n].name, kids |-> kids, parent |-> Nil]
  BY <1>2, <1>4, NewFacts
<1> HIDE DEF g
<1>6. /\ g[Len(h) + 1].class = h[n].class /\ g[Len(h) + 1].name = h[n].name
      /\ g[Len(h) + 1].kids = kids
  BY <1>5
<1> QED BY <1>4, <1>6 DEF g, Blank, kids

-----------------------------------------------------------------------------
\* A frame's copy is like its original but for the children that are still to
\* be copied, which it does not hold yet.
Twin(h, f) ==
  /\ h[f.to].class = h[f.from].class /\ h[f.to].name = h[f.from].name
  /\ DOMAIN h[f.to].kids = DOMAIN h[f.from].kids
  /\ \A j \in DOMAIN h[f.from].kids :
       /\ j < f.next => Term(h, h[f.to].kids[j]) = Term(h, h[f.from].kids[j])
       /\ j >= f.next => h[f.to].kids[j] = Nil

\* The frames of Copy lead from the root, each to the child that is next in the
\* one before it.
Twinned ==
  call.phase = "copy" =>
    /\ call.root \in 1..call.owned
    /\ 1 \in DOMAIN stack => stack[1].from = call.root
    /\ \A i \in DOMAIN stack : Twin(heap, stack[i])
    /\ \A i \in DOMAIN stack :
         i + 1 \in DOMAIN stack =>
           /\ stack[i].next \in DOMAIN heap[stack[i].from].kids
           /\ stack[i + 1].from = heap[stack[i].from].kids[stack[i].next]

Deep == Twinned /\ CopyIsDeep

\* What is copied is not a node that is being copied into.
LEMMA SourcesApart ==
  ASSUME Inv, NoCycle, Twinned, call.phase = "copy",
         NEW i \in DOMAIN stack, NEW k \in DOMAIN stack
  PROVE  stack[i].from # stack[k].to
<1>1. /\ stack \in Seq(FramesOver(heap)) /\ DOMAIN stack = 1..Len(stack) /\ Len(stack) \in Nat
      /\ DOMAIN heap = 1..Len(heap) /\ call.owned \in Nat
  <2>1. call.owned \in 0..Len(heap) BY DEF Inv, CallInv
  <2> QED BY <2>1 DEF Inv, HeapInv, StackInv, IsHeap
<1>2. Unheld(heap, stack[k].to) /\ stack[k].to > call.owned
  BY DEF NoCycle, OpenInv, Inv, StackInv
<1>3. CASE i = 1
  <2>1. stack[i].from \in 1..call.owned BY <1>3 DEF Twinned
  <2> QED BY <1>1, <1>2, <2>1
<1>4. CASE i # 1
  <2>1. i - 1 \in DOMAIN stack /\ (i - 1) + 1 = i BY <1>1, <1>4
  <2>2. /\ stack[i - 1].next \in DOMAIN heap[stack[i - 1].from].kids
        /\ stack[i].from = heap[stack[i - 1].from].kids[stack[i - 1].next]
    BY <2>1 DEF Twinned
  <2>3. stack[i - 1] \in FramesOver(heap) BY <1>1, <2>1
  <2>4. stack[i - 1].from \in DOMAIN heap BY <1>1, <2>3 DEF FramesOver
  <2> QED BY <1>2, <2>2, <2>4 DEF Unheld
<1> QED BY <1>3, <1>4

\* A copy that is done is its original, node for node.
LEMMA CopyDone ==
  ASSUME Inv, NoCycle, Twinned, Copying, ~ AtChild, call.phase = "copy"
  PROVE  Term(heap, Top.to) = Term(heap, Top.from)
<1>1. /\ IsHeap(heap) /\ Acyclic(heap) /\ Len(stack) \in DOMAIN stack
      /\ Top \in FramesOver(heap) /\ Top.from \in DOMAIN heap /\ Top.to \in DOMAIN heap
  BY TopFacts DEF Inv, HeapInv, NoCycle
<1>2. Twin(heap, Top) BY <1>1 DEF Twinned, Top
<1>3. heap[Top.from].kids \in Seq(0..Len(heap)) BY <1>1, HeapFacts
<1>4. \A j \in DOMAIN heap[Top.from].kids : j < Top.next
  <2>1. Top.next \in Nat BY <1>1 DEF FramesOver
  <2> QED BY <1>3, <2>1 DEF AtChild
<1>5. [j \in DOMAIN heap[Top.to].kids |-> Term(heap, heap[Top.to].kids[j])]
        = [j \in DOMAIN heap[Top.from].kids |-> Term(heap, heap[Top.from].kids[j])]
  BY <1>2, <1>4 DEF Twin
<1>6. /\ Term(heap, Top.to) = <<heap[Top.to].class, heap[Top.to].name,
                                [j \in DOMAIN heap[Top.to].kids |->
                                   Term(heap, heap[Top.to].kids[j])]>>
      /\ Term(heap, Top.from) = <<heap[Top.from].class, heap[Top.from].name,
                                  [j \in DOMAIN heap[Top.from].kids |->
                                     Term(heap, heap[Top.from].kids[j])]>>
  BY <1>1, TermStep
<1> QED BY <1>2, <1>5, <1>6 DEF Twin

\* A frame whose nodes keep class, name and children, under which terms stay.
LEMMA TwinKept ==
  ASSUME NEW h, IsHeap(h), NEW g, NEW f \in FramesOver(h), Twin(h, f),
         g[f.to].class = h[f.to].class, g[f.to].name = h[f.to].name, g[f.to].kids = h[f.to].kids,
         g[f.from].class = h[f.from].class, g[f.from].name = h[f.from].name,
         g[f.from].kids = h[f.from].kids,
         \A j \in DOMAIN h[f.from].kids :
           /\ Term(g, h[f.to].kids[j]) = Term(h, h[f.to].kids[j])
           /\ Term(g, h[f.from].kids[j]) = Term(h, h[f.from].kids[j])
  PROVE  Twin(g, f)
  BY DEF Twin

LEMMA FrameFacts ==
  ASSUME NEW h, IsHeap(h), NEW f \in FramesOver(h)
  PROVE  /\ f.from \in DOMAIN h /\ f.to \in DOMAIN h /\ f.next \in Nat /\ f.next > 0
         /\ \A j \in DOMAIN h[f.from].kids : j \in Nat /\ h[f.from].kids[j] \in 0..Len(h)
         /\ \A j \in DOMAIN h[f.to].kids : h[f.to].kids[j] \in 0..Len(h)
<1>1. f.from \in DOMAIN h /\ f.to \in DOMAIN h /\ f.next \in Nat /\ f.next > 0
  BY DEF FramesOver, IsHeap
<1>2. h[f.from].kids \in Seq(0..Len(h)) /\ h[f.to].kids \in Seq(0..Len(h)) BY <1>1, HeapFacts
<1>3. ASSUME NEW S, NEW s \in Seq(S), NEW j \in DOMAIN s PROVE j \in Nat /\ s[j] \in S
  BY <1>3
<1> QED BY <1>1, <1>2, <1>3

\* The last frame moves on by one slot.
LEMMA AdvancedFrames ==
  ASSUME NEW h, NEW frames \in Seq(FramesOver(h)), Len(frames) > 0
  PROVE  /\ DOMAIN Advanced(frames) = 1..Len(frames)
         /\ \A i \in 1..Len(frames) :
              Advanced(frames)[i] =
                IF i = Len(frames)
                THEN [from |-> frames[i].from, to |-> frames[i].to, next |-> frames[i].next + 1]
                ELSE frames[i]
<1> DEFINE new == [from |-> frames[Len(frames)].from, to |-> frames[Len(frames)].to,
                   next |-> frames[Len(frames)].next + 1]
<1>1. Len(frames) \in Nat /\ DOMAIN frames = 1..Len(frames) OBVIOUS
<1>2. Advanced(frames) = [frames EXCEPT ![Len(frames)] = new] BY DEF Advanced
<1> HIDE DEF new
<1>3. /\ DOMAIN Advanced(frames) = DOMAIN frames
      /\ \A i \in DOMAIN frames :
           Advanced(frames)[i] = IF i = Len(frames) THEN new ELSE frames[i]
  BY <1>1, <1>2
<1> QED BY <1>1, <1>3 DEF new

-----------------------------------------------------------------------------
LEMMA InitDeep == Init => Deep
  BY DEF Init, Idle, Deep, Twinned, CopyIsDeep, Returned

\* A copy starts with one frame, of which no child is copied.
LEMMA CallDeep ==
  ASSUME Inv, NoCycle, Calls
  PROVE  Deep'
<1>1. IsHeap(heap) /\ Len(heap) \in Nat /\ DOMAIN heap = 1..Len(heap) /\ roots \subseteq DOMAIN heap
  BY DEF Inv, HeapInv, IsHeap
<1>2. PICK r \in roots : CallCopy(r) \/ CallTSQL(r) \/ CallSimplify(r) \/ CallGenerate(r)
  BY DEF Calls
<1>3. r \in DOMAIN heap BY <1>1
<1>4. ASSUME NEW op, Copies(op, r) PROVE Deep'
  <2>1. /\ call' = [op |-> op, phase |-> "copy", root |-> r, owned |-> Len(heap), input |-> r,
                    pass |-> 1]
        /\ heap' = Blank(heap, r) /\ stack' = <<Frame(r, Len(heap) + 1)>>
    BY <1>4 DEF Copies, Makes
  <2> DEFINE n == Len(heap) + 1
  <2>2. DOMAIN stack' = {1} /\ stack'[1] = [from |-> r, to |-> n, next |-> 1]
    BY <2>1 DEF Frame
  <2>3. /\ Len(heap') = n /\ Grown(heap, heap')
        /\ \A i \in DOMAIN heap'[n].kids : heap'[n].kids[i] = Nil
    BY <1>1, <1>3, <2>1, BlankFacts
  <2>4. /\ heap'[n].class = heap[r].class /\ heap'[n].name = heap[r].name
        /\ DOMAIN heap'[n].kids = DOMAIN heap[r].kids
    BY <1>1, <1>3, <2>1, BlankNode
  <2>5. /\ heap'[r].class = heap[r].class /\ heap'[r].name = heap[r].name
        /\ heap'[r].kids = heap[r].kids
    BY <1>1, <1>3, <2>3 DEF Grown
  <2>6. \A j \in DOMAIN heap[r].kids : j >= 1 /\ ~ (j < 1)
    <3>1. heap[r].kids \in Seq(0..Len(heap)) BY <1>1, <1>3, HeapFacts
    <3> QED BY <3>1
  <2> HIDE DEF n
  <2>7. Twin(heap', stack'[1]) BY <2>2, <2>3, <2>4, <2>5, <2>6 DEF Twin
  <2>8. Twinned' BY <1>1, <1>3, <2>1, <2>2, <2>7 DEF Twinned
  <2>9. CopyIsDeep' BY <2>1 DEF CopyIsDeep, Returned
  <2> QED BY <2>8, <2>9 DEF Deep
<1>5. ASSUME CallSimplify(r) \/ CallGenerate(r) PROVE Deep'
  <2>1. call'.phase \in {"simplify", "write"} BY <1>5 DEF CallSimplify, CallGenerate, Makes
  <2> QED BY <2>1 DEF Deep, Twinned, CopyIsDeep, Returned
<1> QED BY <1>2, <1>4, <1>5 DEF CallCopy, CallTSQL

\* Outside of a copy there is nothing to keep but what the last one returned.
LEMMA OtherwiseDeep ==
  ASSUME call'.phase # "copy", call'.phase # "idle" \/ call'.op # "copy"
  PROVE  Deep'
  BY DEF Deep, Twinned, CopyIsDeep, Returned

\* An absent child is absent in the copy.
LEMMA SkipDeep ==
  ASSUME Inv, NoCycle, Deep, SkipChild
  PROVE  Deep'
<1>1. /\ Copying /\ AtChild /\ PassedOver /\ stack' = Advanced(stack)
      /\ heap' = heap /\ call' = call
  BY DEF SkipChild
<1>2. CASE call.phase # "copy"
  BY <1>1, <1>2, OtherwiseDeep DEF Copying
<1>3. CASE call.phase = "copy"
  <2>1. /\ stack \in Seq(FramesOver(heap)) /\ Len(stack) \in Nat /\ Len(stack) > 0
        /\ DOMAIN stack = 1..Len(stack) /\ IsHeap(heap)
    BY <1>1, TopFacts DEF Inv, HeapInv, StackInv
  <2>2. /\ DOMAIN stack' = 1..Len(stack)
        /\ \A i \in 1..Len(stack) :
             stack'[i] = IF i = Len(stack)
                         THEN [from |-> stack[i].from, to |-> stack[i].to,
                               next |-> stack[i].next + 1]
                         ELSE stack[i]
    BY <1>1, <2>1, AdvancedFrames
  <2>3. Child = Nil BY <1>1, <1>3 DEF PassedOver
  <2>4. Twin(heap, stack'[Len(stack)])
    <3>1. Twin(heap, Top) BY <1>3, <2>1 DEF Deep, Twinned, Top
    <3>2. stack'[Len(stack)] = [from |-> Top.from, to |-> Top.to, next |-> Top.next + 1]
      <4>1. Len(stack) \in 1..Len(stack) BY <2>1
      <4>2. stack'[Len(stack)] = [from |-> stack[Len(stack)].from, to |-> stack[Len(stack)].to,
                                  next |-> stack[Len(stack)].next + 1]
        BY <2>2, <4>1
      <4> QED BY <4>2 DEF Top
    <3>3. Top \in FramesOver(heap) BY <1>1, TopFacts
    <3>4. Top.next \in Nat /\ \A j \in DOMAIN heap[Top.from].kids : j \in Nat
      BY <2>1, <3>3, FrameFacts
    <3>5. ASSUME NEW j \in DOMAIN heap[Top.from].kids, j < Top.next + 1
          PROVE  Term(heap, heap[Top.to].kids[j]) = Term(heap, heap[Top.from].kids[j])
      <4>1. CASE j < Top.next BY <3>1, <4>1 DEF Twin
      <4>2. CASE ~ (j < Top.next)
        <5>1. j = Top.next BY <3>4, <3>5, <4>2
        <5>2. heap[Top.to].kids[j] = Nil BY <3>1, <3>4, <5>1 DEF Twin
        <5>3. heap[Top.from].kids[j] = Nil BY <2>3, <5>1 DEF Child
        <5> QED BY <5>2, <5>3
      <4> QED BY <4>1, <4>2
    <3>6. ASSUME NEW j \in DOMAIN heap[Top.from].kids, j >= Top.next + 1
          PROVE  heap[Top.to].kids[j] = Nil
      <4>1. j >= Top.next BY <3>4, <3>6
      <4> QED BY <3>1, <4>1 DEF Twin
    <3> QED BY <3>1, <3>2, <3>5, <3>6 DEF Twin
  <2>5. \A i \in DOMAIN stack' : Twin(heap', stack'[i])
    BY <1>1, <1>3, <2>1, <2>2, <2>4 DEF Deep, Twinned
  <2>6. \A i \in DOMAIN stack' : stack'[i].from = stack[i].from BY <2>2
  <2>7. ASSUME NEW i \in DOMAIN stack', i + 1 \in DOMAIN stack'
        PROVE  /\ stack'[i].next \in DOMAIN heap'[stack'[i].from].kids
               /\ stack'[i + 1].from = heap'[stack'[i].from].kids[stack'[i].next]
    <3>1. stack'[i] = stack[i] /\ i \in DOMAIN stack /\ i + 1 \in DOMAIN stack
      <4>1. i \in 1..Len(stack) /\ i + 1 \in 1..Len(stack) BY <2>2, <2>7
      <4>2. i # Len(stack) BY <2>1, <4>1
      <4> QED BY <2>1, <2>2, <4>1, <4>2
    <3> QED BY <1>1, <1>3, <2>6, <2>7, <3>1 DEF Deep, Twinned
  <2>8. Twinned' BY <1>1, <1>3, <2>1, <2>2, <2>5, <2>6, <2>7 DEF Deep, Twinned
  <2>9. CopyIsDeep' BY <1>1, <1>3 DEF CopyIsDeep, Returned
  <2> QED BY <2>8, <2>9 DEF Deep
<1> QED BY <1>2, <1>3

\* The copy of a child starts with none of its children.
LEMMA EnterDeep ==
  ASSUME Inv, Inv', NoCycle, NoCycle', Deep, EnterChild
  PROVE  Deep'
<1> DEFINE n == Len(heap) + 1
           l == Len(stack)
<1>1. /\ Copying /\ AtChild /\ ~ PassedOver
      /\ heap' = IF call.phase = "copy" THEN Blank(heap, Child) ELSE ShallowCopy(heap, Child)
      /\ stack' = Append(stack, Frame(Child, n)) /\ call' = call
  BY DEF EnterChild
<1>2. CASE call.phase # "copy"
  BY <1>1, <1>2, OtherwiseDeep DEF Copying
<1>3. CASE call.phase = "copy"
  <2>1. /\ stack \in Seq(FramesOver(heap)) /\ l \in Nat /\ l > 0
        /\ DOMAIN stack = 1..l /\ IsHeap(heap) /\ Len(heap) \in Nat
        /\ DOMAIN heap = 1..Len(heap) /\ IsHeap(heap') /\ Acyclic(heap) /\ Acyclic(heap')
        /\ Child \in DOMAIN heap /\ Top.next \in DOMAIN heap[Top.from].kids
    BY <1>1, TopFacts, ChildFacts DEF Inv, HeapInv, StackInv, NoCycle, IsHeap
  <2>2. heap' = Blank(heap, Child) BY <1>1, <1>3
  <2>3. /\ Len(heap') = n /\ Grown(heap, heap') /\ \A m \in 1..Len(heap) : heap'[m] = heap[m]
        /\ \A i \in DOMAIN heap'[n].kids : heap'[n].kids[i] = Nil
    BY <2>1, <2>2, BlankFacts
  <2>4. /\ heap'[n].class = heap[Child].class /\ heap'[n].name = heap[Child].name
        /\ DOMAIN heap'[n].kids = DOMAIN heap[Child].kids
    BY <2>1, <2>2, BlankNode
  <2>5. \A m \in 0..Len(heap) : Term(heap', m) = Term(heap, m) BY <2>1, <2>3, GrownTerms
  <2>6. /\ DOMAIN stack' = 1..(l + 1) /\ stack'[l + 1] = [from |-> Child, to |-> n, next |-> 1]
        /\ \A i \in 1..l : stack'[i] = stack[i]
    <3> DEFINE F == Frame(Child, n)
               T == {stack[i] : i \in DOMAIN stack} \cup {F}
    <3>1. stack \in [1..l -> T] BY <2>1
    <3>2. stack \in Seq(T) /\ F \in T
      <4>1. F \in T OBVIOUS
      <4> HIDE DEF T, F
      <4> QED BY <2>1, <3>1, <4>1
    <3>3. stack' = Append(stack, F) BY <1>1
    <3> HIDE DEF T, F
    <3>4. /\ DOMAIN stack' = 1..(l + 1) /\ stack'[l + 1] = F /\ \A i \in 1..l : stack'[i] = stack[i]
      BY <3>2, <3>3, FramePushed
    <3> QED BY <3>4 DEF F, Frame
  <2> HIDE DEF n, l
  <2>7. Twin(heap', stack'[l + 1])
    <3>1. \A j \in DOMAIN heap[Child].kids : j >= 1 /\ ~ (j < 1)
      <4>1. heap[Child].kids \in Seq(0..Len(heap)) BY <2>1, HeapFacts
      <4> QED BY <4>1
    <3>2. heap'[Child] = heap[Child] BY <2>1, <2>3
    <3> QED BY <2>3, <2>4, <2>6, <3>1, <3>2 DEF Twin
  <2>8. ASSUME NEW i \in 1..l
        PROVE  /\ Twin(heap', stack'[i]) /\ stack[i] \in FramesOver(heap)
               /\ heap'[stack[i].from] = heap[stack[i].from]
    <3>1. stack[i] \in FramesOver(heap) /\ stack'[i] = stack[i] BY <2>1, <2>6
    <3>2. Twin(heap, stack[i]) BY <1>3, <2>1 DEF Deep, Twinned
    <3>3. /\ stack[i].from \in DOMAIN heap /\ stack[i].to \in DOMAIN heap
          /\ \A j \in DOMAIN heap[stack[i].from].kids : heap[stack[i].from].kids[j] \in 0..Len(heap)
          /\ \A j \in DOMAIN heap[stack[i].to].kids : heap[stack[i].to].kids[j] \in 0..Len(heap)
      BY <2>1, <3>1, FrameFacts
    <3>4. heap'[stack[i].from] = heap[stack[i].from] /\ heap'[stack[i].to] = heap[stack[i].to]
      BY <2>1, <2>3, <3>3
    <3>5. DOMAIN heap[stack[i].to].kids = DOMAIN heap[stack[i].from].kids BY <3>2 DEF Twin
    <3>6. Twin(heap', stack[i]) BY <2>1, <2>5, <3>1, <3>2, <3>3, <3>4, <3>5, TwinKept
    <3> QED BY <3>1, <3>4, <3>6
  <2>9. \A i \in DOMAIN stack' : i \in 1..l \/ i = l + 1 BY <2>1, <2>6
  <2>10. ASSUME NEW i \in DOMAIN stack', i + 1 \in DOMAIN stack'
         PROVE  /\ stack'[i].next \in DOMAIN heap'[stack'[i].from].kids
                /\ stack'[i + 1].from = heap'[stack'[i].from].kids[stack'[i].next]
    <3>1. i \in 1..l /\ stack'[i] = stack[i] BY <2>1, <2>6, <2>10
    <3>2. CASE i = l
      <4>1. stack[i] = Top /\ stack'[i + 1].from = Child BY <2>6, <3>2 DEF Top, l
      <4>2. heap'[Top.from] = heap[Top.from] BY <2>8, <3>1, <4>1
      <4> QED BY <2>1, <3>1, <4>1, <4>2 DEF Child
    <3>3. CASE i # l
      <4>1. i \in DOMAIN stack /\ i + 1 \in DOMAIN stack /\ stack'[i + 1] = stack[i + 1]
        BY <2>1, <2>6, <3>1, <3>3
      <4> QED BY <1>3, <2>8, <3>1, <4>1 DEF Deep, Twinned
    <3> QED BY <3>2, <3>3
  <2>11. Twinned'
    <3>1. \A i \in DOMAIN stack' : Twin(heap', stack'[i]) BY <2>7, <2>8, <2>9
    <3>2. 1 \in DOMAIN stack /\ stack'[1] = stack[1] BY <2>1, <2>6
    <3> QED BY <1>1, <1>3, <2>10, <3>1, <3>2 DEF Deep, Twinned
  <2>12. CopyIsDeep' BY <1>1, <1>3 DEF CopyIsDeep, Returned
  <2> QED BY <2>11, <2>12 DEF Deep
<1> QED BY <1>2, <1>3

\* The copy of a child is what the next slot of the copy above it holds.
LEMMA LeaveDeep ==
  ASSUME Inv, Inv', NoCycle, NoCycle', Deep, LeaveChild
  PROVE  Deep'
<1> DEFINE l == Len(stack) - 1
           up == stack[l]
<1>1. /\ Copying /\ ~ AtChild /\ Len(stack) > 1 /\ heap' = Set(heap, up.to, up.next, Outcome)
      /\ stack' = Advanced(Below) /\ call' = call
  BY DEF LeaveChild
<1>2. CASE call.phase # "copy"
  BY <1>1, <1>2, OtherwiseDeep DEF Copying
<1>3. CASE call.phase = "copy"
  <2>1. /\ stack \in Seq(FramesOver(heap)) /\ Len(stack) \in Nat /\ DOMAIN stack = 1..Len(stack)
        /\ IsHeap(heap) /\ Acyclic(heap) /\ Len(heap) \in Nat /\ DOMAIN heap = 1..Len(heap)
        /\ IsHeap(heap') /\ Acyclic(heap')
        /\ Top.to \in DOMAIN heap /\ Top.from \in DOMAIN heap
    <3>1. /\ stack \in Seq(FramesOver(heap)) /\ IsHeap(heap) /\ IsHeap(heap')
          /\ Acyclic(heap) /\ Acyclic(heap')
      BY DEF Inv, HeapInv, StackInv, NoCycle
    <3>2. Top.to \in DOMAIN heap /\ Top.from \in DOMAIN heap BY <1>1, TopFacts
    <3> QED BY <3>1, <3>2 DEF IsHeap
  <2>2. l \in Nat /\ l > 0 /\ l \in DOMAIN stack /\ l + 1 = Len(stack) /\ l + 1 \in DOMAIN stack
    BY <1>1, <2>1
  <2>3. /\ Below \in Seq(FramesOver(heap)) /\ Len(Below) = l
        /\ \A i \in DOMAIN Below : i \in DOMAIN stack /\ Below[i] = stack[i]
    BY <1>1, BelowFacts
  <2> HIDE DEF l
  <2>4. /\ DOMAIN stack' = 1..l
        /\ \A i \in 1..l :
             stack'[i] = IF i = l
                         THEN [from |-> stack[i].from, to |-> stack[i].to,
                               next |-> stack[i].next + 1]
                         ELSE stack[i]
    <3>1. DOMAIN Below = 1..l BY <2>2, <2>3
    <3>2. /\ DOMAIN stack' = 1..l
          /\ \A i \in 1..l :
               stack'[i] = IF i = l
                           THEN [from |-> Below[i].from, to |-> Below[i].to,
                                 next |-> Below[i].next + 1]
                           ELSE Below[i]
      BY <1>1, <2>2, <2>3, AdvancedFrames
    <3> QED BY <2>3, <3>1, <3>2
  <2>5. Outcome = Top.to /\ Outcome \in 0..Len(heap) /\ Top = stack[l + 1]
    BY <1>1, <1>3, <2>2, OutcomeType DEF Top
  <2>6. /\ Unheld(heap, up.to) /\ up.to # Top.to
        /\ \A i \in DOMAIN stack : stack[i].from # up.to
        /\ \A i \in 1..l : i # l => stack[i].to # up.to
    <3>1. Unheld(heap, up.to) /\ up.to # stack[l + 1].to
          /\ \A i \in 1..l : i # l => stack[i].to # up.to
      BY <1>3, <2>1, <2>2 DEF NoCycle, OpenInv
    <3>2. \A i \in DOMAIN stack : stack[i].from # up.to
      BY <1>3, <2>2, SourcesApart DEF Deep
    <3> QED BY <2>5, <3>1, <3>2
  <2>7. up \in FramesOver(heap) /\ up.to \in DOMAIN heap /\ up.from \in DOMAIN heap
    <3>1. up \in FramesOver(heap) BY <2>1, <2>2
    <3> QED BY <2>1, <3>1, FrameFacts
  <2>8. /\ up.next \in DOMAIN heap[up.from].kids
        /\ Top.from = heap[up.from].kids[up.next]
    BY <1>3, <2>2, <2>5 DEF Deep, Twinned
  <2> HIDE DEF up
  <2>9. /\ \A m \in 1..Len(heap) : heap'[m].class = heap[m].class /\ heap'[m].name = heap[m].name
        /\ \A m \in 1..Len(heap) : m # up.to => heap'[m].kids = heap[m].kids
        /\ DOMAIN heap'[up.to].kids = DOMAIN heap[up.to].kids
        /\ \A j \in DOMAIN heap[up.to].kids :
             heap'[up.to].kids[j] = IF j = up.next THEN Top.to ELSE heap[up.to].kids[j]
    <3> DEFINE g == Set(heap, up.to, up.next, Top.to)
    <3>1. heap' = g BY <1>1, <2>5 DEF up
    <3>2. /\ \A m \in 1..Len(heap) : g[m].class = heap[m].class /\ g[m].name = heap[m].name
          /\ \A m \in 1..Len(heap) : m # up.to => g[m].kids = heap[m].kids
          /\ DOMAIN g[up.to].kids = DOMAIN heap[up.to].kids
          /\ \A j \in DOMAIN heap[up.to].kids :
               g[up.to].kids[j] = IF j = up.next THEN Top.to ELSE heap[up.to].kids[j]
      <4>1. IsHeap(heap) /\ up.to \in DOMAIN heap /\ Top.to \in 0..Len(heap) BY <2>1, <2>7
      <4> QED BY <4>1, SetFacts
    <3> HIDE DEF g
    <3> QED BY <3>1, <3>2
  <2>10. \A m \in 0..Len(heap) : m # up.to => Term(heap', m) = Term(heap, m)
    BY <1>1, <2>1, <2>5, <2>6, <2>7, SetTerms
  <2>11. Term(heap, Top.to) = Term(heap, Top.from) BY <1>1, <1>3, CopyDone DEF Deep
  <2>12. ASSUME NEW i \in DOMAIN stack
         PROVE  /\ Twin(heap, stack[i]) /\ stack[i] \in FramesOver(heap)
                /\ stack[i].from \in DOMAIN heap /\ stack[i].to \in DOMAIN heap
                /\ \A j \in DOMAIN heap[stack[i].from].kids :
                     /\ heap[stack[i].from].kids[j] \in 0..Len(heap)
                     /\ heap[stack[i].from].kids[j] # up.to
                /\ \A j \in DOMAIN heap[stack[i].to].kids :
                     /\ heap[stack[i].to].kids[j] \in 0..Len(heap)
                     /\ heap[stack[i].to].kids[j] # up.to
                /\ heap'[stack[i].from].class = heap[stack[i].from].class
                /\ heap'[stack[i].from].name = heap[stack[i].from].name
                /\ heap'[stack[i].from].kids = heap[stack[i].from].kids
    <3>1. Twin(heap, stack[i]) BY <1>3 DEF Deep, Twinned
    <3>2. stack[i] \in FramesOver(heap) BY <2>1
    <3>3. /\ stack[i].from \in DOMAIN heap /\ stack[i].to \in DOMAIN heap
          /\ \A j \in DOMAIN heap[stack[i].from].kids : heap[stack[i].from].kids[j] \in 0..Len(heap)
          /\ \A j \in DOMAIN heap[stack[i].to].kids : heap[stack[i].to].kids[j] \in 0..Len(heap)
      BY <2>1, <3>2, FrameFacts
    <3>4. /\ \A j \in DOMAIN heap[stack[i].from].kids : heap[stack[i].from].kids[j] # up.to
          /\ \A j \in DOMAIN heap[stack[i].to].kids : heap[stack[i].to].kids[j] # up.to
      BY <2>6, <3>3 DEF Unheld
    <3>5. stack[i].from # up.to BY <2>6
    <3>6. /\ heap'[stack[i].from].class = heap[stack[i].from].class
          /\ heap'[stack[i].from].name = heap[stack[i].from].name
          /\ heap'[stack[i].from].kids = heap[stack[i].from].kids
      BY <2>1, <2>9, <3>3, <3>5
    <3> QED BY <3>1, <3>2, <3>3, <3>4, <3>6
  <2>13. ASSUME NEW i \in 1..l, i # l PROVE Twin(heap', stack'[i])
    <3>1. stack'[i] = stack[i] /\ i \in DOMAIN stack BY <2>1, <2>2, <2>4, <2>13
    <3>2. stack[i].to # up.to BY <2>6, <2>13
    <3>3. /\ heap'[stack[i].to].class = heap[stack[i].to].class
          /\ heap'[stack[i].to].name = heap[stack[i].to].name
          /\ heap'[stack[i].to].kids = heap[stack[i].to].kids
      BY <2>1, <2>9, <2>12, <3>1, <3>2
    <3>4. DOMAIN heap[stack[i].to].kids = DOMAIN heap[stack[i].from].kids
      BY <2>12, <3>1 DEF Twin
    <3>5. \A j \in DOMAIN heap[stack[i].from].kids :
            /\ Term(heap', heap[stack[i].to].kids[j]) = Term(heap, heap[stack[i].to].kids[j])
            /\ Term(heap', heap[stack[i].from].kids[j]) = Term(heap, heap[stack[i].from].kids[j])
      BY <2>10, <2>12, <3>1, <3>4
    <3>6. Twin(heap', stack[i]) BY <2>1, <2>12, <3>1, <3>3, <3>5, TwinKept
    <3> QED BY <3>1, <3>6
  <2>14. Twin(heap', stack'[l])
    <3>1. /\ Twin(heap, up) /\ up.next \in Nat
          /\ \A j \in DOMAIN heap[up.from].kids : j \in Nat
      <4>1. Twin(heap, up) BY <2>2, <2>12 DEF up
      <4>2. up.next \in Nat /\ \A j \in DOMAIN heap[up.from].kids : j \in Nat
        BY <2>1, <2>7, FrameFacts
      <4> QED BY <4>1, <4>2
    <3>2. stack'[l] = [from |-> up.from, to |-> up.to, next |-> up.next + 1]
      <4>1. l \in 1..l BY <2>2
      <4> QED BY <2>4, <4>1 DEF up
    <3>3. /\ heap'[up.from].class = heap[up.from].class /\ heap'[up.from].name = heap[up.from].name
          /\ heap'[up.from].kids = heap[up.from].kids
          /\ \A j \in DOMAIN heap[up.from].kids :
               heap[up.from].kids[j] \in 0..Len(heap) /\ heap[up.from].kids[j] # up.to
          /\ \A j \in DOMAIN heap[up.to].kids :
               heap[up.to].kids[j] \in 0..Len(heap) /\ heap[up.to].kids[j] # up.to
      BY <2>2, <2>12 DEF up
    <3>4. /\ heap'[up.to].class = heap[up.to].class /\ heap'[up.to].name = heap[up.to].name
          /\ DOMAIN heap[up.to].kids = DOMAIN heap[up.from].kids
      BY <2>1, <2>7, <2>9, <3>1 DEF Twin
    <3>5. ASSUME NEW j \in DOMAIN heap[up.from].kids, j < up.next + 1
          PROVE  Term(heap', heap'[up.to].kids[j]) = Term(heap', heap[up.from].kids[j])
      <4>1. CASE j = up.next
        <5>1. heap'[up.to].kids[j] = Top.to BY <2>9, <3>4, <4>1
        <5>2. Term(heap', Top.to) = Term(heap, Top.to) BY <2>1, <2>6, <2>10
        <5>3. heap[up.from].kids[j] = Top.from BY <2>8, <4>1
        <5>4. Term(heap', Top.from) = Term(heap, Top.from) BY <2>10, <3>3, <5>3
        <5> QED BY <2>11, <5>1, <5>2, <5>3, <5>4
      <4>2. CASE j # up.next
        <5>1. j < up.next BY <3>1, <3>5, <4>2
        <5>2. Term(heap, heap[up.to].kids[j]) = Term(heap, heap[up.from].kids[j])
          BY <3>1, <5>1 DEF Twin
        <5>3. heap'[up.to].kids[j] = heap[up.to].kids[j] BY <2>9, <3>4, <4>2
        <5> QED BY <2>10, <3>3, <3>4, <5>2, <5>3
      <4> QED BY <4>1, <4>2
    <3>6. ASSUME NEW j \in DOMAIN heap[up.from].kids, j >= up.next + 1
          PROVE  heap'[up.to].kids[j] = Nil
      <4>1. j >= up.next /\ j # up.next BY <3>1, <3>6
      <4>2. heap[up.to].kids[j] = Nil BY <3>1, <4>1 DEF Twin
      <4> QED BY <2>9, <3>4, <4>1, <4>2
    <3>7. stack'[l].from = up.from /\ stack'[l].to = up.to /\ stack'[l].next = up.next + 1
      BY <3>2
    <3>8. /\ heap'[up.to].class = heap'[up.from].class /\ heap'[up.to].name = heap'[up.from].name
          /\ DOMAIN heap'[up.to].kids = DOMAIN heap'[up.from].kids
      BY <2>9, <3>1, <3>3, <3>4 DEF Twin
    <3>9. \A j \in DOMAIN heap'[up.from].kids :
            /\ j < up.next + 1 =>
                 Term(heap', heap'[up.to].kids[j]) = Term(heap', heap'[up.from].kids[j])
            /\ j >= up.next + 1 => heap'[up.to].kids[j] = Nil
      BY <3>3, <3>5, <3>6
    <3> QED BY <3>7, <3>8, <3>9 DEF Twin
  <2>15. ASSUME NEW i \in DOMAIN stack', i + 1 \in DOMAIN stack'
         PROVE  /\ stack'[i].next \in DOMAIN heap'[stack'[i].from].kids
                /\ stack'[i + 1].from = heap'[stack'[i].from].kids[stack'[i].next]
    <3>1. i \in 1..l /\ i + 1 \in 1..l /\ i # l BY <2>2, <2>4, <2>15
    <3>2. i \in DOMAIN stack /\ i + 1 \in DOMAIN stack BY <2>1, <2>2, <3>1
    <3>3. stack'[i] = stack[i] /\ stack'[i + 1].from = stack[i + 1].from BY <2>4, <3>1
    <3>4. /\ stack[i].next \in DOMAIN heap[stack[i].from].kids
          /\ stack[i + 1].from = heap[stack[i].from].kids[stack[i].next]
      BY <1>3, <3>2 DEF Deep, Twinned
    <3> QED BY <2>12, <3>2, <3>3, <3>4
  <2>16. Twinned'
    <3>1. \A i \in DOMAIN stack' : Twin(heap', stack'[i]) BY <2>4, <2>13, <2>14
    <3>2. 1 \in DOMAIN stack /\ stack'[1].from = stack[1].from BY <2>1, <2>2, <2>4
    <3> QED BY <1>1, <1>3, <2>15, <3>1, <3>2 DEF Deep, Twinned
  <2>17. CopyIsDeep' BY <1>1, <1>3 DEF CopyIsDeep, Returned
  <2> QED BY <2>16, <2>17 DEF Deep
<1> QED BY <1>2, <1>3

\* What Copy returns is the copy of the root, with nothing old under it.
LEMMA ReturnsDeep ==
  ASSUME Inv, NoCycle, Deep, Returns
  PROVE  Deep'
<1>1. call \in [op : Ops \cup {"none"}, phase : Phases, root : Nat,
                owned : 0..Len(heap), input : 0..Len(heap), pass : Nat]
  BY DEF Inv, CallInv
<1>2. CASE SimplifyReturns
  <2>1. call' = [call EXCEPT !.phase = "idle", !.input = Outcome] /\ call.phase = "simplify"
    BY <1>2 DEF SimplifyReturns
  <2>2. call.op = "simplify" BY <2>1 DEF Inv, CallInv
  <2>3. call'.phase = "idle" /\ call'.op = "simplify" BY <1>1, <2>1, <2>2
  <2> QED BY <2>3, OtherwiseDeep
<1>3. CASE NextPass
  <2>1. call' = [call EXCEPT !.input = Outcome, !.pass = @ + 1] /\ call.phase = "simplify"
    BY <1>3 DEF NextPass
  <2>2. call'.phase = "simplify" BY <1>1, <2>1
  <2> QED BY <2>2, OtherwiseDeep
<1>4. CASE CopyReturns
  <2>1. /\ Copying /\ ~ AtChild /\ Len(stack) = 1 /\ call.op = "copy" /\ heap' = heap
        /\ call' = [call EXCEPT !.phase = "idle", !.input = Outcome]
    BY <1>4 DEF CopyReturns, Finished
  <2>2. call.phase = "copy" BY <2>1 DEF Inv, CallInv, Copying
  <2>3. Outcome = Top.to /\ Top = stack[1] /\ 1 \in DOMAIN stack
    BY <2>1, <2>2, OutcomeType, TopFacts DEF Top
  <2>4. /\ call'.phase = "idle" /\ call'.op = "copy" /\ call'.input = Top.to
        /\ call'.root = call.root /\ call'.owned = call.owned
    BY <1>1, <2>1, <2>3
  <2>5. Top.from = call.root BY <2>2, <2>3 DEF Deep, Twinned
  <2>6. Term(heap, Top.to) = Term(heap, call.root) BY <2>1, <2>2, <2>5, CopyDone DEF Deep
  <2> DEFINE S == {n \in 0..Len(heap) : n = Nil \/ n > call.owned}
  <2>7. /\ IsHeap(heap) /\ Acyclic(heap) /\ Len(heap) \in Nat /\ DOMAIN heap = 1..Len(heap)
        /\ Apart(heap, call.owned) /\ call.owned \in Nat
        /\ Top.to \in DOMAIN heap /\ Top.to > call.owned
    <3>1. CopyFirst BY <2>1, <2>2 DEF CopyFirst
    <3>2. call.owned \in 0..Len(heap) BY <1>1
    <3>3. Top.to \in DOMAIN heap /\ Top.to > call.owned BY <2>1, TopFacts
    <3>4. IsHeap(heap) /\ Acyclic(heap) /\ Apart(heap, call.owned)
      BY <3>1 DEF Inv, HeapInv, ApartInv, NoCycle
    <3> QED BY <3>2, <3>3, <3>4 DEF IsHeap
  <2>8. Closed(heap, S)
    <3>1. S \subseteq 0..Len(heap) /\ Nil \in S BY <2>7 DEF Nil
    <3>2. ASSUME NEW n \in S \ {Nil}, NEW i \in DOMAIN heap[n].kids PROVE heap[n].kids[i] \in S
      <4>1. n \in DOMAIN heap /\ n > call.owned BY <2>7, <3>2 DEF Nil
      <4>2. heap[n].kids[i] \in 0..Len(heap) /\ heap[n].kids[i] \notin 1..call.owned
        BY <2>7, <3>2, <4>1, HeapFacts DEF Apart
      <4> QED BY <2>7, <4>2 DEF Nil
    <3> QED BY <3>1, <3>2 DEF Closed
  <2>9. Top.to \in S BY <2>7
  <2>10. \A n \in S : n # Nil => n \notin 1..call.owned BY <2>7
  <2> HIDE DEF S
  <2>11. Under(heap, Top.to) \subseteq S \ {Nil} BY <2>7, <2>8, <2>9, UnderClosed
  <2>12. Under(heap, Top.to) \cap 1..call.owned = {} BY <2>10, <2>11
  <2>13. CopyIsDeep' BY <2>1, <2>4, <2>6, <2>12 DEF CopyIsDeep, Returned
  <2>14. Twinned' BY <2>4 DEF Twinned
  <2> QED BY <2>13, <2>14 DEF Deep
<1> QED BY <1>2, <1>3, <1>4 DEF Returns

LEMMA WritingDeep ==
  ASSUME Inv, Writing
  PROVE  Deep'
<1>1. call \in [op : Ops \cup {"none"}, phase : Phases, root : Nat,
                owned : 0..Len(heap), input : 0..Len(heap), pass : Nat]
  BY DEF Inv, CallInv
<1>2. CASE GenerateReturns
  <2>1. call' = [call EXCEPT !.phase = "idle"] /\ call.phase = "write" BY <1>2 DEF GenerateReturns
  <2>2. call.op # "copy" BY <2>1 DEF Inv, CallInv
  <2>3. call'.phase = "idle" /\ call'.op = call.op BY <1>1, <2>1
  <2> QED BY <2>2, <2>3, OtherwiseDeep
<1>3. CASE CopyForTSQL \/ PassAbsent \/ EnsureBools \/ BoolsDone \/ WriteNode
  <2>1. call'.phase \in {"bools", "write"}
    BY <1>1, <1>3 DEF CopyForTSQL, PassAbsent, EnsureBools, BoolsDone, WriteNode
  <2> QED BY <2>1, OtherwiseDeep
<1> QED BY <1>2, <1>3 DEF Writing

LEMMA StepDeep ==
  ASSUME Inv, Inv', NoCycle, NoCycle', Deep, [Next]_vars, "hive" \notin Ops
  PROVE  Deep'
<1>1. CASE UNCHANGED vars
  BY <1>1 DEF vars, Deep, Twinned, Twin, CopyIsDeep, Returned
<1>2. CASE Rewriting BY <1>2, NoneRewritten
<1>3. CASE Recursion BY <1>3, SkipDeep, EnterDeep, LeaveDeep DEF Recursion
<1> QED BY <1>1, <1>2, <1>3, CallDeep, ReturnsDeep, WritingDeep DEF Next

\* Copy is deep: what it returns is the tree it was given, node for node, and
\* shares no node with what was there before, whatever the tree and whatever was
\* done with it.
THEOREM CopiesAreDeep ==
  ASSUME "hive" \notin Ops
  PROVE  Spec => []CopyIsDeep
<1>1. Inv /\ NoCycle /\ [Next]_vars => NoCycle' BY StepNoCycle
<1>2. Inv /\ Inv' /\ NoCycle /\ NoCycle' /\ Deep /\ [Next]_vars => Deep' BY StepDeep
<1>3. Deep => CopyIsDeep BY DEF Deep
<1> QED BY <1>1, <1>2, <1>3, InitNoCycle, InitDeep, Invariance, PTL DEF Spec

-----------------------------------------------------------------------------
(* What is returned is a tree.                                             *)

\* The children of a node stay linked to it while they keep their Parent.
LEMMA LinkedKept ==
  ASSUME NEW h, NEW g, NEW n, Linked(h, n), g[n].kids = h[n].kids,
         \A i \in DOMAIN h[n].kids :
           h[n].kids[i] # Nil => g[h[n].kids[i]].parent = h[h[n].kids[i]].parent
  PROVE  Linked(g, n)
  BY DEF Linked

\* A node added over children that a node does not hold leaves it linked, and is
\* linked if it holds each of its children once.
LEMMA NewLinks ==
  ASSUME NEW h, IsHeap(h), NEW class \in Classes, NEW name \in Names,
         NEW kids \in Seq(0..Len(h)), class \in Unary => Len(kids) > 0
  PROVE  LET g == New(h, class, name, kids) IN
           /\ \A n \in DOMAIN h :
                /\ Linked(h, n)
                /\ \A i \in DOMAIN h[n].kids : h[n].kids[i] # Nil => h[n].kids[i] \notin Range(kids)
                => Linked(g, n)
           /\ (\A i, j \in DOMAIN kids : kids[i] # Nil /\ kids[j] = kids[i] => j = i)
                => Linked(g, Len(h) + 1)
<1> DEFINE g == New(h, class, name, kids)
<1>1. /\ Len(g) = Len(h) + 1 /\ Grown(h, g)
      /\ g[Len(g)] = [class |-> class, name |-> name, kids |-> kids, parent |-> Nil]
  BY NewFacts
<1>2. \A n \in DOMAIN h : g[n].parent = IF n \in Range(kids) THEN Len(h) + 1 ELSE h[n].parent
  BY NewParents
<1>3. Len(h) \in Nat /\ DOMAIN h = 1..Len(h) BY DEF IsHeap
<1> HIDE DEF g
<1>4. ASSUME NEW n \in DOMAIN h, Linked(h, n),
             \A i \in DOMAIN h[n].kids : h[n].kids[i] # Nil => h[n].kids[i] \notin Range(kids)
      PROVE  Linked(g, n)
  <2>1. g[n].kids = h[n].kids BY <1>1, <1>3 DEF Grown
  <2>2. ASSUME NEW i \in DOMAIN h[n].kids, h[n].kids[i] # Nil
        PROVE  g[h[n].kids[i]].parent = h[h[n].kids[i]].parent
    <3>1. h[n].kids[i] \in DOMAIN h BY <1>3, <2>2, HeapFacts DEF Nil
    <3> QED BY <1>2, <1>4, <2>2, <3>1
  <2> QED BY <1>4, <2>1, <2>2, LinkedKept
<1>5. ASSUME \A i, j \in DOMAIN kids : kids[i] # Nil /\ kids[j] = kids[i] => j = i
      PROVE  Linked(g, Len(h) + 1)
  <2>1. g[Len(h) + 1].kids = kids BY <1>1
  <2>2. ASSUME NEW i \in DOMAIN kids, kids[i] # Nil PROVE g[kids[i]].parent = Len(h) + 1
    <3>1. kids[i] \in 0..Len(h) /\ kids[i] \in Range(kids) BY DEF Range
    <3>2. kids[i] \in DOMAIN h BY <1>3, <2>2, <3>1 DEF Nil
    <3> QED BY <1>2, <3>1, <3>2
  <2> QED BY <1>5, <2>1, <2>2 DEF Linked
<1> QED BY <1>4, <1>5 DEF g

\* So does one more child for another node, if the child was held by neither.
LEMMA SetLinks ==
  ASSUME NEW h, IsHeap(h), NEW n \in DOMAIN h, NEW i, NEW k \in 0..Len(h)
  PROVE  LET g == Set(h, n, i, k) IN
           /\ \A m \in DOMAIN h :
                /\ Linked(h, m) /\ m # n
                /\ k # Nil => \A j \in DOMAIN h[m].kids : h[m].kids[j] # k
                => Linked(g, m)
           /\ /\ Linked(h, n)
              /\ k # Nil => \A j \in DOMAIN h[n].kids : h[n].kids[j] # k
              => Linked(g, n)
<1> DEFINE g == Set(h, n, i, k)
<1>1. /\ \A m \in DOMAIN h : m # n => g[m].kids = h[m].kids
      /\ DOMAIN g[n].kids = DOMAIN h[n].kids
      /\ \A j \in DOMAIN h[n].kids : g[n].kids[j] = IF j = i THEN k ELSE h[n].kids[j]
  <2>1. DOMAIN h = 1..Len(h) BY DEF IsHeap
  <2> QED BY <2>1, SetFacts
<1>2. \A m \in DOMAIN h : g[m].parent = IF m = k THEN n ELSE h[m].parent BY SetParents
<1>3. Len(h) \in Nat /\ DOMAIN h = 1..Len(h) BY DEF IsHeap
<1>4. \A m \in DOMAIN h : \A j \in DOMAIN h[m].kids :
        h[m].kids[j] # Nil => h[m].kids[j] \in DOMAIN h
  BY <1>3, HeapFacts DEF Nil
<1>5. k # Nil => k \in DOMAIN h BY <1>3 DEF Nil
<1> HIDE DEF g
<1>6. ASSUME NEW m \in DOMAIN h, Linked(h, m), m # n,
             k # Nil => \A j \in DOMAIN h[m].kids : h[m].kids[j] # k
      PROVE  Linked(g, m)
  <2>1. g[m].kids = h[m].kids BY <1>1, <1>6
  <2>2. \A j \in DOMAIN h[m].kids :
          h[m].kids[j] # Nil => g[h[m].kids[j]].parent = h[h[m].kids[j]].parent
    BY <1>2, <1>4, <1>6
  <2> QED BY <1>6, <2>1, <2>2, LinkedKept
<1>7. ASSUME Linked(h, n), k # Nil => \A j \in DOMAIN h[n].kids : h[n].kids[j] # k
      PROVE  Linked(g, n)
  <2>1. ASSUME NEW j \in DOMAIN h[n].kids, g[n].kids[j] # Nil
        PROVE  /\ g[g[n].kids[j]].parent = n
               /\ \A q \in DOMAIN h[n].kids : g[n].kids[q] = g[n].kids[j] => q = j
    <3>1. CASE j = i
      <4>1. g[n].kids[j] = k /\ k # Nil BY <1>1, <2>1, <3>1
      <4> QED BY <1>1, <1>2, <1>5, <1>7, <3>1, <4>1
    <3>2. CASE j # i
      <4>1. g[n].kids[j] = h[n].kids[j] /\ h[n].kids[j] # Nil BY <1>1, <2>1, <3>2
      <4>2. h[n].kids[j] # k BY <1>7, <4>1
      <4>3. h[h[n].kids[j]].parent = n BY <1>7, <4>1 DEF Linked
      <4>4. \A q \in DOMAIN h[n].kids : h[n].kids[q] = h[n].kids[j] => q = j
        BY <1>7, <4>1 DEF Linked
      <4> QED BY <1>1, <1>2, <1>4, <4>1, <4>2, <4>3, <4>4
    <3> QED BY <3>1, <3>2
  <2> QED BY <1>1, <2>1 DEF Linked
<1> QED BY <1>6, <1>7 DEF g

-----------------------------------------------------------------------------
\* Nodes that hold only each other, each linked to its children.
Sound(h, G) == Closed(h, G) /\ \A n \in G \ {Nil} : Linked(h, n)

\* A sound set and a node that none of it holds make a tree.
LEMMA SoundTree ==
  ASSUME NEW h, IsHeap(h), Acyclic(h), NEW G, Sound(h, G), NEW r \in G,
         r # Nil => \A n \in G \ {Nil} : \A i \in DOMAIN h[n].kids : h[n].kids[i] # r
  PROVE  IsTree(h, r)
<1>1. Closed(h, G) BY DEF Sound
<1>2. CASE r # Nil
  <2>1. Under(h, r) \subseteq G \ {Nil} BY <1>1, UnderClosed
  <2> QED BY <1>2, <2>1 DEF IsTree, Sound, Range
<1>3. CASE r = Nil
  <2>1. Closed(h, {Nil}) BY DEF Closed, Nil, IsHeap
  <2>2. Under(h, r) \subseteq {Nil} \ {Nil} BY <1>3, <2>1, UnderClosed
  <2> QED BY <2>2 DEF IsTree
<1> QED BY <1>2, <1>3

\* What a frame copies into is linked, and the slots that are done hold finished
\* nodes.
Filled(h, f, G) ==
  /\ f.to \notin G /\ Linked(h, f.to)
  /\ \A j \in DOMAIN h[f.to].kids : j < f.next => h[f.to].kids[j] \in G

\* The finished nodes of a copy are sound.
Built(G) == Sound(heap, G) /\ \A i \in DOMAIN stack : Filled(heap, stack[i], G)
CopyBuilt == call.phase = "copy" => \E G : Built(G)

-----------------------------------------------------------------------------
\* The steps of the recursion, as what they make of the frames.
LEMMA FrameEntered ==
  ASSUME Inv, EnterChild
  PROVE  /\ DOMAIN stack' = 1..(Len(stack) + 1) /\ Len(stack) \in DOMAIN stack
         /\ DOMAIN stack = 1..Len(stack) /\ Len(stack) \in Nat
         /\ stack'[Len(stack) + 1] = [from |-> Child, to |-> Len(heap) + 1, next |-> 1]
         /\ \A i \in 1..Len(stack) : stack'[i] = stack[i]
         /\ \A i \in 1..Len(stack) : stack[i] \in FramesOver(heap)
<1> DEFINE l == Len(stack)
           F == Frame(Child, Len(heap) + 1)
           T == {stack[i] : i \in DOMAIN stack} \cup {F}
<1>1. Copying /\ stack' = Append(stack, F) BY DEF EnterChild
<1>2. /\ stack \in Seq(FramesOver(heap)) /\ l \in Nat /\ l \in DOMAIN stack /\ DOMAIN stack = 1..l
  BY <1>1, TopFacts DEF Inv, StackInv
<1>3. stack \in [1..l -> T] BY <1>2
<1>4. stack \in Seq(T) /\ F \in T
  <2>1. F \in T OBVIOUS
  <2> HIDE DEF T, F
  <2> QED BY <1>2, <1>3, <2>1
<1>5. \A i \in 1..l : stack[i] \in FramesOver(heap) BY <1>2
<1> HIDE DEF T, F
<1>6. DOMAIN stack' = 1..(l + 1) /\ stack'[l + 1] = F /\ \A i \in 1..l : stack'[i] = stack[i]
  BY <1>1, <1>4, FramePushed
<1> QED BY <1>2, <1>5, <1>6 DEF F, Frame

LEMMA FrameSkipped ==
  ASSUME Inv, SkipChild
  PROVE  /\ DOMAIN stack = 1..Len(stack) /\ Len(stack) \in DOMAIN stack /\ Len(stack) \in Nat
         /\ DOMAIN stack' = 1..Len(stack)
         /\ \A i \in 1..Len(stack) :
              stack'[i] = IF i = Len(stack)
                          THEN [from |-> stack[i].from, to |-> stack[i].to,
                                next |-> stack[i].next + 1]
                          ELSE stack[i]
         /\ \A i \in 1..Len(stack) : stack[i] \in FramesOver(heap)
<1>1. Copying /\ stack' = Advanced(stack) BY DEF SkipChild
<1>2. /\ stack \in Seq(FramesOver(heap)) /\ Len(stack) \in Nat /\ Len(stack) > 0
      /\ Len(stack) \in DOMAIN stack /\ DOMAIN stack = 1..Len(stack)
  BY <1>1, TopFacts DEF Inv, StackInv
<1>3. \A i \in 1..Len(stack) : stack[i] \in FramesOver(heap) BY <1>2
<1> QED BY <1>1, <1>2, <1>3, AdvancedFrames

LEMMA FrameLeft ==
  ASSUME Inv, LeaveChild
  PROVE  LET l == Len(stack) - 1 IN
         /\ l \in Nat /\ l > 0 /\ l \in DOMAIN stack /\ l + 1 \in DOMAIN stack
         /\ l + 1 = Len(stack) /\ Top = stack[l + 1] /\ DOMAIN stack = 1..(l + 1)
         /\ DOMAIN stack' = 1..l
         /\ \A i \in 1..l :
              stack'[i] = IF i = l
                          THEN [from |-> stack[i].from, to |-> stack[i].to,
                                next |-> stack[i].next + 1]
                          ELSE stack[i]
         /\ \A i \in 1..(l + 1) : stack[i] \in FramesOver(heap)
         /\ heap' = Set(heap, stack[l].to, stack[l].next, Outcome)
<1> DEFINE l == Len(stack) - 1
<1>1. /\ Copying /\ Len(stack) > 1 /\ stack' = Advanced(Below)
      /\ heap' = Set(heap, stack[l].to, stack[l].next, Outcome)
  BY DEF LeaveChild
<1>2. stack \in Seq(FramesOver(heap)) /\ Len(stack) \in Nat /\ DOMAIN stack = 1..Len(stack)
  BY DEF Inv, StackInv
<1>3. /\ l \in Nat /\ l > 0 /\ l \in DOMAIN stack /\ l + 1 = Len(stack) /\ l + 1 \in DOMAIN stack
      /\ DOMAIN stack = 1..(l + 1)
  BY <1>1, <1>2
<1>4. /\ Below \in Seq(FramesOver(heap)) /\ Len(Below) = l
      /\ \A i \in DOMAIN Below : i \in DOMAIN stack /\ Below[i] = stack[i]
  BY <1>1, BelowFacts
<1>5. Top = stack[l + 1] BY <1>3 DEF Top
<1>6. \A i \in 1..(l + 1) : stack[i] \in FramesOver(heap) BY <1>2, <1>3
<1> HIDE DEF l
<1>7. /\ DOMAIN stack' = 1..l
      /\ \A i \in 1..l :
           stack'[i] = IF i = l
                       THEN [from |-> stack[i].from, to |-> stack[i].to,
                             next |-> stack[i].next + 1]
                       ELSE stack[i]
  <2>1. DOMAIN Below = 1..l BY <1>3, <1>4
  <2>2. /\ DOMAIN stack' = 1..l
        /\ \A i \in 1..l :
             stack'[i] = IF i = l
                         THEN [from |-> Below[i].from, to |-> Below[i].to,
                               next |-> Below[i].next + 1]
                         ELSE Below[i]
    BY <1>1, <1>3, <1>4, AdvancedFrames
  <2> QED BY <1>4, <2>1, <2>2
<1> QED BY <1>1, <1>3, <1>5, <1>6, <1>7 DEF l

-----------------------------------------------------------------------------
\* A copy starts with no finished node.
LEMMA StartBuilt ==
  ASSUME Inv, NEW r \in DOMAIN heap, heap' = Blank(heap, r),
         stack' = <<Frame(r, Len(heap) + 1)>>
  PROVE  Built({Nil})'
<1> DEFINE n == Len(heap) + 1
<1>1. IsHeap(heap) /\ Len(heap) \in Nat BY DEF Inv, HeapInv, IsHeap
<1>2. /\ IsHeap(heap') /\ Len(heap') = n
      /\ \A i \in DOMAIN heap'[n].kids : heap'[n].kids[i] = Nil
  BY <1>1, BlankFacts
<1>3. DOMAIN stack' = {1} /\ stack'[1].to = n BY DEF Frame
<1>4. n # Nil BY <1>1 DEF Nil
<1> HIDE DEF n
<1>5. Sound(heap', {Nil})
  <2>1. Nil \in 0..Len(heap') BY <1>1, <1>2 DEF n, Nil
  <2> QED BY <2>1 DEF Sound, Closed
<1>6. Filled(heap', stack'[1], {Nil}) BY <1>2, <1>3, <1>4 DEF Filled, Linked
<1> QED BY <1>3, <1>5, <1>6 DEF Built

LEMMA SkipBuilt ==
  ASSUME Inv, SkipChild, call.phase = "copy", Deep, NEW G, Built(G)
  PROVE  Built(G)'
<1> DEFINE l == Len(stack)
<1>1. heap' = heap /\ PassedOver BY DEF SkipChild
<1>2. /\ DOMAIN stack = 1..l /\ l \in DOMAIN stack /\ l \in Nat /\ DOMAIN stack' = 1..l
      /\ \A i \in 1..l :
           stack'[i] = IF i = l
                       THEN [from |-> stack[i].from, to |-> stack[i].to,
                             next |-> stack[i].next + 1]
                       ELSE stack[i]
      /\ \A i \in 1..l : stack[i] \in FramesOver(heap)
  BY FrameSkipped
<1> HIDE DEF l
<1>3. ASSUME NEW i \in 1..l PROVE Filled(heap, stack'[i], G)
  <2>1. Filled(heap, stack[i], G) BY <1>2 DEF Built
  <2>2. CASE i # l BY <1>2, <2>1, <2>2
  <2>3. CASE i = l
    <3>1. stack'[i].to = stack[i].to /\ stack'[i].next = stack[i].next + 1 BY <1>2, <2>3
    <3>2. IsHeap(heap) BY DEF Inv, HeapInv
    <3>3. Twin(heap, stack[i]) BY <1>2 DEF Deep, Twinned
    <3>4. Nil \in G BY DEF Built, Sound, Closed
    <3>5. stack[i].next \in Nat /\ \A j \in DOMAIN heap[stack[i].from].kids : j \in Nat
      BY <1>2, <3>2, FrameFacts
    <3>6. DOMAIN heap[stack[i].to].kids = DOMAIN heap[stack[i].from].kids BY <3>3 DEF Twin
    <3>7. ASSUME NEW j \in DOMAIN heap[stack[i].to].kids, j < stack[i].next + 1
          PROVE  j < stack[i].next \/ heap[stack[i].to].kids[j] \in G
      <4>1. j < stack[i].next \/ j >= stack[i].next BY <3>5, <3>6
      <4>2. j >= stack[i].next => heap[stack[i].to].kids[j] = Nil BY <3>3, <3>6 DEF Twin
      <4> QED BY <3>4, <4>1, <4>2
    <3> QED BY <2>1, <3>1, <3>7 DEF Filled
  <2> QED BY <2>2, <2>3
<1> QED BY <1>1, <1>2, <1>3 DEF Built

\* A node is entered: it holds nothing yet.
LEMMA EnterBuilt ==
  ASSUME Inv, EnterChild, call.phase = "copy", NEW G, Built(G)
  PROVE  Built(G)'
<1> DEFINE l == Len(stack)
           n == Len(heap) + 1
<1>1. IsHeap(heap) /\ Len(heap) \in Nat /\ DOMAIN heap = 1..Len(heap) BY DEF Inv, HeapInv, IsHeap
<1>2. /\ DOMAIN stack' = 1..(l + 1) /\ l \in Nat /\ DOMAIN stack = 1..l
      /\ stack'[l + 1] = [from |-> Child, to |-> n, next |-> 1]
      /\ \A i \in 1..l : stack'[i] = stack[i] /\ stack[i] \in FramesOver(heap)
  BY FrameEntered
<1>3. Child \in DOMAIN heap /\ heap' = Blank(heap, Child) BY ChildFacts DEF EnterChild
<1>4. /\ IsHeap(heap') /\ Len(heap') = n
      /\ \A i \in DOMAIN heap'[n].kids : heap'[n].kids[i] = Nil
      /\ \A m \in 1..Len(heap) : heap'[m] = heap[m]
  BY <1>1, <1>3, BlankFacts
<1>5. Sound(heap, G) /\ G \subseteq 0..Len(heap) BY DEF Built, Sound, Closed
<1>6. n \notin G BY <1>1, <1>5
<1> HIDE DEF l
<1>7. ASSUME NEW m \in DOMAIN heap, Linked(heap, m) PROVE Linked(heap', m)
  <2>1. heap'[m].kids = heap[m].kids BY <1>1, <1>4
  <2>2. \A i \in DOMAIN heap[m].kids : heap[m].kids[i] # Nil => heap[m].kids[i] \in DOMAIN heap
    BY <1>1, HeapFacts DEF Nil
  <2> QED BY <1>1, <1>4, <1>7, <2>1, <2>2, LinkedKept
<1>8. Sound(heap', G)
  <2>1. \A m \in G \ {Nil} : m \in DOMAIN heap BY <1>1, <1>5 DEF Nil
  <2>2. \A m \in G \ {Nil} : heap'[m].kids = heap[m].kids BY <1>1, <1>4, <2>1
  <2>3. Closed(heap', G) BY <1>1, <1>4, <1>5, <2>2 DEF Sound, Closed
  <2> QED BY <1>5, <1>7, <2>1, <2>3 DEF Sound
<1>9. ASSUME NEW i \in 1..l PROVE Filled(heap', stack'[i], G)
  <2>1. Filled(heap, stack[i], G) /\ stack'[i] = stack[i] BY <1>2 DEF Built
  <2>2. stack[i].to \in DOMAIN heap BY <1>1, <1>2, FrameFacts
  <2>3. heap'[stack[i].to].kids = heap[stack[i].to].kids BY <1>1, <1>4, <2>2
  <2>4. Linked(heap', stack[i].to) BY <1>7, <2>1, <2>2 DEF Filled
  <2> QED BY <2>1, <2>3, <2>4 DEF Filled
<1>10. Filled(heap', stack'[l + 1], G)
  <2>1. stack'[l + 1].to = n /\ stack'[l + 1].next = 1 BY <1>2
  <2>2. Linked(heap', n) BY <1>4 DEF Linked
  <2>3. Nil \in G BY <1>5 DEF Sound, Closed
  <2> QED BY <1>4, <1>6, <2>1, <2>2, <2>3 DEF Filled
<1>11. \A i \in DOMAIN stack' : i \in 1..l \/ i = l + 1 BY <1>2
<1> QED BY <1>8, <1>9, <1>10, <1>11 DEF Built

\* The copy that a frame has finished joins the finished nodes.
LEMMA TopJoins ==
  ASSUME Inv, NoCycle, Deep, Copying, ~ AtChild, call.phase = "copy", NEW G, Built(G)
  PROVE  /\ Sound(heap, G \cup {Top.to})
         /\ \A n \in G \cup {Top.to} : n # Nil =>
              \A j \in DOMAIN heap[n].kids : heap[n].kids[j] # Top.to
<1>1. /\ Len(stack) \in DOMAIN stack /\ Top.to \in DOMAIN heap /\ Top.from \in DOMAIN heap
      /\ Top \in FramesOver(heap) /\ IsHeap(heap) /\ DOMAIN heap = 1..Len(heap)
  BY TopFacts DEF Inv, HeapInv, IsHeap
<1>2. Filled(heap, Top, G) /\ Sound(heap, G) BY <1>1 DEF Built, Top
<1>3. \A j \in DOMAIN heap[Top.to].kids : j < Top.next
  <2>1. Twin(heap, Top) BY <1>1 DEF Deep, Twinned, Top
  <2>2. DOMAIN heap[Top.to].kids = DOMAIN heap[Top.from].kids BY <2>1 DEF Twin
  <2>3. heap[Top.from].kids \in Seq(0..Len(heap)) BY <1>1, HeapFacts
  <2>4. Top.next \in Nat BY <1>1 DEF FramesOver
  <2> QED BY <2>2, <2>3, <2>4 DEF AtChild
<1>4. \A j \in DOMAIN heap[Top.to].kids : heap[Top.to].kids[j] \in G BY <1>2, <1>3 DEF Filled
<1>5. Unheld(heap, Top.to) BY <1>1 DEF NoCycle, OpenInv, Top
<1>6. Sound(heap, G \cup {Top.to})
  <2>1. Closed(heap, G) /\ Top.to \in 0..Len(heap) BY <1>1, <1>2 DEF Sound
  <2>2. Closed(heap, G \cup {Top.to}) BY <1>4, <2>1 DEF Closed
  <2> QED BY <1>2, <2>2 DEF Sound, Filled
<1>7. \A n \in G \cup {Top.to} : n # Nil => n \in DOMAIN heap BY <1>1, <1>2 DEF Sound, Closed, Nil
<1> QED BY <1>5, <1>6, <1>7 DEF Unheld

\* It is set in the node above it, which no finished node holds.
LEMMA LeaveBuilt ==
  ASSUME Inv, NoCycle, Deep, LeaveChild, call.phase = "copy", NEW G, Built(G)
  PROVE  \E F : Built(F)'
<1> DEFINE l == Len(stack) - 1
           up == stack[l]
<1>0. PICK H : H = G \cup {Top.to} OBVIOUS
<1>1. /\ Copying /\ ~ AtChild /\ IsHeap(heap) /\ DOMAIN heap = 1..Len(heap) /\ Len(heap) \in Nat
  BY DEF LeaveChild, Inv, HeapInv, IsHeap
<1>2. /\ l \in Nat /\ l > 0 /\ l \in DOMAIN stack /\ l + 1 \in DOMAIN stack
      /\ Top = stack[l + 1] /\ DOMAIN stack = 1..(l + 1)
      /\ DOMAIN stack' = 1..l
      /\ \A i \in 1..l :
           stack'[i] = IF i = l
                       THEN [from |-> stack[i].from, to |-> stack[i].to,
                             next |-> stack[i].next + 1]
                       ELSE stack[i]
      /\ \A i \in 1..(l + 1) : stack[i] \in FramesOver(heap)
      /\ heap' = Set(heap, up.to, up.next, Outcome)
  BY FrameLeft
<1>3. Outcome = Top.to /\ Top.to \in DOMAIN heap /\ Top.to \in 0..Len(heap) /\ Top.to # Nil
  BY <1>1, OutcomeType, TopFacts DEF Nil
<1>4. /\ Sound(heap, H)
      /\ \A n \in H : n # Nil => \A j \in DOMAIN heap[n].kids : heap[n].kids[j] # Top.to
  BY <1>0, <1>1, TopJoins
<1>5. up.to \in DOMAIN heap /\ up.next \in Nat
      /\ \A j \in DOMAIN heap[up.to].kids : j \in Nat
  <2>1. up \in FramesOver(heap) BY <1>2
  <2> HIDE DEF up
  <2>2. up.to \in DOMAIN heap /\ up.next \in Nat BY <1>1, <2>1, FrameFacts
  <2>3. heap[up.to].kids \in Seq(0..Len(heap)) BY <1>1, <2>2, HeapFacts
  <2> QED BY <2>2, <2>3
<1> HIDE DEF l, up
<1>6. \A n \in H : n # Nil => n \in DOMAIN heap BY <1>1, <1>4 DEF Sound, Closed, Nil
<1>7. \A m \in DOMAIN heap : \A j \in DOMAIN heap[m].kids : heap[m].kids[j] # Top.to
  BY <1>2 DEF NoCycle, OpenInv, Unheld
<1>8. \A i \in 1..l : stack[i].to # Top.to /\ Filled(heap, stack[i], G)
  <2>1. \A i \in 1..l : i \in DOMAIN stack /\ i < l + 1 BY <1>2
  <2> QED BY <1>2, <2>1 DEF NoCycle, OpenInv, Built
<1>9. up.to \notin H
  <2>1. l \in 1..l BY <1>2
  <2> QED BY <1>0, <1>8, <2>1 DEF Filled, up
<1>10. /\ IsHeap(heap') /\ Len(heap') = Len(heap)
       /\ \A m \in DOMAIN heap : m # up.to => heap'[m].kids = heap[m].kids
       /\ DOMAIN heap'[up.to].kids = DOMAIN heap[up.to].kids
       /\ \A j \in DOMAIN heap[up.to].kids :
            heap'[up.to].kids[j] = IF j = up.next THEN Top.to ELSE heap[up.to].kids[j]
  <2> DEFINE g == Set(heap, up.to, up.next, Top.to)
  <2>1. heap' = g BY <1>2, <1>3
  <2>2. /\ IsHeap(g) /\ Len(g) = Len(heap)
        /\ \A m \in 1..Len(heap) : m # up.to => g[m].kids = heap[m].kids
        /\ DOMAIN g[up.to].kids = DOMAIN heap[up.to].kids
        /\ \A j \in DOMAIN heap[up.to].kids :
             g[up.to].kids[j] = IF j = up.next THEN Top.to ELSE heap[up.to].kids[j]
    BY <1>1, <1>3, <1>5, SetFacts
  <2> HIDE DEF g
  <2> QED BY <1>1, <2>1, <2>2
<1>11. \A m \in DOMAIN heap : Linked(heap, m) => Linked(heap', m)
  <2> DEFINE g == Set(heap, up.to, up.next, Top.to)
  <2>1. heap' = g BY <1>2, <1>3
  <2>2. /\ \A m \in DOMAIN heap :
             /\ Linked(heap, m) /\ m # up.to
             /\ Top.to # Nil => \A j \in DOMAIN heap[m].kids : heap[m].kids[j] # Top.to
             => Linked(g, m)
        /\ /\ Linked(heap, up.to)
           /\ Top.to # Nil => \A j \in DOMAIN heap[up.to].kids : heap[up.to].kids[j] # Top.to
           => Linked(g, up.to)
    BY <1>1, <1>3, <1>5, SetLinks
  <2> HIDE DEF g
  <2> QED BY <1>5, <1>7, <2>1, <2>2
<1>12. Sound(heap', H)
  <2>1. \A m \in H \ {Nil} : heap'[m].kids = heap[m].kids BY <1>6, <1>9, <1>10
  <2>2. Closed(heap', H) BY <1>4, <1>10, <2>1 DEF Sound, Closed
  <2> QED BY <1>4, <1>6, <1>11, <2>2 DEF Sound
<1>13. ASSUME NEW i \in 1..l PROVE Filled(heap', stack'[i], H)
  <2>1. Filled(heap, stack[i], G) /\ stack[i].to \notin H /\ G \subseteq H /\ Top.to \in H
    BY <1>0, <1>8 DEF Filled
  <2>2. stack[i].to \in DOMAIN heap
    <3>1. i \in 1..(l + 1) BY <1>2
    <3> QED BY <1>1, <1>2, <3>1, FrameFacts
  <2>3. Linked(heap', stack[i].to) BY <1>11, <2>1, <2>2 DEF Filled
  <2>4. CASE i = l
    <3>1. stack[i] = up /\ stack'[i].to = up.to /\ stack'[i].next = up.next + 1
      BY <1>2, <2>4 DEF up
    <3>2. ASSUME NEW j \in DOMAIN heap[up.to].kids, j < up.next + 1
          PROVE  heap'[up.to].kids[j] \in H
      <4>1. j = up.next \/ j < up.next BY <1>5, <3>2
      <4>2. CASE j = up.next BY <1>10, <2>1, <4>2
      <4>3. CASE j # up.next BY <1>10, <2>1, <3>1, <4>1, <4>3 DEF Filled
      <4> QED BY <4>2, <4>3
    <3> QED BY <1>10, <2>1, <2>3, <3>1, <3>2 DEF Filled
  <2>5. CASE i # l
    <3>1. stack'[i] = stack[i] BY <1>2, <2>5
    <3>2. stack[i].to # up.to
      <4>1. i \in DOMAIN stack /\ l \in DOMAIN stack /\ i < l BY <1>2, <2>5
      <4> QED BY <4>1 DEF NoCycle, OpenInv, up
    <3>3. heap'[stack[i].to].kids = heap[stack[i].to].kids BY <1>10, <2>2, <3>2
    <3> QED BY <2>1, <2>3, <3>1, <3>3 DEF Filled
  <2> QED BY <2>4, <2>5
<1>14. Built(H)' BY <1>2, <1>12, <1>13 DEF Built
<1> QED BY <1>14

\* While the phase is another, nothing is being copied.
LEMMA StepBuilt ==
  ASSUME Inv, NoCycle, Deep, CopyBuilt, [Next]_vars, "hive" \notin Ops
  PROVE  CopyBuilt'
<1>1. call \in [op : Ops \cup {"none"}, phase : Phases, root : Nat,
                owned : 0..Len(heap), input : 0..Len(heap), pass : Nat]
  BY DEF Inv, CallInv
<1>2. CASE UNCHANGED vars BY <1>2 DEF vars, CopyBuilt, Built
<1>3. CASE Rewriting BY <1>3, NoneRewritten
<1>4. CASE Recursion
  <2>1. call' = call BY <1>4 DEF Recursion, SkipChild, EnterChild, LeaveChild
  <2>2. CASE call.phase # "copy" BY <2>1, <2>2 DEF CopyBuilt
  <2>3. CASE call.phase = "copy"
    <3>1. PICK G : Built(G) BY <2>3 DEF CopyBuilt
    <3>2. CASE SkipChild
      <4>1. Built(G)' BY <2>3, <3>1, <3>2, SkipBuilt
      <4> QED BY <4>1 DEF CopyBuilt
    <3>3. CASE EnterChild
      <4>1. Built(G)' BY <2>3, <3>1, <3>3, EnterBuilt
      <4> QED BY <4>1 DEF CopyBuilt
    <3>4. CASE LeaveChild
      <4>1. \E F : Built(F)' BY <2>3, <3>1, <3>4, LeaveBuilt
      <4> QED BY <4>1 DEF CopyBuilt
    <3> QED BY <1>4, <3>2, <3>3, <3>4 DEF Recursion
  <2> QED BY <2>2, <2>3
<1>5. CASE Returns
  <2>1. call'.phase \in {"idle", "simplify"}
    BY <1>1, <1>5 DEF Returns, CopyReturns, SimplifyReturns, NextPass
  <2> QED BY <2>1 DEF CopyBuilt
<1>6. CASE Writing
  <2>1. call'.phase \in {"idle", "bools", "write"}
    BY <1>1, <1>6 DEF Writing, CopyForTSQL, PassAbsent, EnsureBools, BoolsDone, WriteNode,
                      GenerateReturns
  <2> QED BY <2>1 DEF CopyBuilt
<1>7. CASE Calls
  <2>1. PICK r \in roots : CallCopy(r) \/ CallTSQL(r) \/ CallSimplify(r) \/ CallGenerate(r)
    BY <1>7 DEF Calls
  <2>2. CASE CallCopy(r) \/ CallTSQL(r)
    <3>1. heap' = Blank(heap, r) /\ stack' = <<Frame(r, Len(heap) + 1)>>
      BY <2>2 DEF CallCopy, CallTSQL, Copies
    <3>2. r \in DOMAIN heap BY DEF Inv, HeapInv, IsHeap
    <3>3. Built({Nil})' BY <3>1, <3>2, StartBuilt
    <3> QED BY <3>3 DEF CopyBuilt
  <2>3. CASE CallSimplify(r) \/ CallGenerate(r)
    <3>1. call'.phase \in {"simplify", "write"} BY <2>3 DEF CallSimplify, CallGenerate, Makes
    <3> QED BY <3>1 DEF CopyBuilt
  <2> QED BY <2>1, <2>2, <2>3
<1> QED BY <1>2, <1>3, <1>4, <1>5, <1>6, <1>7 DEF Next

\* The steps by which a call returns, and those that leave none returned.
LEMMA StepReturns ==
  ASSUME Inv, [Next]_vars, "hive" \notin Ops
  PROVE  \/ call'.phase # "idle"
         \/ UNCHANGED vars
         \/ CopyReturns
         \/ SimplifyReturns
         \/ call'.op \notin {"copy", "simplify"}
<1>1. call \in [op : Ops \cup {"none"}, phase : Phases, root : Nat,
                owned : 0..Len(heap), input : 0..Len(heap), pass : Nat]
  BY DEF Inv, CallInv
<1>2. CASE Calls
  BY <1>2 DEF Calls, CallCopy, CallTSQL, CallSimplify, CallGenerate, Copies, Makes
<1>3. CASE Rewriting BY <1>3, NoneRewritten
<1>4. CASE Recursion
  BY <1>4 DEF Recursion, SkipChild, EnterChild, LeaveChild, Copying
<1>5. CASE NextPass BY <1>1, <1>5 DEF NextPass
<1>6. CASE CopyForTSQL \/ PassAbsent \/ EnsureBools \/ BoolsDone \/ WriteNode
  BY <1>1, <1>6 DEF CopyForTSQL, PassAbsent, EnsureBools, BoolsDone, WriteNode
<1>7. CASE GenerateReturns
  <2>1. call' = [call EXCEPT !.phase = "idle"] /\ call.phase = "write"
    BY <1>7 DEF GenerateReturns
  <2>2. call'.op = call.op BY <1>1, <2>1
  <2>3. call.op \notin {"copy", "simplify"} BY <2>1 DEF Inv, CallInv
  <2> QED BY <2>1, <2>2, <2>3 DEF Inv, CallInv
<1> QED BY <1>2, <1>3, <1>4, <1>5, <1>6, <1>7 DEF Next, Returns, Writing

\* What Copy returned last, until another call is made.
LEMMA StepCopied ==
  ASSUME Inv, NoCycle, Deep, CopyBuilt, [Next]_vars, "hive" \notin Ops,
         Returned("copy") => IsTree(heap, call.input)
  PROVE  Returned("copy")' => IsTree(heap', call'.input)
<1>1. call \in [op : Ops \cup {"none"}, phase : Phases, root : Nat,
                owned : 0..Len(heap), input : 0..Len(heap), pass : Nat]
  BY DEF Inv, CallInv
<1>2. CASE CopyReturns
  <2>1. /\ Copying /\ ~ AtChild /\ call.op = "copy" /\ heap' = heap
        /\ call' = [call EXCEPT !.phase = "idle", !.input = Outcome]
    BY <1>2 DEF CopyReturns, Finished
  <2>2. call.phase = "copy" BY <2>1 DEF Inv, CallInv, Copying
  <2>3. call'.input = Top.to BY <1>1, <2>1, <2>2, OutcomeType
  <2>4. PICK G : Built(G) BY <2>2 DEF CopyBuilt
  <2> DEFINE H == G \cup {Top.to}
  <2>5. /\ Sound(heap, H)
        /\ \A n \in H : n # Nil => \A j \in DOMAIN heap[n].kids : heap[n].kids[j] # Top.to
    BY <2>1, <2>2, <2>4, TopJoins
  <2>6. Top.to \in H OBVIOUS
  <2>7. IsHeap(heap) /\ Acyclic(heap) BY DEF Inv, HeapInv, NoCycle
  <2> HIDE DEF H
  <2>8. IsTree(heap, Top.to) BY <2>5, <2>6, <2>7, SoundTree
  <2> QED BY <2>1, <2>3, <2>8
<1>3. CASE SimplifyReturns
  <2>1. /\ call' = [call EXCEPT !.phase = "idle", !.input = Outcome] /\ call.phase = "simplify"
    BY <1>3 DEF SimplifyReturns
  <2>2. call'.op = call.op /\ call.op = "simplify" BY <1>1, <2>1 DEF Inv, CallInv
  <2> QED BY <2>2 DEF Returned
<1>4. CASE UNCHANGED vars BY <1>4 DEF vars, Returned
<1> QED BY <1>2, <1>3, <1>4, StepReturns DEF Returned

\* What Copy returns is a tree, whatever holds what in the nodes it was given and
\* wherever their Parents point: every child in it names the node that holds it,
\* none is held twice, and the root by none (expression.go, Copy).
THEOREM CopiesAreTrees ==
  ASSUME "hive" \notin Ops
  PROVE  Spec => [](Returned("copy") => IsTree(heap, call.input))
<1> DEFINE Copied == Returned("copy") => IsTree(heap, call.input)
<1>1. Init => CopyBuilt /\ Copied BY DEF Init, Idle, CopyBuilt, Returned
<1>2. Inv /\ NoCycle /\ [Next]_vars => NoCycle' BY StepNoCycle
<1>3. Inv /\ Inv' /\ NoCycle /\ NoCycle' /\ Deep /\ [Next]_vars => Deep' BY StepDeep
<1>4. Inv /\ NoCycle /\ Deep /\ CopyBuilt /\ [Next]_vars => CopyBuilt' BY StepBuilt
<1>5. Inv /\ NoCycle /\ Deep /\ CopyBuilt /\ Copied /\ [Next]_vars => Copied'
  BY StepCopied
<1> HIDE DEF Copied
<1>6. Spec => []Copied
  BY <1>1, <1>2, <1>3, <1>4, <1>5, InitNoCycle, InitDeep, Invariance, PTL DEF Spec
<1> QED BY <1>6 DEF Copied

-----------------------------------------------------------------------------
(* What Simplify returns.  It shares one thing with what it was given: the *)
(* amounts of intervals, which it never visits.                            *)

\* What the writing of a dialect puts a copy in the place of, whose children then
\* name the copy.
Wrapped(class) ==
  \/ "fabric" \in Ops /\ class = "Length"
  \/ "duckdb" \in Ops /\ class = "LogicalOr"
  \/ {"databricks", "fabric", "hive"} \cap Ops # {} /\ class = "TimeToStr"

\* A is what the amounts of the intervals among some nodes are made of: each is
\* sound, its root is held by intervals only and the rest by each other only.
Amounts(h, L, A) ==
  /\ Closed(h, L) /\ Sound(h, A) /\ A \subseteq L
  /\ \A n \in A \ {Nil} : ~ Wrapped(h[n].class)
  /\ \A n \in L \ A : \A i \in DOMAIN h[n].kids :
       h[n].kids[i] \in A \ {Nil} =>
         /\ h[n].class = "Interval" /\ i = 1
         /\ \A m \in A \ {Nil} : \A j \in DOMAIN h[m].kids : h[m].kids[j] # h[n].kids[i]
  /\ \A n \in L \ {Nil} : h[n].class = "Interval" /\ 1 \in DOMAIN h[n].kids => h[n].kids[1] \in A

\* No child is held twice among these nodes, and the root by none of them.
HeldOnce(h, T) ==
  \A n, m \in T \ {Nil} : \A i \in DOMAIN h[n].kids : \A j \in DOMAIN h[m].kids :
    h[n].kids[i] # Nil /\ h[m].kids[j] = h[n].kids[i] => m = n /\ j = i
Rooted(h, T, r) ==
  /\ r \in T \ {Nil} /\ Closed(h, T) /\ HeldOnce(h, T)
  /\ \A n \in T \ {Nil} : \A i \in DOMAIN h[n].kids : h[n].kids[i] # r

LEMMA SoundOnce ==
  ASSUME NEW h, NEW S, Sound(h, S)
  PROVE  HeldOnce(h, S)
<1> SUFFICES ASSUME NEW n \in S \ {Nil}, NEW m \in S \ {Nil}, NEW i \in DOMAIN h[n].kids,
                    NEW j \in DOMAIN h[m].kids, h[n].kids[i] # Nil, h[m].kids[j] = h[n].kids[i]
             PROVE  m = n /\ j = i
  BY DEF HeldOnce
<1>1. Linked(h, n) /\ Linked(h, m) BY DEF Sound
<1>2. h[h[n].kids[i]].parent = n /\ h[h[m].kids[j]].parent = m BY <1>1 DEF Linked
<1>3. m = n BY <1>2
<1> QED BY <1>1, <1>3 DEF Linked

\* Nodes that keep their children stay closed, and held once.
LEMMA ClosedKept ==
  ASSUME NEW h, NEW g, NEW T, Closed(h, T), T \subseteq 0..Len(g),
         \A n \in T \ {Nil} : g[n].kids = h[n].kids
  PROVE  /\ Closed(g, T)
         /\ HeldOnce(h, T) => HeldOnce(g, T)
         /\ \A r : Rooted(h, T, r) => Rooted(g, T, r)
<1>1. Closed(g, T) BY DEF Closed
<1>2. HeldOnce(h, T) => HeldOnce(g, T)
  <2> SUFFICES ASSUME HeldOnce(h, T), NEW n \in T \ {Nil}, NEW m \in T \ {Nil},
                      NEW i \in DOMAIN g[n].kids, NEW j \in DOMAIN g[m].kids,
                      g[n].kids[i] # Nil, g[m].kids[j] = g[n].kids[i]
               PROVE  m = n /\ j = i
    BY DEF HeldOnce
  <2>1. g[n].kids = h[n].kids /\ g[m].kids = h[m].kids OBVIOUS
  <2> QED BY <2>1 DEF HeldOnce
<1> QED BY <1>1, <1>2 DEF Rooted

LEMMA ClosedMeet ==
  ASSUME NEW h, NEW S, NEW T, Closed(h, S), Closed(h, T)
  PROVE  /\ Closed(h, S \cap T)
         /\ HeldOnce(h, T) => HeldOnce(h, S \cap T)
         /\ \A r \in S : Rooted(h, T, r) => Rooted(h, S \cap T, r)
<1>1. Closed(h, S \cap T) BY DEF Closed
<1>2. HeldOnce(h, T) => HeldOnce(h, S \cap T) BY DEF HeldOnce
<1> QED BY <1>1, <1>2 DEF Rooted

\* A child that is no amount is none of what the amounts hold.
LEMMA NoneOfAmounts ==
  ASSUME NEW h, NEW L, NEW A, Amounts(h, L, A), NEW n \in L \ A, NEW i \in DOMAIN h[n].kids,
         h[n].kids[i] # Nil
  PROVE  \A m \in A \ {Nil} : \A j \in DOMAIN h[m].kids : h[m].kids[j] # h[n].kids[i]
<1>1. CASE h[n].kids[i] \in A BY <1>1 DEF Amounts
<1>2. CASE h[n].kids[i] \notin A BY <1>2 DEF Amounts, Sound, Closed
<1> QED BY <1>1, <1>2

\* A node with the children of one that is no amount, or with children that are no
\* amounts, joins the others.
LEMMA NodeJoins ==
  ASSUME NEW h, IsHeap(h), NEW L, NEW A, Amounts(h, L, A),
         NEW g, IsHeap(g), Len(g) = Len(h) + 1, Grown(h, g), Sound(g, A),
         LET new == g[Len(h) + 1] IN
         /\ \A i \in DOMAIN new.kids : new.kids[i] \in L
         /\ \/ \E n \in L \ A : new.kids = h[n].kids /\ new.class = h[n].class
            \/ /\ new.class # "Interval"
               /\ \A i \in DOMAIN new.kids : new.kids[i] \in A => new.kids[i] = Nil
  PROVE  Amounts(g, L \cup {Len(h) + 1}, A)
<1> DEFINE w == Len(h) + 1
<1>1. Len(h) \in Nat /\ L \subseteq 0..Len(h) /\ A \subseteq L /\ Nil \in A
  BY DEF IsHeap, Amounts, Sound, Closed
<1>2. \A n \in L \ {Nil} : n \in 1..Len(h) /\ g[n].class = h[n].class /\ g[n].kids = h[n].kids
  BY <1>1 DEF Grown, Nil
<1>3. w \notin L /\ w # Nil /\ w \in 0..Len(g) /\ L \subseteq 0..Len(g) BY <1>1 DEF Nil
<1> HIDE DEF w
<1>4. Closed(g, L \cup {w}) BY <1>1, <1>2, <1>3 DEF Amounts, Closed, w
<1>5. \A n \in A \ {Nil} : ~ Wrapped(g[n].class) BY <1>1, <1>2 DEF Amounts
<1>6. ASSUME NEW n \in (L \cup {w}) \ A, NEW i \in DOMAIN g[n].kids, g[n].kids[i] \in A \ {Nil}
      PROVE  /\ g[n].class = "Interval" /\ i = 1
             /\ \A m \in A \ {Nil} : \A j \in DOMAIN g[m].kids : g[m].kids[j] # g[n].kids[i]
  <2>1. PICK q \in L \ A : g[n].kids = h[q].kids /\ g[n].class = h[q].class
    <3>1. CASE n = w BY <1>6, <3>1 DEF w
    <3>2. CASE n # w
      <4>1. n \in L \ A /\ n # Nil BY <1>1, <1>6, <3>2
      <4> QED BY <1>2, <4>1
    <3> QED BY <3>1, <3>2
  <2>2. h[q].kids[i] \in A \ {Nil} /\ i \in DOMAIN h[q].kids BY <1>6, <2>1
  <2>3. /\ h[q].class = "Interval" /\ i = 1
        /\ \A m \in A \ {Nil} : \A j \in DOMAIN h[m].kids : h[m].kids[j] # h[q].kids[i]
    BY <2>2 DEF Amounts
  <2>4. \A m \in A \ {Nil} : g[m].kids = h[m].kids BY <1>1, <1>2
  <2> QED BY <2>1, <2>3, <2>4
<1>7. ASSUME NEW n \in (L \cup {w}) \ {Nil}, g[n].class = "Interval", 1 \in DOMAIN g[n].kids
      PROVE  g[n].kids[1] \in A
  <2>1. PICK q \in L \ {Nil} : g[n].kids = h[q].kids /\ g[n].class = h[q].class
    <3>1. CASE n = w
      <4>1. \A m \in L \ A : m \in L \ {Nil} BY <1>1
      <4> QED BY <1>7, <3>1, <4>1 DEF w
    <3>2. CASE n # w BY <1>2, <1>7, <3>2
    <3> QED BY <3>1, <3>2
  <2> QED BY <1>7, <2>1 DEF Amounts
<1>8. A \subseteq L \cup {w} BY <1>1
<1>9. Amounts(g, L \cup {w}, A) BY <1>4, <1>5, <1>6, <1>7, <1>8 DEF Amounts
<1> QED BY <1>9 DEF w

\* What was sound is, when a node is added over children it does not hold.
LEMMA NewSound ==
  ASSUME NEW h, IsHeap(h), NEW class \in Classes, NEW name \in Names,
         NEW kids \in Seq(0..Len(h)), class \in Unary => Len(kids) > 0,
         NEW S, Sound(h, S),
         \A i \in DOMAIN kids : kids[i] # Nil =>
           \A m \in S \ {Nil} : \A j \in DOMAIN h[m].kids : h[m].kids[j] # kids[i]
  PROVE  Sound(New(h, class, name, kids), S)
<1> DEFINE g == New(h, class, name, kids)
<1>1. Len(g) = Len(h) + 1 /\ Grown(h, g)
  <2>1. /\ IsHeap(h) /\ class \in Classes /\ name \in Names
        /\ kids \in Seq(0..Len(h)) /\ class \in Unary => Len(kids) > 0
    OBVIOUS
  <2> QED BY ONLY <2>1, NewFacts
<1>2. \A n \in DOMAIN h :
        /\ Linked(h, n)
        /\ \A i \in DOMAIN h[n].kids : h[n].kids[i] # Nil => h[n].kids[i] \notin Range(kids)
        => Linked(g, n)
  BY NewLinks
<1> HIDE DEF g
<1>3. Len(h) \in Nat /\ DOMAIN h = 1..Len(h) /\ S \subseteq 0..Len(h) /\ Closed(h, S)
  BY DEF IsHeap, Sound, Closed
<1>4. \A n \in S \ {Nil} : n \in DOMAIN h /\ g[n].kids = h[n].kids BY <1>1, <1>3 DEF Grown, Nil
<1>5. Closed(g, S)
  <2>1. S \subseteq 0..Len(g) BY <1>1, <1>3
  <2> QED BY <1>3, <1>4, <2>1, ClosedKept
<1>6. ASSUME NEW n \in S \ {Nil} PROVE Linked(g, n)
  <2>1. \A i \in DOMAIN h[n].kids : h[n].kids[i] # Nil => h[n].kids[i] \notin Range(kids)
    BY DEF Range
  <2>2. n \in DOMAIN h /\ Linked(h, n) BY <1>4 DEF Sound
  <2> QED BY <1>2, <2>1, <2>2
<1> QED BY <1>5, <1>6 DEF Sound, g

\* So is it when another node is given a child it does not hold.
LEMMA SetSound ==
  ASSUME NEW h, IsHeap(h), NEW n \in DOMAIN h, NEW i, NEW k \in 0..Len(h),
         NEW S, Sound(h, S), n \notin S,
         k # Nil => \A m \in S \ {Nil} : \A j \in DOMAIN h[m].kids : h[m].kids[j] # k
  PROVE  Sound(Set(h, n, i, k), S)
<1> DEFINE g == Set(h, n, i, k)
<1>1. Len(g) = Len(h) /\ \A m \in 1..Len(h) : m # n => g[m].kids = h[m].kids BY SetFacts
<1>2. \A m \in DOMAIN h :
        /\ Linked(h, m) /\ m # n
        /\ k # Nil => \A j \in DOMAIN h[m].kids : h[m].kids[j] # k
        => Linked(g, m)
  BY SetLinks
<1> HIDE DEF g
<1>3. DOMAIN h = 1..Len(h) /\ S \subseteq 0..Len(h) /\ Closed(h, S) BY DEF IsHeap, Sound, Closed
<1>4. \A m \in S \ {Nil} : m \in DOMAIN h /\ m # n /\ g[m].kids = h[m].kids
  BY <1>1, <1>3 DEF Nil
<1>5. Closed(g, S) BY <1>1, <1>3, <1>4, ClosedKept
<1>6. \A m \in S \ {Nil} : Linked(g, m) BY <1>2, <1>4 DEF Sound
<1> QED BY <1>5, <1>6 DEF Sound, g

\* The amounts stay what they are when a node that is none is copied one level,
\* when one is made over some that are none, and when one is given another.
LEMMA ShallowAmounts ==
  ASSUME NEW h, IsHeap(h), NEW L, NEW A, Amounts(h, L, A), NEW n \in L \ A
  PROVE  Amounts(ShallowCopy(h, n), L \cup {Len(h) + 1}, A)
<1> DEFINE g == ShallowCopy(h, n)
<1>1. n \in DOMAIN h /\ \A i \in DOMAIN h[n].kids : h[n].kids[i] \in L
  BY ClosedNode DEF Amounts, Sound, Closed
<1>2. /\ IsHeap(g) /\ Len(g) = Len(h) + 1 /\ Grown(h, g)
      /\ g[Len(g)].kids = h[n].kids /\ g[Len(g)].class = h[n].class
  BY <1>1, ShallowFacts
<1>3. Sound(g, A)
  <2>1. /\ h[n].class \in Classes /\ h[n].name \in Names /\ h[n].kids \in Seq(0..Len(h))
        /\ h[n].class \in Unary => Len(h[n].kids) > 0
    BY <1>1, HeapFacts DEF Nodes
  <2>2. Sound(h, A) BY DEF Amounts
  <2>3. \A i \in DOMAIN h[n].kids : h[n].kids[i] # Nil =>
          \A m \in A \ {Nil} : \A j \in DOMAIN h[m].kids : h[m].kids[j] # h[n].kids[i]
    BY NoneOfAmounts
  <2>4. Sound(New(h, h[n].class, h[n].name, h[n].kids), A) BY <2>1, <2>2, <2>3, NewSound
  <2> QED BY <2>4 DEF ShallowCopy
<1> HIDE DEF g
<1>4. Amounts(g, L \cup {Len(h) + 1}, A) BY <1>1, <1>2, <1>3, NodeJoins
<1> QED BY <1>4 DEF g

LEMMA NewAmounts ==
  ASSUME NEW h, IsHeap(h), NEW L, NEW A, Amounts(h, L, A),
         NEW class \in Classes, class # "Interval", NEW name \in Names,
         NEW kids \in Seq(0..Len(h)), class \in Unary => Len(kids) > 0,
         \A i \in DOMAIN kids : kids[i] \in L /\ (kids[i] \in A => kids[i] = Nil)
  PROVE  Amounts(New(h, class, name, kids), L \cup {Len(h) + 1}, A)
<1> DEFINE g == New(h, class, name, kids)
<1>1. /\ IsHeap(g) /\ Len(g) = Len(h) + 1 /\ Grown(h, g)
      /\ g[Len(g)] = [class |-> class, name |-> name, kids |-> kids, parent |-> Nil]
  BY NewFacts
<1>2. Sound(g, A)
  <2>1. Sound(h, A) /\ Closed(h, A) BY DEF Amounts, Sound
  <2>2. \A i \in DOMAIN kids : kids[i] # Nil =>
          \A m \in A \ {Nil} : \A j \in DOMAIN h[m].kids : h[m].kids[j] # kids[i]
    BY <2>1 DEF Closed
  <2> QED BY <2>1, <2>2, NewSound
<1> HIDE DEF g
<1>3. g[Len(h) + 1].kids = kids /\ g[Len(h) + 1].class = class BY <1>1
<1>4. Amounts(g, L \cup {Len(h) + 1}, A) BY <1>1, <1>2, <1>3, NodeJoins
<1> QED BY <1>4 DEF g

LEMMA SetAmounts ==
  ASSUME NEW h, IsHeap(h), NEW L, NEW A, Amounts(h, L, A), NEW n \in L \ A, NEW i,
         ~ (h[n].class = "Interval" /\ i = 1), NEW k \in L, k \in A => k = Nil
  PROVE  Amounts(Set(h, n, i, k), L, A)
<1> DEFINE g == Set(h, n, i, k)
<1>1. n \in DOMAIN h /\ k \in 0..Len(h) BY ClosedNode DEF Amounts, Sound, Closed
<1>2. /\ IsHeap(g) /\ Len(g) = Len(h)
      /\ \A m \in 1..Len(h) : g[m].class = h[m].class
      /\ \A m \in 1..Len(h) : m # n => g[m].kids = h[m].kids
      /\ DOMAIN g[n].kids = DOMAIN h[n].kids
      /\ \A j \in DOMAIN h[n].kids : g[n].kids[j] = IF j = i THEN k ELSE h[n].kids[j]
  BY <1>1, SetFacts
<1>3. Sound(g, A)
  <2>1. Sound(h, A) /\ Closed(h, A) BY DEF Amounts, Sound
  <2>2. k # Nil => \A m \in A \ {Nil} : \A j \in DOMAIN h[m].kids : h[m].kids[j] # k
    BY <2>1 DEF Closed
  <2> QED BY <1>1, <2>1, <2>2, SetSound
<1> HIDE DEF g
<1>4. L \subseteq 0..Len(h) /\ Nil \in A /\ A \subseteq L BY DEF Amounts, Sound, Closed
<1>5. \A m \in L \ {Nil} : /\ m \in 1..Len(h) /\ g[m].class = h[m].class
                           /\ DOMAIN g[m].kids = DOMAIN h[m].kids
                           /\ m # n => g[m].kids = h[m].kids
  BY <1>2, <1>4 DEF Nil
<1>6. Closed(g, L)
  <2>1. ASSUME NEW m \in L \ {Nil}, NEW j \in DOMAIN g[m].kids PROVE g[m].kids[j] \in L
    <3>1. h[m].kids[j] \in L BY <1>5, <2>1 DEF Amounts, Closed
    <3>2. CASE m = n BY <1>2, <1>5, <2>1, <3>1, <3>2
    <3>3. CASE m # n BY <1>5, <2>1, <3>1, <3>3
    <3> QED BY <3>2, <3>3
  <2> QED BY <1>2, <1>4, <2>1 DEF Closed
<1>7. \A m \in A \ {Nil} : ~ Wrapped(g[m].class) /\ g[m].kids = h[m].kids
  BY <1>4, <1>5 DEF Amounts
<1>8. ASSUME NEW m \in L \ A, NEW j \in DOMAIN g[m].kids, g[m].kids[j] \in A \ {Nil}
      PROVE  /\ g[m].class = "Interval" /\ j = 1
             /\ \A a \in A \ {Nil} : \A q \in DOMAIN g[a].kids : g[a].kids[q] # g[m].kids[j]
  <2>1. m # Nil /\ j \in DOMAIN h[m].kids /\ g[m].class = h[m].class BY <1>4, <1>5, <1>8
  <2>2. g[m].kids[j] = h[m].kids[j]
    <3>1. CASE m = n BY <1>2, <1>8, <2>1, <3>1
    <3>2. CASE m # n BY <1>5, <2>1, <3>2
    <3> QED BY <3>1, <3>2
  <2>3. /\ h[m].class = "Interval" /\ j = 1
        /\ \A a \in A \ {Nil} : \A q \in DOMAIN h[a].kids : h[a].kids[q] # h[m].kids[j]
    BY <1>8, <2>1, <2>2 DEF Amounts
  <2> QED BY <1>7, <2>1, <2>2, <2>3
<1>9. ASSUME NEW m \in L \ {Nil}, g[m].class = "Interval", 1 \in DOMAIN g[m].kids
      PROVE  g[m].kids[1] \in A
  <2>1. h[m].class = "Interval" /\ 1 \in DOMAIN h[m].kids BY <1>5, <1>9
  <2>2. h[m].kids[1] \in A BY <2>1 DEF Amounts
  <2>3. CASE m = n BY <1>2, <2>1, <2>2, <2>3
  <2>4. CASE m # n BY <1>5, <2>2, <2>4
  <2> QED BY <2>3, <2>4
<1>10. Amounts(g, L, A) BY <1>3, <1>4, <1>6, <1>7, <1>8, <1>9 DEF Amounts
<1> QED BY <1>10 DEF g

\* And when nodes are changed that are none of these.
LEMMA AmountsSame ==
  ASSUME NEW h, NEW L, NEW A, Amounts(h, L, A), NEW g, NEW o \in Nat,
         Len(g) \in Nat, DOMAIN g = 1..Len(g), IsHeap(h),
         L \subseteq 0..o, SameNodes(h, g, o)
  PROVE  Amounts(g, L, A)
<1>1. L \subseteq 0..Len(g)
  <2>1. \A n \in L : n = 0 \/ n \in DOMAIN g BY DEF SameNodes
  <2> QED BY <2>1
<1>2. \A n \in L \ {Nil} : g[n] = h[n]
  <2>1. \A n \in L \ {Nil} : n \in 1..o BY DEF Nil
  <2> QED BY <2>1 DEF SameNodes
<1>3. A \subseteq L /\ Closed(h, A) /\ Closed(h, L) BY DEF Amounts, Sound
<1>4. Closed(g, L) /\ Closed(g, A)
  <2>1. \A n \in L \ {Nil} : g[n].kids = h[n].kids BY <1>2
  <2>2. A \subseteq 0..Len(g) /\ \A n \in A \ {Nil} : g[n].kids = h[n].kids BY <1>1, <1>3, <2>1
  <2> QED BY <1>1, <1>3, <2>1, <2>2, ClosedKept
<1>5. ASSUME NEW n \in A \ {Nil} PROVE Linked(g, n)
  <2>1. Linked(h, n) /\ g[n] = h[n] BY <1>2, <1>3 DEF Amounts, Sound
  <2>2. \A i \in DOMAIN h[n].kids : h[n].kids[i] \in A BY <1>3 DEF Closed
  <2>3. \A i \in DOMAIN h[n].kids :
          h[n].kids[i] # Nil => g[h[n].kids[i]].parent = h[h[n].kids[i]].parent
    BY <1>2, <1>3, <2>2
  <2> QED BY <2>1, <2>3, LinkedKept
<1>6. Sound(g, A) BY <1>4, <1>5 DEF Sound
<1>7. \A n \in A \ {Nil} : g[n] = h[n] BY <1>2, <1>3
<1>8. \A n \in L \ A : g[n] = h[n]
  <2>1. Nil \in A BY <1>3 DEF Closed
  <2> QED BY <1>2, <2>1
<1>9. \A n \in L \ A : \A i \in DOMAIN g[n].kids :
        g[n].kids[i] \in A \ {Nil} =>
          /\ g[n].class = "Interval" /\ i = 1
          /\ \A m \in A \ {Nil} : \A j \in DOMAIN g[m].kids : g[m].kids[j] # g[n].kids[i]
  <2> SUFFICES ASSUME NEW n \in L \ A, NEW i \in DOMAIN g[n].kids, g[n].kids[i] \in A \ {Nil}
               PROVE  /\ g[n].class = "Interval" /\ i = 1
                      /\ \A m \in A \ {Nil} : \A j \in DOMAIN g[m].kids :
                           g[m].kids[j] # g[n].kids[i]
    OBVIOUS
  <2>1. g[n] = h[n] BY <1>8
  <2>2. /\ h[n].class = "Interval" /\ i = 1
        /\ \A m \in A \ {Nil} : \A j \in DOMAIN h[m].kids : h[m].kids[j] # h[n].kids[i]
    BY <2>1 DEF Amounts
  <2> QED BY <1>7, <2>1, <2>2
<1>10. \A n \in L \ {Nil} :
         g[n].class = "Interval" /\ 1 \in DOMAIN g[n].kids => g[n].kids[1] \in A
  BY <1>2 DEF Amounts
<1>11. \A n \in A \ {Nil} : ~ Wrapped(g[n].class) BY <1>7 DEF Amounts
<1> QED BY <1>3, <1>4, <1>6, <1>9, <1>10, <1>11 DEF Amounts

-----------------------------------------------------------------------------
(* A pass of Simplify over the nodes T: it has visited V of them, and has  *)
(* finished G.                                                             *)

\* The frames of a recursion, the last one on top.
Frames(h, s, l) ==
  /\ l \in Nat /\ DOMAIN s = 1..l /\ \A i \in 1..l : s[i] \in FramesOver(h)
  /\ \A i \in 1..l : Unheld(h, s[i].to)
  /\ \A i, k \in 1..l : s[i].to = s[k].to => i = k

\* What is finished is sound, new but for the amounts, and fills the frames.
Finishes(h, s, l, L, A, T, G) ==
  /\ Closed(h, T) /\ HeldOnce(h, T) /\ T \subseteq L
  /\ Sound(h, G) /\ A \subseteq G /\ G \subseteq L /\ G \cap T \subseteq A
  /\ \A i \in 1..l : s[i].to \in L \ T /\ Filled(h, s[i], G)

\* What a frame copies into holds what its original does from the next slot on.
Follows(h, s, l) ==
  /\ \A i \in 1..l : LET f == s[i] IN
       /\ h[f.to].class = h[f.from].class /\ DOMAIN h[f.to].kids = DOMAIN h[f.from].kids
       /\ \A j \in DOMAIN h[f.from].kids :
            j >= f.next => h[f.to].kids[j] = h[f.from].kids[j]
  /\ \A i, k \in 1..l : s[i].from = s[k].from => i = k
  /\ \A i \in 1..l : i # l => ~ (h[s[i].from].class = "Interval" /\ s[i].next = 1)

\* A node was visited from the one that holds it, whose slots up to it are done or
\* under way.
Visits(h, s, l, A, T, V) ==
  /\ V \subseteq T /\ V \cap A = {} /\ \A i \in 1..l : s[i].from \in V
  /\ \A n \in T \ {Nil} : \A j \in DOMAIN h[n].kids :
       h[n].kids[j] \in V =>
         /\ n \in V
         /\ \A i \in 1..l : s[i].from = n => j < s[i].next \/ (j = s[i].next /\ i # l)

\* The amounts that new nodes hold are those of nodes visited.
Takes(h, s, l, A, V, G) ==
  \A n \in (G \ A) \cup {s[i].to : i \in 1..l} : \A j \in DOMAIN h[n].kids :
    h[n].kids[j] \in A \ {Nil} =>
      \E m \in V : \E k \in DOMAIN h[m].kids : h[m].kids[k] = h[n].kids[j]

Pass(h, s, l, L, A, T, V, G) ==
  /\ Amounts(h, L, A)
  /\ Finishes(h, s, l, L, A, T, G) /\ Follows(h, s, l)
  /\ Visits(h, s, l, A, T, V) /\ Takes(h, s, l, A, V, G)

\* It starts at the root of a tree.
LEMMA PassStarts ==
  ASSUME NEW h, IsHeap(h), NEW L, NEW A, Amounts(h, L, A), NEW r \in L \ A,
         NEW T, Rooted(h, T, r), NEW s, DOMAIN s = 1..1,
         s[1] = [from |-> r, to |-> Len(h) + 1, next |-> 1]
  PROVE  \E U, V, G : Pass(ShallowCopy(h, r), s, 1, L \cup {Len(h) + 1}, A, U, V, G)
<1> DEFINE g == ShallowCopy(h, r)
           w == Len(h) + 1
           M == L \cup {w}
           U == L \cap T
<1>1. /\ Closed(h, L) /\ Nil \in A /\ A \subseteq L /\ L \subseteq 0..Len(h) /\ Len(h) \in Nat
      /\ DOMAIN h = 1..Len(h) /\ r # Nil
  BY DEF Amounts, Sound, Closed, IsHeap
<1>2. Rooted(h, U, r) /\ r \in DOMAIN h
  <2>1. Rooted(h, U, r) BY <1>1, ClosedMeet DEF Rooted
  <2> QED BY <1>1, <2>1, ClosedNode
<1>3. /\ IsHeap(g) /\ Len(g) = w /\ Grown(h, g)
      /\ g[Len(g)].kids = h[r].kids /\ g[Len(g)].class = h[r].class
  BY <1>2, ShallowFacts
<1>4. Amounts(g, M, A) BY ShallowAmounts
<1>5. Linked(g, w)
  <2>1. /\ h[r].class \in Classes /\ h[r].name \in Names /\ h[r].kids \in Seq(0..Len(h))
        /\ h[r].class \in Unary => Len(h[r].kids) > 0
    BY <1>2, HeapFacts DEF Nodes
  <2>2. \A i, j \in DOMAIN h[r].kids : h[r].kids[i] # Nil /\ h[r].kids[j] = h[r].kids[i] => j = i
    BY <1>2 DEF Rooted, HeldOnce
  <2>3. Linked(New(h, h[r].class, h[r].name, h[r].kids), Len(h) + 1) BY <2>1, <2>2, NewLinks
  <2> QED BY <2>3 DEF ShallowCopy
<1> HIDE DEF g
<1>6. w \notin L /\ w \notin A /\ w \in M /\ L \subseteq M BY <1>1
<1>7. \A n \in L \ {Nil} : n \in 1..Len(h) /\ g[n].kids = h[n].kids /\ g[n].class = h[n].class
  BY <1>1, <1>3 DEF Grown, Nil
<1>8. Rooted(g, U, r)
  <2>1. Len(g) = Len(h) + 1 BY <1>3
  <2>2. U \subseteq 0..Len(g)
    <3>1. \A n \in 0..Len(h) : n \in 0..Len(g) BY <1>1, <2>1
    <3> QED BY <1>1, <3>1
  <2> HIDE DEF U
  <2>3. Closed(h, U) /\ \A n \in U \ {Nil} : g[n].kids = h[n].kids
    <3>1. \A n \in U : n \in L BY DEF U
    <3> QED BY <1>2, <1>7, <3>1 DEF Rooted
  <2> QED BY <1>2, <2>2, <2>3, ClosedKept
<1>9. g[w].kids = g[r].kids /\ g[w].class = g[r].class BY <1>1, <1>3, <1>7
<1> HIDE DEF w, U
<1>10. Finishes(g, s, 1, M, A, U, A)
  <2>1. Filled(g, s[1], A)
    <3>1. \A j \in DOMAIN g[w].kids : ~ (j < 1)
      <4>1. g[w].kids = h[r].kids /\ h[r].kids \in Seq(0..Len(h)) BY <1>2, <1>3, HeapFacts
      <4> QED BY <4>1
    <3> QED BY <1>5, <1>6, <3>1 DEF Filled, w
  <2>2. s[1].to = w BY DEF w
  <2>3. \A i \in 1..1 : i = 1 OBVIOUS
  <2> QED BY <1>1, <1>4, <1>6, <1>8, <2>1, <2>2, <2>3 DEF Finishes, Rooted, Amounts, U
<1>11. Follows(g, s, 1) BY <1>9 DEF Follows, w
<1>12. Visits(g, s, 1, A, U, {r})
  <2>1. \A n \in U \ {Nil} : \A j \in DOMAIN g[n].kids : g[n].kids[j] # r
    BY <1>8 DEF Rooted
  <2> QED BY <1>8, <2>1 DEF Visits, Rooted
<1>13. Takes(g, s, 1, A, {r}, A) BY <1>9 DEF Takes, w
<1>14. Pass(g, s, 1, M, A, U, {r}, A) BY <1>4, <1>10, <1>11, <1>12, <1>13 DEF Pass
<1> QED BY <1>14 DEF g, w

\* A slot that is passed over holds nothing, or the amount of an interval.
LEMMA PassSkips ==
  ASSUME NEW h, IsHeap(h), NEW s, NEW l, Frames(h, s, l), l > 0,
         NEW L, NEW A, NEW T, NEW V, NEW G, Pass(h, s, l, L, A, T, V, G),
         LET top == s[l] IN
           /\ top.next \in DOMAIN h[top.from].kids
           /\ \/ h[top.from].kids[top.next] = Nil
              \/ h[top.from].class = "Interval" /\ top.next = 1,
         NEW e, DOMAIN e = 1..l,
         \A i \in 1..l : e[i] = IF i = l THEN [from |-> s[i].from, to |-> s[i].to,
                                              next |-> s[i].next + 1]
                                ELSE s[i]
  PROVE  Pass(h, e, l, L, A, T, V, G)
<1>1. /\ \A i \in 1..l : e[i].from = s[i].from /\ e[i].to = s[i].to
      /\ \A i \in 1..l : i # l => e[i].next = s[i].next
      /\ e[l].next = s[l].next + 1 /\ l \in 1..l
      /\ \A i \in 1..l : s[i].next \in Nat
  <2>1. l \in Nat /\ l \in 1..l BY DEF Frames
  <2>2. \A i \in 1..l : s[i].next \in Nat BY DEF Frames, FramesOver
  <2>3. /\ \A i \in 1..l : e[i].from = s[i].from /\ e[i].to = s[i].to
        /\ \A i \in 1..l : i # l => e[i].next = s[i].next
        /\ e[l].next = s[l].next + 1
    BY <2>1
  <2> QED BY <2>1, <2>2, <2>3
<1>2. \A i \in 1..l : \A j \in DOMAIN h[s[i].from].kids : j \in Nat
  BY FrameFacts DEF Frames
<1>3. Finishes(h, e, l, L, A, T, G)
  <2>1. ASSUME NEW i \in 1..l PROVE Filled(h, e[i], G)
    <3>1. Filled(h, s[i], G) BY DEF Pass, Finishes
    <3>2. CASE i # l BY <3>1, <3>2
    <3>3. CASE i = l
      <4>1. DOMAIN h[s[l].to].kids = DOMAIN h[s[l].from].kids
            /\ h[s[l].to].kids[s[l].next] = h[s[l].from].kids[s[l].next]
        <5>1. Follows(h, s, l) BY DEF Pass
        <5>2. s[l].next \in DOMAIN h[s[l].from].kids /\ s[l].next >= s[l].next BY <1>1
        <5> QED BY ONLY <1>1, <5>1, <5>2 DEF Follows
      <4>2. h[s[l].from].kids[s[l].next] \in G
        <5>1. Nil \in G /\ A \subseteq G BY DEF Pass, Finishes, Sound, Closed
        <5>2. s[l].from \in L \ {Nil}
          <6>1. s[l].from \in V /\ V \subseteq T /\ V \cap A = {} /\ T \subseteq L
            BY <1>1 DEF Pass, Visits, Finishes
          <6>2. Nil \in A BY DEF Pass, Amounts, Sound, Closed
          <6> QED BY <6>1, <6>2
        <5> QED BY <5>1, <5>2 DEF Pass, Amounts
      <4>3. ASSUME NEW j \in DOMAIN h[s[l].to].kids, j < s[l].next + 1
            PROVE  h[s[l].to].kids[j] \in G
        <5>1. j < s[l].next \/ j = s[l].next
          <6>1. \A a, b \in Nat : a < b + 1 => a < b \/ a = b OBVIOUS
          <6>2. j \in Nat /\ s[l].next \in Nat BY <1>1, <1>2, <4>1
          <6> QED BY ONLY <4>3, <6>1, <6>2
        <5> QED BY <3>1, <3>3, <4>1, <4>2, <5>1 DEF Filled
      <4> QED BY <1>1, <3>1, <3>3, <4>3 DEF Filled
    <3> QED BY <3>2, <3>3
  <2> QED BY <1>1, <2>1 DEF Pass, Finishes
<1>4. Follows(h, e, l)
  <2>1. ASSUME NEW i \in 1..l, NEW j \in DOMAIN h[s[i].from].kids, j >= e[i].next
        PROVE  j >= s[i].next
    <3>1. e[i].next = s[i].next \/ e[i].next = s[i].next + 1 BY <1>1
    <3>2. j \in Nat /\ s[i].next \in Nat BY <1>1, <1>2
    <3> QED BY <2>1, <3>1, <3>2
  <2>2. Follows(h, s, l) BY DEF Pass
  <2> QED BY ONLY <1>1, <2>1, <2>2 DEF Follows
<1>5. Visits(h, e, l, A, T, V)
  <2>1. ASSUME NEW n \in T \ {Nil}, NEW j \in DOMAIN h[n].kids, h[n].kids[j] \in V,
               NEW i \in 1..l, e[i].from = n
        PROVE  j < e[i].next \/ (j = e[i].next /\ i # l)
    <3>1. j < s[i].next \/ (j = s[i].next /\ i # l) BY <1>1, <2>1 DEF Pass, Visits
    <3>2. j \in Nat BY <1>1, <1>2, <2>1
    <3>3. CASE i = l
      <4>1. j < s[l].next BY <3>1, <3>3
      <4> QED BY <1>1, <3>2, <3>3, <4>1
    <3>4. CASE i # l BY <1>1, <3>1, <3>4
    <3> QED BY <3>3, <3>4
  <2> QED BY <1>1, <2>1 DEF Pass, Visits
<1>6. Takes(h, e, l, A, V, G)
  <2>1. {e[i].to : i \in 1..l} = {s[i].to : i \in 1..l} BY <1>1
  <2> QED BY <2>1 DEF Pass, Takes
<1> QED BY <1>3, <1>4, <1>5, <1>6 DEF Pass

\* No finished node, and none that is copied into, holds a child of a node that was
\* not visited.
LEMMA NotTaken ==
  ASSUME NEW h, IsHeap(h), NEW s, NEW l, Frames(h, s, l),
         NEW L, NEW A, NEW T, NEW V, NEW G, Pass(h, s, l, L, A, T, V, G),
         NEW c \in T \ A, c \notin V, NEW k \in DOMAIN h[c].kids, h[c].kids[k] # Nil
  PROVE  \A n \in (G \ {Nil}) \cup {s[i].to : i \in 1..l} :
           \A j \in DOMAIN h[n].kids : h[n].kids[j] # h[c].kids[k]
<1> DEFINE kid == h[c].kids[k]
<1>1. c # Nil /\ Nil \in A /\ c \in L \ A BY DEF Pass, Finishes, Amounts, Sound, Closed
<1>2. kid \in T BY <1>1 DEF Pass, Finishes, Closed
<1> HIDE DEF kid
<1>3. ASSUME NEW m \in V, NEW i \in DOMAIN h[m].kids, h[m].kids[i] = kid PROVE FALSE
  <2>1. m \in T \ {Nil} BY <1>1 DEF Pass, Visits
  <2>2. m = c BY <1>1, <1>3, <2>1 DEF Pass, Finishes, HeldOnce, kid
  <2> QED BY <2>2
<1>4. ASSUME NEW n \in (G \ {Nil}) \cup {s[i].to : i \in 1..l}, NEW j \in DOMAIN h[n].kids,
             h[n].kids[j] = kid
      PROVE  FALSE
  <2>1. CASE n \in A
    <3>1. n # Nil
      <4>1. \A i \in 1..l : s[i].to # Nil BY FrameFacts DEF Frames, Nil, IsHeap
      <4> QED BY <4>1
    <3> QED BY <1>1, <1>4, <2>1, <3>1, NoneOfAmounts DEF Pass, kid
  <2>2. CASE n \notin A
    <3>1. kid \notin A
      <4>1. n \in (G \ A) \cup {s[i].to : i \in 1..l} BY <2>2
      <4>2. kid \in A \ {Nil} => \E m \in V : \E i \in DOMAIN h[m].kids : h[m].kids[i] = kid
        BY <1>4, <4>1 DEF Pass, Takes
      <4> QED BY <1>3, <4>2 DEF kid
    <3>2. kid \notin G BY <1>2, <3>1 DEF Pass, Finishes
    <3>3. n \notin G BY <1>4, <3>2 DEF Pass, Finishes, Sound, Closed
    <3>4. PICK i \in 1..l : n = s[i].to BY <1>4, <3>3
    <3>5. Filled(h, s[i], G) BY DEF Pass, Finishes
    <3>6. /\ s[i].next \in Nat /\ j \in DOMAIN h[s[i].from].kids /\ j \in Nat
          /\ j >= s[i].next => h[s[i].from].kids[j] = kid
      <4>1. DOMAIN h[s[i].to].kids = DOMAIN h[s[i].from].kids BY DEF Pass, Follows
      <4>2. s[i] \in FramesOver(h) BY DEF Frames
      <4>3. s[i].next \in Nat /\ \A k1 \in DOMAIN h[s[i].from].kids : k1 \in Nat
        BY <4>2, FrameFacts
      <4>4. j \in DOMAIN h[s[i].from].kids /\ h[s[i].to].kids[j] = kid BY <1>4, <3>4, <4>1
      <4>5. Follows(h, s, l) BY DEF Pass
      <4> QED BY ONLY <4>3, <4>4, <4>5, i \in 1..l DEF Follows
    <3>7. j < s[i].next => kid \in G BY <1>4, <3>4, <3>5 DEF Filled
    <3>8. h[s[i].from].kids[j] = kid BY <3>2, <3>6, <3>7
    <3>9. s[i].from \in V BY DEF Pass, Visits
    <3> QED BY <1>3, <3>6, <3>8, <3>9
  <2> QED BY <2>1, <2>2
<1> QED BY <1>4 DEF kid

\* A child is entered that is neither absent nor an amount.
LEMMA PassEnters ==
  ASSUME NEW h, IsHeap(h), NEW s, NEW l, Frames(h, s, l), l > 0,
         NEW L, NEW A, NEW T, NEW V, NEW G, Pass(h, s, l, L, A, T, V, G),
         s[l].next \in DOMAIN h[s[l].from].kids,
         NEW c, c = h[s[l].from].kids[s[l].next], c # Nil,
         ~ (h[s[l].from].class = "Interval" /\ s[l].next = 1),
         NEW e, DOMAIN e = 1..(l + 1), \A i \in 1..l : e[i] = s[i],
         e[l + 1] = [from |-> c, to |-> Len(h) + 1, next |-> 1]
  PROVE  Pass(ShallowCopy(h, c), e, l + 1, L \cup {Len(h) + 1}, A, T, V \cup {c}, G)
<1> DEFINE g == ShallowCopy(h, c)
           w == Len(h) + 1
           F == s[l].from
           M == L \cup {w}
           W == V \cup {c}
<1>1. /\ l \in Nat /\ l \in 1..l /\ l + 1 \notin 1..l
      /\ \A i \in 1..(l + 1) : i \in 1..l \/ i = l + 1
      /\ Len(h) \in Nat /\ DOMAIN h = 1..Len(h)
  BY DEF Frames, IsHeap
<1>2. /\ Amounts(h, L, A) /\ Closed(h, T) /\ HeldOnce(h, T) /\ T \subseteq L
      /\ Sound(h, G) /\ A \subseteq G /\ G \subseteq L /\ G \cap T \subseteq A
      /\ V \subseteq T /\ V \cap A = {} /\ Nil \in A /\ L \subseteq 0..Len(h)
  BY DEF Pass, Finishes, Visits, Amounts, Sound, Closed
<1>3. F \in V /\ F \in T \ {Nil} /\ F \in L \ A
  <2>1. F \in V BY <1>1 DEF Pass, Visits
  <2> QED BY <1>2, <2>1
<1>4. c \in T \ A /\ c \in T \ {Nil}
  <2>1. c \in T BY <1>2, <1>3 DEF Closed
  <2>2. c \in A \ {Nil} => h[F].class = "Interval" /\ s[l].next = 1
    BY <1>2, <1>3 DEF Amounts
  <2> QED BY <2>1, <2>2
<1>5. c \notin V
  <2>1. s[l].next \in Nat BY <1>1 DEF Frames, FramesOver
  <2>2. c \in V => s[l].next < s[l].next \/ (s[l].next = s[l].next /\ l # l)
    BY <1>1, <1>3 DEF Pass, Visits
  <2> QED BY <2>1, <2>2
<1>6. c \in L \ A /\ c \in 1..Len(h) /\ c \in DOMAIN h
  <2>1. c \in L \ A /\ c \in 0..Len(h) /\ c # 0 BY <1>2, <1>4 DEF Nil
  <2> QED BY ONLY <1>1, <2>1
<1>7. /\ IsHeap(g) /\ Len(g) = w /\ Grown(h, g)
      /\ g[Len(g)].kids = h[c].kids /\ g[Len(g)].class = h[c].class
  <2>1. IsHeap(h) OBVIOUS
  <2> QED BY ONLY <1>6, <2>1, ShallowFacts
<1>8. Amounts(g, M, A) BY <1>2, <1>6, ShallowAmounts
<1>9. /\ h[c].class \in Classes /\ h[c].name \in Names /\ h[c].kids \in Seq(0..Len(h))
      /\ h[c].class \in Unary => Len(h[c].kids) > 0
      /\ g = New(h, h[c].class, h[c].name, h[c].kids)
  BY <1>1, <1>6, HeapFacts DEF Nodes, ShallowCopy
<1>10. \A n \in (G \ {Nil}) \cup {s[i].to : i \in 1..l} : \A j \in DOMAIN h[n].kids :
         h[n].kids[j] # Nil => h[n].kids[j] \notin Range(h[c].kids)
  <2>1. \A k \in DOMAIN h[c].kids : h[c].kids[k] # Nil =>
          \A n \in (G \ {Nil}) \cup {s[i].to : i \in 1..l} :
            \A j \in DOMAIN h[n].kids : h[n].kids[j] # h[c].kids[k]
    <3>1. IsHeap(h) /\ Frames(h, s, l) /\ Pass(h, s, l, L, A, T, V, G) OBVIOUS
    <3> QED BY ONLY <1>4, <1>5, <3>1, NotTaken
  <2> QED BY ONLY <2>1 DEF Range
<1>11. Linked(g, w)
  <2>1. \A i, j \in DOMAIN h[c].kids : h[c].kids[i] # Nil /\ h[c].kids[j] = h[c].kids[i] => j = i
    <3>1. HeldOnce(h, T) /\ c \in T \ {Nil} BY <1>2, <1>4
    <3> QED BY ONLY <3>1 DEF HeldOnce
  <2>2. Linked(New(h, h[c].class, h[c].name, h[c].kids), Len(h) + 1) BY <1>9, <2>1, NewLinks
  <2> QED BY <1>9, <2>2
<1>12. \A n \in (G \ {Nil}) \cup {s[i].to : i \in 1..l} :
         n \in DOMAIN h /\ Linked(h, n) => Linked(g, n)
  <2>1. \A n \in DOMAIN h :
          /\ Linked(h, n)
          /\ \A i \in DOMAIN h[n].kids : h[n].kids[i] # Nil => h[n].kids[i] \notin Range(h[c].kids)
          => Linked(New(h, h[c].class, h[c].name, h[c].kids), n)
    BY <1>9, NewLinks
  <2> QED BY <1>9, <1>10, <2>1
<1>13. Sound(g, G)
  <2>1. \A i \in DOMAIN h[c].kids : h[c].kids[i] # Nil =>
          \A m \in G \ {Nil} : \A j \in DOMAIN h[m].kids : h[m].kids[j] # h[c].kids[i]
    <3>1. IsHeap(h) /\ Frames(h, s, l) /\ Pass(h, s, l, L, A, T, V, G) OBVIOUS
    <3> QED BY ONLY <1>4, <1>5, <3>1, NotTaken
  <2>2. Sound(New(h, h[c].class, h[c].name, h[c].kids), G) BY <1>2, <1>9, <2>1, NewSound
  <2> QED BY <1>9, <2>2
<1> HIDE DEF g, w
<1>14. w \notin L /\ w \in M /\ L \subseteq M BY <1>1, <1>2 DEF w
<1>15. \A n \in L \ {Nil} : n \in 1..Len(h) /\ g[n].kids = h[n].kids /\ g[n].class = h[n].class
  BY ONLY <1>2, <1>7 DEF Grown, Nil
<1>16. /\ \A i \in 1..l : s[i].to \in L \ {Nil} /\ s[i].to \notin T /\ Filled(h, s[i], G)
                          /\ s[i].from \in V /\ s[i].from \in L \ {Nil}
       /\ e[l + 1].from = c /\ e[l + 1].to = w /\ e[l + 1].next = 1
  <2>1. \A i \in 1..l : s[i].to \in L \ T /\ Filled(h, s[i], G) BY DEF Pass, Finishes
  <2>2. \A i \in 1..l : s[i].to \notin A BY <1>2, <2>1 DEF Filled
  <2>3. \A i \in 1..l : s[i].from \in V BY DEF Pass, Visits
  <2>4. \A i \in 1..l : s[i].to \in L \ {Nil} BY <1>2, <2>1, <2>2
  <2>5. \A i \in 1..l : s[i].from \in L \ {Nil} BY <1>2, <2>3
  <2> QED BY <2>1, <2>3, <2>4, <2>5 DEF w
<1>17. g[w].kids = g[c].kids /\ g[w].class = g[c].class /\ c \in L \ {Nil}
  BY <1>2, <1>6, <1>7, <1>15
<1>18. Finishes(g, e, l + 1, M, A, T, G)
  <2>1. Closed(g, T) /\ HeldOnce(g, T)
    <3>1. \A n \in T : n \in 0..Len(h) BY <1>2
    <3>2. \A n \in 0..Len(h) : n \in 0..Len(g) BY ONLY <1>1, <1>7 DEF w
    <3>3. T \subseteq 0..Len(g) BY <3>1, <3>2
    <3>4. \A n \in T \ {Nil} : g[n].kids = h[n].kids BY <1>2, <1>15
    <3> QED BY <1>2, <3>3, <3>4, ClosedKept
  <2>2. ASSUME NEW i \in 1..l PROVE Filled(g, s[i], G)
    <3>1. Filled(h, s[i], G) /\ s[i].to \in DOMAIN h /\ g[s[i].to].kids = h[s[i].to].kids
      BY <1>1, <1>15, <1>16
    <3>2. Linked(g, s[i].to) BY <1>12, <3>1 DEF Filled
    <3> QED BY <3>1, <3>2 DEF Filled
  <2>3. Filled(g, e[l + 1], G)
    <3>1. w \notin G BY <1>2, <1>14
    <3>2. \A j \in DOMAIN g[w].kids : ~ (j < 1)
      <4>1. g[w].kids = h[c].kids /\ h[c].kids \in Seq(0..Len(h)) BY <1>7, <1>9
      <4> QED BY ONLY <4>1
    <3> QED BY <1>11, <1>16, <3>1, <3>2 DEF Filled
  <2>4. \A i \in 1..(l + 1) : e[i].to \in M \ T /\ Filled(g, e[i], G)
    <3>1. w \notin T BY <1>2, <1>14
    <3> QED BY <1>1, <1>14, <1>16, <2>2, <2>3, <3>1
  <2>5. T \subseteq M /\ G \subseteq M BY <1>2, <1>14
  <2> QED BY <1>2, <1>13, <2>1, <2>4, <2>5 DEF Finishes
<1>19. Follows(g, e, l + 1)
  <2>1. ASSUME NEW i \in 1..(l + 1)
        PROVE  /\ g[e[i].to].class = g[e[i].from].class
               /\ DOMAIN g[e[i].to].kids = DOMAIN g[e[i].from].kids
               /\ \A j \in DOMAIN g[e[i].from].kids :
                    j >= e[i].next => g[e[i].to].kids[j] = g[e[i].from].kids[j]
               /\ i # l + 1 => ~ (g[e[i].from].class = "Interval" /\ e[i].next = 1)
    <3>1. CASE i = l + 1 BY <1>16, <1>17, <3>1
    <3>2. CASE i \in 1..l
      <4>1. /\ e[i] = s[i] /\ g[s[i].to].kids = h[s[i].to].kids
            /\ g[s[i].to].class = h[s[i].to].class /\ g[s[i].from].kids = h[s[i].from].kids
            /\ g[s[i].from].class = h[s[i].from].class
        BY <1>15, <1>16, <3>2
      <4>2. ~ (h[s[i].from].class = "Interval" /\ s[i].next = 1)
        BY <3>2 DEF Pass, Follows
      <4>3. Follows(h, s, l) BY DEF Pass
      <4>4. /\ h[s[i].to].class = h[s[i].from].class
            /\ DOMAIN h[s[i].to].kids = DOMAIN h[s[i].from].kids
            /\ \A j \in DOMAIN h[s[i].from].kids :
                 j >= s[i].next => h[s[i].to].kids[j] = h[s[i].from].kids[j]
        BY ONLY <3>2, <4>3 DEF Follows
      <4> QED BY ONLY <4>1, <4>2, <4>4
    <3> QED BY <1>1, <3>1, <3>2
  <2>2. ASSUME NEW i \in 1..(l + 1), NEW k \in 1..(l + 1), e[i].from = e[k].from PROVE i = k
    <3>1. \A a \in 1..l : e[a].from # c BY <1>5, <1>16
    <3>2. CASE i \in 1..l /\ k \in 1..l BY <2>2, <3>2 DEF Pass, Follows
    <3>3. CASE i = l + 1 \/ k = l + 1 BY <1>1, <1>16, <2>2, <3>1, <3>3
    <3> QED BY <1>1, <3>2, <3>3
  <2> QED BY <2>1, <2>2 DEF Follows
<1>20. Visits(g, e, l + 1, A, T, W)
  <2>1. W \subseteq T /\ W \cap A = {} BY <1>2, <1>4
  <2>2. \A i \in 1..(l + 1) : e[i].from \in W BY <1>1, <1>16
  <2>3. ASSUME NEW n \in T \ {Nil}, NEW j \in DOMAIN g[n].kids, g[n].kids[j] \in W
        PROVE  /\ n \in W
               /\ \A i \in 1..(l + 1) : e[i].from = n =>
                    j < e[i].next \/ (j = e[i].next /\ i # l + 1)
    <3>1. g[n].kids = h[n].kids BY <1>2, <1>15
    <3>2. CASE h[n].kids[j] \in V
      <4>1. n \in V /\ \A i \in 1..l : s[i].from = n =>
              j < s[i].next \/ (j = s[i].next /\ i # l)
        BY <2>3, <3>1, <3>2 DEF Pass, Visits
      <4> QED BY <1>1, <1>5, <1>16, <4>1
    <3>3. CASE h[n].kids[j] = c
      <4>1. n = F /\ j = s[l].next
        <5>1. h[F].kids[s[l].next] = c /\ s[l].next \in DOMAIN h[F].kids OBVIOUS
        <5>2. n \in T \ {Nil} /\ j \in DOMAIN h[n].kids BY <2>3, <3>1
        <5>3. HeldOnce(h, T) /\ F \in T \ {Nil} BY <1>2, <1>3
        <5>4. h[F].kids[s[l].next] # Nil BY <5>1
        <5> HIDE DEF F
        <5> QED BY ONLY <3>3, <5>1, <5>2, <5>3, <5>4 DEF HeldOnce
      <4>2. \A i \in 1..l : s[i].from = n => i = l BY <1>1, <4>1 DEF Pass, Follows
      <4> QED BY <1>1, <1>3, <1>5, <1>16, <4>1, <4>2
    <3> QED BY <2>3, <3>1, <3>2, <3>3
  <2> HIDE DEF W
  <2> QED BY <2>1, <2>2, <2>3 DEF Visits
<1>21. Takes(g, e, l + 1, A, W, G)
  <2>1. ASSUME NEW n \in (G \ A) \cup {e[i].to : i \in 1..(l + 1)}, NEW j \in DOMAIN g[n].kids,
               g[n].kids[j] \in A \ {Nil}
        PROVE  \E m \in W : \E k \in DOMAIN g[m].kids : g[m].kids[k] = g[n].kids[j]
    <3>1. CASE n = w BY <1>17, <2>1, <3>1
    <3>2. CASE n # w
      <4>1. n \in (G \ A) \cup {s[i].to : i \in 1..l} BY <1>1, <1>16, <2>1, <3>2
      <4>2. n \in L \ {Nil} BY <1>2, <1>16, <4>1
      <4>3. g[n].kids = h[n].kids BY <1>15, <4>2
      <4>4. PICK m \in V : \E k \in DOMAIN h[m].kids : h[m].kids[k] = h[n].kids[j]
        BY <2>1, <4>1, <4>3 DEF Pass, Takes
      <4>5. g[m].kids = h[m].kids BY <1>2, <1>15
      <4> QED BY ONLY <4>3, <4>4, <4>5, m \in V
    <3> QED BY <3>1, <3>2
  <2> HIDE DEF W
  <2> QED BY <2>1 DEF Takes
<1>22. Pass(g, e, l + 1, M, A, T, W, G) BY <1>8, <1>18, <1>19, <1>20, <1>21 DEF Pass
<1> QED BY <1>22 DEF g, w

\* What a finished copy may become: Nil, or a node q that is no amount and that
\* nothing keeps, in a sound part of what was finished, with all that the frames
\* above hold of it.
Loose(h, l, s, L, A, F, q) ==
  \E S : /\ Sound(h, S) /\ A \subseteq S /\ S \subseteq F /\ q \in S
         /\ \A i \in 1..l : \A j \in DOMAIN h[s[i].to].kids :
              h[s[i].to].kids[j] \in F => h[s[i].to].kids[j] \in S
         /\ q # Nil =>
              /\ q \in L \ A
              /\ \A n \in S \ {Nil} : \A j \in DOMAIN h[n].kids : h[n].kids[j] # q
              /\ \A i \in 1..l : \A j \in DOMAIN h[s[i].to].kids : h[s[i].to].kids[j] # q

\* The copy itself, its slots all done.
LEMMA TopLoose ==
  ASSUME NEW h, IsHeap(h), NEW s, NEW l \in Nat, Frames(h, s, l + 1),
         NEW L, NEW A, NEW T, NEW V, NEW G, Pass(h, s, l + 1, L, A, T, V, G),
         \A j \in DOMAIN h[s[l + 1].from].kids : j < s[l + 1].next
  PROVE  /\ Loose(h, l, s, L, A, G \cup {s[l + 1].to}, s[l + 1].to)
         /\ \A i \in 1..l : s[i].to \notin G \cup {s[l + 1].to} /\ Linked(h, s[i].to)
<1> DEFINE t == s[l + 1].to
           F == G \cup {t}
<1>1. l + 1 \in 1..(l + 1) /\ \A i \in 1..l : i \in 1..(l + 1) /\ i # l + 1 OBVIOUS
<1>2. /\ t \in L \ T /\ Filled(h, s[l + 1], G) /\ Sound(h, G) /\ A \subseteq G /\ G \subseteq L
      /\ DOMAIN h[t].kids = DOMAIN h[s[l + 1].from].kids
  BY <1>1 DEF Pass, Finishes, Follows
<1>3. t \notin G /\ Linked(h, t) /\ \A j \in DOMAIN h[t].kids : h[t].kids[j] \in G
  BY <1>2 DEF Filled
<1>4. Unheld(h, t) /\ t \in DOMAIN h /\ DOMAIN h = 1..Len(h) /\ Len(h) \in Nat
  BY <1>1, FrameFacts DEF Frames, IsHeap
<1>5. \A i \in 1..l : s[i].to # t /\ s[i].to \in DOMAIN h
  BY <1>1, FrameFacts DEF Frames
<1>6. \A i \in 1..l : s[i].to \notin G /\ Linked(h, s[i].to)
  BY <1>1 DEF Pass, Finishes, Filled
<1> HIDE DEF t
<1>7. Sound(h, F)
  <2>1. F \subseteq 0..Len(h) BY <1>2, <1>4 DEF Sound, Closed
  <2>2. Closed(h, F) BY <1>2, <1>3, <2>1 DEF Sound, Closed
  <2> QED BY <1>2, <1>3, <2>2 DEF Sound
<1>8. \A n \in F \ {Nil} : n \in DOMAIN h
  <2>1. \A n \in F : n \in 0..Len(h) BY <1>7 DEF Sound, Closed
  <2> QED BY <1>4, <2>1 DEF Nil
<1>9. Loose(h, l, s, L, A, F, t)
  <2>1. \A n \in F \ {Nil} : \A j \in DOMAIN h[n].kids : h[n].kids[j] # t
    BY <1>4, <1>8 DEF Unheld
  <2>2. \A i \in 1..l : \A j \in DOMAIN h[s[i].to].kids : h[s[i].to].kids[j] # t
    BY <1>4, <1>5 DEF Unheld
  <2>3. t \in F /\ A \subseteq F /\ t \in L \ A BY <1>2, <1>3
  <2> HIDE DEF F
  <2> QED BY <1>7, <2>1, <2>2, <2>3 DEF Loose
<1> QED BY <1>5, <1>6, <1>9 DEF t

\* A node that is dropped leaves its only child loose.
LEMMA LooseDown ==
  ASSUME NEW h, IsHeap(h), NEW s, NEW l, NEW L, NEW A, Amounts(h, L, A),
         NEW F, NEW q, Loose(h, l, s, L, A, F, q), q # Nil,
         \A i \in 1..l : s[i].to \notin F /\ Linked(h, s[i].to),
         h[q].class \in {"Neg", "Paren"}
  PROVE  Loose(h, l, s, L, A, F, This(h, q))
<1> DEFINE k == This(h, q)
<1>1. PICK S : /\ Sound(h, S) /\ A \subseteq S /\ S \subseteq F /\ q \in S
               /\ \A i \in 1..l : \A j \in DOMAIN h[s[i].to].kids :
                    h[s[i].to].kids[j] \in F => h[s[i].to].kids[j] \in S
               /\ q \in L \ A
               /\ \A n \in S \ {Nil} : \A j \in DOMAIN h[n].kids : h[n].kids[j] # q
               /\ \A i \in 1..l : \A j \in DOMAIN h[s[i].to].kids : h[s[i].to].kids[j] # q
  BY DEF Loose
<1>2. q \in DOMAIN h /\ 1 \in DOMAIN h[q].kids /\ k = h[q].kids[1] /\ k \in S
  <2>1. q \in DOMAIN h BY <1>1, ClosedNode DEF Sound
  <2>2. h[q].class \in Unary BY DEF Unary
  <2>3. 1 \in DOMAIN h[q].kids BY <2>1, <2>2, HeapFacts
  <2> QED BY <1>1, <2>1, <2>3 DEF Sound, Closed, This
<1> DEFINE R == S \ {q}
<1> HIDE DEF k
<1>3. Closed(h, S) /\ \A n \in S \ {Nil} : Linked(h, n) BY <1>1 DEF Sound
<1>4. k # q BY <1>1, <1>2
<1>5. Sound(h, R)
  <2>1. Closed(h, R) BY <1>1, <1>3 DEF Closed
  <2> QED BY <1>3, <2>1 DEF Sound
<1>6. A \subseteq R /\ R \subseteq F /\ k \in R BY <1>1, <1>2, <1>4
<1>7. \A i \in 1..l : \A j \in DOMAIN h[s[i].to].kids :
        h[s[i].to].kids[j] \in F => h[s[i].to].kids[j] \in R
  BY <1>1
<1>8. ASSUME k # Nil
      PROVE  /\ k \in L \ A
             /\ \A n \in R \ {Nil} : \A j \in DOMAIN h[n].kids : h[n].kids[j] # k
             /\ \A i \in 1..l : \A j \in DOMAIN h[s[i].to].kids : h[s[i].to].kids[j] # k
  <2>1. k \in L \ A BY <1>1, <1>2, <1>8 DEF Amounts, Closed
  <2>2. h[k].parent = q BY <1>2, <1>3, <1>1, <1>8 DEF Linked
  <2>3. \A n : Linked(h, n) => \A j \in DOMAIN h[n].kids : h[n].kids[j] = k => n = q
    BY <1>8, <2>2 DEF Linked
  <2>4. \A n \in R \ {Nil} : Linked(h, n) /\ n # q BY <1>3
  <2>5. \A i \in 1..l : Linked(h, s[i].to) /\ s[i].to # q BY <1>1
  <2> QED BY <2>1, <2>3, <2>4, <2>5
<1> HIDE DEF R
<1>9. Loose(h, l, s, L, A, F, k) BY <1>5, <1>6, <1>7, <1>8 DEF Loose
<1> QED BY <1>9 DEF k

\* So is what the rules of Simplify leave of it.
LEMMA SimplifiedLoose ==
  ASSUME NEW h, IsHeap(h), NEW s, NEW l, NEW L, NEW A, Amounts(h, L, A),
         NEW F, NEW t, Loose(h, l, s, L, A, F, t), t # Nil,
         \A i \in 1..l : s[i].to \notin F /\ Linked(h, s[i].to), NEW holder
  PROVE  Loose(h, l, s, L, A, F, Simplified(h, t, holder))
<1> DEFINE Free(q) == Loose(h, l, s, L, A, F, q)
<1>1. ASSUME NEW q, Free(q), ClassOf(h, q) \in {"Neg", "Paren"}
      PROVE  Free(This(h, q))
  <2>1. q \in DOMAIN h /\ h[q].class \in {"Neg", "Paren"} BY <1>1 DEF ClassOf
  <2>2. q # Nil BY <2>1 DEF IsHeap, Nil
  <2> QED BY <1>1, <2>1, <2>2, LooseDown
<1>2. Free(Nil)
  <2>1. \E S : /\ Sound(h, S) /\ A \subseteq S /\ S \subseteq F
               /\ \A i \in 1..l : \A j \in DOMAIN h[s[i].to].kids :
                    h[s[i].to].kids[j] \in F => h[s[i].to].kids[j] \in S
    BY DEF Loose
  <2> QED BY <2>1 DEF Loose, Sound, Closed
<1>3. Free(t) OBVIOUS
<1> HIDE DEF Free
<1>4. ASSUME NEW q, Free(q) PROVE Free(Unparenthesised(h, q, holder))
  BY <1>1, <1>4 DEF Unparenthesised
<1>5. Free(Unnegated(h, t))
  <2> DEFINE this == This(h, t)
             inner == IF ClassOf(h, this) = "Paren" THEN This(h, this) ELSE this
  <2>1. CASE h[t].class = "Neg" /\ ClassOf(h, inner) = "Neg"
    <3>1. Free(this)
      <4>1. t \in DOMAIN h BY ClosedNode DEF Loose, Sound
      <4> QED BY <1>1, <1>3, <2>1, <4>1 DEF ClassOf
    <3> HIDE DEF this
    <3>2. Free(inner) BY <1>1, <3>1
    <3> HIDE DEF inner
    <3>3. Free(This(h, inner)) BY <1>1, <2>1, <3>2
    <3> QED BY <2>1, <3>3 DEF Unnegated, this, inner
  <2>2. CASE ~ (h[t].class = "Neg" /\ ClassOf(h, inner) = "Neg")
    <3>1. Unnegated(h, t) = t BY <2>2 DEF Unnegated
    <3> QED BY <1>3, <3>1
  <2> QED BY <2>1, <2>2
<1>6. Free(Simplified(h, t, holder)) BY <1>2, <1>4, <1>5 DEF Simplified
<1> QED BY <1>6 DEF Free

\* What became of a copy is set in the one above it.
LEMMA PassLeaves ==
  ASSUME NEW h, IsHeap(h), NEW s, NEW l \in Nat, l > 0, Frames(h, s, l + 1),
         NEW L, NEW A, NEW T, NEW V, NEW G, Pass(h, s, l + 1, L, A, T, V, G),
         \A j \in DOMAIN h[s[l + 1].from].kids : j < s[l + 1].next, NEW holder,
         NEW q, q = Simplified(h, s[l + 1].to, holder),
         NEW e, DOMAIN e = 1..l,
         \A i \in 1..l : e[i] = IF i = l THEN [from |-> s[i].from, to |-> s[i].to,
                                              next |-> s[i].next + 1]
                                ELSE s[i]
  PROVE  \E S : Pass(Set(h, s[l].to, s[l].next, q), e, l, L, A, T, V, S)
<1> DEFINE t == s[l + 1].to
           F == G \cup {t}
           u == s[l].to
           g == Set(h, u, s[l].next, q)
<1>1. /\ l \in 1..l /\ l + 1 \in 1..(l + 1) /\ \A i \in 1..l : i \in 1..(l + 1) /\ i # l + 1
      /\ Len(h) \in Nat /\ DOMAIN h = 1..Len(h)
  BY DEF IsHeap
<1>2. /\ Amounts(h, L, A) /\ Closed(h, T) /\ HeldOnce(h, T) /\ T \subseteq L /\ Closed(h, L)
      /\ Sound(h, G) /\ A \subseteq G /\ G \subseteq L /\ G \cap T \subseteq A
      /\ V \subseteq T /\ V \cap A = {} /\ Nil \in A /\ L \subseteq 0..Len(h) /\ A \subseteq L
  BY DEF Pass, Finishes, Visits, Amounts, Sound, Closed
<1>3. /\ \A i \in 1..l : e[i].from = s[i].from /\ e[i].to = s[i].to
      /\ \A i \in 1..l : i # l => e[i].next = s[i].next
      /\ e[l].next = s[l].next + 1
      /\ \A i \in 1..l : s[i].next \in Nat
  <2>1. \A i \in 1..l : s[i].next \in Nat BY <1>1 DEF Frames, FramesOver
  <2>2. /\ \A i \in 1..l : e[i].from = s[i].from /\ e[i].to = s[i].to
        /\ \A i \in 1..l : i # l => e[i].next = s[i].next
        /\ e[l].next = s[l].next + 1
    BY <1>1
  <2> QED BY <2>1, <2>2
<1>4. /\ \A i \in 1..l : s[i].to \in DOMAIN h /\ s[i].to # Nil
      /\ \A i \in 1..l : \A j \in DOMAIN h[s[i].from].kids : j \in Nat
      /\ t \in DOMAIN h /\ t # Nil
  <2>1. \A i \in 1..(l + 1) : s[i].to \in DOMAIN h
                             /\ \A j \in DOMAIN h[s[i].from].kids : j \in Nat
    BY FrameFacts DEF Frames
  <2> QED BY <1>1, <2>1 DEF Nil
<1>5. /\ Loose(h, l, s, L, A, F, t)
      /\ \A i \in 1..l : s[i].to \notin F /\ Linked(h, s[i].to)
  BY TopLoose
<1>6. PICK S : /\ Sound(h, S) /\ A \subseteq S /\ S \subseteq F /\ q \in S
               /\ \A i \in 1..l : \A j \in DOMAIN h[s[i].to].kids :
                    h[s[i].to].kids[j] \in F => h[s[i].to].kids[j] \in S
               /\ q # Nil =>
                    /\ q \in L \ A
                    /\ \A n \in S \ {Nil} : \A j \in DOMAIN h[n].kids : h[n].kids[j] # q
                    /\ \A i \in 1..l : \A j \in DOMAIN h[s[i].to].kids : h[s[i].to].kids[j] # q
  <2> HIDE DEF F, t
  <2>1. Loose(h, l, s, L, A, F, Simplified(h, t, holder)) BY <1>2, <1>4, <1>5, SimplifiedLoose
  <2> QED BY <2>1 DEF Loose, t
<1>7. u \in L \ A /\ u \notin T /\ u \in DOMAIN h /\ q \in 0..Len(h) /\ q \in L
  <2>1. u \in L \ T BY <1>1 DEF Pass, Finishes
  <2>2. u \notin A BY <1>1, <1>2, <1>5
  <2>3. q \in L BY <1>2, <1>6
  <2> QED BY <1>1, <1>2, <1>4, <2>1, <2>2, <2>3
<1> HIDE DEF u, F, t
<1>8. /\ IsHeap(g) /\ Len(g) = Len(h)
      /\ \A m \in 1..Len(h) : g[m].class = h[m].class
      /\ \A m \in 1..Len(h) : m # u => g[m].kids = h[m].kids
      /\ DOMAIN g[u].kids = DOMAIN h[u].kids
      /\ \A j \in DOMAIN h[u].kids : g[u].kids[j] = IF j = s[l].next THEN q ELSE h[u].kids[j]
  <2>1. IsHeap(h) OBVIOUS
  <2> QED BY ONLY <1>7, <2>1, SetFacts
<1>9. Amounts(g, L, A)
  <2>1. ~ (h[u].class = "Interval" /\ s[l].next = 1)
    <3>1. h[u].class = h[s[l].from].class BY <1>1 DEF Pass, Follows, u
    <3>2. ~ (h[s[l].from].class = "Interval" /\ s[l].next = 1)
      BY <1>1 DEF Pass, Follows
    <3> QED BY <3>1, <3>2
  <2>2. q \in A => q = Nil BY <1>6
  <2> HIDE DEF g
  <2>3. Amounts(Set(h, u, s[l].next, q), L, A) BY <1>2, <1>7, <2>1, <2>2, SetAmounts
  <2> QED BY <2>3 DEF g
<1>10. Sound(g, S)
  <2>1. u \notin S BY <1>1, <1>5, <1>6 DEF u
  <2>2. Sound(Set(h, u, s[l].next, q), S) BY <1>6, <1>7, <2>1, SetSound
  <2> QED BY <2>2
<1>11. \A i \in 1..l : Linked(g, s[i].to)
  <2>1. /\ \A m \in DOMAIN h :
             /\ Linked(h, m) /\ m # u
             /\ q # Nil => \A j \in DOMAIN h[m].kids : h[m].kids[j] # q
             => Linked(Set(h, u, s[l].next, q), m)
        /\ /\ Linked(h, u)
           /\ q # Nil => \A j \in DOMAIN h[u].kids : h[u].kids[j] # q
           => Linked(Set(h, u, s[l].next, q), u)
    BY <1>7, SetLinks
  <2>2. ASSUME NEW i \in 1..l PROVE Linked(Set(h, u, s[l].next, q), s[i].to)
    <3>1. s[i].to \in DOMAIN h /\ Linked(h, s[i].to)
          /\ (q # Nil => \A j \in DOMAIN h[s[i].to].kids : h[s[i].to].kids[j] # q)
      BY <1>4, <1>5, <1>6
    <3>2. CASE s[i].to = u BY <2>1, <3>1, <3>2
    <3>3. CASE s[i].to # u BY <2>1, <3>1, <3>3
    <3> QED BY <3>2, <3>3
  <2> QED BY <2>2
<1> HIDE DEF g
<1>12. \A n \in L \ {Nil} : n \in 1..Len(h) /\ g[n].class = h[n].class
                          /\ DOMAIN g[n].kids = DOMAIN h[n].kids
                          /\ (n # u => g[n].kids = h[n].kids)
  <2>1. \A n \in L \ {Nil} : n \in 1..Len(h) BY <1>2 DEF Nil
  <2> QED BY <1>8, <2>1
<1>13. /\ \A i \in 1..l : s[i].to \in L \ {Nil} /\ s[i].to \notin T /\ Filled(h, s[i], G)
       /\ \A i \in 1..l : s[i].from \in V /\ s[i].from \in L \ {Nil} /\ s[i].from # u
       /\ \A i \in 1..l : i # l => s[i].to # u
  <2>1. \A i \in 1..l : s[i].to \in L \ T /\ Filled(h, s[i], G) BY <1>1 DEF Pass, Finishes
  <2>2. \A i \in 1..l : s[i].from \in V BY <1>1 DEF Pass, Visits
  <2>3. \A i \in 1..l : s[i].from \in T /\ s[i].from \in L \ {Nil} BY <1>2, <2>2
  <2>4. \A i \in 1..l : i # l => s[i].to # u BY <1>1 DEF Frames, u
  <2> QED BY <1>4, <1>7, <2>1, <2>2, <2>3, <2>4
<1>14. \A n \in T \ {Nil} : g[n].kids = h[n].kids BY <1>2, <1>7, <1>12
<1>15. Finishes(g, e, l, L, A, T, S)
  <2>1. Closed(g, T) /\ HeldOnce(g, T)
    <3>1. T \subseteq 0..Len(g) BY <1>2, <1>8
    <3> QED BY <1>2, <1>14, <3>1, ClosedKept
  <2>2. S \subseteq L /\ S \cap T \subseteq A
    <3>1. t \in L \ T BY <1>1 DEF Pass, Finishes, t
    <3> QED BY <1>2, <1>6, <3>1 DEF F
  <2>3. ASSUME NEW i \in 1..l PROVE Filled(g, e[i], S)
    <3>1. s[i].to \notin S BY <1>5, <1>6
    <3>2. \A j \in DOMAIN h[s[i].to].kids : j < s[i].next => h[s[i].to].kids[j] \in S
      <4>1. \A j \in DOMAIN h[s[i].to].kids : j < s[i].next => h[s[i].to].kids[j] \in F
        BY <1>13 DEF Filled, F
      <4> QED BY <1>6, <4>1
    <3>3. CASE i = l
      <4>1. s[i].to = u BY <3>3 DEF u
      <4>2. DOMAIN h[u].kids = DOMAIN h[s[l].from].kids BY <1>1 DEF Pass, Follows, u
      <4>3. ASSUME NEW j \in DOMAIN g[u].kids, j < s[l].next + 1 PROVE g[u].kids[j] \in S
        <5>1. j \in DOMAIN h[u].kids /\ j \in Nat /\ s[l].next \in Nat
          BY <1>1, <1>3, <1>4, <1>8, <4>2, <4>3
        <5>2. j < s[l].next \/ j = s[l].next BY <4>3, <5>1
        <5>3. CASE j = s[l].next BY <1>6, <1>8, <5>1, <5>3
        <5>4. CASE j # s[l].next BY <1>8, <3>2, <3>3, <4>1, <5>1, <5>2, <5>4
        <5> QED BY <5>3, <5>4
      <4> QED BY <1>3, <1>11, <3>1, <3>3, <4>1, <4>3 DEF Filled
    <3>4. CASE i # l
      <4>1. g[s[i].to].kids = h[s[i].to].kids BY <1>12, <1>13, <3>4
      <4> QED BY <1>3, <1>11, <3>1, <3>2, <3>4, <4>1 DEF Filled
    <3> QED BY <3>3, <3>4
  <2> QED BY <1>2, <1>3, <1>6, <1>10, <1>13, <2>1, <2>2, <2>3 DEF Finishes
<1>16. Follows(g, e, l)
  <2>1. ASSUME NEW i \in 1..l
        PROVE  /\ g[s[i].to].class = g[s[i].from].class
               /\ DOMAIN g[s[i].to].kids = DOMAIN g[s[i].from].kids
               /\ \A j \in DOMAIN g[s[i].from].kids :
                    j >= e[i].next => g[s[i].to].kids[j] = g[s[i].from].kids[j]
               /\ i # l => ~ (g[s[i].from].class = "Interval" /\ e[i].next = 1)
    <3>1. /\ g[s[i].to].class = h[s[i].to].class /\ g[s[i].from].class = h[s[i].from].class
          /\ DOMAIN g[s[i].to].kids = DOMAIN h[s[i].to].kids
          /\ g[s[i].from].kids = h[s[i].from].kids
      BY <1>12, <1>13
    <3>2. /\ h[s[i].to].class = h[s[i].from].class
          /\ DOMAIN h[s[i].to].kids = DOMAIN h[s[i].from].kids
          /\ \A j \in DOMAIN h[s[i].from].kids :
               j >= s[i].next => h[s[i].to].kids[j] = h[s[i].from].kids[j]
          /\ ~ (h[s[i].from].class = "Interval" /\ s[i].next = 1)
      BY <1>1 DEF Pass, Follows
    <3>3. ASSUME NEW j \in DOMAIN h[s[i].from].kids, j >= e[i].next
          PROVE  g[s[i].to].kids[j] = h[s[i].from].kids[j]
      <4>1. j \in Nat /\ s[i].next \in Nat BY <1>3, <1>4
      <4>2. CASE i = l
        <5>1. j >= s[i].next /\ j # s[i].next BY <1>3, <3>3, <4>1, <4>2
        <5>2. g[s[i].to].kids[j] = h[s[i].to].kids[j]
          BY <1>8, <3>2, <4>2, <5>1 DEF u
        <5> QED BY <3>2, <5>1, <5>2
      <4>3. CASE i # l
        <5>1. g[s[i].to].kids = h[s[i].to].kids BY <1>12, <1>13, <4>3
        <5> QED BY <1>3, <3>2, <3>3, <4>3, <5>1
      <4> QED BY <4>2, <4>3
    <3> QED BY <1>3, <3>1, <3>2, <3>3
  <2>2. ASSUME NEW i \in 1..l, NEW k \in 1..l, s[i].from = s[k].from PROVE i = k
    BY <1>1, <2>2 DEF Pass, Follows
  <2> QED BY ONLY <1>3, <2>1, <2>2 DEF Follows
<1>17. Visits(g, e, l, A, T, V)
  <2>1. ASSUME NEW n \in T \ {Nil}, NEW j \in DOMAIN g[n].kids, g[n].kids[j] \in V
        PROVE  /\ n \in V
               /\ \A i \in 1..l : e[i].from = n => j < e[i].next \/ (j = e[i].next /\ i # l)
    <3>1. j \in DOMAIN h[n].kids /\ h[n].kids[j] \in V BY <1>14, <2>1
    <3>2. n \in V /\ \A i \in 1..(l + 1) : s[i].from = n =>
            j < s[i].next \/ (j = s[i].next /\ i # l + 1)
      BY <2>1, <3>1 DEF Pass, Visits
    <3>3. ASSUME NEW i \in 1..l, e[i].from = n
          PROVE  j < e[i].next \/ (j = e[i].next /\ i # l)
      <4>1. j < s[i].next \/ j = s[i].next BY <1>1, <1>3, <3>2, <3>3
      <4>2. j \in Nat /\ s[i].next \in Nat BY <1>3, <1>4, <3>1, <3>3
      <4>3. CASE i = l BY <1>3, <4>1, <4>2, <4>3
      <4>4. CASE i # l BY <1>3, <4>1, <4>4
      <4> QED BY <4>3, <4>4
    <3> QED BY <3>2, <3>3
  <2> QED BY <1>2, <1>3, <1>13, <2>1 DEF Visits
<1>18. Takes(g, e, l, A, V, S)
  <2>1. ASSUME NEW n \in (S \ A) \cup {e[i].to : i \in 1..l}, NEW j \in DOMAIN g[n].kids,
               g[n].kids[j] \in A \ {Nil}
        PROVE  \E m \in V : \E k \in DOMAIN g[m].kids : g[m].kids[k] = g[n].kids[j]
    <3>1. n \in (G \ A) \cup {s[i].to : i \in 1..(l + 1)}
      <4>1. t \in {s[i].to : i \in 1..(l + 1)} BY <1>1 DEF t
      <4>2. CASE n \in S \ A BY <1>6, <4>1, <4>2 DEF F
      <4>3. CASE n \in {e[i].to : i \in 1..l} BY <1>1, <1>3, <4>3
      <4> QED BY <2>1, <4>2, <4>3
    <3>2. n \in L \ {Nil}
      <4>1. CASE n \in S \ A
        <5>1. t \in L BY <1>1 DEF Pass, Finishes, t
        <5> QED BY <1>2, <1>6, <4>1, <5>1 DEF F
      <4>2. CASE n \in {e[i].to : i \in 1..l} BY <1>3, <1>13, <4>2
      <4> QED BY <2>1, <4>1, <4>2
    <3>3. j \in DOMAIN h[n].kids /\ g[n].kids[j] = h[n].kids[j]
      <4>1. CASE n # u BY <1>12, <2>1, <3>2, <4>1
      <4>2. CASE n = u
        <5>1. q \notin A \ {Nil} BY <1>6
        <5> QED BY <1>8, <2>1, <4>2, <5>1
      <4> QED BY <4>1, <4>2
    <3>4. PICK m \in V : \E k \in DOMAIN h[m].kids : h[m].kids[k] = h[n].kids[j]
      BY <2>1, <3>1, <3>3 DEF Pass, Takes
    <3>5. g[m].kids = h[m].kids BY <1>2, <1>14
    <3> QED BY <3>3, <3>4, <3>5
  <2> QED BY <2>1 DEF Takes
<1>19. Pass(g, e, l, L, A, T, V, S) BY <1>9, <1>15, <1>16, <1>17, <1>18 DEF Pass
<1> QED BY <1>19 DEF g, u

\* What became of the root is the root of a tree, or nothing.
LEMMA PassReturns ==
  ASSUME NEW h, IsHeap(h), Acyclic(h), NEW s, Frames(h, s, 1),
         NEW L, NEW A, NEW T, NEW V, NEW G, Pass(h, s, 1, L, A, T, V, G),
         \A j \in DOMAIN h[s[1].from].kids : j < s[1].next, NEW holder,
         NEW q, q = Simplified(h, s[1].to, holder)
  PROVE  /\ IsTree(h, q)
         /\ q # Nil => q \in L \ A /\ \E S : Rooted(h, S, q)
<1> DEFINE t == s[1].to
           F == G \cup {t}
<1>1. 0 + 1 = 1 /\ 0 \in Nat /\ 1..0 = {} OBVIOUS
<1>2. Loose(h, 0, s, L, A, F, t)
  <2>1. Frames(h, s, 0 + 1) /\ Pass(h, s, 0 + 1, L, A, T, V, G) BY <1>1
  <2>2. \A j \in DOMAIN h[s[0 + 1].from].kids : j < s[0 + 1].next BY <1>1
  <2>3. Loose(h, 0, s, L, A, G \cup {s[0 + 1].to}, s[0 + 1].to) BY <1>1, <2>1, <2>2, TopLoose
  <2> QED BY <1>1, <2>3
<1>3. t # Nil /\ Amounts(h, L, A) BY FrameFacts DEF Frames, Pass, IsHeap, Nil
<1> HIDE DEF t, F
<1>4. Loose(h, 0, s, L, A, F, q)
  <2>1. \A i \in 1..0 : s[i].to \notin F /\ Linked(h, s[i].to) BY <1>1
  <2>2. Loose(h, 0, s, L, A, F, Simplified(h, t, holder)) BY <1>2, <1>3, <2>1, SimplifiedLoose
  <2> QED BY <2>2 DEF t
<1>5. PICK S : /\ Sound(h, S) /\ q \in S
               /\ q # Nil =>
                    /\ q \in L \ A
                    /\ \A n \in S \ {Nil} : \A j \in DOMAIN h[n].kids : h[n].kids[j] # q
  BY <1>4 DEF Loose
<1>6. IsTree(h, q) BY <1>5, SoundTree
<1>7. q # Nil => Rooted(h, S, q)
  <2>1. HeldOnce(h, S) /\ Closed(h, S) BY <1>5, SoundOnce DEF Sound
  <2> QED BY <1>5, <2>1 DEF Rooted
<1> QED BY <1>5, <1>6, <1>7

-----------------------------------------------------------------------------
\* A copy of an amount is an amount, from its first node on.
LEMMA BlankAmounts ==
  ASSUME NEW h, IsHeap(h), NEW L, NEW A, Amounts(h, L, A), NEW n \in L \ {Nil},
         NEW B, B = A \/ (n \in A /\ B = A \cup {Len(h) + 1})
  PROVE  Amounts(Blank(h, n), L \cup {Len(h) + 1}, B)
<1> DEFINE g == Blank(h, n)
           w == Len(h) + 1
           M == L \cup {w}
<1>1. /\ Closed(h, L) /\ Sound(h, A) /\ Closed(h, A) /\ Nil \in A /\ A \subseteq L
      /\ L \subseteq 0..Len(h) /\ Len(h) \in Nat /\ DOMAIN h = 1..Len(h)
  BY DEF Amounts, Sound, Closed, IsHeap
<1>2. n \in DOMAIN h BY <1>1, ClosedNode
<1>3. /\ IsHeap(g) /\ Len(g) = w
      /\ \A i \in DOMAIN g[Len(g)].kids : g[Len(g)].kids[i] = Nil
      /\ \A m \in 1..Len(h) : g[m] = h[m]
  BY <1>2, BlankFacts
<1>4. g[Len(h) + 1].class = h[n].class BY <1>2, BlankNode
<1> HIDE DEF g
<1>5. g[w].class = h[n].class /\ \A i \in DOMAIN g[w].kids : g[w].kids[i] = Nil
  BY <1>3, <1>4
<1>6. w \notin L /\ w # Nil /\ w \in M /\ L \subseteq M /\ M \subseteq 0..Len(g)
  <2>1. w \notin L /\ w # Nil BY <1>1 DEF Nil
  <2>2. \A m \in 0..Len(h) : m \in 0..Len(g) BY <1>1, <1>3
  <2>3. w \in 0..Len(g) BY <1>1, <1>3
  <2> QED BY <1>1, <2>1, <2>2, <2>3
<1> HIDE DEF w
<1>7. \A m \in L \ {Nil} : m \in 1..Len(h) /\ g[m] = h[m]
  <2>1. \A m \in L \ {Nil} : m \in 1..Len(h) BY <1>1 DEF Nil
  <2> QED BY <1>3, <2>1
<1>8. A \subseteq B /\ B \subseteq A \cup {w} /\ B \subseteq M /\ (w \in B => n \in A)
  BY <1>1, <1>6 DEF w
<1>9. Closed(g, M)
  <2>1. \A m \in M \ {Nil} : \A i \in DOMAIN g[m].kids : g[m].kids[i] \in M
    BY <1>1, <1>5, <1>6, <1>7 DEF Closed
  <2> QED BY <1>1, <1>6, <2>1 DEF Closed
<1>10. Sound(g, B)
  <2>1. Closed(g, B)
    <3>1. \A m \in B \ {Nil} : \A i \in DOMAIN g[m].kids : g[m].kids[i] \in B
      BY <1>1, <1>5, <1>7, <1>8 DEF Closed
    <3> QED BY <1>1, <1>6, <1>8, <3>1 DEF Closed
  <2>2. ASSUME NEW m \in A \ {Nil} PROVE Linked(g, m)
    <3>1. Linked(h, m) /\ g[m].kids = h[m].kids BY <1>1, <1>7 DEF Sound
    <3>2. \A i \in DOMAIN h[m].kids : h[m].kids[i] \in A BY <1>1 DEF Closed
    <3>3. \A i \in DOMAIN h[m].kids :
            h[m].kids[i] # Nil => g[h[m].kids[i]].parent = h[h[m].kids[i]].parent
      BY <1>1, <1>7, <3>2
    <3> QED BY <3>1, <3>3, LinkedKept
  <2>3. Linked(g, w) BY <1>5 DEF Linked
  <2>4. \A m \in B \ {Nil} : m = w \/ m \in A \ {Nil} BY <1>8
  <2> QED BY <2>1, <2>2, <2>3, <2>4 DEF Sound
<1>11. \A m \in B \ {Nil} : ~ Wrapped(g[m].class)
  BY <1>1, <1>5, <1>7, <1>8 DEF Amounts
<1>12. ASSUME NEW m \in M \ B, NEW i \in DOMAIN g[m].kids, g[m].kids[i] \in B \ {Nil}
       PROVE  /\ g[m].class = "Interval" /\ i = 1
              /\ \A a \in B \ {Nil} : \A j \in DOMAIN g[a].kids : g[a].kids[j] # g[m].kids[i]
  <2>1. m # w /\ m \in L \ A /\ m \in L \ {Nil} BY <1>1, <1>5, <1>8, <1>12
  <2>2. g[m] = h[m] BY <1>7, <2>1
  <2>3. h[m].kids[i] \in A \ {Nil} /\ i \in DOMAIN h[m].kids
    BY <1>1, <1>6, <1>8, <1>12, <2>1, <2>2 DEF Closed
  <2>4. /\ h[m].class = "Interval" /\ i = 1
        /\ \A a \in A \ {Nil} : \A j \in DOMAIN h[a].kids : h[a].kids[j] # h[m].kids[i]
    BY <2>1, <2>3 DEF Amounts
  <2>5. \A a \in A \ {Nil} : g[a] = h[a] BY <1>1, <1>7
  <2>6. \A j \in DOMAIN g[w].kids : g[w].kids[j] # g[m].kids[i] BY <1>5, <1>12
  <2> QED BY <1>8, <2>2, <2>4, <2>5, <2>6
<1>13. \A m \in M \ {Nil} : g[m].class = "Interval" /\ 1 \in DOMAIN g[m].kids => g[m].kids[1] \in B
  BY <1>1, <1>5, <1>7, <1>8 DEF Amounts
<1>14. Amounts(g, M, B) BY <1>8, <1>9, <1>10, <1>11, <1>12, <1>13 DEF Amounts
<1> QED BY <1>14 DEF g, w

\* It is set where the amount was, or in the copy of what held it there.
LEMMA CopiedAmounts ==
  ASSUME NEW h, IsHeap(h), NEW L, NEW A, Amounts(h, L, A), NEW n \in L \ {Nil}, NEW i,
         NEW k \in L \ {Nil}, k # n, Unheld(h, k), n \in A => k \in A,
         n \notin A => (k \in A <=> h[n].class = "Interval" /\ i = 1)
  PROVE  Amounts(Set(h, n, i, k), L, A)
<1> DEFINE g == Set(h, n, i, k)
<1>1. /\ Closed(h, L) /\ Sound(h, A) /\ Closed(h, A) /\ Nil \in A /\ A \subseteq L
      /\ L \subseteq 0..Len(h) /\ Len(h) \in Nat /\ DOMAIN h = 1..Len(h)
  BY DEF Amounts, Sound, Closed, IsHeap
<1>2. n \in DOMAIN h /\ k \in 0..Len(h) /\ k \in DOMAIN h BY <1>1, ClosedNode
<1>3. /\ IsHeap(g) /\ Len(g) = Len(h)
      /\ \A m \in 1..Len(h) : g[m].class = h[m].class
      /\ \A m \in 1..Len(h) : m # n => g[m].kids = h[m].kids
      /\ DOMAIN g[n].kids = DOMAIN h[n].kids
      /\ \A j \in DOMAIN h[n].kids : g[n].kids[j] = IF j = i THEN k ELSE h[n].kids[j]
  BY <1>2, SetFacts
<1>4. \A m \in L \ {Nil} : /\ m \in DOMAIN h /\ g[m].class = h[m].class
                           /\ DOMAIN g[m].kids = DOMAIN h[m].kids
                           /\ \A j \in DOMAIN h[m].kids : h[m].kids[j] # k
                           /\ \A j \in DOMAIN h[m].kids :
                                g[m].kids[j] = IF m = n /\ j = i THEN k ELSE h[m].kids[j]
  <2>1. \A m \in L \ {Nil} : m \in DOMAIN h /\ m \in 1..Len(h) BY <1>1, ClosedNode
  <2>2. \A m \in L \ {Nil} : \A j \in DOMAIN h[m].kids : h[m].kids[j] # k BY <2>1 DEF Unheld
  <2> HIDE DEF g
  <2>3. ASSUME NEW m \in L \ {Nil}
        PROVE  /\ g[m].class = h[m].class /\ DOMAIN g[m].kids = DOMAIN h[m].kids
               /\ \A j \in DOMAIN h[m].kids :
                    g[m].kids[j] = IF m = n /\ j = i THEN k ELSE h[m].kids[j]
    <3>1. CASE m = n BY <1>3, <2>1, <3>1
    <3>2. CASE m # n BY <1>3, <2>1, <3>2
    <3> QED BY <3>1, <3>2
  <2> QED BY <2>1, <2>2, <2>3
<1>5. \A m \in L \ {Nil} : Linked(h, m) => Linked(g, m)
  <2>1. /\ \A m \in DOMAIN h :
             /\ Linked(h, m) /\ m # n
             /\ k # Nil => \A j \in DOMAIN h[m].kids : h[m].kids[j] # k
             => Linked(g, m)
        /\ /\ Linked(h, n)
           /\ k # Nil => \A j \in DOMAIN h[n].kids : h[n].kids[j] # k
           => Linked(g, n)
    BY <1>2, SetLinks
  <2> HIDE DEF g
  <2> QED BY <1>4, <2>1
<1> HIDE DEF g
<1>6. Closed(g, L)
  <2>1. \A m \in L \ {Nil} : \A j \in DOMAIN g[m].kids : g[m].kids[j] \in L
    BY <1>1, <1>4 DEF Closed
  <2> QED BY <1>1, <1>3, <2>1 DEF Closed
<1>7. Sound(g, A)
  <2>1. \A m \in A \ {Nil} : \A j \in DOMAIN g[m].kids : g[m].kids[j] \in A
    BY <1>1, <1>4 DEF Closed
  <2>2. Closed(g, A) BY <1>1, <1>3, <2>1 DEF Closed
  <2> QED BY <1>1, <1>5, <2>2 DEF Sound
<1>8. \A m \in A \ {Nil} : ~ Wrapped(g[m].class) BY <1>1, <1>4 DEF Amounts
<1>9. ASSUME NEW m \in L \ A, NEW j \in DOMAIN g[m].kids, g[m].kids[j] \in A \ {Nil}
      PROVE  /\ g[m].class = "Interval" /\ j = 1
             /\ \A a \in A \ {Nil} : \A b \in DOMAIN g[a].kids : g[a].kids[b] # g[m].kids[j]
  <2>1. m \in L \ {Nil} BY <1>1
  <2>2. CASE m = n /\ j = i
    <3>1. g[m].kids[j] = k BY <1>4, <1>9, <2>1, <2>2
    <3>2. h[n].class = "Interval" /\ i = 1 BY <1>9, <2>2, <3>1
    <3>3. \A a \in A \ {Nil} : a \in L \ {Nil} /\ a # n BY <1>1, <1>9, <2>2
    <3>4. \A a \in A \ {Nil} : \A b \in DOMAIN g[a].kids : g[a].kids[b] # k BY <1>4, <3>3
    <3> QED BY <1>4, <2>1, <2>2, <3>1, <3>2, <3>4
  <2>3. CASE ~ (m = n /\ j = i)
    <3>1. g[m].kids[j] = h[m].kids[j] /\ j \in DOMAIN h[m].kids BY <1>4, <1>9, <2>1, <2>3
    <3>2. /\ h[m].class = "Interval" /\ j = 1
          /\ \A a \in A \ {Nil} : \A b \in DOMAIN h[a].kids : h[a].kids[b] # h[m].kids[j]
      BY <1>9, <3>1 DEF Amounts
    <3>3. h[m].kids[j] # k BY <1>4, <2>1, <3>1
    <3>4. \A a \in A \ {Nil} : a \in L \ {Nil} BY <1>1
    <3>5. \A a \in A \ {Nil} : \A b \in DOMAIN g[a].kids : g[a].kids[b] # h[m].kids[j]
      BY <1>4, <3>2, <3>3, <3>4
    <3> QED BY <1>4, <2>1, <3>1, <3>2, <3>5
  <2> QED BY <2>2, <2>3
<1>10. ASSUME NEW m \in L \ {Nil}, g[m].class = "Interval", 1 \in DOMAIN g[m].kids
       PROVE  g[m].kids[1] \in A
  <2>1. h[m].class = "Interval" /\ 1 \in DOMAIN h[m].kids BY <1>4, <1>10
  <2>2. h[m].kids[1] \in A BY <2>1 DEF Amounts
  <2>3. CASE m = n /\ i = 1 BY <1>4, <2>1, <2>3
  <2>4. CASE ~ (m = n /\ i = 1) BY <1>4, <2>1, <2>2, <2>4
  <2> QED BY <2>3, <2>4
<1>11. Amounts(g, L, A) BY <1>1, <1>6, <1>7, <1>8, <1>9, <1>10 DEF Amounts
<1> QED BY <1>11 DEF g

-----------------------------------------------------------------------------
\* L are the nodes that may be reached from what the caller holds or the call is
\* making, but for what a T-SQL Generate makes and drops; A are amounts.
RootsLive(L, A) ==
  \A r \in roots :
    /\ r \in L \ A
    /\ \E T : Rooted(heap, T, r) /\ (call.phase # "idle" => T \subseteq 0..call.owned)

\* What is copied and its copy are amounts together.
CopiesLive(L, A) ==
  call.phase = "copy" /\ call.op = "copy" =>
    /\ \A i \in DOMAIN stack : /\ stack[i].from \in L /\ stack[i].to \in L
                               /\ stack[i].to \in A <=> stack[i].from \in A
    /\ 1 \in DOMAIN stack => stack[1].from \notin A

LiveWith(L, A) ==
  /\ Amounts(heap, L, A)
  /\ RootsLive(L, A)
  /\ call.phase # "idle" /\ call.op = "tsql" => L \subseteq 0..call.owned
  /\ call.phase = "write" /\ call.op # "tsql" => \A i \in DOMAIN todo : todo[i] \in L
  /\ CopiesLive(L, A)
  /\ call.phase = "simplify" =>
       \E T, V, G : Pass(heap, stack, Len(stack), L, A, T, V, G)
Live == \E L, A : LiveWith(L, A)

\* While a call is served, the trees held before it stay what they were.
LEMMA RootsStay ==
  ASSUME Inv, Inv', Kept, call.phase # "idle", roots' = roots, call'.owned = call.owned,
         NEW L, NEW A, RootsLive(L, A), NEW M, NEW B, L \subseteq M, B \cap L \subseteq A
  PROVE  RootsLive(M, B)'
<1>1. IsHeap(heap') /\ DOMAIN heap' = 1..Len(heap') /\ Len(heap') \in Nat /\ call.owned \in Nat
  BY DEF Inv, HeapInv, CallInv, IsHeap
<1>2. \A n \in 1..call.owned : n \in DOMAIN heap' /\ heap'[n].kids = heap[n].kids
  BY DEF Kept, SameArguments
<1>3. ASSUME NEW r \in roots
      PROVE  r \in M \ B /\ \E T : Rooted(heap', T, r) /\ T \subseteq 0..call.owned
  <2>1. PICK T : Rooted(heap, T, r) /\ T \subseteq 0..call.owned BY DEF RootsLive
  <2>2. \A n \in T \ {Nil} : n \in 1..call.owned BY <1>1, <2>1 DEF Nil
  <2>3. T \subseteq 0..Len(heap')
    <3>1. Nil \in 0..Len(heap') BY <1>1 DEF Nil
    <3>2. \A n \in T \ {Nil} : n \in 0..Len(heap') BY <1>1, <1>2, <2>2
    <3> QED BY <3>1, <3>2
  <2>4. Rooted(heap', T, r)
    <3>1. \A n \in T \ {Nil} : heap'[n].kids = heap[n].kids BY <1>2, <2>2
    <3> QED BY <2>1, <2>3, <3>1, ClosedKept DEF Rooted
  <2> QED BY <2>1, <2>4 DEF RootsLive
<1> QED BY <1>3 DEF RootsLive

\* A step of a T-SQL Generate makes none of these nodes.
LEMMA TSQLLive ==
  ASSUME Inv, Inv', Kept, call.phase # "idle", call.op = "tsql", call'.op = "tsql",
         call'.phase \notin {"idle", "simplify"}, roots' = roots, call'.owned = call.owned,
         NEW L, NEW A, LiveWith(L, A)
  PROVE  LiveWith(L, A)'
<1>1. /\ IsHeap(heap) /\ DOMAIN heap' = 1..Len(heap') /\ Len(heap') \in Nat /\ call.owned \in Nat
  BY DEF Inv, HeapInv, CallInv, IsHeap
<1>2. L \subseteq 0..call.owned /\ Amounts(heap, L, A) BY DEF LiveWith
<1>3. SameNodes(heap, heap', call.owned) BY DEF Kept, CopyFirst
<1>4. Amounts(heap', L, A) BY <1>1, <1>2, <1>3, AmountsSame
<1>5. RootsLive(L, A)'
  <2>1. RootsLive(L, A) BY DEF LiveWith
  <2> QED BY <2>1, RootsStay
<1> QED BY <1>2, <1>4, <1>5 DEF LiveWith, CopiesLive

LEMMA FramesOfStack ==
  ASSUME Inv, NoCycle, call.phase \in {"copy", "simplify"}
  PROVE  Frames(heap, stack, Len(stack))
<1>1. stack \in Seq(FramesOver(heap)) /\ Len(stack) \in Nat /\ DOMAIN stack = 1..Len(stack)
  BY DEF Inv, StackInv
<1>2. /\ \A i \in DOMAIN stack : Unheld(heap, stack[i].to)
      /\ \A i, j \in DOMAIN stack : i < j => stack[i].to # stack[j].to
  BY DEF NoCycle, OpenInv
<1>3. \A i, k \in 1..Len(stack) : stack[i].to = stack[k].to => i = k
  <2>1. \A i, k \in 1..Len(stack) : i # k => i < k \/ k < i BY <1>1
  <2> QED BY <1>1, <1>2, <2>1
<1>4. \A i \in 1..Len(stack) : stack[i] \in FramesOver(heap) BY <1>1
<1> QED BY <1>1, <1>2, <1>3, <1>4 DEF Frames

\* The slots of the top frame.
LEMMA TopSlots ==
  ASSUME Inv, Copying
  PROVE  /\ AtChild => Top.next \in DOMAIN heap[Top.from].kids
         /\ ~ AtChild => \A j \in DOMAIN heap[Top.from].kids : j < Top.next
<1>1. Top.from \in DOMAIN heap /\ Top \in FramesOver(heap) /\ IsHeap(heap)
  BY TopFacts DEF Inv, HeapInv
<1>2. heap[Top.from].kids \in Seq(0..Len(heap)) /\ Top.next \in Nat /\ Top.next > 0
  BY <1>1, HeapFacts, FrameFacts
<1> QED BY <1>2 DEF AtChild

-----------------------------------------------------------------------------
\* The steps of the recursion, in Copy.
LEMMA SkipCopiesLive ==
  ASSUME Inv, SkipChild, NEW L, NEW A, CopiesLive(L, A)
  PROVE  CopiesLive(L, A)'
<1>1. call' = call BY DEF SkipChild
<1>2. /\ DOMAIN stack = 1..Len(stack) /\ DOMAIN stack' = 1..Len(stack)
      /\ \A i \in 1..Len(stack) :
           stack'[i] = IF i = Len(stack)
                       THEN [from |-> stack[i].from, to |-> stack[i].to,
                             next |-> stack[i].next + 1]
                       ELSE stack[i]
  BY FrameSkipped
<1>3. ASSUME NEW i \in 1..Len(stack)
      PROVE  stack'[i].from = stack[i].from /\ stack'[i].to = stack[i].to
  <2>1. CASE i = Len(stack)
    <3>1. stack'[i] = [from |-> stack[i].from, to |-> stack[i].to, next |-> stack[i].next + 1]
      BY <1>2, <2>1
    <3> QED BY <3>1
  <2>2. CASE i # Len(stack) BY <1>2, <2>2
  <2> QED BY <2>1, <2>2
<1> QED BY <1>1, <1>2, <1>3 DEF CopiesLive

LEMMA EnterCopies ==
  ASSUME Inv, EnterChild, call.phase = "copy", call.op = "copy",
         NEW L, NEW A, Amounts(heap, L, A), CopiesLive(L, A)
  PROVE  \E M, B : /\ L \subseteq M /\ B \cap L \subseteq A
                   /\ Amounts(heap', M, B) /\ CopiesLive(M, B)'
<1> DEFINE l == Len(stack)
           w == Len(heap) + 1
<1>1. /\ DOMAIN stack' = 1..(l + 1) /\ l \in DOMAIN stack /\ DOMAIN stack = 1..l /\ l \in Nat
      /\ stack'[l + 1] = [from |-> Child, to |-> w, next |-> 1]
      /\ \A i \in 1..l : stack'[i] = stack[i]
  BY FrameEntered
<1>2. Child \in DOMAIN heap /\ heap' = Blank(heap, Child) /\ call' = call
      /\ Top.next \in DOMAIN heap[Top.from].kids
  BY ChildFacts DEF EnterChild
<1>3. IsHeap(heap) /\ DOMAIN heap = 1..Len(heap) /\ Len(heap) \in Nat BY DEF Inv, HeapInv, IsHeap
<1>4. Closed(heap, L) /\ L \subseteq 0..Len(heap) /\ A \subseteq L BY DEF Amounts, Closed
<1>5. Child \in L \ {Nil}
  <2>1. Top.from \in L \ {Nil}
    <3>1. Top = stack[l] /\ Top.from \in L BY <1>1 DEF Top, CopiesLive
    <3>2. Top.from \in DOMAIN heap BY TopFacts DEF EnterChild
    <3> QED BY <1>3, <3>1, <3>2 DEF Nil
  <2>2. Child \in L BY <1>2, <1>4, <2>1 DEF Closed, Child
  <2> QED BY <1>2, <1>3, <2>2 DEF Nil
<1> DEFINE M == L \cup {w}
           B == IF Child \in A THEN A \cup {w} ELSE A
<1>6. Amounts(heap', M, B)
  <2> HIDE DEF B
  <2>1. B = A \/ (Child \in A /\ B = A \cup {w}) BY DEF B
  <2>2. Amounts(Blank(heap, Child), L \cup {Len(heap) + 1}, B) BY <1>3, <1>5, <2>1, BlankAmounts
  <2> QED BY <1>2, <2>2
<1>7. w \notin L /\ w \notin A BY <1>3, <1>4
<1>8. PICK N, D : N = M /\ D = B OBVIOUS
<1>9. \A i \in 1..(l + 1) : /\ stack'[i].from \in M /\ stack'[i].to \in M
                            /\ stack'[i].to \in B <=> stack'[i].from \in B
  <2>1. ASSUME NEW i \in 1..l
        PROVE  /\ stack'[i].from \in M /\ stack'[i].to \in M
               /\ stack'[i].to \in B <=> stack'[i].from \in B
    <3>1. stack'[i] = stack[i] /\ stack[i].from \in L /\ stack[i].to \in L
          /\ (stack[i].to \in A <=> stack[i].from \in A)
      BY <1>1, <2>1 DEF CopiesLive
    <3> QED BY <1>7, <3>1
  <2>2. /\ stack'[l + 1].from = Child /\ stack'[l + 1].to = w BY <1>1
  <2>3. (w \in B <=> Child \in B) /\ Child \in M /\ w \in M
    <3>1. Child # w BY <1>5, <1>7
    <3> QED BY <1>5, <1>7, <3>1
  <2>4. \A i \in 1..(l + 1) : i \in 1..l \/ i = l + 1 BY <1>1
  <2> HIDE DEF M, B
  <2> QED BY <2>1, <2>2, <2>3, <2>4
<1>10. 1 \in DOMAIN stack' => stack'[1].from \notin B
  <2>1. 1 \in DOMAIN stack /\ 1 \in 1..l BY <1>1
  <2>2. stack'[1] = stack[1] /\ stack[1].from \notin A /\ stack[1].from \in L
    BY <1>1, <2>1 DEF CopiesLive
  <2> QED BY <1>7, <2>2
<1>11. CopiesLive(N, D)' BY <1>1, <1>8, <1>9, <1>10 DEF CopiesLive
<1>12. L \subseteq N /\ D \cap L \subseteq A BY <1>7, <1>8
<1> HIDE DEF M, B
<1> QED BY <1>6, <1>8, <1>11, <1>12

LEMMA LeaveCopies ==
  ASSUME Inv, NoCycle, Deep, LeaveChild, call.phase = "copy", call.op = "copy",
         NEW L, NEW A, Amounts(heap, L, A), CopiesLive(L, A)
  PROVE  Amounts(heap', L, A) /\ CopiesLive(L, A)'
<1> DEFINE l == Len(stack) - 1
           up == stack[l]
<1>1. /\ l \in Nat /\ l > 0 /\ l \in DOMAIN stack /\ l + 1 \in DOMAIN stack
      /\ Top = stack[l + 1] /\ DOMAIN stack = 1..(l + 1)
      /\ DOMAIN stack' = 1..l
      /\ \A i \in 1..l :
           stack'[i] = IF i = l
                       THEN [from |-> stack[i].from, to |-> stack[i].to,
                             next |-> stack[i].next + 1]
                       ELSE stack[i]
      /\ \A i \in 1..(l + 1) : stack[i] \in FramesOver(heap)
      /\ heap' = Set(heap, up.to, up.next, Outcome)
  BY FrameLeft
<1>2. Copying /\ call' = call BY DEF LeaveChild
<1>3. IsHeap(heap) /\ DOMAIN heap = 1..Len(heap) /\ Len(heap) \in Nat BY DEF Inv, HeapInv, IsHeap
<1>4. Outcome = Top.to /\ Unheld(heap, Top.to)
  <2>1. Outcome = Top.to BY <1>2, OutcomeType
  <2> QED BY <1>1, <2>1 DEF NoCycle, OpenInv
<1>5. /\ \A i \in 1..(l + 1) : stack[i].to \in DOMAIN heap /\ stack[i].from \in DOMAIN heap
      /\ \A i \in 1..(l + 1) : stack[i].to # Nil /\ stack[i].from # Nil
  <2>1. \A i \in 1..(l + 1) : stack[i].to \in DOMAIN heap /\ stack[i].from \in DOMAIN heap
    BY <1>1, <1>3, FrameFacts
  <2> QED BY <1>3, <2>1 DEF Nil
<1>6. \A i \in 1..(l + 1) : /\ stack[i].from \in L /\ stack[i].to \in L
                            /\ stack[i].to \in A <=> stack[i].from \in A
  BY <1>1 DEF CopiesLive
<1>7. l \in 1..(l + 1) /\ l + 1 \in 1..(l + 1) /\ l < l + 1 /\ \A i \in 1..l : i \in 1..(l + 1)
  <2>1. l \in Nat /\ l > 0 BY <1>1
  <2> HIDE DEF l
  <2> QED BY <2>1
<1>8. up.to # Top.to BY <1>1, <1>7 DEF NoCycle, OpenInv
<1>9. /\ heap[up.to].class = heap[up.from].class
      /\ up.next \in DOMAIN heap[up.from].kids
      /\ Top.from = heap[up.from].kids[up.next]
  <2>1. Twin(heap, up) BY <1>1 DEF Deep, Twinned
  <2>2. /\ up.next \in DOMAIN heap[up.from].kids
        /\ stack[l + 1].from = heap[up.from].kids[up.next]
    BY <1>1 DEF Deep, Twinned
  <2> QED BY <1>1, <2>1, <2>2 DEF Twin
<1>10. /\ up.to \in L \ {Nil} /\ up.from \in L \ {Nil} /\ (up.to \in A <=> up.from \in A)
       /\ Top.to \in L \ {Nil} /\ Top.from \in L \ {Nil} /\ (Top.to \in A <=> Top.from \in A)
  BY <1>1, <1>5, <1>6, <1>7
<1> HIDE DEF l, up
<1>11. up.to \in A => Top.to \in A
  <2>1. up.from \in A => Top.from \in A BY <1>9, <1>10 DEF Amounts, Sound, Closed
  <2> QED BY <1>10, <2>1
<1>12. up.to \notin A => (Top.to \in A <=> heap[up.to].class = "Interval" /\ up.next = 1)
  <2>1. ASSUME up.from \notin A
        PROVE  Top.from \in A <=> heap[up.from].class = "Interval" /\ up.next = 1
    <3>1. up.from \in L \ A /\ Top.from \in L \ {Nil} BY <1>10, <2>1
    <3>2. Top.from \in A => heap[up.from].class = "Interval" /\ up.next = 1
      BY <1>9, <3>1 DEF Amounts
    <3>3. heap[up.from].class = "Interval" /\ up.next = 1 => Top.from \in A
      BY <1>9, <1>10 DEF Amounts
    <3> QED BY <3>2, <3>3
  <2> QED BY <1>9, <1>10, <2>1
<1>13. Amounts(heap', L, A)
  <2>1. Amounts(Set(heap, up.to, up.next, Top.to), L, A)
    BY <1>3, <1>4, <1>8, <1>10, <1>11, <1>12, CopiedAmounts
  <2> QED BY <1>1, <1>4, <2>1
<1>14. CopiesLive(L, A)'
  <2>1. \A i \in 1..l : stack'[i].from = stack[i].from /\ stack'[i].to = stack[i].to BY <1>1
  <2>2. 1 \in DOMAIN stack BY <1>1
  <2> QED BY <1>1, <1>2, <1>6, <1>7, <2>1, <2>2 DEF CopiesLive
<1> QED BY <1>13, <1>14

-----------------------------------------------------------------------------
\* The same in Simplify.
LEMMA SkipPass ==
  ASSUME Inv, NoCycle, SkipChild, call.phase = "simplify",
         NEW L, NEW A, NEW T, NEW V, NEW G, Pass(heap, stack, Len(stack), L, A, T, V, G)
  PROVE  Pass(heap', stack', Len(stack'), L, A, T, V, G)
<1> DEFINE l == Len(stack)
<1>1. heap' = heap /\ PassedOver /\ Copying /\ AtChild /\ stack' = Advanced(stack) BY DEF SkipChild
<1>2. /\ DOMAIN stack' = 1..l /\ l \in Nat
      /\ \A i \in 1..l :
           stack'[i] = IF i = l
                       THEN [from |-> stack[i].from, to |-> stack[i].to,
                             next |-> stack[i].next + 1]
                       ELSE stack[i]
  BY FrameSkipped
<1>3. l > 0 /\ Frames(heap, stack, l) /\ IsHeap(heap)
  BY <1>1, TopFacts, FramesOfStack DEF Inv, HeapInv
<1>4. Top.next \in DOMAIN heap[Top.from].kids BY <1>1, TopSlots
<1>5. \/ heap[Top.from].kids[Top.next] = Nil
      \/ heap[Top.from].class = "Interval" /\ Top.next = 1
  BY <1>1 DEF PassedOver, Child
<1>6. Len(stack') = l
  <2>1. stack' \in Seq(FramesOver(heap))
    BY <1>1, TopFacts, AdvancedFacts DEF Inv, StackInv
  <2> QED BY <1>2, <2>1
<1>7. Top = stack[l] BY DEF Top
<1> HIDE DEF l
<1>8. Pass(heap, stack, l, L, A, T, V, G) BY DEF l
<1>9. Pass(heap, stack', l, L, A, T, V, G)
  BY <1>2, <1>3, <1>4, <1>5, <1>7, <1>8, PassSkips
<1> QED BY <1>1, <1>6, <1>9

LEMMA EnterPass ==
  ASSUME Inv, NoCycle, EnterChild, call.phase = "simplify",
         NEW L, NEW A, NEW T, NEW V, NEW G, Pass(heap, stack, Len(stack), L, A, T, V, G)
  PROVE  Pass(heap', stack', Len(stack'), L \cup {Len(heap) + 1}, A, T, V \cup {Child}, G)
<1> DEFINE l == Len(stack)
<1>1. /\ Copying /\ AtChild /\ ~ PassedOver /\ heap' = ShallowCopy(heap, Child)
      /\ stack' = Append(stack, Frame(Child, Len(heap) + 1))
  BY DEF EnterChild
<1>2. /\ DOMAIN stack' = 1..(l + 1) /\ l \in Nat
      /\ stack'[l + 1] = [from |-> Child, to |-> Len(heap) + 1, next |-> 1]
      /\ \A i \in 1..l : stack'[i] = stack[i]
  BY FrameEntered
<1>3. l > 0 /\ Frames(heap, stack, l) /\ IsHeap(heap)
  BY <1>1, TopFacts, FramesOfStack DEF Inv, HeapInv
<1>4. Top.next \in DOMAIN heap[Top.from].kids /\ Child = heap[Top.from].kids[Top.next]
  BY <1>1, TopSlots DEF Child
<1>5. /\ Child # Nil
      /\ ~ (heap[Top.from].class = "Interval" /\ Top.next = 1)
  BY <1>1 DEF PassedOver
<1>6. Len(stack') = l + 1
  <2>1. Len(Append(stack, Frame(Child, Len(heap) + 1))) = Len(stack) + 1
    <3>1. stack \in Seq(FramesOver(heap)) BY DEF Inv, StackInv
    <3> QED BY <3>1
  <2> QED BY <1>1, <2>1
<1>7. Top = stack[l] BY DEF Top
<1>8. PICK c, e : c = Child /\ e = stack' OBVIOUS
<1> HIDE DEF l
<1>9. Pass(heap, stack, l, L, A, T, V, G) BY DEF l
<1>10. /\ stack[l].next \in DOMAIN heap[stack[l].from].kids
       /\ c = heap[stack[l].from].kids[stack[l].next] /\ c # Nil
       /\ ~ (heap[stack[l].from].class = "Interval" /\ stack[l].next = 1)
  BY <1>4, <1>5, <1>7, <1>8
<1>11. /\ DOMAIN e = 1..(l + 1) /\ \A i \in 1..l : e[i] = stack[i]
       /\ e[l + 1] = [from |-> c, to |-> Len(heap) + 1, next |-> 1]
  BY <1>2, <1>8
<1>12. Pass(ShallowCopy(heap, c), e, l + 1, L \cup {Len(heap) + 1}, A, T, V \cup {c}, G)
  BY <1>3, <1>9, <1>10, <1>11, PassEnters
<1> QED BY <1>1, <1>6, <1>8, <1>12

LEMMA LeavePass ==
  ASSUME Inv, NoCycle, LeaveChild, call.phase = "simplify",
         NEW L, NEW A, NEW T, NEW V, NEW G, Pass(heap, stack, Len(stack), L, A, T, V, G)
  PROVE  \E S : Pass(heap', stack', Len(stack'), L, A, T, V, S)
<1> DEFINE l == Len(stack) - 1
           holder == heap[stack[l].to].class
<1>1. Copying /\ ~ AtChild /\ stack' = Advanced(Below) /\ Len(stack) > 1 BY DEF LeaveChild
<1>2. /\ l \in Nat /\ l > 0 /\ l + 1 = Len(stack) /\ Top = stack[l + 1]
      /\ DOMAIN stack' = 1..l
      /\ \A i \in 1..l :
           stack'[i] = IF i = l
                       THEN [from |-> stack[i].from, to |-> stack[i].to,
                             next |-> stack[i].next + 1]
                       ELSE stack[i]
      /\ heap' = Set(heap, stack[l].to, stack[l].next, Outcome)
  BY FrameLeft
<1>3. Frames(heap, stack, l + 1) /\ IsHeap(heap)
  <2>1. Frames(heap, stack, Len(stack)) BY FramesOfStack
  <2> QED BY <1>2, <2>1 DEF Inv, HeapInv
<1>4. \A j \in DOMAIN heap[Top.from].kids : j < Top.next BY <1>1, TopSlots
<1>5. Outcome = Simplified(heap, Top.to, holder)
  <2>1. Len(stack) \in Nat BY <1>1, TopFacts
  <2>2. Len(stack) # 1
    <3>1. Len(stack) > 1 BY <1>1
    <3>2. \A n \in Nat : n > 1 => n # 1 OBVIOUS
    <3> QED BY <2>1, <3>1, <3>2
  <2>3. call.phase # "copy" OBVIOUS
  <2> QED BY <2>2, <2>3 DEF Outcome
<1>6. Len(stack') = l
  <2>1. Below \in Seq(FramesOver(heap)) /\ Len(Below) = l BY <1>1, BelowFacts
  <2>2. stack' \in Seq(FramesOver(heap)) BY <1>1, <1>2, <2>1, AdvancedFacts
  <2>3. Len(stack') \in Nat /\ DOMAIN stack' = 1..Len(stack') BY <2>2
  <2> HIDE DEF l
  <2> QED BY <1>2, <2>3
<1>7. Pass(heap, stack, l + 1, L, A, T, V, G) BY <1>2
<1> HIDE DEF l, holder
<1>8. \E S : Pass(Set(heap, stack[l].to, stack[l].next, Outcome), stack', l, L, A, T, V, S)
  BY <1>2, <1>3, <1>4, <1>5, <1>7, PassLeaves
<1> QED BY <1>2, <1>6, <1>8

\* A step of the recursion.
LEMMA RecursionLive ==
  ASSUME Inv, Inv', Kept, NoCycle, Deep, Live, Recursion
  PROVE  Live'
<1>1. /\ call' = call /\ roots' = roots /\ todo' = todo /\ call.phase \in {"copy", "simplify"}
  BY DEF Recursion, SkipChild, EnterChild, LeaveChild, Copying
<1>2. call.phase = "copy" => call.op \in {"copy", "tsql"} BY DEF Inv, CallInv
<1>3. call.phase = "simplify" => call.op = "simplify" BY DEF Inv, CallInv
<1>4. PICK L, A : LiveWith(L, A) BY DEF Live
<1>5. Amounts(heap, L, A) /\ RootsLive(L, A) /\ CopiesLive(L, A) BY <1>4 DEF LiveWith
<1>6. ASSUME NEW M, NEW B, L \subseteq M, B \cap L \subseteq A PROVE RootsLive(M, B)'
  BY <1>1, <1>5, <1>6, RootsStay
<1>7. CASE call.op = "tsql"
  <2>1. LiveWith(L, A)' BY <1>1, <1>2, <1>3, <1>4, <1>7, TSQLLive
  <2> QED BY <2>1 DEF Live
<1>8. CASE call.phase = "copy" /\ call.op = "copy"
  <2>1. \E M, B : /\ L \subseteq M /\ B \cap L \subseteq A
                  /\ Amounts(heap', M, B) /\ CopiesLive(M, B)'
    <3>1. CASE SkipChild
      <4>1. CopiesLive(L, A)' BY <1>5, <3>1, SkipCopiesLive
      <4>2. heap' = heap BY <3>1 DEF SkipChild
      <4> QED BY <1>5, <4>1, <4>2
    <3>2. CASE EnterChild BY <1>5, <1>8, <3>2, EnterCopies
    <3>3. CASE LeaveChild
      <4>1. Amounts(heap', L, A) /\ CopiesLive(L, A)' BY <1>5, <1>8, <3>3, LeaveCopies
      <4> QED BY <4>1
    <3> QED BY <3>1, <3>2, <3>3 DEF Recursion
  <2>2. PICK M, B : /\ L \subseteq M /\ B \cap L \subseteq A
                    /\ Amounts(heap', M, B) /\ CopiesLive(M, B)'
    BY <2>1
  <2>3. RootsLive(M, B)' BY <1>6, <2>2
  <2>4. LiveWith(M, B)' BY <1>1, <1>8, <2>2, <2>3 DEF LiveWith
  <2> QED BY <2>4 DEF Live
<1>9. CASE call.phase = "simplify"
  <2>1. PICK T, V, G : Pass(heap, stack, Len(stack), L, A, T, V, G) BY <1>4, <1>9 DEF LiveWith
  <2>2. \E M, W, S : L \subseteq M /\ Pass(heap', stack', Len(stack'), M, A, T, W, S)
    <3>1. CASE SkipChild
      <4>1. Pass(heap', stack', Len(stack'), L, A, T, V, G) BY <1>9, <2>1, <3>1, SkipPass
      <4> QED BY <4>1
    <3>2. CASE EnterChild
      <4>1. Pass(heap', stack', Len(stack'), L \cup {Len(heap) + 1}, A, T, V \cup {Child}, G)
        BY <1>9, <2>1, <3>2, EnterPass
      <4> QED BY <4>1
    <3>3. CASE LeaveChild
      <4>1. \E S : Pass(heap', stack', Len(stack'), L, A, T, V, S)
        BY <1>9, <2>1, <3>3, LeavePass
      <4> QED BY <4>1
    <3> QED BY <3>1, <3>2, <3>3 DEF Recursion
  <2>3. PICK M, W, S : L \subseteq M /\ Pass(heap', stack', Len(stack'), M, A, T, W, S)
    BY <2>2
  <2>4. RootsLive(M, A)' BY <1>6, <2>3
  <2>5. Amounts(heap', M, A) BY <2>3 DEF Pass
  <2>6. LiveWith(M, A)' BY <1>1, <1>3, <1>9, <2>3, <2>4, <2>5 DEF LiveWith, CopiesLive
  <2> QED BY <2>6 DEF Live
<1> QED BY <1>1, <1>2, <1>7, <1>8, <1>9

-----------------------------------------------------------------------------
\* The calls.
LEMMA CallRoots ==
  ASSUME Inv, Grown(heap, heap'), IsHeap(heap'), roots' = roots, call'.owned = Len(heap),
         NEW L, NEW A, RootsLive(L, A), NEW M, L \subseteq M, M \cap A \subseteq L
  PROVE  RootsLive(M, A)'
<1>1. /\ Len(heap) \in Nat /\ Len(heap') \in Nat /\ Len(heap) <= Len(heap')
      /\ \A n \in 1..Len(heap) : heap'[n].kids = heap[n].kids
  BY DEF Inv, HeapInv, IsHeap, Grown
<1>2. ASSUME NEW r \in roots
      PROVE  r \in M \ A /\ \E T : Rooted(heap', T, r) /\ T \subseteq 0..call'.owned
  <2>1. PICK T : Rooted(heap, T, r) BY DEF RootsLive
  <2>2. T \subseteq 0..Len(heap) BY <2>1 DEF Rooted, Closed
  <2>3. T \subseteq 0..Len(heap')
    <3>1. \A n \in 0..Len(heap) : n \in 0..Len(heap') BY <1>1
    <3> QED BY <2>2, <3>1
  <2>4. \A n \in T \ {Nil} : heap'[n].kids = heap[n].kids BY <1>1, <2>2 DEF Nil
  <2>5. Closed(heap, T) BY <2>1 DEF Rooted
  <2>6. Rooted(heap', T, r) BY <2>1, <2>3, <2>4, <2>5, ClosedKept
  <2> QED BY <2>2, <2>6 DEF RootsLive
<1> QED BY <1>2 DEF RootsLive

LEMMA CallLive ==
  ASSUME Inv, Live, Calls
  PROVE  Live'
<1>1. IsHeap(heap) /\ Len(heap) \in Nat /\ DOMAIN heap = 1..Len(heap)
  BY DEF Inv, HeapInv, IsHeap
<1>2. PICK r \in roots : CallCopy(r) \/ CallTSQL(r) \/ CallSimplify(r) \/ CallGenerate(r)
  BY DEF Calls
<1>3. PICK L, A : LiveWith(L, A) BY DEF Live
<1>4. Amounts(heap, L, A) /\ RootsLive(L, A) BY <1>3 DEF LiveWith
<1>5. /\ L \subseteq 0..Len(heap) /\ A \subseteq L /\ Nil \in A
      /\ r \in L \ A /\ r \in L \ {Nil} /\ r \in DOMAIN heap
  <2>1. L \subseteq 0..Len(heap) /\ A \subseteq L /\ Nil \in A BY <1>4 DEF Amounts, Sound, Closed
  <2>2. r \in L \ A BY <1>4 DEF RootsLive
  <2> QED BY <1>1, <2>1, <2>2 DEF Nil
<1>6. PICK T : Rooted(heap, T, r) BY <1>4 DEF RootsLive
<1>7. roots' = roots /\ call'.owned = Len(heap)
  BY <1>2 DEF CallCopy, CallTSQL, CallSimplify, CallGenerate, Copies, Makes
<1>13. PICK w, M : w = Len(heap) + 1 /\ M = L \cup {w} OBVIOUS
<1>8. w \notin L /\ w \notin A /\ L \subseteq M /\ M \cap A \subseteq L /\ L \cap A \subseteq L
  BY <1>1, <1>5, <1>13
<1>9. CASE CallCopy(r)
  <2>1. /\ heap' = Blank(heap, r) /\ call'.phase = "copy" /\ call'.op = "copy"
        /\ stack' = <<[from |-> r, to |-> w, next |-> 1]>>
    BY <1>9, <1>13 DEF CallCopy, Copies, Makes, Frame
  <2>2. IsHeap(heap') /\ Grown(heap, heap') BY <1>1, <1>5, <2>1, BlankFacts
  <2>3. Amounts(heap', M, A)
    <3>1. Amounts(Blank(heap, r), L \cup {Len(heap) + 1}, A) BY <1>1, <1>4, <1>5, BlankAmounts
    <3> QED BY <1>13, <2>1, <3>1
  <2>4. RootsLive(M, A)' BY <1>4, <1>7, <1>8, <2>2, CallRoots
  <2>5. CopiesLive(M, A)'
    <3>1. DOMAIN stack' = 1..1 /\ stack'[1].from = r /\ stack'[1].to = w BY <2>1
    <3>2. r \in M /\ w \in M /\ r \notin A /\ w \notin A BY <1>5, <1>8, <1>13
    <3>3. \A i \in DOMAIN stack' : i = 1 BY <3>1
    <3> QED BY <3>1, <3>2, <3>3 DEF CopiesLive
  <2>6. LiveWith(M, A)' BY <2>1, <2>3, <2>4, <2>5 DEF LiveWith
  <2> QED BY <2>6 DEF Live
<1>10. CASE CallTSQL(r)
  <2>1. heap' = Blank(heap, r) /\ call'.phase = "copy" /\ call'.op = "tsql"
    BY <1>10 DEF CallTSQL, Copies, Makes
  <2>2. IsHeap(heap') /\ Grown(heap, heap') /\ \A n \in 1..Len(heap) : heap'[n] = heap[n]
    BY <1>1, <1>5, <2>1, BlankFacts
  <2>3. Amounts(heap', L, A)
    <3>1. DOMAIN heap' = 1..Len(heap') /\ Len(heap') \in Nat /\ Len(heap') >= Len(heap)
      BY <2>2 DEF IsHeap, Grown
    <3>2. SameNodes(heap, heap', Len(heap)) BY <1>1, <2>2, <3>1 DEF SameNodes
    <3> QED BY <1>1, <1>4, <1>5, <3>1, <3>2, AmountsSame
  <2>4. RootsLive(L, A)' BY <1>4, <1>7, <1>8, <2>2, CallRoots
  <2>5. LiveWith(L, A)' BY <1>5, <1>7, <2>1, <2>3, <2>4 DEF LiveWith, CopiesLive
  <2> QED BY <2>5 DEF Live
<1>11. CASE CallSimplify(r)
  <2>1. /\ heap' = ShallowCopy(heap, r) /\ call'.phase = "simplify" /\ call'.op = "simplify"
        /\ stack' = <<[from |-> r, to |-> Len(heap) + 1, next |-> 1]>>
    BY <1>11 DEF CallSimplify, Makes, Frame
  <2>2. IsHeap(heap') /\ Grown(heap, heap') BY <1>1, <1>5, <2>1, ShallowFacts
  <2>3. DOMAIN stack' = 1..1 /\ Len(stack') = 1
        /\ stack'[1] = [from |-> r, to |-> Len(heap) + 1, next |-> 1]
    BY <2>1
  <2>4. PICK s : s = stack' OBVIOUS
  <2>5. \E U, V, G : Pass(ShallowCopy(heap, r), s, 1, L \cup {Len(heap) + 1}, A, U, V, G)
    BY <1>1, <1>4, <1>5, <1>6, <2>3, <2>4, PassStarts
  <2>6. PICK U, V, G : Pass(heap', stack', Len(stack'), M, A, U, V, G)
    BY <1>13, <2>1, <2>3, <2>4, <2>5
  <2>7. Amounts(heap', M, A) BY <2>6 DEF Pass
  <2>8. RootsLive(M, A)' BY <1>4, <1>7, <1>8, <2>2, CallRoots
  <2>9. LiveWith(M, A)' BY <2>1, <2>6, <2>7, <2>8 DEF LiveWith, CopiesLive
  <2> QED BY <2>9 DEF Live
<1>12. CASE CallGenerate(r)
  <2>1. heap' = heap /\ call'.phase = "write" /\ call'.op # "tsql" /\ todo' = <<r>>
    BY <1>12 DEF CallGenerate, Makes
  <2>2. Grown(heap, heap') BY <1>1, <2>1 DEF Grown
  <2>3. RootsLive(L, A)' BY <1>1, <1>4, <1>7, <1>8, <2>1, <2>2, CallRoots
  <2>4. \A i \in DOMAIN todo' : todo'[i] \in L BY <1>5, <2>1
  <2>5. Amounts(heap', L, A) BY <1>4, <2>1
  <2>6. LiveWith(L, A)' BY <2>1, <2>3, <2>4, <2>5 DEF LiveWith, CopiesLive
  <2> QED BY <2>6 DEF Live
<1> QED BY <1>2, <1>9, <1>10, <1>11, <1>12

-----------------------------------------------------------------------------
\* The returns.  The root that is added is no amount, and that of a tree.
LEMMA ReturnLive ==
  ASSUME heap' = heap, call'.phase = "idle", NEW L, NEW A, LiveWith(L, A), NEW r,
         roots' \subseteq roots \cup {r},
         r \in roots' => r \in L \ A /\ \E T : Rooted(heap, T, r)
  PROVE  Live'
<1>1. RootsLive(L, A)'
  <2>1. ASSUME NEW p \in roots' PROVE p \in L \ A /\ \E T : Rooted(heap', T, p)
    <3>1. p \in roots \/ p = r OBVIOUS
    <3>2. CASE p = r BY <2>1, <3>2
    <3>3. CASE p \in roots BY <3>3 DEF LiveWith, RootsLive
    <3> QED BY <3>1, <3>2, <3>3
  <2> QED BY <2>1 DEF RootsLive
<1>2. LiveWith(L, A)' BY <1>1 DEF LiveWith, CopiesLive
<1> QED BY <1>2 DEF Live

LEMMA CopyReturnsLive ==
  ASSUME Inv, NoCycle, Deep, CopyBuilt, Live, CopyReturns
  PROVE  Live'
<1>1. call \in [op : Ops \cup {"none"}, phase : Phases, root : Nat,
                owned : 0..Len(heap), input : 0..Len(heap), pass : Nat]
  BY DEF Inv, CallInv
<1>2. /\ Copying /\ ~ AtChild /\ call.op = "copy" /\ heap' = heap /\ Len(stack) = 1
      /\ call' = [call EXCEPT !.phase = "idle", !.input = Outcome]
      /\ roots' = roots \cup {Outcome}
  BY DEF CopyReturns, Finished
<1>3. call.phase = "copy" BY <1>2 DEF Inv, CallInv, Copying
<1>4. Outcome = Top.to /\ Top = stack[1] /\ 1 \in DOMAIN stack /\ Top.to \in DOMAIN heap
  BY <1>2, <1>3, OutcomeType, TopFacts DEF Top
<1>5. PICK L, A : LiveWith(L, A) BY DEF Live
<1>6. Top.to \in L \ A BY <1>2, <1>3, <1>4, <1>5 DEF LiveWith, CopiesLive
<1>7. PICK G : Built(G) BY <1>3 DEF CopyBuilt
<1> DEFINE H == G \cup {Top.to}
<1>8. /\ Sound(heap, H)
      /\ \A n \in H : n # Nil => \A j \in DOMAIN heap[n].kids : heap[n].kids[j] # Top.to
  BY <1>2, <1>3, <1>7, TopJoins
<1>9. Top.to \in H \ {Nil} BY <1>4 DEF Inv, HeapInv, IsHeap, Nil
<1> HIDE DEF H
<1>10. HeldOnce(heap, H) /\ Closed(heap, H) BY <1>8, SoundOnce DEF Sound
<1>11. Rooted(heap, H, Top.to) BY <1>8, <1>9, <1>10 DEF Rooted
<1>12. call'.phase = "idle" /\ roots' \subseteq roots \cup {Top.to} BY <1>1, <1>2, <1>4
<1> QED BY <1>2, <1>5, <1>6, <1>11, <1>12, ReturnLive

\* What a pass comes to.
LEMMA PassOutcome ==
  ASSUME Inv, NoCycle, Finished, call.phase = "simplify",
         NEW L, NEW A, NEW T, NEW V, NEW G, Pass(heap, stack, Len(stack), L, A, T, V, G)
  PROVE  /\ IsTree(heap, Outcome)
         /\ Outcome # Nil => Outcome \in L \ A /\ \E S : Rooted(heap, S, Outcome)
<1>1. Copying /\ ~ AtChild /\ Len(stack) = 1 BY DEF Finished
<1>2. Frames(heap, stack, 1) BY <1>1, FramesOfStack
<1>3. IsHeap(heap) /\ Acyclic(heap) BY DEF Inv, HeapInv, NoCycle
<1>4. Top = stack[1] BY <1>1 DEF Top
<1>5. \A j \in DOMAIN heap[stack[1].from].kids : j < stack[1].next BY <1>1, <1>4, TopSlots
<1>6. PICK q : q = Outcome OBVIOUS
<1>7. q = Simplified(heap, stack[1].to, "none") BY <1>1, <1>4, <1>6 DEF Outcome
<1>8. Pass(heap, stack, 1, L, A, T, V, G) BY <1>1
<1>9. PICK holder : holder = "none" OBVIOUS
<1>10. q = Simplified(heap, stack[1].to, holder) BY <1>7, <1>9
<1>11. /\ IsTree(heap, q)
       /\ q # Nil => q \in L \ A /\ \E S : Rooted(heap, S, q)
  BY <1>2, <1>3, <1>5, <1>8, <1>10, PassReturns
<1> QED BY <1>6, <1>11

LEMMA SimplifyReturnsLive ==
  ASSUME Inv, NoCycle, Live, SimplifyReturns
  PROVE  Live'
<1>1. call \in [op : Ops \cup {"none"}, phase : Phases, root : Nat,
                owned : 0..Len(heap), input : 0..Len(heap), pass : Nat]
  BY DEF Inv, CallInv
<1>2. /\ Finished /\ call.phase = "simplify" /\ heap' = heap
      /\ call' = [call EXCEPT !.phase = "idle", !.input = Outcome]
      /\ roots' = roots \cup ({Outcome} \ {Nil})
  BY DEF SimplifyReturns
<1>3. PICK L, A : LiveWith(L, A) BY DEF Live
<1>4. PICK T, V, G : Pass(heap, stack, Len(stack), L, A, T, V, G) BY <1>2, <1>3 DEF LiveWith
<1>5. Outcome # Nil => Outcome \in L \ A /\ \E S : Rooted(heap, S, Outcome)
  BY <1>2, <1>4, PassOutcome
<1>6. call'.phase = "idle" BY <1>1, <1>2
<1>7. Nil \notin roots BY DEF Inv, HeapInv, Nil
<1>8. roots' \subseteq roots \cup {Outcome} /\ Nil \notin roots' BY <1>2, <1>7
<1> QED BY <1>2, <1>3, <1>5, <1>6, <1>8, ReturnLive

LEMMA NextPassLive ==
  ASSUME Inv, Inv', Kept, NoCycle, Live, NextPass
  PROVE  Live'
<1>1. call \in [op : Ops \cup {"none"}, phase : Phases, root : Nat,
                owned : 0..Len(heap), input : 0..Len(heap), pass : Nat]
  BY DEF Inv, CallInv
<1>2. /\ Finished /\ call.phase = "simplify" /\ Outcome # Nil /\ roots' = roots
      /\ heap' = ShallowCopy(heap, Outcome)
      /\ stack' = <<[from |-> Outcome, to |-> Len(heap) + 1, next |-> 1]>>
      /\ call' = [call EXCEPT !.input = Outcome, !.pass = @ + 1]
  BY DEF NextPass, Frame
<1>3. /\ call'.phase = "simplify" /\ call'.owned = call.owned /\ call'.op = call.op
      /\ call.op = "simplify"
  BY <1>1, <1>2 DEF Inv, CallInv
<1>4. PICK L, A : LiveWith(L, A) BY DEF Live
<1>5. PICK T, V, G : Pass(heap, stack, Len(stack), L, A, T, V, G) BY <1>2, <1>4 DEF LiveWith
<1>6. Outcome \in L \ A /\ \E S : Rooted(heap, S, Outcome)
  BY <1>2, <1>5, PassOutcome
<1>7. PICK q, s : q = Outcome /\ s = stack' OBVIOUS
<1>8. PICK S : Rooted(heap, S, q) BY <1>6, <1>7
<1>9. /\ DOMAIN s = 1..1 /\ Len(stack') = 1
      /\ s[1] = [from |-> q, to |-> Len(heap) + 1, next |-> 1]
  BY <1>2, <1>7
<1>10. IsHeap(heap) /\ Amounts(heap, L, A) /\ q \in L \ A
  BY <1>4, <1>6, <1>7 DEF Inv, HeapInv, LiveWith
<1>11. \E X, Y, Z : Pass(ShallowCopy(heap, q), s, 1, L \cup {Len(heap) + 1}, A, X, Y, Z)
  BY <1>8, <1>9, <1>10, PassStarts
<1>12. PICK M : M = L \cup {Len(heap) + 1} OBVIOUS
<1>13. PICK X, Y, Z : Pass(heap', stack', Len(stack'), M, A, X, Y, Z)
  BY <1>2, <1>7, <1>9, <1>11, <1>12
<1>14. Amounts(heap', M, A) BY <1>13 DEF Pass
<1>15. RootsLive(M, A)'
  <2>1. L \subseteq M /\ A \cap L \subseteq A BY <1>12
  <2>2. RootsLive(L, A) /\ call.phase # "idle" BY <1>2, <1>4 DEF LiveWith
  <2> QED BY <1>2, <1>3, <2>1, <2>2, RootsStay
<1>16. LiveWith(M, A)' BY <1>3, <1>13, <1>14, <1>15 DEF LiveWith, CopiesLive
<1> QED BY <1>16 DEF Live

-----------------------------------------------------------------------------
\* Writing.  The shallow copy of a node that is made ready is no amount's.
LEMMA PreparedAmounts ==
  ASSUME NEW h, IsHeap(h), NEW L, NEW A, Amounts(h, L, A), NEW n \in L \ {Nil},
         call.op \in Ops \cup {"none"}, call.op # "tsql"
  PROVE  \E M : /\ L \subseteq M /\ M \cap A \subseteq L /\ Amounts(Prepared(h, n), M, A)
                /\ WrittenNode(h, n) \in M \ {Nil}
<1> DEFINE w == Len(h) + 1
           out == ShallowCopy(h, n)
           M == L \cup {w}
<1>1. /\ Closed(h, L) /\ Nil \in A /\ A \subseteq L /\ L \subseteq 0..Len(h)
      /\ Len(h) \in Nat /\ DOMAIN h = 1..Len(h) /\ n \in DOMAIN h
  <2>1. Closed(h, L) BY DEF Amounts
  <2>2. n \in DOMAIN h BY <2>1, ClosedNode
  <2> QED BY <2>1, <2>2 DEF Amounts, Sound, Closed, IsHeap
<1>2. w \notin L /\ w # Nil /\ w \notin A BY <1>1 DEF Nil
<1>3. IsHeap(out) /\ Len(out) = w /\ Grown(h, out) /\ out[w].class = h[n].class
  BY <1>1, ShallowFacts
<1>4. ASSUME n \notin A PROVE Amounts(out, M, A) BY <1>4, ShallowAmounts
\* An absent child or none of the amounts.
<1>5. ASSUME NEW m \in L \ A, h[m].class \in Unary, h[m].class # "Interval"
      PROVE  This(h, m) \in L /\ (This(h, m) \in A => This(h, m) = Nil)
  <2>1. m \in DOMAIN h /\ m # Nil BY <1>1, <1>5, ClosedNode
  <2>2. 1 \in DOMAIN h[m].kids BY <1>5, <2>1, HeapFacts
  <2>3. h[m].kids[1] \in L BY <1>1, <1>5, <2>1, <2>2 DEF Closed
  <2>4. h[m].kids[1] \in A => h[m].kids[1] = Nil BY <1>5, <2>2 DEF Amounts
  <2> QED BY <2>3, <2>4 DEF This
<1> HIDE DEF out, w
<1>6. CASE ElidesCast(h, n)
  <2> DEFINE c == This(h, n)
             d == This(h, c)
  <2>1. Prepared(h, n) = Set(out, Len(out), 1, d) /\ WrittenNode(h, n) = w
    BY <1>6 DEF Prepared, WrittenNode, out, w
  <2>2. h[n].class = "Length" /\ ClassOf(h, c) = "Cast" /\ "fabric" \in Ops
    BY <1>6 DEF ElidesCast
  <2>3. n \notin A BY <2>2 DEF Amounts, Wrapped
  <2>4. c \in DOMAIN h /\ h[c].class = "Cast" /\ c # Nil BY <1>1, <2>2 DEF ClassOf, Nil
  <2>5. c \in L \ A BY <1>5, <2>2, <2>3, <2>4 DEF Unary
  <2> HIDE DEF c
  <2>6. d \in L /\ (d \in A => d = Nil) BY <1>5, <2>4, <2>5 DEF Unary
  <2> HIDE DEF d
  <2>7. Amounts(Set(out, w, 1, d), M, A)
    <3>1. Amounts(out, M, A) /\ w \in M \ A /\ d \in M BY <1>2, <1>4, <2>3, <2>6
    <3>2. ~ (out[w].class = "Interval" /\ 1 = 1) BY <1>3, <2>2
    <3>3. PICK i : i = 1 OBVIOUS
    <3> HIDE DEF M
    <3>4. ~ (out[w].class = "Interval" /\ i = 1) BY <3>2
    <3>5. Amounts(Set(out, w, i, d), M, A) BY <1>3, <2>6, <3>1, <3>4, SetAmounts
    <3> QED BY <3>3, <3>5
  <2>8. Amounts(Prepared(h, n), M, A) BY <1>3, <2>1, <2>7
  <2>9. L \subseteq M /\ M \cap A \subseteq L /\ WrittenNode(h, n) \in M \ {Nil} BY <1>2, <2>1
  <2> HIDE DEF M
  <2> QED BY <2>8, <2>9
<1>7. CASE ~ ElidesCast(h, n) /\ AddsCast(h, n)
  <2> DEFINE c == This(h, n)
             kids == <<c>>
             cast == New(out, "Cast", NoName, kids)
             P == M \cup {w + 1}
  <2>1. Prepared(h, n) = Set(cast, Len(out), 1, Len(cast)) /\ WrittenNode(h, n) = w
    BY <1>7 DEF Prepared, WrittenNode, out, w
  <2>2. h[n].class = "LogicalOr" /\ "duckdb" \in Ops
    BY <1>7 DEF AddsCast
  <2>3. n \notin A BY <2>2 DEF Amounts, Wrapped
  <2>4. c \in L /\ (c \in A => c = Nil) BY <1>5, <2>2, <2>3 DEF Unary
  <2>5. w + 1 \notin M /\ w + 1 # Nil /\ w + 1 \notin A BY <1>1 DEF w, Nil
  <2>6. /\ kids \in Seq(0..Len(out)) /\ Len(kids) > 0
        /\ NoName \in Names /\ "Cast" \in Classes /\ "Cast" # "Interval"
        /\ \A i \in DOMAIN kids : kids[i] \in M /\ (kids[i] \in A => kids[i] = Nil)
    <3>1. c \in 0..Len(out) BY <1>1, <1>3, <2>4 DEF w
    <3>2. c \in M BY <2>4
    <3> HIDE DEF c, M
    <3>3. kids \in Seq(0..Len(out)) /\ Len(kids) > 0 BY <3>1
    <3>4. \A i \in DOMAIN kids : kids[i] = c OBVIOUS
    <3> QED BY <2>4, <3>2, <3>3, <3>4, MadeUp
  <2>7. Amounts(out, M, A) BY <1>4, <2>3
  <2> HIDE DEF c, kids, M
  <2>8. IsHeap(cast) /\ Len(cast) = w + 1 /\ Grown(out, cast) BY <1>3, <2>6, NewFacts
  <2>9. Amounts(cast, P, A)
    <3>1. Amounts(New(out, "Cast", NoName, kids), M \cup {Len(out) + 1}, A)
      BY <1>3, <2>6, <2>7, NewAmounts
    <3> QED BY <1>3, <3>1
  <2>10. w \in P \ A /\ w + 1 \in P /\ L \subseteq P /\ P \cap A \subseteq L
    BY <1>1, <1>2, <2>5 DEF M
  <2>11. cast[w].class = "LogicalOr" BY <1>1, <1>3, <2>2, <2>8 DEF Grown, w
  <2> HIDE DEF cast, P
  <2>12. Amounts(Set(cast, w, 1, w + 1), P, A)
    <3>1. PICK i, k : i = 1 /\ k = w + 1 OBVIOUS
    <3>2. ~ (cast[w].class = "Interval" /\ i = 1) /\ k \in P /\ (k \in A => k = Nil)
      BY <2>5, <2>10, <2>11, <3>1
    <3>3. Amounts(Set(cast, w, i, k), P, A) BY <2>8, <2>9, <2>10, <3>2, SetAmounts
    <3> QED BY <3>1, <3>3
  <2>13. Amounts(Prepared(h, n), P, A) BY <1>3, <2>1, <2>8, <2>12
  <2> QED BY <1>2, <2>1, <2>10, <2>13
<1>8. CASE ~ ElidesCast(h, n) /\ ~ AddsCast(h, n) /\ SpellsFormat(h, n)
  <2> DEFINE spelled == New(out, "Literal", <<"yyyy", 0>>, <<>>)
             P == M \cup {w + 1}
  <2>1. Prepared(h, n) = Set(spelled, Len(out), 2, Len(spelled)) /\ WrittenNode(h, n) = w
    BY <1>8 DEF Prepared, WrittenNode, out, w
  <2>2. h[n].class = "TimeToStr" /\ {"databricks", "fabric", "hive"} \cap Ops # {}
    BY <1>8 DEF SpellsFormat
  <2>3. n \notin A BY <2>2 DEF Amounts, Wrapped
  <2>4. w + 1 \notin M /\ w + 1 # Nil /\ w + 1 \notin A BY <1>1 DEF w, Nil
  <2>5. Amounts(out, M, A) BY <1>4, <2>3
  <2> HIDE DEF M
  <2>6. /\ IsHeap(spelled) /\ Len(spelled) = w + 1 /\ Grown(out, spelled)
        /\ Amounts(spelled, P, A)
    <3>1. PICK class, name, kids : class = "Literal" /\ name = <<"yyyy", 0>> /\ kids = <<>> OBVIOUS
    <3>2. /\ kids \in Seq(0..Len(out)) /\ (class \in Unary => Len(kids) > 0) /\ class # "Interval"
          /\ \A i \in DOMAIN kids : kids[i] \in M /\ (kids[i] \in A => kids[i] = Nil)
      BY <3>1 DEF Unary
    <3>3. class \in Classes /\ name \in Names BY <3>1, MadeUp
    <3>4. /\ IsHeap(New(out, class, name, kids)) /\ Len(New(out, class, name, kids)) = Len(out) + 1
          /\ Grown(out, New(out, class, name, kids))
      BY <3>2, <3>3, <1>3, NewFacts
    <3>5. Amounts(New(out, class, name, kids), M \cup {Len(out) + 1}, A)
      BY <3>2, <3>3, <1>3, <2>5, NewAmounts
    <3> QED BY <1>3, <3>1, <3>4, <3>5
  <2>7. w \in P \ A /\ w + 1 \in P /\ L \subseteq P /\ P \cap A \subseteq L
    BY <1>1, <1>2, <2>4 DEF M
  <2>8. spelled[w].class = "TimeToStr" BY <1>1, <1>3, <2>2, <2>6 DEF Grown, w
  <2> HIDE DEF spelled, P
  <2>9. Amounts(Set(spelled, w, 2, w + 1), P, A)
    <3>1. PICK i, k : i = 2 /\ k = w + 1 OBVIOUS
    <3>2. ~ (spelled[w].class = "Interval" /\ i = 1) /\ k \in P /\ (k \in A => k = Nil)
      BY <2>4, <2>7, <2>8, <3>1
    <3>3. Amounts(Set(spelled, w, i, k), P, A) BY <2>6, <2>7, <3>2, SetAmounts
    <3> QED BY <3>1, <3>3
  <2>10. Amounts(Prepared(h, n), P, A) BY <1>3, <2>1, <2>6, <2>9
  <2> QED BY <1>2, <2>1, <2>7, <2>10
<1>9. CASE ~ ElidesCast(h, n) /\ ~ AddsCast(h, n) /\ ~ SpellsFormat(h, n)
  <2>1. Prepared(h, n) = h /\ WrittenNode(h, n) = n BY <1>9 DEF Prepared, WrittenNode
  <2> QED BY <1>1, <2>1
<1> QED BY <1>6, <1>7, <1>8, <1>9

LEMMA PushedWithin ==
  ASSUME NEW S, NEW s \in Seq(S), NEW t \in Seq(S), t # <<>>, NEW P,
         \A i \in DOMAIN s : s[i] \in P, \A i \in DOMAIN t : t[i] \in P
  PROVE  /\ \A i \in DOMAIN Tail(t) : Tail(t)[i] \in P
         /\ \A i \in DOMAIN (s \o Tail(t)) : (s \o Tail(t))[i] \in P
<1>1. \A i \in DOMAIN Tail(t) : i + 1 \in DOMAIN t /\ Tail(t)[i] = t[i + 1] BY Pushed
<1>2. \A i \in DOMAIN Tail(t) : Tail(t)[i] \in P BY <1>1
<1>3. Tail(t) \in Seq(S) BY Pushed
<1>4. PICK u \in Seq(S) : u = Tail(t) BY <1>3
<1>5. \A i \in DOMAIN u : u[i] \in P BY <1>2, <1>4
<1>6. /\ DOMAIN (s \o u) = 1..(Len(s) + Len(u)) /\ Len(s) \in Nat /\ Len(u) \in Nat
      /\ DOMAIN s = 1..Len(s) /\ DOMAIN u = 1..Len(u)
      /\ \A i \in 1..(Len(s) + Len(u)) :
           (s \o u)[i] = IF i <= Len(s) THEN s[i] ELSE u[i - Len(s)]
  OBVIOUS
<1>7. ASSUME NEW i \in 1..(Len(s) + Len(u)) PROVE (s \o u)[i] \in P
  <2>1. CASE i <= Len(s) BY <1>6, <2>1
  <2>2. CASE ~ (i <= Len(s))
    <3>1. i - Len(s) \in 1..Len(u) BY <1>6, <2>2
    <3> QED BY <1>5, <1>6, <2>2, <3>1
  <2> QED BY <2>1, <2>2
<1> QED BY <1>2, <1>4, <1>6, <1>7

LEMMA WriteNodeLive ==
  ASSUME Inv, Inv', Kept, Live, WriteNode
  PROVE  Live'
<1>1. /\ call.phase = "write" /\ todo # <<>> /\ Head(todo) # Nil
      /\ heap' = Prepared(heap, Head(todo)) /\ roots' = roots /\ call' = call
      /\ todo' = heap'[WrittenNode(heap, Head(todo))].kids \o Tail(todo)
  BY DEF WriteNode
<1>2. IsHeap(heap) /\ IsHeap(heap') /\ todo \in Seq(0..Len(heap)) /\ call.op \in Ops \cup {"none"}
  BY DEF Inv, HeapInv, TodoInv, CallInv
<1>3. PICK L, A : LiveWith(L, A) BY DEF Live
<1>4. CASE call.op = "tsql"
  <2>1. LiveWith(L, A)' BY <1>1, <1>3, <1>4, TSQLLive
  <2> QED BY <2>1 DEF Live
<1>5. CASE call.op # "tsql"
  <2>1. /\ Amounts(heap, L, A) /\ RootsLive(L, A)
        /\ \A i \in DOMAIN todo : todo[i] \in L
    BY <1>1, <1>3, <1>5 DEF LiveWith
  <2>2. PICK n : n = Head(todo) OBVIOUS
  <2>3. n \in L \ {Nil} BY <1>1, <1>2, <2>1, <2>2, HeadOfWork
  <2>4. PICK M : /\ L \subseteq M /\ M \cap A \subseteq L /\ Amounts(Prepared(heap, n), M, A)
                 /\ WrittenNode(heap, n) \in M \ {Nil}
    BY <1>2, <1>5, <2>1, <2>3, PreparedAmounts
  <2>5. PICK m : m = WrittenNode(heap, n) OBVIOUS
  <2>6. Amounts(heap', M, A) /\ m \in M \ {Nil} BY <1>1, <2>2, <2>4, <2>5
  <2>7. Closed(heap', M) BY <2>6 DEF Amounts
  <2>8. m \in DOMAIN heap' /\ \A i \in DOMAIN heap'[m].kids : heap'[m].kids[i] \in M
    BY <1>2, <2>6, <2>7, ClosedNode
  <2>9. \A i \in DOMAIN todo' : todo'[i] \in M
    <3>1. heap'[m].kids \in Seq(0..Len(heap')) BY <1>2, <2>8, HeapFacts
    <3>2. todo \in Seq(Nat)
      <4>1. 0..Len(heap) \subseteq Nat BY <1>2 DEF IsHeap
      <4> QED BY <1>2, <4>1
    <3>3. heap'[m].kids \in Seq(Nat)
      <4>1. 0..Len(heap') \subseteq Nat BY <1>2 DEF IsHeap
      <4> QED BY <3>1, <4>1
    <3>4. PICK s \in Seq(Nat), t \in Seq(Nat) : s = heap'[m].kids /\ t = todo BY <3>2, <3>3
    <3>5. todo' = s \o Tail(t) /\ t # <<>> BY <1>1, <2>2, <2>5, <3>4
    <3>6. (\A i \in DOMAIN s : s[i] \in M) /\ (\A i \in DOMAIN t : t[i] \in M)
      BY <2>1, <2>4, <2>8, <3>4
    <3>7. \A i \in DOMAIN (s \o Tail(t)) : (s \o Tail(t))[i] \in M BY <3>5, <3>6, PushedWithin
    <3> QED BY <3>5, <3>7
  <2>10. RootsLive(M, A)'
    <3>1. call.phase # "idle" /\ call'.owned = call.owned /\ A \cap L \subseteq A BY <1>1
    <3> QED BY <1>1, <2>1, <2>4, <3>1, RootsStay
  <2>11. LiveWith(M, A)' BY <1>1, <1>5, <2>6, <2>9, <2>10 DEF LiveWith, CopiesLive
  <2> QED BY <2>11 DEF Live
<1> QED BY <1>4, <1>5

LEMMA WritingLive ==
  ASSUME Inv, Inv', Kept, Live, Writing
  PROVE  Live'
<1>1. call \in [op : Ops \cup {"none"}, phase : Phases, root : Nat,
                owned : 0..Len(heap), input : 0..Len(heap), pass : Nat]
  BY DEF Inv, CallInv
<1>2. PICK L, A : LiveWith(L, A) BY DEF Live
<1>3. CASE CopyForTSQL \/ EnsureBools \/ BoolsDone
  <2>1. /\ call.phase # "idle" /\ call.op = "tsql" /\ call'.op = "tsql" /\ roots' = roots
        /\ call'.phase \notin {"idle", "simplify"} /\ call'.owned = call.owned
    <3>1. CASE CopyForTSQL
      <4>1. /\ call.op = "tsql" /\ call.phase # "idle" /\ roots' = roots
            /\ call' = [call EXCEPT !.phase = "bools", !.input = Outcome]
        BY <3>1 DEF CopyForTSQL, Finished, Copying
      <4> QED BY <1>1, <4>1
    <3>2. CASE EnsureBools
      <4>1. call.phase = "bools" /\ call' = call /\ roots' = roots BY <3>2 DEF EnsureBools
      <4> QED BY <4>1 DEF Inv, CallInv
    <3>3. CASE BoolsDone
      <4>1. call.phase = "bools" /\ call' = [call EXCEPT !.phase = "write"] /\ roots' = roots
        BY <3>3 DEF BoolsDone
      <4>2. call.op = "tsql" BY <4>1 DEF Inv, CallInv
      <4> QED BY <1>1, <4>1, <4>2
    <3> QED BY <1>3, <3>1, <3>2, <3>3
  <2>2. LiveWith(L, A)' BY <1>2, <2>1, TSQLLive
  <2> QED BY <2>2 DEF Live
<1>4. CASE PassAbsent
  <2>1. /\ call.phase \in {"bools", "write"} /\ todo # <<>> /\ todo' = Tail(todo)
        /\ heap' = heap /\ roots' = roots /\ call' = call
    BY <1>4 DEF PassAbsent
  <2>2. CASE call.op = "tsql"
    <3>1. LiveWith(L, A)' BY <1>2, <2>1, <2>2, TSQLLive
    <3> QED BY <3>1 DEF Live
  <2>3. CASE call.op # "tsql"
    <3>1. call.phase = "write" BY <2>1, <2>3 DEF Inv, CallInv
    <3>2. \A i \in DOMAIN todo : todo[i] \in L BY <1>2, <2>3, <3>1 DEF LiveWith
    <3>3. todo \in Seq(0..Len(heap)) BY DEF Inv, TodoInv
    <3>4. \A i \in DOMAIN todo' : todo'[i] \in L BY <2>1, <3>2, <3>3, PushedWithin
    <3>5. LiveWith(L, A)'
      <4>1. RootsLive(L, A)' BY <1>2, <2>1 DEF LiveWith, RootsLive
      <4> QED BY <1>2, <2>1, <2>3, <3>1, <3>4, <4>1 DEF LiveWith, CopiesLive
    <3> QED BY <3>5 DEF Live
  <2> QED BY <2>2, <2>3
<1>5. CASE WriteNode BY <1>5, WriteNodeLive
<1>6. CASE GenerateReturns
  <2>1. heap' = heap /\ roots' = roots /\ call' = [call EXCEPT !.phase = "idle"]
    BY <1>6 DEF GenerateReturns
  <2>2. call'.phase = "idle" BY <1>1, <2>1
  <2>3. RootsLive(L, A)' BY <1>2, <2>1, <2>2 DEF LiveWith, RootsLive
  <2>4. LiveWith(L, A)' BY <1>2, <2>1, <2>2, <2>3 DEF LiveWith, CopiesLive
  <2> QED BY <2>4 DEF Live
<1> QED BY <1>3, <1>4, <1>5, <1>6 DEF Writing

LEMMA StepLive ==
  ASSUME Inv, Inv', Kept, NoCycle, Deep, CopyBuilt, Live, [Next]_vars, "hive" \notin Ops
  PROVE  Live'
<1>1. CASE Calls BY <1>1, CallLive
<1>2. CASE Recursion BY <1>2, RecursionLive
<1>3. CASE Returns BY <1>3, CopyReturnsLive, SimplifyReturnsLive, NextPassLive DEF Returns
<1>4. CASE Writing BY <1>4, WritingLive
<1>5. CASE Rewriting BY <1>5, NoneRewritten
<1>6. CASE UNCHANGED vars
  <2>1. PICK L, A : LiveWith(L, A) BY DEF Live
  <2>2. LiveWith(L, A)' BY <1>6, <2>1 DEF vars, LiveWith, RootsLive, CopiesLive
  <2> QED BY <2>2 DEF Live
<1> QED BY <1>1, <1>2, <1>3, <1>4, <1>5, <1>6 DEF Next

-----------------------------------------------------------------------------
\* What is under a node: the node, and what is held by a node under it.
LEMMA UnderHas ==
  ASSUME NEW h, IsHeap(h), Acyclic(h), NEW a \in DOMAIN h
  PROVE  /\ a \in Under(h, a) /\ Closed(h, Under(h, a) \cup {Nil})
         /\ \A k \in Under(h, a) :
              k # a => \E n \in Under(h, a) : \E i \in DOMAIN h[n].kids : h[n].kids[i] = k
<1> DEFINE f == CHOOSE f : Unders(f, h, 0..Len(h))
           bad == {n \in DOMAIN h : ~ Closed(h, f[n] \cup {Nil})}
<1>1. Unders(f, h, 0..Len(h)) BY UndersExist
<1>2. \A n : Under(h, n) = f[n] BY DEF Under, Unders
<1> HIDE DEF f
<1>3. DOMAIN h = 1..Len(h) /\ Len(h) \in Nat BY DEF IsHeap
<1>4. f[Nil] = {} BY <1>1, <1>3 DEF Unders, Nil
<1>5. ASSUME NEW n \in DOMAIN h
      PROVE  f[n] = {n} \cup UNION {f[h[n].kids[i]] : i \in DOMAIN h[n].kids}
  <2>1. n # Nil /\ n \in 0..Len(h) BY <1>3 DEF Nil
  <2> QED BY <1>1, <2>1 DEF Unders
<1>6. \A n \in DOMAIN h : n \in f[n] BY <1>5
<1>7. bad = {}
  <2> SUFFICES ASSUME bad # {} PROVE FALSE OBVIOUS
  <2>1. bad \subseteq DOMAIN h OBVIOUS
  <2>2. PICK n \in bad : \A i \in DOMAIN h[n].kids : h[n].kids[i] \notin bad
    <3> HIDE DEF bad
    <3> QED BY <2>1 DEF Acyclic
  <2>3. n \in DOMAIN h /\ ~ Closed(h, f[n] \cup {Nil}) BY <2>2
  <2>4. \A i \in DOMAIN h[n].kids : h[n].kids[i] \in 0..Len(h) BY <2>3, HeapFacts
  <2>5. \A i \in DOMAIN h[n].kids : h[n].kids[i] # Nil => h[n].kids[i] \in DOMAIN h
    BY <1>3, <2>4 DEF Nil
  <2>6. \A i \in DOMAIN h[n].kids :
          /\ Closed(h, f[h[n].kids[i]] \cup {Nil})
          /\ h[n].kids[i] = Nil \/ h[n].kids[i] \in f[h[n].kids[i]]
    <3>1. Closed(h, {Nil}) BY <1>3 DEF Closed, Nil
    <3>2. ASSUME NEW i \in DOMAIN h[n].kids, h[n].kids[i] # Nil
          PROVE  /\ Closed(h, f[h[n].kids[i]] \cup {Nil}) /\ h[n].kids[i] \in f[h[n].kids[i]]
      BY <1>6, <2>2, <2>5, <3>2
    <3>3. ASSUME NEW i \in DOMAIN h[n].kids, h[n].kids[i] = Nil
          PROVE  Closed(h, f[h[n].kids[i]] \cup {Nil})
      <4>1. f[h[n].kids[i]] \cup {Nil} = {Nil} BY <1>4, <3>3
      <4> QED BY <3>1, <4>1
    <3> QED BY <3>2, <3>3
  <2> HIDE DEF bad
  <2>7. f[n] = {n} \cup UNION {f[h[n].kids[i]] : i \in DOMAIN h[n].kids} BY <1>5, <2>3
  <2>8. \A i \in DOMAIN h[n].kids : f[h[n].kids[i]] \subseteq f[n] BY <2>7
  <2>9. \A m \in f[n] : m = n \/ \E i \in DOMAIN h[n].kids : m \in f[h[n].kids[i]] BY <2>7
  <2>10. f[n] \cup {Nil} \subseteq 0..Len(h)
    <3>1. \A i \in DOMAIN h[n].kids : f[h[n].kids[i]] \subseteq 0..Len(h) BY <2>6 DEF Closed
    <3> QED BY <1>3, <2>3, <2>9, <3>1 DEF Nil
  <2>11. ASSUME NEW m \in f[n], m # Nil, NEW j \in DOMAIN h[m].kids
         PROVE  h[m].kids[j] \in f[n] \cup {Nil}
    <3>1. CASE m = n BY <2>6, <2>8, <2>11, <3>1
    <3>2. ASSUME NEW i \in DOMAIN h[n].kids, m \in f[h[n].kids[i]]
          PROVE  h[m].kids[j] \in f[n] \cup {Nil}
      BY <2>6, <2>8, <2>11, <3>2 DEF Closed
    <3> QED BY <2>9, <3>1, <3>2
  <2>12. Closed(h, f[n] \cup {Nil}) BY <2>10, <2>11 DEF Closed
  <2> QED BY <2>3, <2>12
<1>8. Closed(h, Under(h, a) \cup {Nil}) /\ a \in Under(h, a)
  <2>1. Closed(h, f[a] \cup {Nil}) /\ a \in f[a] BY <1>6, <1>7
  <2> QED BY <1>2, <2>1
<1>9. ASSUME NEW k \in Under(h, a), k # a,
             \A n \in Under(h, a) : \A i \in DOMAIN h[n].kids : h[n].kids[i] # k
      PROVE  FALSE
  <2> DEFINE S == (Under(h, a) \cup {Nil}) \ ({k} \ {Nil})
  <2>1. a \in S BY <1>8, <1>9
  <2>2. Closed(h, S) BY <1>8, <1>9 DEF Closed
  <2> HIDE DEF S
  <2>3. Under(h, a) \subseteq S \ {Nil} BY <2>1, <2>2, UnderClosed
  <2> QED BY <1>9, <2>3 DEF S
<1> QED BY <1>8, <1>9

\* No amount of an interval holds what Generate copies before it is written.
AmountsPlain(h) ==
  \A n \in Under(h, 1) :
    h[n].class = "Interval" /\ 1 \in DOMAIN h[n].kids =>
      \A m \in Under(h, This(h, n)) : ~ Wrapped(h[m].class)

LEMMA TreeAmounts ==
  ASSUME NEW h, IsHeap(h), Acyclic(h), Len(h) > 0, IsTree(h, 1), AmountsPlain(h)
  PROVE  \E L, A : Amounts(h, L, A) /\ 1 \in L \ A /\ Rooted(h, L, 1)
<1> DEFINE L == Under(h, 1) \cup {Nil}
           Takers == {n \in Under(h, 1) : h[n].class = "Interval" /\ 1 \in DOMAIN h[n].kids}
           A == {Nil} \cup UNION {Under(h, This(h, n)) : n \in Takers}
<1>1. DOMAIN h = 1..Len(h) /\ Len(h) \in Nat /\ 1 \in DOMAIN h BY DEF IsHeap
<1>2. Closed(h, L) /\ 1 \in L \ {Nil} BY <1>1, UnderHas DEF Nil
<1>3. \A n \in L \ {Nil} : Linked(h, n) /\ \A i \in DOMAIN h[n].kids : h[n].kids[i] # 1
  BY DEF IsTree, Range
<1>4. Sound(h, L) BY <1>2, <1>3 DEF Sound
<1>5. HeldOnce(h, L) BY <1>4, SoundOnce
<1>6. Rooted(h, L, 1) BY <1>2, <1>3, <1>5 DEF Rooted
<1>7. L \subseteq 0..Len(h) /\ \A n \in L \ {Nil} : n \in DOMAIN h
  BY <1>1, <1>2 DEF Closed, Nil
<1>8. \A n \in Takers : /\ n \in L \ {Nil} /\ n \in DOMAIN h
                       /\ h[n].class = "Interval" /\ 1 \in DOMAIN h[n].kids
  <2>1. Closed(h, {0} \cup DOMAIN h) BY <1>1, HeapFacts DEF Closed, Nil
  <2>2. Nil \notin Under(h, 1) BY <1>1, <2>1, UnderClosed
  <2> QED BY <1>7, <2>2
<1> HIDE DEF L
<1>9. ASSUME NEW n \in Takers, This(h, n) # Nil
      PROVE  LET a == This(h, n) IN
             /\ a \in L /\ a \in DOMAIN h /\ 1 \in DOMAIN h[n].kids
             /\ Under(h, a) \subseteq L \ {Nil} /\ a \in Under(h, a)
             /\ Closed(h, Under(h, a) \cup {Nil})
             /\ \A k \in Under(h, a) :
                  k # a => \E m \in Under(h, a) : \E i \in DOMAIN h[m].kids : h[m].kids[i] = k
  <2> DEFINE a == This(h, n)
  <2>1. 1 \in DOMAIN h[n].kids /\ a = h[n].kids[1] BY <1>8 DEF This
  <2>2. a \in L BY <1>2, <1>8, <2>1 DEF Closed
  <2>3. a \in DOMAIN h /\ a # Nil BY <1>7, <1>9, <2>2
  <2> HIDE DEF a
  <2>4. Under(h, a) \subseteq L \ {Nil} BY <1>2, <2>2, UnderClosed
  <2>5. /\ a \in Under(h, a) /\ Closed(h, Under(h, a) \cup {Nil})
        /\ \A k \in Under(h, a) :
             k # a => \E m \in Under(h, a) : \E i \in DOMAIN h[m].kids : h[m].kids[i] = k
    BY <2>3, UnderHas
  <2> QED BY <2>1, <2>2, <2>3, <2>4, <2>5 DEF a
<1>10. ASSUME NEW k \in A \ {Nil}
       PROVE  \E n \in Takers : This(h, n) # Nil /\ k \in Under(h, This(h, n))
  <2>1. PICK n \in Takers : k \in Under(h, This(h, n)) OBVIOUS
  <2>2. This(h, n) # Nil
    <3>1. Closed(h, {Nil}) BY <1>1 DEF Closed, Nil
    <3>2. Under(h, Nil) \subseteq {Nil} \ {Nil} BY <3>1, UnderClosed
    <3> QED BY <2>1, <3>2
  <2> QED BY <2>1, <2>2
<1>11. \A n \in Takers : Under(h, This(h, n)) \subseteq A OBVIOUS
<1>12. Nil \in A OBVIOUS
<1>13. \A n \in Takers : This(h, n) # Nil => This(h, n) \in A BY <1>9, <1>11
<1>14. \A k \in A \ {Nil} : ~ Wrapped(h[k].class) BY <1>10, <1>8 DEF AmountsPlain
<1> HIDE DEF A
<1>15. A \subseteq L
  <2>1. \A k \in A \ {Nil} : k \in L BY <1>9, <1>10
  <2> QED BY <1>2, <2>1 DEF Closed
\* What holds an amount's node is an interval in its first slot, or is one too.
<1>16. ASSUME NEW k \in A \ {Nil}, NEW n \in L \ {Nil}, NEW i \in DOMAIN h[n].kids,
              h[n].kids[i] = k
       PROVE  n \in A \/ (/\ h[n].class = "Interval" /\ i = 1
                          /\ \A m \in A \ {Nil} : \A j \in DOMAIN h[m].kids : h[m].kids[j] # k)
  <2>1. PICK p \in Takers : This(h, p) # Nil /\ k \in Under(h, This(h, p)) BY <1>10
  <2>2. PICK a : a = This(h, p) OBVIOUS
  <2>3. /\ a \in L /\ 1 \in DOMAIN h[p].kids /\ Under(h, a) \subseteq L \ {Nil}
        /\ \A q \in Under(h, a) :
             q # a => \E m \in Under(h, a) : \E j \in DOMAIN h[m].kids : h[m].kids[j] = q
    BY <1>9, <2>1, <2>2
  <2>4. CASE k = a
    <3>1. h[p].kids[1] = k /\ p \in L \ {Nil} BY <1>8, <2>2, <2>4 DEF This
    <3>2. n = p /\ i = 1 BY <1>5, <1>16, <2>3, <3>1 DEF HeldOnce
    <3>3. n \in A \/ \A m \in A \ {Nil} : \A j \in DOMAIN h[m].kids : h[m].kids[j] # k
      BY <1>5, <1>15, <1>16 DEF HeldOnce
    <3> QED BY <1>8, <3>2, <3>3
  <2>5. CASE k # a
    <3>1. PICK m \in Under(h, a) : \E j \in DOMAIN h[m].kids : h[m].kids[j] = k
      BY <2>1, <2>2, <2>3, <2>5
    <3>2. m \in L \ {Nil} BY <2>3
    <3>3. m = n BY <1>5, <1>16, <3>1, <3>2 DEF HeldOnce
    <3> QED BY <1>11, <2>2, <3>3
  <2> QED BY <2>4, <2>5
<1>17. Closed(h, A)
  <2>1. ASSUME NEW k \in A \ {Nil}, NEW j \in DOMAIN h[k].kids PROVE h[k].kids[j] \in A
    <3>1. PICK p \in Takers : This(h, p) # Nil /\ k \in Under(h, This(h, p)) BY <1>10
    <3>2. PICK a : a = This(h, p) OBVIOUS
    <3>3. Closed(h, Under(h, a) \cup {Nil}) BY <1>9, <3>1, <3>2
    <3>4. h[k].kids[j] \in Under(h, a) \cup {Nil} BY <2>1, <3>1, <3>2, <3>3 DEF Closed
    <3> QED BY <1>11, <1>12, <3>2, <3>4
  <2> QED BY <1>7, <1>12, <1>15, <2>1 DEF Closed
<1>18. Sound(h, A) BY <1>4, <1>15, <1>17 DEF Sound
<1>19. 1 \notin A
  <2> SUFFICES ASSUME 1 \in A PROVE FALSE OBVIOUS
  <2>1. PICK p \in Takers : This(h, p) # Nil /\ 1 \in Under(h, This(h, p))
    BY <1>2, <1>10
  <2>2. PICK a, o : a = This(h, p) /\ o = 1 OBVIOUS
  <2>3. /\ a \in L /\ 1 \in DOMAIN h[p].kids /\ Under(h, a) \subseteq L \ {Nil}
        /\ \A q \in Under(h, a) :
             q # a => \E m \in Under(h, a) : \E j \in DOMAIN h[m].kids : h[m].kids[j] = q
    BY <1>9, <2>1, <2>2
  <2>4. o # a BY <1>3, <1>8, <2>2, <2>3 DEF This
  <2>5. PICK m \in Under(h, a) : \E j \in DOMAIN h[m].kids : h[m].kids[j] = o
    BY <2>1, <2>2, <2>3, <2>4
  <2> QED BY <1>3, <2>2, <2>3, <2>5
<1>20. \A n \in L \ {Nil} :
         h[n].class = "Interval" /\ 1 \in DOMAIN h[n].kids => h[n].kids[1] \in A
  <2>1. \A n \in L \ {Nil} :
          h[n].class = "Interval" /\ 1 \in DOMAIN h[n].kids => n \in Takers
    BY DEF L
  <2> QED BY <1>12, <1>13, <2>1 DEF This
<1>21. ASSUME NEW n \in L \ A, NEW i \in DOMAIN h[n].kids, h[n].kids[i] \in A \ {Nil}
       PROVE  /\ h[n].class = "Interval" /\ i = 1
              /\ \A m \in A \ {Nil} : \A j \in DOMAIN h[m].kids : h[m].kids[j] # h[n].kids[i]
  <2>1. n \in L \ {Nil} BY <1>12, <1>21
  <2> QED BY <1>16, <1>21, <2>1
<1>22. Amounts(h, L, A) BY <1>2, <1>14, <1>15, <1>18, <1>20, <1>21 DEF Amounts
<1> QED BY <1>2, <1>6, <1>19, <1>22

LEMMA InitLive ==
  ASSUME Init, \A h \in Parsed : IsTree(h, 1) /\ AmountsPlain(h)
  PROVE  Live
<1>1. heap \in Parsed /\ roots = {1} /\ call.phase = "idle" BY DEF Init, Idle
<1>2. IsHeap(heap) /\ Len(heap) > 0 /\ Acyclic(heap) /\ IsTree(heap, 1) /\ AmountsPlain(heap)
  BY <1>1, ParsedAssumption, RootDownAcyclic
<1>3. PICK L, A : Amounts(heap, L, A) /\ 1 \in L \ A /\ Rooted(heap, L, 1)
  BY <1>2, TreeAmounts
<1>4. RootsLive(L, A) BY <1>1, <1>3 DEF RootsLive
<1>5. LiveWith(L, A) BY <1>1, <1>3, <1>4 DEF LiveWith, CopiesLive
<1> QED BY <1>5 DEF Live

\* What Copy or Simplify returned last, until another call is made.
LEMMA StepResult ==
  ASSUME Inv, NoCycle, Deep, CopyBuilt, Live, ResultIsATree, [Next]_vars, "hive" \notin Ops
  PROVE  ResultIsATree'
<1>1. call \in [op : Ops \cup {"none"}, phase : Phases, root : Nat,
                owned : 0..Len(heap), input : 0..Len(heap), pass : Nat]
  BY DEF Inv, CallInv
<1>2. CASE CopyReturns
  <2>1. call.op = "copy" /\ Copying /\ call' = [call EXCEPT !.phase = "idle", !.input = Outcome]
    BY <1>2 DEF CopyReturns, Finished
  <2>2. Returned("copy")' BY <1>1, <2>1 DEF Returned
  <2>3. ~ Returned("copy") BY <2>1 DEF Returned, Copying
  <2>4. IsTree(heap', call'.input) BY <2>2, <2>3, StepCopied
  <2> QED BY <2>4 DEF ResultIsATree
<1>3. CASE SimplifyReturns
  <2>1. /\ Finished /\ call.phase = "simplify" /\ heap' = heap
        /\ call' = [call EXCEPT !.phase = "idle", !.input = Outcome]
    BY <1>3 DEF SimplifyReturns
  <2>2. PICK L, A : LiveWith(L, A) BY DEF Live
  <2>3. PICK T, V, G : Pass(heap, stack, Len(stack), L, A, T, V, G) BY <2>1, <2>2 DEF LiveWith
  <2>4. IsTree(heap, Outcome) BY <2>1, <2>3, PassOutcome
  <2>5. call'.input = Outcome BY <1>1, <2>1
  <2> QED BY <2>1, <2>4, <2>5 DEF ResultIsATree
<1>4. CASE UNCHANGED vars BY <1>4 DEF vars, ResultIsATree
<1> QED BY <1>2, <1>3, <1>4, StepReturns DEF ResultIsATree

\* What Simplify returns is a tree too, and what it returned stays one until the
\* next call, whatever calls went before it (simplify.go, simplifyNode: a copy of
\* every node, but the amount of an INTERVAL as it was, simplify.go:75).  The trees
\* parsed are trees, and no amount in them holds a node that a writer wraps: there
\* Generate puts the amount's LEN (Fabric), BOOL_OR (DuckDB) or respelled TIME_TO_STR
\* (Fabric, Databricks) into a shallow copy (generate.go, generate_nodes.go), which
\* leaves the Parents of its arguments outside the tree, and Simplify returns that
\* amount unrepaired.
THEOREM ResultsAreTrees ==
  ASSUME "hive" \notin Ops, \A h \in Parsed : IsTree(h, 1) /\ AmountsPlain(h)
  PROVE  Spec => []ResultIsATree
<1>1. Init => CopyBuilt /\ ResultIsATree BY DEF Init, Idle, CopyBuilt, ResultIsATree
<1>2. Init => Live BY InitLive
<1>3. Inv /\ [Next]_vars => Inv' /\ Kept BY StepInv
<1>4. Inv /\ NoCycle /\ [Next]_vars => NoCycle' BY StepNoCycle
<1>5. Inv /\ Inv' /\ NoCycle /\ NoCycle' /\ Deep /\ [Next]_vars => Deep' BY StepDeep
<1>6. Inv /\ NoCycle /\ Deep /\ CopyBuilt /\ [Next]_vars => CopyBuilt' BY StepBuilt
<1>7. Inv /\ Inv' /\ Kept /\ NoCycle /\ Deep /\ CopyBuilt /\ Live /\ [Next]_vars => Live'
  BY StepLive
<1>8. Inv /\ NoCycle /\ Deep /\ CopyBuilt /\ Live /\ ResultIsATree /\ [Next]_vars
        => ResultIsATree'
  BY StepResult
<1> QED
  BY <1>1, <1>2, <1>3, <1>4, <1>5, <1>6, <1>7, <1>8, InitInv, InitNoCycle, InitDeep, PTL
  DEF Spec

=============================================================================
