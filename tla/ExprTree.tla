------------------------------ MODULE ExprTree ------------------------------
(***************************************************************************)
(* The expression tree and the calls that read and rewrite it:             *)
(* New, Set, Copy, shallowCopy (expression.go), Simplify (simplify.go),    *)
(* Generate (generate.go) with the rewrites that make a node out of the    *)
(* caller's own nodes: the T-SQL booleans (tsql_bools.go), elided casts    *)
(* and respelled formats (generate.go), added casts (generate_nodes.go)    *)
(* and the QUALIFY that Hive and Spark do not have (hive_qualify.go).      *)
(*                                                                         *)
(* A tree is a set of nodes in a heap, each holding its children and the   *)
(* Parent pointer that Set keeps.  A child handed to a second node has its *)
(* Parent moved: that is how a call that "copies" can still change what    *)
(* its caller holds, and why the calls are modelled node by node.          *)
(***************************************************************************)
EXTENDS Naturals, Sequences, FiniteSets, SequencesExt

CONSTANTS Words,     \* what a node may be named
          Parsed,    \* the heaps a parser may have built; node 1 is the root
          Ops,       \* the calls made: "copy", "simplify", or a dialect to write in
          MaxCalls   \* bound: how many calls are made, one after another

VARIABLES heap,      \* the nodes, by number
          roots,     \* the roots the caller holds
          call,      \* the call being served
          stack,     \* the recursion of Copy and simplifyNode
          todo,      \* the nodes still to be visited by Generate
          text,      \* what the current Generate has written
          rewrite,   \* the QUALIFY rewrite under way
          written,   \* what the first Generate of a root in a dialect wrote
          calls      \* how many calls were made

vars == <<heap, roots, call, stack, todo, text, rewrite, written, calls>>

Nil == 0
NoName == <<"", 0>>
Names == Words \X Nat

\* The dialects written in; "neutral" is Generate with no dialect named.
Dialects == {"neutral", "databricks", "tsql", "fabric", "duckdb", "hive"}
MaxPasses == 32

ASSUME CallsAssumption == Ops \subseteq {"copy", "simplify"} \cup Dialects /\ MaxCalls \in Nat

(***************************************************************************)
(* Nodes.  A list-valued argument is spread over the slots after the       *)
(* single ones: a Select is FROM, WHERE, QUALIFY and then its projections. *)
(***************************************************************************)
Unary == {"Neg", "Paren", "Where", "Qualify", "Length", "LogicalOr", "Cast", "Alias"}

Classes == Unary \cup {"Select", "From", "Subquery", "Column", "Literal", "True", "Star", "Add",
                       "And", "EQ", "NEQ", "Interval", "Window", "TimeToStr"}

Nodes == {r \in [class : Classes, name : Names, kids : Seq(Nat), parent : Nat] :
            r.class \in Unary => Len(r.kids) > 0}

\* A heap of nodes over nodes of the heap.
IsHeap(h) ==
  /\ h \in Seq(Nodes)
  /\ \A n \in DOMAIN h : \A i \in DOMAIN h[n].kids : h[n].kids[i] \in 0..Len(h)

\* A Parent is a node of the heap, if there is one.
ParentsWithin(h) == \A n \in DOMAIN h : h[n].parent \in 0..Len(h)

\* What a parser builds has no cycle, down or up: its nodes are numbered from the
\* root down.
RootDown(h) ==
  \A n \in DOMAIN h : h[n].parent < n /\ \A k \in Range(h[n].kids) : k = Nil \/ n < k

ASSUME WordsAssumption == {"", "0", "_c", "_w", "_t", "%Y", "yyyy"} \subseteq Words
ASSUME ParsedAssumption ==
  \A h \in Parsed : IsHeap(h) /\ Len(h) > 0 /\ ParentsWithin(h) /\ RootDown(h)

FromAt == 1
WhereAt == 2
QualifyAt == 3
Projections(h, sel) == SubSeq(h[sel].kids, 4, Len(h[sel].kids))

This(h, n) == h[n].kids[1]
ClassOf(h, n) == IF n \in DOMAIN h THEN h[n].class ELSE "none"

\* New: the node takes every child it is given as its own.
New(h, class, name, kids) ==
  Append([n \in DOMAIN h |->
            IF n \in Range(kids) THEN [h[n] EXCEPT !.parent = Len(h) + 1] ELSE h[n]],
         [class |-> class, name |-> name, kids |-> kids, parent |-> Nil])

\* Mutant of Set: the child keeps the Parent it had.
SetNoAdopt(h, n, i, k) ==
  [m \in DOMAIN h |-> IF m = n THEN [h[m] EXCEPT !.kids = ReplaceAt(@, i, k)] ELSE h[m]]

\* Set: one argument is assigned and the child, if there is one, adopted.
Set(h, n, i, k) ==
  [m \in DOMAIN h |->
     LET slot == IF m = n THEN [h[m] EXCEPT !.kids = [@ EXCEPT ![i] = k]] ELSE h[m] IN
     IF m = k THEN [slot EXCEPT !.parent = n] ELSE slot]

\* shallowCopy: a new node over the same children, which it adopts.
ShallowCopy(h, n) == New(h, h[n].class, h[n].name, h[n].kids)

\* The node Copy starts from: the same class and keys, no child yet.
Blank(h, n) == New(h, h[n].class, h[n].name, [i \in DOMAIN h[n].kids |-> Nil])

\* The nodes under a node, itself first, in the order Walk visits them.
Preorder(h, root) ==
  LET pre[n \in 0..Len(h)] ==
        IF n = Nil THEN <<>>
        ELSE <<n>> \o FlattenSeq([i \in DOMAIN h[n].kids |-> pre[h[n].kids[i]]])
  IN pre[root]

\* The same as a set.
Under(h, root) ==
  LET under[n \in 0..Len(h)] ==
        IF n = Nil THEN {}
        ELSE {n} \cup UNION {under[h[n].kids[i]] : i \in DOMAIN h[n].kids}
  IN under[root]

\* What Equal compares: class, keys in order and values, never the Parent.
Term(h, root) ==
  LET term[n \in 0..Len(h)] ==
        IF n = Nil THEN <<>>
        ELSE <<h[n].class, h[n].name, [i \in DOMAIN h[n].kids |-> term[h[n].kids[i]]]>>
  IN term[root]

\* The classes above a node, nearest first: what nearestAncestor looks through.
Ancestors(h, node) ==
  LET above[n \in DOMAIN h] ==
        IF h[n].parent = Nil THEN <<>>
        ELSE <<h[h[n].parent].class>> \o above[h[n].parent]
  IN above[node]

\* findAncestorOfClass
HasAncestor(h, n, class) == class \in Range(Ancestors(h, n))

\* Mutant of Replace: only the primary child of the parent is looked at.
ReplaceThis(h, old, new) ==
  LET p == h[old].parent
  IN IF p = Nil THEN h ELSE IF h[p].kids[1] # old THEN h ELSE Set(h, p, 1, new)

\* replaceNode: the first slot of the PARENT that holds the old node takes the
\* new one.  A node whose Parent no longer holds it is left where it is.
Replace(h, old, new) ==
  LET p == h[old].parent
      held == IF p = Nil THEN {} ELSE {i \in DOMAIN h[p].kids : h[p].kids[i] = old}
  IN IF held = {} THEN h ELSE Set(h, p, CHOOSE i \in held : \A j \in held : i <= j, new)

-----------------------------------------------------------------------------
(***************************************************************************)
(* The calls.  One is made at a time, on a root the caller holds; "owned"  *)
(* is how many nodes there were when it was made.                          *)
(***************************************************************************)
Idle == [op |-> "none", phase |-> "idle", root |-> Nil, owned |-> 0, input |-> Nil, pass |-> 0]
NoRewrite == [sel |-> Nil, inner |-> <<>>, outer |-> <<>>, filters |-> Nil,
              named |-> {}, candidates |-> <<>>, byAlias |-> <<>>]
Frame(from, to) == [from |-> from, to |-> to, next |-> 1]

Init ==
  /\ heap \in Parsed
  /\ roots = {1}
  /\ call = Idle
  /\ stack = <<>> /\ todo = <<>> /\ text = <<>>
  /\ rewrite = NoRewrite
  /\ written = <<>>
  /\ calls = 0

Makes(op, phase, r) ==
  /\ call.phase = "idle" /\ calls < MaxCalls
  /\ op \in Ops /\ r \in roots
  /\ call' = [op |-> op, phase |-> phase, root |-> r, owned |-> Len(heap), input |-> r, pass |-> 1]
  /\ calls' = calls + 1
  /\ text' = <<>>
  /\ UNCHANGED <<roots, rewrite, written>>

\* Mutant of CallTSQL: the caller's own tree is handed to ensureBoolsTSQL.
CallTSQLUncopied(r) ==
  /\ Makes("tsql", "bools", r)
  /\ todo' = <<r>>
  /\ UNCHANGED <<heap, stack>>

\* Copy, and the copy a T-SQL Generate starts with.
Copies(op, r) ==
  /\ Makes(op, "copy", r)
  /\ heap' = Blank(heap, r)
  /\ stack' = <<Frame(r, Len(heap) + 1)>>
  /\ UNCHANGED todo

CallCopy(r) == Copies("copy", r)
CallTSQL(r) == Copies("tsql", r)

CallSimplify(r) ==
  /\ Makes("simplify", "simplify", r)
  /\ heap' = ShallowCopy(heap, r)
  /\ stack' = <<Frame(r, Len(heap) + 1)>>
  /\ UNCHANGED todo

\* Generate in any other dialect writes the caller's nodes themselves.
CallGenerate(r) ==
  /\ \E dialect \in Dialects \ {"tsql"} : Makes(dialect, "write", r)
  /\ todo' = <<r>>
  /\ UNCHANGED <<heap, stack>>

-----------------------------------------------------------------------------
(***************************************************************************)
(* The recursion Copy and simplifyNode share: a frame holds the node being *)
(* copied, its copy, and the slot whose child is next.                     *)
(***************************************************************************)
Top == stack[Len(stack)]
Below == SubSeq(stack, 1, Len(stack) - 1)
Child == heap[Top.from].kids[Top.next]
Advanced(frames) ==
  [frames EXCEPT ![Len(frames)] = [from |-> @.from, to |-> @.to, next |-> @.next + 1]]

Copying == call.phase \in {"copy", "simplify"} /\ stack # <<>>
AtChild == Top.next <= Len(heap[Top.from].kids)

\* An absent argument is carried over, and so is the amount of an INTERVAL,
\* which simplifyNode never visits.
PassedOver ==
  \/ Child = Nil
  \/ call.phase = "simplify" /\ heap[Top.from].class = "Interval" /\ Top.next = 1

\* Mutant of SkipChild: the slot that is passed over stays the next one.
SkipChildStuck ==
  /\ Copying /\ AtChild /\ PassedOver
  /\ stack' = stack
  /\ UNCHANGED <<heap, roots, call, todo, text, rewrite, written, calls>>

SkipChild ==
  /\ Copying /\ AtChild /\ PassedOver
  /\ stack' = Advanced(stack)
  /\ UNCHANGED <<heap, roots, call, todo, text, rewrite, written, calls>>

\* Mutant of EnterChild: a child without children is shared rather than copied.
EnterChildSharing ==
  /\ Copying /\ AtChild /\ ~ PassedOver
  /\ IF heap[Child].kids = <<>>
     THEN /\ heap' = Set(heap, Top.to, Top.next, Child)
          /\ stack' = Advanced(stack)
     ELSE /\ heap' = IF call.phase = "copy" THEN Blank(heap, Child) ELSE ShallowCopy(heap, Child)
          /\ stack' = Append(stack, Frame(Child, Len(heap) + 1))
  /\ UNCHANGED <<roots, call, todo, text, rewrite, written, calls>>

\* Mutant of EnterChild: a child is rewritten where it is, and not copied.
EnterChildInPlace ==
  /\ Copying /\ AtChild /\ ~ PassedOver
  /\ heap' = IF call.phase = "copy" THEN Blank(heap, Child) ELSE heap
  /\ stack' = Append(stack, Frame(Child, IF call.phase = "copy" THEN Len(heap) + 1 ELSE Child))
  /\ UNCHANGED <<roots, call, todo, text, rewrite, written, calls>>

EnterChild ==
  /\ Copying /\ AtChild /\ ~ PassedOver
  /\ heap' = IF call.phase = "copy" THEN Blank(heap, Child) ELSE ShallowCopy(heap, Child)
  /\ stack' = Append(stack, Frame(Child, Len(heap) + 1))
  /\ UNCHANGED <<roots, call, todo, text, rewrite, written, calls>>

\* `--x` is x.  The Paren a Neg may still hold was not nested in another: one
\* inside a Paren is dropped on the way up.
Unnegated(h, n) ==
  LET this == This(h, n)
      inner == IF ClassOf(h, this) = "Paren" THEN This(h, this) ELSE this
  IN IF h[n].class = "Neg" /\ ClassOf(h, inner) = "Neg" THEN This(h, inner) ELSE n

Conditions ==
  {"Neg", "Length", "LogicalOr", "Cast", "Window", "TimeToStr", "Add", "And", "EQ", "NEQ"}

\* What simplifyParens keeps a Paren over, and under what.
Groups(class, holder) ==
  \/ class \in {"none", "Select"}
  \/ class \in {"EQ", "NEQ"} /\ holder \in {"EQ", "NEQ", "Neg", "Add"}
  \/ class \in {"Add", "And"} /\ holder \in Conditions /\ ~ (class = "Add" /\ holder = "Add")

Unparenthesised(h, n, holder) ==
  IF ClassOf(h, n) = "Paren" /\ ~ Groups(ClassOf(h, This(h, n)), holder) THEN This(h, n) ELSE n

\* Mutant of Simplified: the double negation is dropped together with its sign.
SimplifiedSign(h, n, holder) ==
  IF h[n].class = "Where" /\ ClassOf(h, This(h, n)) = "True" THEN Nil
  ELSE IF h[n].class = "Neg" /\ ClassOf(h, This(h, n)) \in {"Neg", "Paren"} THEN This(h, n)
  ELSE Unparenthesised(h, n, holder)

\* What a node becomes once its children are done: nothing, a child or itself.
Simplified(h, n, holder) ==
  IF h[n].class = "Where" /\ holder # "Filter" /\ ClassOf(h, This(h, n)) = "True" THEN Nil
  ELSE Unparenthesised(h, Unnegated(h, n), holder)

Outcome ==
  IF call.phase = "copy" THEN Top.to
  ELSE Simplified(heap, Top.to,
                  IF Len(stack) = 1 THEN "none" ELSE heap[stack[Len(stack) - 1].to].class)

\* The child's result is set in the copy of its parent.
LeaveChild ==
  /\ Copying /\ ~ AtChild /\ Len(stack) > 1
  /\ LET up == stack[Len(stack) - 1] IN heap' = Set(heap, up.to, up.next, Outcome)
  /\ stack' = Advanced(Below)
  /\ UNCHANGED <<roots, call, todo, text, rewrite, written, calls>>

Finished == Copying /\ ~ AtChild /\ Len(stack) = 1

CopyReturns ==
  /\ Finished /\ call.op = "copy"
  /\ roots' = roots \cup {Outcome}
  /\ stack' = <<>>
  /\ call' = [call EXCEPT !.phase = "idle", !.input = Outcome]
  /\ UNCHANGED <<heap, todo, text, rewrite, written, calls>>

\* The loop of Simplify: another pass while the last one changed the tree.
SimplifyReturns ==
  /\ Finished /\ call.phase = "simplify"
  /\ \/ Outcome = Nil
     \/ Term(heap, Outcome) = Term(heap, call.input)
     \/ call.pass = MaxPasses
  /\ roots' = roots \cup ({Outcome} \ {Nil})
  /\ stack' = <<>>
  /\ call' = [call EXCEPT !.phase = "idle", !.input = Outcome]
  /\ UNCHANGED <<heap, todo, text, rewrite, written, calls>>

NextPass ==
  /\ Finished /\ call.phase = "simplify" /\ Outcome # Nil
  /\ Term(heap, Outcome) # Term(heap, call.input) /\ call.pass < MaxPasses
  /\ heap' = ShallowCopy(heap, Outcome)
  /\ stack' = <<Frame(Outcome, Len(heap) + 1)>>
  /\ call' = [call EXCEPT !.input = Outcome, !.pass = @ + 1]
  /\ UNCHANGED <<roots, todo, text, rewrite, written, calls>>

-----------------------------------------------------------------------------
(***************************************************************************)
(* Generate.                                                               *)
(***************************************************************************)
\* An absent argument is neither walked nor written.
PassAbsent ==
  /\ call.phase \in {"bools", "write"} /\ todo # <<>> /\ Head(todo) = Nil
  /\ todo' = Tail(todo)
  /\ UNCHANGED <<heap, roots, call, stack, text, rewrite, written, calls>>

\* T-SQL: the copy is walked and a bare value that is a condition compared.
CopyForTSQL ==
  /\ Finished /\ call.op = "tsql" /\ rewrite = NoRewrite
  /\ todo' = <<Outcome>>
  /\ stack' = <<>>
  /\ call' = [call EXCEPT !.phase = "bools", !.input = Outcome]
  /\ UNCHANGED <<heap, roots, text, rewrite, written, calls>>

\* The positions of a condition: what a WHERE holds, both sides of an AND.
ConditionsOf(h, n) ==
  IF h[n].class = "Where" THEN {1} ELSE IF h[n].class = "And" THEN {1, 2} ELSE {}

IsBare(h, n, i) ==
  /\ i \in ConditionsOf(h, n) /\ i \in DOMAIN h[n].kids
  /\ ClassOf(h, h[n].kids[i]) \in {"Column", "Literal"}

\* Mutant of Compared: the condition is set before the comparison is built.
ComparedEarly(h, n, i) ==
  IF IsBare(h, n, i)
  THEN LET zero == New(h, "Literal", <<"0", 0>>, <<>>) IN Set(zero, n, i, Len(zero) + 1)
  ELSE h

\* ensureBoolAt: the value in one position is compared with zero.
Compared(h, n, i) ==
  IF IsBare(h, n, i)
  THEN LET zero == New(h, "Literal", <<"0", 0>>, <<>>)
           neq == New(zero, "NEQ", NoName, <<h[n].kids[i], Len(zero)>>)
       IN Set(neq, n, i, Len(neq))
  ELSE h

EnsureBools ==
  /\ call.phase = "bools" /\ todo # <<>> /\ Head(todo) # Nil
  /\ heap' = Compared(Compared(heap, Head(todo), 1), Head(todo), 2)
  /\ todo' = heap'[Head(todo)].kids \o Tail(todo)
  /\ UNCHANGED <<roots, call, stack, text, rewrite, written, calls>>

BoolsDone ==
  /\ call.phase = "bools" /\ todo = <<>>
  /\ call' = [call EXCEPT !.phase = "write"]
  /\ todo' = <<call.input>>
  /\ UNCHANGED <<heap, roots, stack, text, rewrite, written, calls>>

\* stripElidedCasts: T-SQL and Fabric write LEN(x) for a Length over a cast.
ElidesCast(h, n) ==
  /\ call.op \in {"tsql", "fabric"}
  /\ h[n].class = "Length" /\ ClassOf(h, This(h, n)) = "Cast"

\* withCoercions: DuckDB casts what BOOL_OR is given, unless it is a cast.
AddsCast(h, n) ==
  /\ call.op = "duckdb"
  /\ h[n].class = "LogicalOr" /\ ClassOf(h, This(h, n)) # "Cast"

\* A format stored as %Y is written yyyy in these dialects (their TimeToStr is
\* spelled through InverseTimeMapping); it stands after what is formatted.
SpellsFormat(h, n) ==
  /\ call.op \in {"databricks", "tsql", "fabric", "hive"}
  /\ h[n].class = "TimeToStr" /\ 2 \in DOMAIN h[n].kids
  /\ ClassOf(h, h[n].kids[2]) = "Literal" /\ h[h[n].kids[2]].name = <<"%Y", 0>>

\* The heap after the node about to be written was made ready; where a copy was
\* made it is the first of the new nodes.
Prepared(h, n) ==
  IF ElidesCast(h, n) THEN
    LET out == ShallowCopy(h, n) IN Set(out, Len(out), 1, This(h, This(h, n)))
  ELSE IF AddsCast(h, n) THEN
    LET out == ShallowCopy(h, n)
        cast == New(out, "Cast", NoName, <<This(h, n)>>)
    IN Set(cast, Len(out), 1, Len(cast))
  ELSE IF SpellsFormat(h, n) THEN
    LET out == ShallowCopy(h, n)
        spelled == New(out, "Literal", <<"yyyy", 0>>, <<>>)
    IN Set(spelled, Len(out), 2, Len(spelled))
  ELSE h

WrittenNode(h, n) ==
  IF ElidesCast(h, n) \/ AddsCast(h, n) \/ SpellsFormat(h, n) THEN Len(h) + 1 ELSE n

HasQualify(h, n) ==
  /\ call.op = "hive"
  /\ h[n].class = "Select" /\ h[n].kids[QualifyAt] # Nil

\* A writer may ask what stands above the node it writes, and many do.
WriteNode ==
  /\ call.phase = "write" /\ todo # <<>> /\ Head(todo) # Nil
  /\ ~ HasQualify(heap, Head(todo))
  /\ LET n == WrittenNode(heap, Head(todo)) IN
       /\ heap' = Prepared(heap, Head(todo))
       /\ text' = Append(text, <<heap'[n].class, heap'[n].name, Ancestors(heap', n)>>)
       /\ todo' = heap'[n].kids \o Tail(todo)
  /\ UNCHANGED <<roots, call, stack, rewrite, written, calls>>

GenerateReturns ==
  /\ call.phase = "write" /\ todo = <<>>
  /\ call' = [call EXCEPT !.phase = "idle"]
  /\ written' = IF <<call.root, call.op>> \in DOMAIN written THEN written
                ELSE [k \in DOMAIN written \cup {<<call.root, call.op>>} |->
                        IF k \in DOMAIN written THEN written[k] ELSE text]
  /\ UNCHANGED <<heap, roots, stack, todo, text, rewrite, calls>>

-----------------------------------------------------------------------------
(***************************************************************************)
(* eliminateQualify: a SELECT with a QUALIFY becomes an outer SELECT over  *)
(* a subquery, and the clause the WHERE of the outer one.  It works on the *)
(* nodes of the tree being written.                                        *)
(***************************************************************************)
\* aliasOrName
NameOf(h, n) == IF h[n].class \in {"Alias", "Column"} THEN h[n].name ELSE NoName
NamesOf(h, ns) == {NameOf(h, n) : n \in Range(ns)}

\* findNewName: base, or the first of base_2, base_3, ... that is not taken.
NewName(taken, base) ==
  LET free == {i \in {0} \cup 2..(Cardinality(taken) + 2) : <<base, i>> \notin taken}
  IN <<base, CHOOSE i \in free : \A j \in free : i <= j>>

\* A projection with no name of its own is given one.
WithName(acc, s) ==
  IF NameOf(acc.h, s) # NoName THEN [acc EXCEPT !.inner = Append(@, s)]
  ELSE LET name == NewName(acc.taken, "_c")
           h == New(acc.h, "Alias", name, <<s>>)
       IN [h |-> h, inner |-> Append(acc.inner, Len(h)), taken |-> acc.taken \cup {name}]

\* Mutant of WithOuter: the outer select reads what the alias stands for.
WithOuterInside(acc, s) ==
  LET named == IF acc.h[s].class = "Alias" THEN This(acc.h, s) ELSE s
      h == New(acc.h, "Column", NameOf(acc.h, named), <<>>)
  IN [h |-> h, outer |-> Append(acc.outer, Len(h))]

\* The outer select names what the inner one projects.
WithOuter(acc, s) ==
  LET h == New(acc.h, "Column", NameOf(acc.h, s), <<>>)
  IN [h |-> h, outer |-> Append(acc.outer, Len(h))]

BeginQualify ==
  /\ call.phase = "write" /\ todo # <<>> /\ Head(todo) # Nil
  /\ HasQualify(heap, Head(todo))
  /\ LET sel == Head(todo)
         selects == Projections(heap, sel)
         named == FoldLeft(WithName, [h |-> heap, inner |-> <<>>, taken |-> NamesOf(heap, selects)],
                           selects)
         made == FoldLeft(WithOuter, [h |-> named.h, outer |-> <<>>], named.inner)
         filters == This(heap, heap[sel].kids[QualifyAt])
         read == {"Window"} \cup (IF \E s \in Range(named.inner) : made.h[s].class = "Star"
                                  THEN {} ELSE {"Column"})
         aliased == {i \in DOMAIN named.inner : made.h[named.inner[i]].class = "Alias"}
     IN /\ heap' = made.h
        /\ rewrite' = [sel |-> sel, inner |-> named.inner, outer |-> made.outer,
                        filters |-> filters,
                        named |-> NamesOf(made.h, named.inner),
                        candidates |-> SelectSeq(Preorder(heap, filters),
                                                 LAMBDA n : heap[n].class \in read),
                        byAlias |-> [a \in {made.h[named.inner[i]].name : i \in aliased} |->
                                       This(made.h, named.inner[CHOOSE i \in aliased :
                                         /\ made.h[named.inner[i]].name = a
                                         /\ \A j \in aliased : j > i => made.h[named.inner[j]].name # a])]]
  /\ call' = [call EXCEPT !.phase = "qualify"]
  /\ UNCHANGED <<roots, stack, todo, text, written, calls>>

Candidate == Head(rewrite.candidates)
Qualifying == call.phase = "qualify" /\ rewrite.candidates # <<>>

CopyCandidate(h) ==
  /\ heap' = Blank(h, Candidate)
  /\ stack' = <<Frame(Candidate, Len(h) + 1)>>
  /\ call' = [call EXCEPT !.phase = "copy"]

\* Inside a window the filter reads, an alias of the query is what it stands for.
WithoutAlias(h, column) ==
  IF h[column].name \in DOMAIN rewrite.byAlias
  THEN Replace(h, column, rewrite.byAlias[h[column].name]) ELSE h

QualifyWindow ==
  /\ Qualifying /\ heap[Candidate].class = "Window"
  /\ CopyCandidate(FoldLeft(WithoutAlias, heap,
                            SelectSeq(Preorder(heap, Candidate),
                                      LAMBDA n : heap[n].class = "Column")))
  /\ UNCHANGED <<roots, todo, text, rewrite, written, calls>>

\* A column the filter reads and the query does not project.
Unprojected ==
  NameOf(heap, Candidate) \notin rewrite.named /\ ~ HasAncestor(heap, Candidate, "Window")

QualifyColumn ==
  /\ Qualifying /\ heap[Candidate].class = "Column" /\ Unprojected
  /\ CopyCandidate(heap)
  /\ UNCHANGED <<roots, todo, text, rewrite, written, calls>>

QualifyKnownColumn ==
  /\ Qualifying /\ heap[Candidate].class = "Column" /\ ~ Unprojected
  /\ rewrite' = [rewrite EXCEPT !.candidates = Tail(@)]
  /\ UNCHANGED <<heap, roots, call, stack, todo, text, written, calls>>

\* The copy of a window is projected under a new name, which the filter reads
\* from now on.
ProjectWindow ==
  /\ Finished /\ rewrite # NoRewrite /\ heap[Candidate].class = "Window"
  /\ LET name == NewName(rewrite.named, "_w")
         alias == New(heap, "Alias", name, <<Outcome>>)
         column == New(alias, "Column", name, <<>>)
         whole == ClassOf(heap, heap[Candidate].parent) = "Qualify"
     IN /\ heap' = IF whole THEN column ELSE Replace(column, Candidate, Len(column))
        /\ rewrite' = [rewrite EXCEPT !.inner = Append(@, Len(alias)), !.candidates = Tail(@),
                                      !.filters = IF whole THEN Len(column) ELSE @,
                                      !.named = @ \cup {name}]
  /\ stack' = <<>>
  /\ call' = [call EXCEPT !.phase = "qualify"]
  /\ UNCHANGED <<roots, todo, text, written, calls>>

ProjectColumn ==
  /\ Finished /\ rewrite # NoRewrite /\ heap[Candidate].class = "Column"
  /\ rewrite' = [rewrite EXCEPT !.inner = Append(@, Outcome), !.candidates = Tail(@)]
  /\ stack' = <<>>
  /\ call' = [call EXCEPT !.phase = "qualify"]
  /\ UNCHANGED <<heap, roots, todo, text, written, calls>>

\* The outer select over the subquery, written in place of the one it rewrites.
EndQualify ==
  /\ call.phase = "qualify" /\ rewrite.candidates = <<>>
  /\ LET sel == heap[rewrite.sel]
         inner == New(heap, "Select", NoName,
                      <<sel.kids[FromAt], sel.kids[WhereAt], Nil>> \o rewrite.inner)
         subquery == New(inner, "Subquery", <<"_t", 0>>, <<Len(inner)>>)
         from == New(subquery, "From", NoName, <<Len(subquery)>>)
         where == New(from, "Where", NoName, <<rewrite.filters>>)
         rewritten == New(where, "Select", NoName,
                          <<Len(from), Len(where), Nil>> \o rewrite.outer)
     IN /\ heap' = rewritten
        /\ todo' = <<Len(rewritten)>> \o Tail(todo)
  /\ rewrite' = NoRewrite
  /\ call' = [call EXCEPT !.phase = "write"]
  /\ UNCHANGED <<roots, stack, text, written, calls>>

-----------------------------------------------------------------------------
Calls == \E r \in roots : CallCopy(r) \/ CallTSQL(r) \/ CallSimplify(r) \/ CallGenerate(r)

Recursion == SkipChild \/ EnterChild \/ LeaveChild

Returns == CopyReturns \/ SimplifyReturns \/ NextPass

Writing == CopyForTSQL \/ PassAbsent \/ EnsureBools \/ BoolsDone \/ WriteNode \/ GenerateReturns

Rewriting ==
  \/ BeginQualify \/ QualifyWindow \/ QualifyColumn \/ QualifyKnownColumn
  \/ ProjectWindow \/ ProjectColumn \/ EndQualify

Next == Calls \/ Recursion \/ Returns \/ Writing \/ Rewriting

Spec == Init /\ [][Next]_vars

\* A call runs on the goroutine that made it until it returns.
FairSpec == Spec /\ WF_vars(Recursion \/ Returns \/ Writing \/ Rewriting)
-----------------------------------------------------------------------------
(***************************************************************************)
(* Properties.                                                             *)
(***************************************************************************)
\* The heap holds nodes over nodes, the recursion and the writer are at nodes of
\* it, and what the caller holds is in it.
TypeOK ==
  /\ IsHeap(heap) /\ ParentsWithin(heap)
  /\ roots \subseteq DOMAIN heap
  /\ call \in [op : Ops \cup {"none"},
               phase : {"idle", "copy", "simplify", "bools", "write", "qualify"},
               root : 0..Len(heap), owned : 0..Len(heap), input : 0..Len(heap), pass : 0..MaxPasses]
  /\ \A i \in DOMAIN stack : {stack[i].from, stack[i].to} \subseteq DOMAIN heap
  /\ Range(todo) \subseteq 0..Len(heap)
  /\ DOMAIN written \subseteq roots \X Ops
  /\ calls \in 0..MaxCalls

Returned(op) == call.op = op /\ call.phase = "idle"

\* Copy is deep (expression.go, Copy): what it returns is the tree it was given,
\* node for node, and shares none of its nodes with it.
CopyIsDeep ==
  Returned("copy") =>
    /\ Term(heap, call.input) = Term(heap, call.root)
    /\ Under(heap, call.input) \cap 1..call.owned = {}

\* No call but a QUALIFY rewrite changes an argument of a node that was there
\* before it: the trees the caller holds, and those returned to it earlier, keep
\* the class, the keys and the children they had.
ArgumentsKept ==
  [][\A n \in 1..call.owned :
       call.op # "hive" /\ call.phase # "idle" =>
         /\ n \in DOMAIN heap'
         /\ heap'[n].class = heap[n].class /\ heap'[n].name = heap[n].name
         /\ heap'[n].kids = heap[n].kids]_vars

\* Where the code takes a deep copy first (Copy itself, and Generate for T-SQL),
\* not even a Parent pointer of the caller's nodes moves.
CopiesLeaveParents ==
  [][\A n \in 1..call.owned :
       call.op \in {"copy", "tsql"} /\ call.phase # "idle" =>
         n \in DOMAIN heap' /\ heap'[n] = heap[n]]_vars

\* A node's children name it as their Parent, and each stands in one slot of it.
Linked(h, n) ==
  \A i \in DOMAIN h[n].kids :
    h[n].kids[i] # Nil =>
      /\ h[h[n].kids[i]].parent = n
      /\ \A j \in DOMAIN h[n].kids : h[n].kids[j] = h[n].kids[i] => j = i

\* Under a root every child names the node that holds it as its Parent, so that no
\* node is held twice, and the root is held by none.
IsTree(h, root) == \A n \in Under(h, root) : Linked(h, n) /\ root \notin Range(h[n].kids)

\* What Copy or Simplify returns is a tree: a walk up undoes a walk down.
ResultIsATree ==
  call.phase = "idle" /\ call.op \in {"copy", "simplify"} => IsTree(heap, call.input)

\* What a tree means, negations counted: where parentheses stand, and a WHERE
\* that filters nothing, do not matter.
Headed(meaning, class) == meaning # <<>> /\ meaning[1] = class
Negation(meaning) ==
  IF Headed(meaning, "Neg") THEN meaning[3][1] ELSE <<"Neg", NoName, <<meaning>>>>
Sense(class, name, below) ==
  IF class = "Paren" THEN below[1]
  ELSE IF class = "Neg" THEN Negation(below[1])
  ELSE IF class = "Where" /\ Headed(below[1], "True") THEN <<>>
  ELSE <<class, name, below>>
Meaning(h, root) ==
  LET means[n \in 0..Len(h)] ==
        IF n = Nil THEN <<>>
        ELSE Sense(h[n].class, h[n].name, [i \in DOMAIN h[n].kids |-> means[h[n].kids[i]]])
  IN means[root]

\* Nothing is left to do at a slot of a node Simplify made: it is empty, or holds
\* another such node that is as simple as it gets there.  Only the amount of an
\* INTERVAL is a node of the tree given.
Settled(h, n, i) ==
  LET kid == h[n].kids[i] IN
  IF h[n].class = "Interval" /\ i = 1 THEN kid \in 0..call.owned
  ELSE kid = Nil \/ (kid > call.owned /\ Simplified(h, kid, h[n].class) = kid)

\* Simplify returns a tree that means what it was given, and leaves no double
\* negation, no parentheses that say nothing and no WHERE TRUE in it: the loop
\* ends because nothing is left to do and not because its bound was reached.
SimplifyIsExact ==
  Returned("simplify") =>
    /\ Meaning(heap, call.input) = Meaning(heap, call.root)
    /\ call.pass < MaxPasses
    /\ call.input # Nil =>
         call.input > call.owned /\ Simplified(heap, call.input, "none") = call.input
    /\ \A n \in Under(heap, call.input) :
         n > call.owned => \A i \in DOMAIN heap[n].kids : Settled(heap, n, i)

\* The selects eliminateQualify made.
Rewritten ==
  {n \in DOMAIN heap :
     /\ heap[n].class = "Select" /\ heap[n].kids[FromAt] # Nil
     /\ heap[heap[n].kids[FromAt]].kids # <<>>}

\* Generating one tree in one dialect a second time writes the same text, with
\* the same nodes seen above each node, whatever was called in between.  A QUALIFY
\* rewrite is no part of it: it is made of the nodes of the tree it is given, and
\* changes them.
WritingIsRepeatable ==
  [][call.phase = "write" /\ call'.phase = "idle" /\ Rewritten = {}
     /\ <<call.root, call.op>> \in DOMAIN written
       => text = written[<<call.root, call.op>>]]_vars

\* Every call returns: the recursion, the passes of Simplify and the candidates
\* of a QUALIFY all run out.
CallsReturn == call.phase # "idle" ~> call.phase = "idle"

Inner(n) == This(heap, This(heap, heap[n].kids[FromAt]))
FilterOf(n) == Under(heap, This(heap, heap[n].kids[WhereAt]))

\* "A window the filter reads is projected under a new name, and the filter reads
\* that name instead": the outer WHERE holds no window function.
FilterHoldsNoWindow ==
  \A n \in Rewritten : \A m \in FilterOf(n) : heap[m].class # "Window"

\* Every column the outer select and its WHERE read is one the subquery projects.
ReadsWhatIsProjected ==
  \A n \in Rewritten :
    LET projected == Projections(heap, Inner(n)) IN
    \A m \in FilterOf(n) \cup Range(Projections(heap, n)) :
      heap[m].class = "Column" => heap[m].name \in NamesOf(heap, projected)

=============================================================================
