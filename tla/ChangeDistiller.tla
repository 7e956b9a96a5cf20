-------------------------- MODULE ChangeDistiller --------------------------
(***************************************************************************)
(* The tree diff of sqlglot/diff.go: Diff copies two trees, matches their  *)
(* leaves greedily by text similarity, matches the remaining nodes by the  *)
(* leaves they share, and writes an edit script.                           *)
(*                                                                         *)
(* A tree is the sequence of its nodes in breadth-first order, so that a   *)
(* node is its position, its children are the later positions that name it *)
(* as parent, and sourceBFS and targetBFS are the positions in order.      *)
(* Identifiers take part in no matching (diffIgnoredLeafTypes): the text   *)
(* of a node's Identifiers is its field name.  The field value stands for  *)
(* its scalar arguments.                                                   *)
(*                                                                         *)
(* Text similarity is the input dice, in tenths.  diceCoefficient renders  *)
(* its nodes with Generate, and Generate works on shallow copies of some   *)
(* nodes; Expression.Set then re-parents the children to the copy.  The    *)
(* input rebuilt names the nodes the dialect's writers do that to.         *)
(***************************************************************************)
EXTENDS Naturals, Sequences, FiniteSets, Functions

CONSTANTS
    Instances,   \* inputs: [src, tgt: trees, dice, rebuilt]
    Updatable,   \* diffUpdatableTypes
    DeltaOnly    \* the argument deltaOnly of Diff

F == 6           \* cd.f and cd.t, in tenths
T == 6
Strong == 8      \* the leaf similarity that suffices alone
SmallT == 4      \* adjustedT for subtrees of few leaves
FewLeaves == 4

TreeNodes ==
    [parent : Nat, class : STRING, variant : STRING, value : STRING, name : STRING]

WellFormedTree(tree) ==
    /\ tree \in Seq(TreeNodes)
    /\ Len(tree) # 0
    /\ \A n \in DOMAIN tree :
         /\ tree[n].parent \in 0 .. n - 1
         /\ (tree[n].parent = 0) <=> (n = 1)
         /\ \A m \in DOMAIN tree : m < n => tree[m].parent <= tree[n].parent

WellFormed(i) ==
    /\ DOMAIN i = {"src", "tgt", "dice", "rebuilt"}
    /\ WellFormedTree(i.src)
    /\ WellFormedTree(i.tgt)
    /\ i.dice \in [(DOMAIN i.src) \X (DOMAIN i.tgt) -> 0 .. 10]
    /\ i.rebuilt \in [src : SUBSET DOMAIN i.src, tgt : SUBSET DOMAIN i.tgt]

ASSUME InstancesAssumption == \A i \in Instances : WellFormed(i)

VARIABLES
    in,                 \* the instance being diffed
    pc,                 \* the loop Diff is in
    candidates,         \* the heap of leafCandidate
    matching,           \* matching, as a function from source to target nodes
    leafPairs,          \* leavesMatching
    unmatchedSource,
    unmatchedTarget,
    todo,               \* orderedSource from the current node on
    last,               \* the current position in orderedTarget
    stray,              \* nodes whose Parent points at a copy made by Generate
    edits               \* the edit script

vars == <<in, pc, candidates, matching, leafPairs, unmatchedSource,
          unmatchedTarget, todo, last, stray, edits>>

----------------------------------------------------------------------------
(* Trees.                                                                  *)

Kids(tree, n) == {c \in DOMAIN tree : tree[c].parent = n}

(* Nodes in breadth-first order.                                           *)
InOrder(S) ==
    [k \in 1 .. Cardinality(S) |-> CHOOSE n \in S : Cardinality({m \in S : m <= n}) = k]

(* directChildren less the Identifiers, in order: expressionOnlyArgs.      *)
ExpressionOnlyArgs(tree, n) == InOrder(Kids(tree, n))

(* The node and its ancestors, in the tree as it was copied.               *)
Lineage(tree) ==
    LET up[n \in DOMAIN tree] ==
            {n} \cup IF n = 1 THEN {} ELSE up[tree[n].parent]
    IN  up

IsLeaf(tree, n) == Kids(tree, n) = {}

(* expressionLeaves(n), as the set leafSet makes of it ...                 *)
Leaves(tree, n) ==
    {l \in DOMAIN tree : IsLeaf(tree, l) /\ n \in Lineage(tree)[l]}

(* ... and the depth-first order it lists them in.                         *)
ListedBefore(tree, l, m) ==
    \E x \in Lineage(tree)[l], y \in Lineage(tree)[m] :
        tree[x].parent = tree[y].parent /\ x < y

(* isSameType: the class, and a Join's side or an Anonymous's name.        *)
IsSameType(s, t) ==
    /\ in.src[s].class = in.tgt[t].class
    /\ in.src[s].variant = in.tgt[t].variant

(* Expression.Equal: class, own arguments and children, to the leaves.     *)
EqualNodes ==
    LET eq[p \in (DOMAIN in.src) \X (DOMAIN in.tgt)] ==
            LET a == in.src[p[1]]
                b == in.tgt[p[2]]
                as == ExpressionOnlyArgs(in.src, p[1])
                bs == ExpressionOnlyArgs(in.tgt, p[2])
            IN  /\ a.class = b.class /\ a.variant = b.variant
                /\ a.value = b.value /\ a.name = b.name
                /\ Len(as) = Len(bs)
                /\ \A k \in 1 .. Len(as) : eq[<<as[k], bs[k]>>]
    IN  eq

(* parentSimilarityScore.  No leaf's Parent, and no ancestor's, is a copy  *)
(* while it is asked for: only leaves have been rendered by then.          *)
ParentSimilarityScore ==
    LET sim[p \in (0 .. Len(in.src)) \X (0 .. Len(in.tgt))] ==
            IF p[1] = 0 \/ p[2] = 0 THEN 0
            ELSE IF in.src[p[1]].class # in.tgt[p[2]].class THEN 0
            ELSE 1 + sim[<<in.src[p[1]].parent, in.tgt[p[2]].parent>>]
    IN  sim

(* Mutant of Candidates: the text alone decides.                           *)
CandidatesOfAnyType ==
    {p \in Leaves(in.src, 1) \X Leaves(in.tgt, 1) : in.dice[p] >= F}

----------------------------------------------------------------------------
(* Matching the leaves.                                                    *)

Candidates ==
    {p \in Leaves(in.src, 1) \X Leaves(in.tgt, 1) :
        IsSameType(p[1], p[2]) /\ in.dice[p] >= F}

(* The order of insertion: source leaves, and target leaves within each.   *)
PushedBefore(p, q) ==
    \/ ListedBefore(in.src, p[1], q[1])
    \/ p[1] = q[1] /\ ListedBefore(in.tgt, p[2], q[2])

(* Mutant of Less: the parent score is pushed without its sign.            *)
LessUnsigned(p, q) ==
    \/ in.dice[p] > in.dice[q]
    \/ /\ in.dice[p] = in.dice[q]
       /\ LET score == ParentSimilarityScore
          IN  \/ score[p] < score[q]
              \/ score[p] = score[q] /\ PushedBefore(p, q)

(* leafHeap.Less                                                           *)
Less(p, q) ==
    \/ in.dice[p] > in.dice[q]
    \/ /\ in.dice[p] = in.dice[q]
       /\ LET score == ParentSimilarityScore
          IN  \/ score[p] > score[q]
              \/ score[p] = score[q] /\ PushedBefore(p, q)

Init ==
    /\ in \in Instances
    /\ pc = "collect"
    /\ candidates = {}
    /\ matching = [n \in {} |-> 0]
    /\ leafPairs = [n \in {} |-> 0]
    /\ unmatchedSource = DOMAIN in.src
    /\ unmatchedTarget = DOMAIN in.tgt
    /\ todo = {}
    /\ last = 0
    /\ stray = [src |-> {}, tgt |-> {}]
    /\ edits = <<>>

(* The two loops that push every candidate pair.                           *)
Collect ==
    /\ pc = "collect"
    /\ candidates' = Candidates
    /\ pc' = "leaves"
    /\ UNCHANGED <<in, matching, leafPairs, unmatchedSource, unmatchedTarget,
                   todo, last, stray, edits>>

Pair(s, t) ==
    /\ matching' = [n \in DOMAIN matching \cup {s} |->
                        IF n = s THEN t ELSE matching[n]]
    /\ unmatchedSource' = unmatchedSource \ {s}
    /\ unmatchedTarget' = unmatchedTarget \ {t}

(* Mutant of PopCandidate: a target already taken is not looked for.       *)
PopTakesTarget ==
    /\ pc = "leaves"
    /\ \E p \in candidates :
         /\ \A q \in candidates \ {p} : Less(p, q)
         /\ candidates' = candidates \ {p}
         /\ IF p[1] \in unmatchedSource
            THEN Pair(p[1], p[2])
            ELSE UNCHANGED <<matching, unmatchedSource, unmatchedTarget>>
    /\ UNCHANGED <<in, pc, leafPairs, todo, last, stray, edits>>

(* Mutant of PopCandidate: candidates are taken as they were pushed.       *)
PopAsPushed ==
    /\ pc = "leaves"
    /\ \E p \in candidates :
         /\ \A q \in candidates \ {p} : PushedBefore(p, q)
         /\ candidates' = candidates \ {p}
         /\ IF p[1] \in unmatchedSource /\ p[2] \in unmatchedTarget
            THEN Pair(p[1], p[2])
            ELSE UNCHANGED <<matching, unmatchedSource, unmatchedTarget>>
    /\ UNCHANGED <<in, pc, leafPairs, todo, last, stray, edits>>

(* Mutant of PopCandidate: the first pair that is refused ends the loop.   *)
PopUntilRefused ==
    /\ pc = "leaves"
    /\ \E p \in candidates :
         /\ \A q \in candidates \ {p} : Less(p, q)
         /\ IF p[1] \in unmatchedSource /\ p[2] \in unmatchedTarget
            THEN candidates' = candidates \ {p} /\ Pair(p[1], p[2])
            ELSE candidates' = {} /\ UNCHANGED <<matching, unmatchedSource, unmatchedTarget>>
    /\ UNCHANGED <<in, pc, leafPairs, todo, last, stray, edits>>

(* heap.Pop, and the pair is kept if both its leaves are still free.       *)
PopCandidate ==
    /\ pc = "leaves"
    /\ \E p \in candidates :
         /\ \A q \in candidates \ {p} : Less(p, q)
         /\ candidates' = candidates \ {p}
         /\ IF p[1] \in unmatchedSource /\ p[2] \in unmatchedTarget
            THEN Pair(p[1], p[2])
            ELSE UNCHANGED <<matching, unmatchedSource, unmatchedTarget>>
    /\ UNCHANGED <<in, pc, leafPairs, todo, last, stray, edits>>

(* The heap is empty: leavesMatching is what has been matched so far, and  *)
(* the nodes still unmatched are listed in breadth-first order.            *)
LeavesDone ==
    /\ pc = "leaves"
    /\ candidates = {}
    /\ leafPairs' = matching
    /\ todo' = unmatchedSource
    /\ last' = 0
    /\ pc' = "inner"
    /\ UNCHANGED <<in, candidates, matching, unmatchedSource, unmatchedTarget,
                   stray, edits>>

----------------------------------------------------------------------------
(* Matching the other nodes.                                               *)

IsFirst(n, S) == n \in S /\ \A m \in S : n <= m

Common(s, t) ==
    Cardinality({l \in Leaves(in.src, s) \cap DOMAIN leafPairs :
                    leafPairs[l] \in Leaves(in.tgt, t)})
Larger(a, b) == IF a > b THEN a ELSE b
Smaller(a, b) == IF a < b THEN a ELSE b

(* leafSimilarity >= tenths/10                                             *)
LeafSimilarity(s, t, tenths) ==
    LET a == Cardinality(Leaves(in.src, s))
        b == Cardinality(Leaves(in.tgt, t))
    IN  10 * Common(s, t) >= tenths * Larger(a, b)

AdjustedT(s, t) ==
    IF Smaller(Cardinality(Leaves(in.src, s)),
               Cardinality(Leaves(in.tgt, t))) <= FewLeaves
    THEN SmallT ELSE T

(* The text of the two nodes is compared only if their leaves leave it     *)
(* open.                                                                   *)
Rendered(s, t) ==
    /\ IsSameType(s, t)
    /\ ~LeafSimilarity(s, t, Strong)
    /\ LeafSimilarity(s, t, AdjustedT(s, t))

Similar(s, t) ==
    /\ IsSameType(s, t)
    /\ \/ LeafSimilarity(s, t, Strong)
       \/ Rendered(s, t) /\ in.dice[<<s, t>>] >= F

(* What rendering node n leaves behind: below it, the children of a node   *)
(* the writer copied have that copy for a Parent.                          *)
Strays(tree, rebuilt, n) ==
    {c \in DOMAIN tree :
        \E r \in rebuilt : tree[c].parent = r /\ n \in Lineage(tree)[r]}

Render(s, t) ==
    stray' = IF Rendered(s, t)
             THEN [src |-> stray.src \cup Strays(in.src, in.rebuilt.src, s),
                   tgt |-> stray.tgt \cup Strays(in.tgt, in.rebuilt.tgt, t)]
             ELSE stray

(* The next of orderedTarget that is still in.                             *)
NextTarget(t) == IsFirst(t, {n \in unmatchedTarget : n > last})

(* Mutant of SkipTarget: the cursor moves twice.                           *)
SkipTwice(s, t) ==
    /\ pc = "inner"
    /\ IsFirst(s, todo)
    /\ NextTarget(t)
    /\ ~Similar(s, t)
    /\ Render(s, t)
    /\ last' = t + 1
    /\ UNCHANGED <<in, pc, candidates, matching, leafPairs, unmatchedSource,
                   unmatchedTarget, todo, edits>>

(* Mutant of SkipTarget: the scan begins anew.                             *)
SkipToFirst(s, t) ==
    /\ pc = "inner"
    /\ IsFirst(s, todo)
    /\ NextTarget(t)
    /\ ~Similar(s, t)
    /\ Render(s, t)
    /\ last' = 0
    /\ UNCHANGED <<in, pc, candidates, matching, leafPairs, unmatchedSource,
                   unmatchedTarget, todo, edits>>

MatchInner(s, t) ==
    /\ pc = "inner"
    /\ IsFirst(s, todo)
    /\ NextTarget(t)
    /\ Similar(s, t)
    /\ Pair(s, t)
    /\ Render(s, t)
    /\ todo' = todo \ {s}
    /\ last' = 0
    /\ UNCHANGED <<in, pc, candidates, leafPairs, edits>>

SkipTarget(s, t) ==
    /\ pc = "inner"
    /\ IsFirst(s, todo)
    /\ NextTarget(t)
    /\ ~Similar(s, t)
    /\ Render(s, t)
    /\ last' = t
    /\ UNCHANGED <<in, pc, candidates, matching, leafPairs, unmatchedSource,
                   unmatchedTarget, todo, edits>>

NoPartner(s) ==
    /\ pc = "inner"
    /\ IsFirst(s, todo)
    /\ \A t \in unmatchedTarget : t <= last
    /\ todo' = todo \ {s}
    /\ last' = 0
    /\ UNCHANGED <<in, pc, candidates, matching, leafPairs, unmatchedSource,
                   unmatchedTarget, stray, edits>>

(* orderedSource is exhausted.  generateEditScript first lists what found  *)
(* no partner, in breadth-first order.                                     *)
Edit(kind, s, t) == [kind |-> kind, source |-> s, target |-> t]

Unmatched ==
    LET removes == InOrder(unmatchedSource)
        inserts == InOrder(unmatchedTarget)
    IN  [k \in 1 .. Len(removes) |-> Edit("Remove", removes[k], 0)] \o
        [k \in 1 .. Len(inserts) |-> Edit("Insert", 0, inserts[k])]

ReportUnmatched ==
    /\ pc = "inner"
    /\ todo = {}
    /\ edits' = Unmatched
    /\ todo' = DOMAIN matching
    /\ pc' = "script"
    /\ UNCHANGED <<in, candidates, matching, leafPairs, unmatchedSource,
                   unmatchedTarget, last, stray>>

----------------------------------------------------------------------------
(* The edit script of the matched pairs.                                   *)

(* matching[n], nil for a node without partner.                            *)
Partner(n) == IF n \in DOMAIN matching THEN matching[n] ELSE 0

(* Mutant of LcsExpressions: a row's best is carried from the left only.   *)
LcsFromLeft(as, bs) ==
    LET table[p \in (0 .. Len(as)) \X (0 .. Len(bs))] ==
            IF p[1] = 0 \/ p[2] = 0 THEN <<>>
            ELSE IF Partner(as[p[1]]) = bs[p[2]]
            THEN Append(table[<<p[1] - 1, p[2] - 1>>], as[p[1]])
            ELSE table[<<p[1], p[2] - 1>>]
    IN  table[<<Len(as), Len(bs)>>]

(* lcsExpressions: the table of longest common subsequences.               *)
LcsExpressions(as, bs) ==
    LET table[p \in (0 .. Len(as)) \X (0 .. Len(bs))] ==
            IF p[1] = 0 \/ p[2] = 0 THEN <<>>
            ELSE IF Partner(as[p[1]]) = bs[p[2]]
            THEN Append(table[<<p[1] - 1, p[2] - 1>>], as[p[1]])
            ELSE IF Len(table[<<p[1] - 1, p[2]>>]) > Len(table[<<p[1], p[2] - 1>>])
            THEN table[<<p[1] - 1, p[2]>>]
            ELSE table[<<p[1], p[2] - 1>>]
    IN  table[<<Len(as), Len(bs)>>]

GenerateMoveEdits(s, t) ==
    LET as == ExpressionOnlyArgs(in.src, s)
        lcs == LcsExpressions(as, ExpressionOnlyArgs(in.tgt, t))
        moved == InOrder(Kids(in.src, s) \ (Range(lcs) \cup unmatchedSource))
    IN  [k \in 1 .. Len(moved) |-> Edit("Move", moved[k], matching[moved[k]])]

(* What the switch on sp and tp asks: both are nil, or matching pairs them *)
(* and neither is a copy Generate left behind.                             *)
ParentsCorrespond(s, t) ==
    IF s = 1 \/ t = 1 THEN s = 1 /\ t = 1
    ELSE /\ s \notin stray.src
         /\ t \notin stray.tgt
         /\ Partner(in.src[s].parent) = in.tgt[t].parent

IsIdentical(s, t) == EqualNodes[<<s, t>>]
IsUpdatable(s) == in.src[s].class \in Updatable

(* Mutant of Verdict: the Keep is not the Update's alternative.            *)
VerdictAndKeep(s, t) ==
    (IF \/ IsUpdatable(s) /\ ~IsIdentical(s, t)
        \/ in.src[s].value # in.tgt[t].value
     THEN <<Edit("Update", s, t)>> ELSE <<>>)
    \o IF DeltaOnly THEN <<>> ELSE <<Edit("Keep", s, t)>>

Moves(s, t) ==
    IF IsIdentical(s, t)
    THEN IF ParentsCorrespond(s, t) THEN <<>> ELSE <<Edit("Move", s, t)>>
    ELSE IF IsUpdatable(s) THEN <<>> ELSE GenerateMoveEdits(s, t)

Verdict(s, t) ==
    IF \/ IsUpdatable(s) /\ ~IsIdentical(s, t)
       \/ in.src[s].value # in.tgt[t].value
    THEN <<Edit("Update", s, t)>>
    ELSE IF DeltaOnly THEN <<>> ELSE <<Edit("Keep", s, t)>>

ReportMatched(s) ==
    /\ pc = "script"
    /\ IsFirst(s, todo)
    /\ edits' = edits \o Moves(s, matching[s]) \o Verdict(s, matching[s])
    /\ todo' = todo \ {s}
    /\ UNCHANGED <<in, pc, candidates, matching, leafPairs, unmatchedSource,
                   unmatchedTarget, last, stray>>

Return ==
    /\ pc = "script"
    /\ todo = {}
    /\ pc' = "done"
    /\ UNCHANGED <<in, candidates, matching, leafPairs, unmatchedSource,
                   unmatchedTarget, todo, last, stray, edits>>

Next ==
    \/ Collect
    \/ PopCandidate
    \/ LeavesDone
    \/ \E s \in todo, t \in unmatchedTarget : MatchInner(s, t) \/ SkipTarget(s, t)
    \/ \E s \in todo : NoPartner(s)
    \/ ReportUnmatched
    \/ \E s \in todo : ReportMatched(s)
    \/ Return

Spec == Init /\ [][Next]_vars /\ WF_vars(Next)

----------------------------------------------------------------------------
(* Properties.                                                             *)

Source == DOMAIN in.src
Target == DOMAIN in.tgt

TypeOK ==
    /\ WellFormed(in)
    /\ pc \in {"collect", "leaves", "inner", "script", "done"}
    /\ candidates \subseteq Source \X Target
    /\ DOMAIN matching \subseteq Source
    /\ matching \in [DOMAIN matching -> Target]
    /\ DOMAIN leafPairs \subseteq Source
    /\ leafPairs \in [DOMAIN leafPairs -> Target]
    /\ unmatchedSource \subseteq Source
    /\ unmatchedTarget \subseteq Target
    /\ todo \subseteq Source
    /\ last \in 0 .. Len(in.tgt)
    /\ stray \in [src : SUBSET Source, tgt : SUBSET Target]

(* The three structures diff.go keeps in step by hand, matching and the    *)
(* two unmatched sets, always describe one partial bijection: a node has   *)
(* at most one partner, and has none exactly while it is in its set.       *)
MatchingIsBijection ==
    /\ DOMAIN matching = Source \ unmatchedSource
    /\ Range(matching) = Target \ unmatchedTarget
    /\ IsInjective(matching)

(* Only nodes of the same type are ever paired, in either phase.           *)
PairsShareType == \A s \in DOMAIN matching : IsSameType(s, matching[s])

(* "the candidates are then taken best-first" (diff.go:356): a candidate   *)
(* that was passed over lost one of its leaves to a candidate the heap     *)
(* orders before it.                                                       *)
LeafPairsAreBestFirst ==
    pc \notin {"collect", "leaves"} =>
        \A p \in Candidates :
            \/ p[1] \in DOMAIN leafPairs /\ leafPairs[p[1]] = p[2]
            \/ \E q \in Candidates :
                 /\ Less(q, p)
                 /\ q[1] \in DOMAIN leafPairs /\ leafPairs[q[1]] = q[2]
                 /\ q[1] = p[1] \/ q[2] = p[2]

(* The matching as an abstract matcher sees it.                            *)
Matched ==
    INSTANCE GreedyMatching WITH
        given <- [offered    |-> Candidates,
                  comparable |-> {p \in Source \X Target : IsSameType(p[1], p[2])}],
        pairs <- {<<s, matching[s]>> : s \in DOMAIN matching},
        phase <- IF pc \in {"collect", "leaves"} THEN "offered"
                 ELSE IF pc = "inner" THEN "others" ELSE "settled"

(* Diff implements GreedyMatching: no leaf pair is refused while both its  *)
(* leaves are free, the second loop only adds pairs of one type, and what  *)
(* the script is written from is never changed again (diff.go:378, 418).   *)
ImplementsGreedyMatching == Matched!Spec

(* Diff returns, although its second loop scans orderedTarget anew for     *)
(* each source node and skips what was matched meanwhile (diff.go:419).    *)
DiffReturns == <>(pc = "done")

Kinds(E, n, end) == {k \in DOMAIN E : E[k][end] = n /\ E[k].kind # "Move"}

(* Every node of either tree is accounted for by exactly one edit other    *)
(* than a Move: removed, inserted, updated or kept.                        *)
EveryNodeAccountedOnce ==
    pc = "done" /\ ~DeltaOnly =>
        /\ \A s \in Source : Cardinality(Kinds(edits, s, "source")) = 1
        /\ \A t \in Target : Cardinality(Kinds(edits, t, "target")) = 1

(* Two equal trees whose leaves read the same have no delta: the script    *)
(* only keeps, and keeps each node where it is, although equal leaves make *)
(* every pairing of them as similar as the right one.                      *)
SelfDiffOnlyKeeps ==
    /\ pc = "done"
    /\ IsIdentical(1, 1)
    /\ \A l \in Leaves(in.src, 1) : in.dice[<<l, l>>] = 10
    => \A k \in DOMAIN edits :
           edits[k].kind = "Keep" /\ edits[k].source = edits[k].target

(* Sets of a pair's children that can stay: matched inside the pair and in *)
(* the same order on both sides.                                           *)
InPlace(s, t) ==
    {S \in SUBSET (Kids(in.src, s) \cap DOMAIN matching) :
        /\ \A a \in S : in.tgt[matching[a]].parent = t
        /\ \A a, b \in S : a < b => matching[a] < matching[b]}

(* Reordered children cost as few Moves as possible: those generated for   *)
(* a pair leave a largest set of children in place (diff.go:524).          *)
ReorderingMovesAreFewest ==
    pc = "done" =>
        \A s \in DOMAIN matching :
            LET t == matching[s]
                moved == Range([k \in DOMAIN GenerateMoveEdits(s, t) |->
                                    GenerateMoveEdits(s, t)[k].source])
                stays == (Kids(in.src, s) \cap DOMAIN matching) \ moved
            IN  /\ stays \in InPlace(s, t)
                /\ \A S \in InPlace(s, t) : Cardinality(S) <= Cardinality(stays)

(* "A pair of IDENTICAL matched nodes that no longer sit under             *)
(* correspondingly-matched parents is a Move" (diff.go:475), and a node    *)
(* whose parents were matched to each other, and whose siblings kept their *)
(* order, does not move.                                                   *)
KeptInPlace(s) ==
    LET t == matching[s]
        p == in.src[s].parent
    IN  /\ s # 1 /\ t # 1
        /\ IsIdentical(s, t)
        /\ Partner(p) = in.tgt[t].parent
        /\ \A k \in DOMAIN GenerateMoveEdits(p, Partner(p)) :
             GenerateMoveEdits(p, Partner(p))[k].source # s
MovesLeaveTheirParents ==
    pc = "done" =>
        \A k \in DOMAIN edits :
            edits[k].kind = "Move" => ~KeptInPlace(edits[k].source)

=============================================================================
